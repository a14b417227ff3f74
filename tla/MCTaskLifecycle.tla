-------------------------- MODULE MCTaskLifecycle ---------------------------
\* The three tasks, under every sequence of calls.
EXTENDS TaskLifecycle
=============================================================================
