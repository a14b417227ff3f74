--------------------------- MODULE MCHttpExchange ---------------------------
(* Small sets of requests for TLC. *)
EXTENDS HttpExchange

CONSTANTS r1, r2, r3

\* Every request is its own body.
OwnBody == [r \in Requests |-> r]

\* r3 repeats r1, as a client that retries or polls does.
RepeatedBody == [r \in Requests |-> IF r = r3 THEN r1 ELSE r]
=============================================================================
