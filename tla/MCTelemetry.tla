---------------------------- MODULE MCTelemetry -----------------------------
EXTENDS Telemetry

CONSTANTS A, B

\* Two readings of one device and one of the other: the caches can go back to
\* a device after another one, and a reading can be replaced by a newer one.
MCMaxReadings == [d \in Devs |-> IF d = A THEN 2 ELSE 1]
=============================================================================
