------------------------------ MODULE MCStreams ------------------------------
(* Streams on small instances: seated players and spectators.                *)
EXTENDS Streams

CONSTANTS p1, w1

\* what comes after a race is excepted from every property
Calm == ~raced
=============================================================================
