------------------------------ MODULE MCBlinds ------------------------------
(* Blinds with a schedule of three levels and time for two more intervals. *)
EXTENDS Blinds
=============================================================================
