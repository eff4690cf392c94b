------------------------------ MODULE MCFunding ------------------------------
(* Funding on small instances: one deposit of the buy-in, one of another     *)
(* amount.                                                                   *)
EXTENDS Funding

CONSTANTS o1, o2

MCValue == [o \in Outputs |-> IF o = o1 THEN 2 ELSE 1]
=============================================================================
