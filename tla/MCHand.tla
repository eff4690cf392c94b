------------------------------- MODULE MCHand -------------------------------
(* Instances of Hand for TLC. *)
EXTENDS Hand, TLC

CONSTANTS p1, p2, p3, p4

TwoSeats == <<p1, p2>>
TwoStacks == p1 :> 4 @@ p2 :> 3
ThreeSeats == <<p1, p2, p3>>
ThreeStacks == p1 :> 5 @@ p2 :> 2 @@ p3 :> 4
ShortStacks == p1 :> 5 @@ p2 :> 1 @@ p3 :> 4
=============================================================================
