----------------------------- MODULE MCReferee -----------------------------
(* Players and escrows of the instances of Referee. *)
EXTENDS Referee, TLC

CONSTANTS p1, p2

MCOwner == [e \in Escrows |-> IF e = 2 THEN p2 ELSE p1]

MCSeating == [p \in Players |-> IF p = p1 THEN 1 ELSE 0]
\* The handlers are alike.
MCSymmetry == Permutations(Handlers)
=============================================================================
