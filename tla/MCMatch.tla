------------------------------ MODULE MCMatch ------------------------------
(* A match of three players with one chip each.                            *)
EXTENDS Match, TLC

CONSTANTS a, b, c

MCPlayers == {a, b, c}
=============================================================================
