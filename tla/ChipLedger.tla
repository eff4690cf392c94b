------------------------------ MODULE ChipLedger ------------------------------
(***************************************************************************)
(* What a cash table promises about chips, whatever the betting: a hand    *)
(* opens by taking blinds, chips then move from one stack at a time into   *)
(* the pot, and one settlement gives the whole pot back to the players.    *)
(***************************************************************************)
EXTENDS Integers, FiniteSetsExt

CONSTANTS Player, Stacks

VARIABLES
    stack,  \* the chips in front of each player
    pot,    \* the chips in the middle
    open    \* whether a hand is being played

ledger == <<stack, pot, open>>

Total(f) == SumFunction(f)

Init == stack = Stacks /\ pot = 0 /\ open = FALSE

\* The chips leaving the stacks enter the pot; no stack grows.
PutIn ==
    /\ \A p \in Player : stack'[p] \in 0 .. stack[p]
    /\ pot' = pot + Total(stack) - Total(stack')

OpenHand ==
    /\ ~open
    /\ open' = TRUE
    /\ pot = 0
    /\ PutIn
    /\ Cardinality({p \in Player : stack'[p] # stack[p]}) \in 1 .. 2

Wager(p) ==
    /\ open /\ open' = TRUE
    /\ \A q \in Player \ {p} : stack'[q] = stack[q]
    /\ PutIn

Settle ==
    /\ open
    /\ open' = FALSE
    /\ pot' = 0
    /\ \A p \in Player : stack'[p] >= stack[p]
    /\ Total(stack') = Total(stack) + pot

Next == OpenHand \/ Settle \/ \E p \in Player : Wager(p)

Spec == Init /\ [][Next]_ledger
=============================================================================
