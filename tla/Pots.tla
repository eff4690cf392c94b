-------------------------------- MODULE Pots --------------------------------
(***************************************************************************)
(* The pot manager of pkg/poker/pot.go, as operators.                      *)
(*                                                                         *)
(* potManager.totalBets is the function `contrib` from the players of the  *)
(* hand to the chips each has put in.  potManager.currentBets is never     *)
(* reset inside a hand, so it always equals totalBets and has no operator  *)
(* of its own.  The pots are recomputed from totalBets and the fold flags  *)
(* by every addBet and again at showdown, so they are derived here too.    *)
(* A hand value is abstracted to its rank, a natural number: CompareHands  *)
(* orders hands as > orders ranks.                                         *)
(***************************************************************************)
EXTENDS Integers, Sequences, FiniteSetsExt

(* newPot, makeEligible, isEligible: a pot is its amount and the set of    *)
(* players who may win it; cap is the contribution level it reaches to.    *)
Pot(cap, amount, eligible) ==
    [cap |-> cap, amount |-> amount, eligible |-> eligible]

Lesser(a, b) == IF a <= b THEN a ELSE b
Greater(a, b) == IF a >= b THEN a ELSE b

(* The unique positive thresholds of rebuildPotsIncremental, and the one   *)
(* below a given threshold (prev in the loop).                             *)
Levels(contrib) == Range(contrib) \ {0}
LevelBelow(contrib, level) == Max({0} \cup {l \in Levels(contrib) : l < level})

\* Mutant: every unfolded player may win every layer.
OpenLayer(contrib, alive, level) ==
    LET prev == LevelBelow(contrib, level)
        slice == [p \in DOMAIN contrib |->
                      Lesser(contrib[p], level) - Lesser(contrib[p], prev)]
    IN  Pot(level, SumFunction(slice), alive)

(* One capped layer: the slice of every bet between the level below and    *)
(* this one, open to the unfolded players who reached this level.          *)
Layer(contrib, alive, level) ==
    LET prev == LevelBelow(contrib, level)
        slice == [p \in DOMAIN contrib |->
                      Lesser(contrib[p], level) - Lesser(contrib[p], prev)]
    IN  Pot(level, SumFunction(slice), {p \in alive : contrib[p] >= level})

(* rebuildPotsIncremental: one pot when a single player is left, layered   *)
(* side pots otherwise.  (The "overage above the top level" of the code is *)
(* always empty: the top level is the largest contribution.)               *)
RebuildPots(contrib, alive) ==
    IF Cardinality(alive) = 1
    THEN {Pot(Max(Range(contrib)), SumFunction(contrib), alive)}
    ELSE {Layer(contrib, alive, level) : level \in Levels(contrib)}

(* getTotalPot *)
TotalPot(pots) == MapThenSumSet(LAMBDA pot : pot.amount, pots)

(* The players of a pot holding the best rank; all of it when uncontested. *)
PotWinners(pot, rank) ==
    {p \in pot.eligible : \A q \in pot.eligible : rank[p] >= rank[q]}

(* The seat order decides who is first among equals. *)
FirstSeated(players, S) ==
    players[Min({i \in DOMAIN players : players[i] \in S})]

\* Mutant: every winner takes the remainder.
ShareAndRemainder(pot, players, rank, p) ==
    LET winners == PotWinners(pot, rank)
    IN  IF p \notin winners THEN 0
        ELSE (pot.amount \div Cardinality(winners))
                 + (pot.amount % Cardinality(winners))

(* A winner's part of one pot: an equal share, the first winner also       *)
(* taking the remainder.                                                   *)
Share(pot, players, rank, p) ==
    LET winners == PotWinners(pot, rank)
        share == pot.amount \div Cardinality(winners)
        rem == pot.amount % Cardinality(winners)
    IN  IF p \notin winners THEN 0
        ELSE IF p = FirstSeated(players, winners) THEN share + rem ELSE share

(* distributePots returns an error, and no payout at all, when some        *)
(* non-empty pot has no unfolded player left that reached it.              *)
Distributable(pots) == \A pot \in pots : pot.amount > 0 => pot.eligible # {}

(* distributePots: what each player receives over all pots. *)
DistributePots(pots, players, rank) ==
    [p \in Range(players) |->
        IF Distributable(pots)
        THEN MapThenSumSet(LAMBDA pot : Share(pot, players, rank, p), pots)
        ELSE 0]

(* returnUncalledBet: the lone highest bettor takes back what nobody       *)
(* called: down to the second highest bet, or, when no other player put in *)
(* more than its forced blind, down to the bettor's own blind.             *)
TopBettors(contrib) ==
    {p \in DOMAIN contrib : \A q \in DOMAIN contrib : contrib[p] >= contrib[q]}

UncalledBet(contrib, forced) ==
    LET top == CHOOSE p \in TopBettors(contrib) : TRUE
        others == DOMAIN contrib \ {top}
        noCall == \A q \in others : contrib[q] <= forced[q]
        floor == IF noCall THEN forced[top] ELSE Max({contrib[q] : q \in others})
        amount == IF Cardinality(TopBettors(contrib)) = 1
                  THEN Greater(contrib[top] - floor, 0) ELSE 0
    IN  [to |-> top, amount |-> amount]
=============================================================================
