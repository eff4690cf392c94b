------------------------------ MODULE HandProofs ------------------------------
(***************************************************************************)
(* Theorems about the Game state machine, for any number of players, any   *)
(* stacks, blinds, bets and hands.                                         *)
(***************************************************************************)
EXTENDS Hand, PotsProofs, SequenceTheorems, TLAPS

(***************************************************************************)
(* A game whose player indices mean something: what the handlers may rely  *)
(* on while a hand is played.                                              *)
(***************************************************************************)
Playable(h) == h \in Game /\ NumPlayers(h) >= 1

(* The players in g.players are players; an index below their number names *)
(* one of them.                                                            *)
LEMMA SeatedPlayers ==
    ASSUME NEW h, h \in Game
    PROVE  /\ NumPlayers(h) \in Nat
           /\ Seated(h) \in SUBSET Player
           /\ IsFiniteSet(Seated(h))
           /\ \A i \in 0 .. NumPlayers(h) - 1 : At(h, i) \in Seated(h)
<1>1. h.players \in Seq(Player)
  BY DEF Game
<1>2. /\ Len(h.players) \in Nat
      /\ DOMAIN h.players = 1 .. Len(h.players)
      /\ h.players \in [1 .. Len(h.players) -> Player]
  BY <1>1
<1>3. Seated(h) \in SUBSET Player
  BY <1>2 DEF Seated, Range
<1>4. \A i \in 0 .. NumPlayers(h) - 1 : At(h, i) \in Seated(h)
  BY <1>2 DEF NumPlayers, At, Seated, Range
<1>5. IsFiniteSet(Seated(h))
  <2>1. h.players \in Surjection(1 .. Len(h.players), Seated(h))
    BY <1>2 DEF Surjection, Seated, Range
  <2>2. IsFiniteSet(1 .. Len(h.players))
    BY <1>2, FS_Interval
  <2>3. QED
    BY <2>1, <2>2, FS_Surjection
<1>6. QED
  BY <1>2, <1>3, <1>4, <1>5 DEF NumPlayers

(* A seat found by FirstFrom is an index into g.players.                   *)
LEMMA FirstFromRange ==
    ASSUME NEW h, Playable(h), NEW start \in Int, NEW S
    PROVE  FirstFrom(h, start, S) \in -1 .. NumPlayers(h) - 1
<1> DEFINE n == NumPlayers(h)
           hits == {k \in 0 .. n - 1 : At(h, (start + k) % n) \in S}
<1>1. n \in Nat \ {0}
  BY SeatedPlayers DEF Playable
<1>2. CASE hits = {}
  BY <1>1, <1>2 DEF FirstFrom
<1>3. CASE hits # {}
  <2>1. hits \in SUBSET Nat
    BY <1>1
  <2>2. Min(hits) \in Nat
    <3> HIDE DEF hits
    <3>1. QED
      BY <1>3, <2>1, MinOfNats
  <2>3. FirstFrom(h, start, S) = (start + Min(hits)) % n
    BY <1>3 DEF FirstFrom
  <2> HIDE DEF hits, n
  <2>4. (start + Min(hits)) % n \in 0 .. n - 1
    BY <1>1, <2>2
  <2>5. QED
    BY <1>1, <2>3, <2>4 DEF n
<1>4. QED
  BY <1>2, <1>3

(***************************************************************************)
(* What the steps of the handlers preserve.                                *)
(***************************************************************************)
(* From h to k the hand goes on: k is a game with the same seats and round,*)
(* a hand being played in k if one was in h, and no player's chips (stack  *)
(* and contribution) change.                                               *)
Keeps(h, k) ==
    /\ k \in Game
    /\ k.players = h.players
    /\ k.round = h.round
    /\ k.phase \in Streets <=> h.phase \in Streets
    /\ k.starting = h.starting
    /\ \A p \in Player : k.balance[p] + k.contrib[p] = h.balance[p] + h.contrib[p]

LEMMA KeepsTransitive ==
    ASSUME NEW h, NEW k, NEW m, Keeps(h, k), Keeps(k, m)
    PROVE  Keeps(h, m)
BY DEF Keeps

LEMMA KeepsPlayable ==
    ASSUME NEW h, NEW k, Playable(h), Keeps(h, k)
    PROVE  Playable(k) /\ NumPlayers(k) = NumPlayers(h)
BY DEF Keeps, Playable, NumPlayers

LEMMA StartTurnKeeps ==
    ASSUME NEW h, h \in Game, NEW p \in Player
    PROVE  Keeps(h, StartTurn(h, p))
BY DEF Game, StartTurn, Keeps

LEMMA EndTurnKeeps ==
    ASSUME NEW h, h \in Game, NEW p \in Player
    PROVE  Keeps(h, EndTurn(h, p))
BY DEF Game, EndTurn, Keeps

LEMMA CurrentPlayerKeeps ==
    ASSUME NEW h, h \in Game, NEW i \in Nat \cup {-1}
    PROVE  Keeps(h, [h EXCEPT !.currentPlayer = i])
BY DEF Game, Keeps

LEMMA FoldKeeps ==
    ASSUME NEW h, h \in Game, NEW p \in Player
    PROVE  Keeps(h, [h EXCEPT !.status[p] = "FOLDED"])
BY DEF Game, Keeps

(* The chips a player pays leave its stack and enter the pot.              *)
LEMMA PayKeeps ==
    ASSUME NEW h, h \in Game, NEW p \in Player,
           NEW amount \in Nat, amount <= h.balance[p]
    PROVE  Keeps(h, Pay(h, p, amount))
<1> DEFINE k == Pay(h, p, amount)
           stack == [h.balance EXCEPT ![p] = @ - amount]
           bets == [h.bet EXCEPT ![p] = @ + amount]
           pot == [h.contrib EXCEPT ![p] = @ + amount]
           state == [h.status EXCEPT ![p] =
                         IF h.balance[p] = amount THEN "ALL_IN" ELSE @]
<1>1. k \in Game
  <2>1. /\ stack \in [Player -> Nat]
        /\ bets \in [Player -> Nat]
        /\ pot \in [Player -> Nat]
    <3>1. /\ h.balance \in [Player -> Nat]
          /\ h.bet \in [Player -> Nat]
          /\ h.contrib \in [Player -> Nat]
      BY DEF Game
    <3>2. h.balance[p] - amount \in Nat
      BY <3>1
    <3>3. stack \in [Player -> Nat]
      BY <3>1, <3>2
    <3>4. bets \in [Player -> Nat] /\ pot \in [Player -> Nat]
      BY <3>1
    <3>5. QED
      BY <3>3, <3>4
  <2>2. state \in [Player -> {"AT_TABLE", "IN_GAME", "ALL_IN", "FOLDED"}]
    BY DEF Game
  <2>3. k = [h EXCEPT !.balance = stack, !.bet = bets, !.contrib = pot,
                      !.status = state]
    BY DEF Pay, Game
  <2> HIDE DEF k, stack, bets, pot, state
  <2>4. QED
    BY <2>1, <2>2, <2>3 DEF Game
<1>2. /\ k.players = h.players
      /\ k.round = h.round
      /\ k.phase = h.phase
      /\ k.starting = h.starting
  BY DEF Pay, Game
<1>3. ASSUME NEW q \in Player
      PROVE  k.balance[q] + k.contrib[q] = h.balance[q] + h.contrib[q]
  <2>1. k.balance = [h.balance EXCEPT ![p] = @ - amount]
        /\ k.contrib = [h.contrib EXCEPT ![p] = @ + amount]
    BY DEF Pay, Game
  <2>2. h.balance \in [Player -> Nat] /\ h.contrib \in [Player -> Nat]
    BY DEF Game
  <2>3. QED
    BY <2>1, <2>2
<1>4. QED
  BY <1>1, <1>2, <1>3 DEF Keeps

LEMMA AdvanceToNextPlayerKeeps ==
    ASSUME NEW h, Playable(h)
    PROVE  Keeps(h, AdvanceToNextPlayer(h))
<1> DEFINE next == FirstFrom(h, h.currentPlayer + 1, Actionable(h))
           moved == [h EXCEPT !.currentPlayer = next]
<1>1. next \in -1 .. NumPlayers(h) - 1
  <2>1. h.currentPlayer + 1 \in Int
    BY DEF Playable, Game
  <2>2. QED
    BY <2>1, FirstFromRange
<1>2. CASE next = -1
  BY <1>2 DEF AdvanceToNextPlayer, Keeps, Playable
<1>3. CASE next # -1
  <2>1. next \in 0 .. NumPlayers(h) - 1 /\ next \in Nat \cup {-1}
    BY <1>1, <1>3, SeatedPlayers DEF Playable
  <2> HIDE DEF next
  <2>2. Keeps(h, moved)
    BY <2>1, CurrentPlayerKeeps DEF Playable
  <2>3. Keeps(moved, StartTurn(moved, At(moved, next)))
    <3>1. moved \in Game /\ At(moved, next) \in Player
      <4>1. moved \in Game /\ NumPlayers(moved) = NumPlayers(h)
        BY <2>2, KeepsPlayable DEF Keeps
      <4> HIDE DEF moved
      <4>2. QED
        BY <2>1, <4>1, SeatedPlayers
    <3> HIDE DEF moved
    <3>2. QED
      BY <3>1, StartTurnKeeps
  <2>4. AdvanceToNextPlayer(h) \in {moved, StartTurn(moved, At(moved, next))}
    BY <1>3 DEF AdvanceToNextPlayer, next
  <2> HIDE DEF moved
  <2>5. QED
    BY <2>2, <2>3, <2>4, KeepsTransitive
<1>4. QED
  BY <1>2, <1>3

LEMMA MaybeCompleteKeeps ==
    ASSUME NEW h, h \in Game
    PROVE  Keeps(h, MaybeCompleteBettingRound(h))
<1>1. CASE RoundOutcome(h) = "autoAdvance"
  BY <1>1 DEF MaybeCompleteBettingRound, Game, Keeps
<1>2. CASE RoundOutcome(h) = "closed"
  BY <1>2 DEF MaybeCompleteBettingRound, Game, Keeps
<1>3. CASE RoundOutcome(h) \notin {"autoAdvance", "closed"}
  BY <1>3 DEF MaybeCompleteBettingRound, Keeps
<1>4. QED
  BY <1>1, <1>2, <1>3

(* A bet above the table bet changes what the next player faces only.      *)
LEMMA RaiseTableKeeps ==
    ASSUME NEW h, h \in Game, NEW total \in Nat, NEW allIn
    PROVE  Keeps(h, RaiseTable(h, total, allIn))
<1>1. CASE total <= h.currentBet
  BY <1>1 DEF RaiseTable, Keeps
<1>2. CASE ~(total <= h.currentBet)
  <2> DEFINE raise == total - h.currentBet
             opening == h.currentBet = 0
             full == ~opening /\ raise >= h.lastRaise
             aggressor == IF opening \/ full THEN h.currentPlayer
                          ELSE h.lastAggressor
             last == IF opening /\ ~allIn THEN total
                     ELSE IF full THEN raise ELSE h.lastRaise
  <2>1. aggressor \in Nat \cup {-1} /\ last \in Nat
    BY <1>2 DEF Game
  <2>2. RaiseTable(h, total, allIn)
            = [h EXCEPT !.currentBet = total, !.lastAggressor = aggressor,
                        !.lastRaise = last]
    BY <1>2 DEF RaiseTable, Game
  <2> HIDE DEF aggressor, last
  <2> DEFINE k == RaiseTable(h, total, allIn)
  <2> HIDE DEF k
  <2>3. k = [h EXCEPT !.currentBet = total, !.lastAggressor = aggressor,
                      !.lastRaise = last]
    BY <2>2 DEF k
  <2>4. k \in Game
    BY <2>1, <2>3 DEF Game
  <2>5. Keeps(h, k)
    BY <2>3, <2>4 DEF Keeps, Game
  <2>6. QED
    BY <2>5 DEF k
<1>3. QED
  BY <1>1, <1>2

(* Blinds are capped by the stack.                                         *)
LEMMA PostBlindKeeps ==
    ASSUME NEW h, h \in Game, NEW p \in Player, NEW blind \in Nat
    PROVE  Keeps(h, PostBlind(h, p, blind))
<1> DEFINE amount == Lesser(blind, h.balance[p])
           paid == Pay(h, p, amount)
           bet == Greater(paid.currentBet, amount)
<1>1. amount \in Nat /\ amount <= h.balance[p]
  BY DEF Lesser, Game
<1> HIDE DEF amount
<1>2. Keeps(h, paid)
  BY <1>1, PayKeeps
<1>3. CASE amount = 0
  BY <1>3 DEF PostBlind, Keeps, amount
<1>4. CASE amount # 0
  <2>1. PostBlind(h, p, blind) = [paid EXCEPT !.currentBet = bet]
    BY <1>4 DEF PostBlind, amount
  <2> HIDE DEF paid
  <2>2. paid \in Game /\ bet \in Nat
    BY <1>1, <1>2 DEF Keeps, Game, Greater
  <2> HIDE DEF bet
  <2>3. Keeps(paid, [paid EXCEPT !.currentBet = bet])
    BY <2>2 DEF Keeps, Game
  <2>4. QED
    BY <1>2, <2>1, <2>3, KeepsTransitive
<1>5. QED
  BY <1>3, <1>4

(***************************************************************************)
(* Events and the inbox.                                                   *)
(***************************************************************************)
LEMMA EventFields ==
    ASSUME NEW e \in Event
    PROVE  /\ e.type \in {"fold", "check", "call", "bet", "timebank"} => e.id \in Player
           /\ e.type = "bet" => e.amount \in Nat
BY RequestsAssumption DEF Event, TimebankEvent

LEMMA TimebankEventIsEvent == TimebankEvent \subseteq Event
BY DEF Event

(* Marking expiries as late changes nothing else in a queue.               *)
LEMMA RetireKeeps ==
    ASSUME NEW queue \in Seq(Event), NEW ended
    PROVE  /\ Retire(queue, ended) \in Seq(Event)
           /\ Len(Retire(queue, ended)) = Len(queue)
           /\ \A i \in 1 .. Len(queue) :
                  Retire(queue, ended)[i].type = queue[i].type
           /\ queue \in Seq(TimebankEvent) =>
                  Retire(queue, ended) \in Seq(TimebankEvent)
<1> DEFINE n == Len(queue)
           late(e) == IF e.type = "timebank" /\ e.id \in ended
                      THEN [e EXCEPT !.fresh = FALSE] ELSE e
<1>1. n \in Nat /\ DOMAIN queue = 1 .. n /\ queue \in [1 .. n -> Event]
  BY LenProperties
<1>2. ASSUME NEW e \in Event
      PROVE  /\ late(e) \in Event
             /\ late(e).type = e.type
             /\ e \in TimebankEvent => late(e) \in TimebankEvent
  <2>1. CASE e.type = "timebank" /\ e.id \in ended
    <3>1. e \in TimebankEvent
      BY <2>1, RequestsAssumption DEF Event, TimebankEvent
    <3>2. late(e) = [e EXCEPT !.fresh = FALSE]
      BY <2>1
    <3>3. late(e) \in TimebankEvent /\ late(e).type = e.type
      BY <3>1, <3>2 DEF TimebankEvent
    <3>4. QED
      BY <3>3, TimebankEventIsEvent
  <2>2. CASE ~(e.type = "timebank" /\ e.id \in ended)
    BY <2>2
  <2>3. QED
    BY <2>1, <2>2
<1>3. Retire(queue, ended) = [i \in 1 .. n |-> late(queue[i])]
  BY <1>1 DEF Retire
<1> HIDE DEF late, n
<1>4. /\ Retire(queue, ended) \in [1 .. n -> Event]
      /\ \A i \in 1 .. n : Retire(queue, ended)[i].type = queue[i].type
  BY <1>1, <1>2, <1>3
<1>5. Retire(queue, ended) \in Seq(Event) /\ Len(Retire(queue, ended)) = n
  BY <1>1, <1>4
<1>6. ASSUME queue \in Seq(TimebankEvent)
      PROVE  Retire(queue, ended) \in Seq(TimebankEvent)
  <2>1. queue \in [1 .. n -> TimebankEvent]
    BY <1>6, LenProperties DEF n
  <2>2. Retire(queue, ended) \in [1 .. n -> TimebankEvent]
    BY <1>1, <1>2, <1>3, <2>1
  <2>3. QED
    BY <1>1, <2>2
<1>7. QED
  BY <1>4, <1>5, <1>6 DEF n

(***************************************************************************)
(* The inductive invariant.                                                *)
(***************************************************************************)
HandInv == TypeOK /\ LedgerBalances /\ NextHandOrdered /\ FundedForNextHand

\* Where the chips go in a step: during a hand between the stacks and the
\* pot, or to the winners; between hands nowhere, until the next one resets
\* the pot and takes the blinds.
ChipsMove ==
    \/ g.phase \in Streets /\ Keeps(g, g')
    \/ /\ g.phase \in Streets
       /\ \E rank \in [Seated(g) -> 1 .. NumPlayers(g)] : g' = Settle(g, rank)
    \/ /\ g.phase \notin Streets /\ NumPlayers(g) >= 2
       /\ g' = MaybeCompleteBettingRound(FirstToAct(PostBlinds(ResetHand(g))))
       /\ Keeps(ResetHand(g), g')
    \/ g.phase \notin Streets /\ g'.phase \notin Streets /\ g'.balance = g.balance

\* A step keeps the invariant, deals in players with chips only, and moves
\* chips in one of these ways.
GoodStep == HandInv' /\ ChipsMove /\ (g'.round # g.round => Funded(g))

NextHandType == {"startHand", "prune"}

\* A sequence of events none of which asks for the next hand.
Ordinary(sent) ==
    sent \in Seq(Event) /\ \A i \in 1 .. Len(sent) : sent[i].type \notin NextHandType

(* A handler takes the first event of the inbox and adds ordinary ones: the *)
(* requests for the next hand after it were there before it.               *)
LEMMA HandledQueue ==
    ASSUME TypeOK, inbox # <<>>, NEW h, NEW ended, NEW sent,
           Handled(h, ended, sent), Ordinary(sent)
    PROVE  /\ inbox' \in Seq(Event)
           /\ expiries' \in Seq(TimebankEvent)
           /\ \A i \in NextHandEvents' :
                  i + 1 \in NextHandEvents /\ inbox'[i].type = inbox[i + 1].type
<1> DEFINE rest == Retire(Tail(inbox), ended)
<1>1. inbox \in Seq(Event) /\ expiries \in Seq(TimebankEvent) /\ sent \in Seq(Event)
  BY DEF TypeOK, Ordinary
<1>2. /\ Tail(inbox) \in Seq(Event)
      /\ Len(Tail(inbox)) = Len(inbox) - 1
      /\ \A i \in 1 .. Len(Tail(inbox)) : Tail(inbox)[i] = inbox[i + 1]
  BY <1>1, HeadTailProperties
<1>3. /\ rest \in Seq(Event)
      /\ Len(rest) = Len(Tail(inbox))
      /\ \A i \in 1 .. Len(rest) : rest[i].type = Tail(inbox)[i].type
  BY <1>2, RetireKeeps
<1> HIDE DEF rest
<1>4. inbox' = rest \o sent
  BY DEF Handled, rest
<1>5. /\ inbox' \in Seq(Event)
      /\ DOMAIN inbox' = 1 .. Len(rest) + Len(sent)
      /\ \A i \in 1 .. Len(rest) + Len(sent) :
             inbox'[i] = IF i <= Len(rest) THEN rest[i] ELSE sent[i - Len(rest)]
  <2>1. /\ rest \o sent \in Seq(Event)
        /\ Len(rest \o sent) = Len(rest) + Len(sent)
        /\ \A i \in 1 .. Len(rest) + Len(sent) :
               (rest \o sent)[i] = IF i <= Len(rest) THEN rest[i]
                                   ELSE sent[i - Len(rest)]
    BY <1>1, <1>3, ConcatProperties
  <2>2. DOMAIN (rest \o sent) = 1 .. Len(rest) + Len(sent)
    BY <2>1, LenProperties
  <2>3. QED
    BY <1>4, <2>1, <2>2
<1>6. expiries' \in Seq(TimebankEvent)
  <2>1. expiries \in Seq(Event)
    BY <1>1, TimebankEventIsEvent, SeqMonotonic
  <2>2. QED
    BY <1>1, <2>1, RetireKeeps DEF Handled
<1>7. ASSUME NEW i \in NextHandEvents'
      PROVE  i + 1 \in NextHandEvents /\ inbox'[i].type = inbox[i + 1].type
  <2>1. i \in 1 .. Len(rest) + Len(sent) /\ inbox'[i].type \in NextHandType
    BY <1>5 DEF NextHandEvents, NextHandType
  <2>2. Len(rest) \in Nat /\ Len(sent) \in Nat /\ Len(inbox) \in Nat
    BY <1>1, <1>3, LenProperties
  <2>3. i <= Len(rest)
    <3>1. SUFFICES ASSUME ~(i <= Len(rest)) PROVE FALSE
      OBVIOUS
    <3>2. i - Len(rest) \in 1 .. Len(sent) /\ inbox'[i] = sent[i - Len(rest)]
      BY <1>5, <2>1, <2>2, <3>1
    <3>3. QED
      BY <2>1, <3>2 DEF Ordinary
  <2>4. i \in 1 .. Len(rest) /\ inbox'[i] = rest[i]
    BY <1>5, <2>1, <2>2, <2>3
  <2>5. i + 1 \in 1 .. Len(inbox) /\ inbox'[i].type = inbox[i + 1].type
    BY <1>2, <1>3, <2>2, <2>4
  <2>6. QED
    BY <1>1, <2>1, <2>5, LenProperties DEF NextHandEvents, NextHandType
<1>8. QED
  BY <1>5, <1>6, <1>7

(* A handler that keeps the hand going keeps the invariant.                *)
LEMMA OrdinaryStep ==
    ASSUME HandInv, inbox # <<>>, NEW h, NEW ended, NEW sent,
           Handled(h, ended, sent), Ordinary(sent), Keeps(g, h),
           g.phase \in Streets \/ h = g,
           autoStart' = autoStart
    PROVE  GoodStep
<1>1. /\ inbox' \in Seq(Event)
      /\ expiries' \in Seq(TimebankEvent)
      /\ \A i \in NextHandEvents' :
             i + 1 \in NextHandEvents /\ inbox'[i].type = inbox[i + 1].type
  BY HandledQueue DEF HandInv
<1>2. /\ g' = h
      /\ blocked' = blocked
      /\ g' \in Game
      /\ g.phase \in Streets <=> g'.phase \in Streets
      /\ NumPlayers(g)' = NumPlayers(g)
      /\ Seated(g)' = Seated(g)
  BY DEF Handled, Keeps, NumPlayers, Seated
<1>3. TypeOK'
  BY <1>1, <1>2 DEF HandInv, TypeOK
<1>4. LedgerBalances'
  <2>1. \A p \in Seated(g) : p \in Player
    BY SeatedPlayers DEF HandInv, TypeOK
  <2>2. ASSUME g'.phase \in Streets, NEW p \in Seated(g)
        PROVE  g'.balance[p] + g'.contrib[p] = g'.starting[p]
    <3>1. g.balance[p] + g.contrib[p] = g.starting[p]
      BY <1>2, <2>2 DEF HandInv, LedgerBalances
    <3>2. QED
      BY <1>2, <2>1, <3>1 DEF Keeps
  <2>3. QED
    BY <1>2, <2>2 DEF LedgerBalances
<1>5. NextHandOrdered'
  <2>1. ASSUME NEW i \in NextHandEvents', NEW j \in NextHandEvents'
        PROVE  i = j
    <3>1. i + 1 = j + 1
      BY <1>1 DEF HandInv, NextHandOrdered
    <3>2. i \in Int /\ j \in Int
      BY <1>1, LenProperties DEF NextHandEvents
    <3>3. QED
      BY <3>1, <3>2
  <2>2. QED
    BY <1>1, <1>2, <2>1 DEF HandInv, NextHandOrdered
<1>6. FundedForNextHand'
  <2>1. CASE g.phase \in Streets
    <3>1. NextHandEvents = {} /\ autoStart = "off"
      BY <2>1 DEF HandInv, NextHandOrdered
    <3>2. QED
      BY <1>1, <3>1 DEF FundedForNextHand
  <2>2. CASE h = g
    <3>1. Funded(g) => Funded(g)'
      BY <1>2, <2>2
    <3>2. QED
      BY <1>1, <3>1 DEF HandInv, FundedForNextHand
  <2>3. QED
    BY <2>1, <2>2
<1>7. ChipsMove
  BY <1>2 DEF ChipsMove
<1>8. QED
  BY <1>2, <1>3, <1>4, <1>5, <1>6, <1>7 DEF HandInv, GoodStep, Keeps

LEMMA NoEventOrdinary == Ordinary(<<>>)
BY EmptySeq DEF Ordinary

LEMMA OneEventOrdinary ==
    ASSUME NEW e \in Event, e.type \notin NextHandType
    PROVE  Ordinary(<<e>>)
BY DEF Ordinary

LEMMA RoundEventsOrdinary ==
    ASSUME NEW h, h \in Game
    PROVE  Ordinary(RoundEvents(h))
<1>1. CASE RoundOutcome(h) = "uncontested"
  <2>1. [type |-> "gotoShowdown", round |-> h.round] \in Event
    BY DEF Event, Game
  <2>2. QED
    BY <1>1, <2>1, OneEventOrdinary DEF RoundEvents, NextHandType
<1>2. CASE RoundOutcome(h) = "closed"
  <2>1. [type |-> "advance"] \in Event
    BY DEF Event
  <2>2. QED
    BY <1>2, <2>1, OneEventOrdinary DEF RoundEvents, NextHandType
<1>3. CASE RoundOutcome(h) \notin {"uncontested", "closed"}
  BY <1>3, NoEventOrdinary DEF RoundEvents
<1>4. QED
  BY <1>1, <1>2, <1>3

(* The common end of every accepted action.                                *)
LEMMA ProceedStep ==
    ASSUME HandInv, inbox # <<>>, NEW h, Keeps(g, h), NumPlayers(g) >= 1,
           g.phase \in Streets, NEW p \in Player, Proceed(h, p), autoStart' = autoStart
    PROVE  GoodStep
<1> DEFINE moved == AdvanceToNextPlayer(EndTurn(h, p))
           ended == IF RoundOutcome(moved) = "closed" THEN Player ELSE {p}
<1>1. Keeps(g, EndTurn(h, p))
  BY EndTurnKeeps, KeepsTransitive DEF Keeps
<1>2. Keeps(g, moved)
  <2>1. Playable(g)
    BY DEF HandInv, TypeOK, Playable
  <2>2. Playable(EndTurn(h, p))
    BY <1>1, <2>1, KeepsPlayable
  <2>3. QED
    BY <1>1, <2>2, AdvanceToNextPlayerKeeps, KeepsTransitive
<1>3. Handled(MaybeCompleteBettingRound(moved), ended, RoundEvents(moved))
  BY DEF Proceed
<1> HIDE DEF moved, ended
<1>4. Keeps(g, MaybeCompleteBettingRound(moved)) /\ Ordinary(RoundEvents(moved))
  BY <1>2, MaybeCompleteKeeps, KeepsTransitive, RoundEventsOrdinary DEF Keeps
<1>5. QED
  BY <1>3, <1>4, OrdinaryStep

LEMMA RejectStep ==
    ASSUME HandInv, inbox # <<>>, Reject, autoStart' = autoStart
    PROVE  GoodStep
<1>1. Keeps(g, g)
  BY DEF Keeps, HandInv, TypeOK
<1>2. QED
  BY <1>1, OrdinaryStep, NoEventOrdinary DEF Reject

LEMMA BlockStep ==
    ASSUME HandInv, Block, autoStart' = autoStart
    PROVE  GoodStep
<1>1. HandInv' /\ g' = g
  BY DEF HandInv, TypeOK, LedgerBalances, NextHandOrdered, FundedForNextHand,
         NextHandEvents, Block
<1>2. ChipsMove
  BY <1>1 DEF HandInv, TypeOK, ChipsMove, Keeps
<1>3. QED
  BY <1>1, <1>2 DEF GoodStep

(* A player who may act is a seated one, and a hand is being played.       *)
LEMMA CanActSeated ==
    ASSUME HandInv, NEW p, CanAct(p)
    PROVE  /\ p \in Seated(g) /\ p \in Player
           /\ NumPlayers(g) >= 1 /\ g.phase \in Streets
           /\ Playable(g)
BY SeatedPlayers DEF CanAct, IsCurrent, HandInv, TypeOK, Playable

(***************************************************************************)
(* The requests of the players.                                            *)
(***************************************************************************)
LEMMA PlayerFoldStep ==
    ASSUME HandInv, inbox # <<>>, NEW p \in Player, PlayerFold(p),
           autoStart' = autoStart
    PROVE  GoodStep
<1> DEFINE folded == [g EXCEPT !.status[p] = "FOLDED"]
           showdown == [type |-> "gotoShowdown", round |-> g.round]
<1>1. CASE Reject
  BY <1>1, RejectStep
<1>2. CASE Block
  BY <1>2, BlockStep
<1>3. CASE /\ CanAct(p) /\ g.status[p] = "IN_GAME"
           /\ IF Cardinality(Alive(folded)) = 1
              THEN Handled(EndTurn(folded, p), {p}, <<showdown>>)
              ELSE Proceed(folded, p)
  <2>1. g \in Game /\ NumPlayers(g) >= 1 /\ g.phase \in Streets
    BY <1>3, CanActSeated DEF HandInv, TypeOK
  <2>2. Keeps(g, folded)
    BY <2>1, FoldKeeps
  <2>3. Keeps(g, EndTurn(folded, p))
    <3>1. folded \in Game
      BY <2>2 DEF Keeps
    <3>2. Keeps(folded, EndTurn(folded, p))
      BY <3>1, EndTurnKeeps
    <3> HIDE DEF folded
    <3>3. QED
      BY <2>2, <3>2, KeepsTransitive
  <2>4. Ordinary(<<showdown>>)
    <3>1. showdown \in Event
      BY <2>1 DEF Event, Game
    <3>2. QED
      BY <3>1, OneEventOrdinary DEF NextHandType
  <2> HIDE DEF folded, showdown
  <2>5. CASE Handled(EndTurn(folded, p), {p}, <<showdown>>)
    BY <2>1, <2>3, <2>4, <2>5, OrdinaryStep
  <2>6. CASE Proceed(folded, p)
    BY <2>1, <2>2, <2>6, ProceedStep
  <2>7. QED
    BY <1>3, <2>5, <2>6 DEF folded, showdown
<1>4. QED
  BY <1>1, <1>2, <1>3 DEF PlayerFold

LEMMA SelfKeeps ==
    ASSUME HandInv
    PROVE  g \in Game /\ Keeps(g, g)
BY DEF HandInv, TypeOK, Keeps

LEMMA PlayerCheckStep ==
    ASSUME HandInv, inbox # <<>>, NEW p \in Player, PlayerCheck(p),
           autoStart' = autoStart
    PROVE  GoodStep
<1>1. CASE Reject
  BY <1>1, RejectStep
<1>2. CASE CanAct(p) /\ Proceed(g, p)
  BY <1>2, CanActSeated, SelfKeeps, ProceedStep
<1>3. QED
  BY <1>1, <1>2 DEF PlayerCheck

(* The bet to call is a number of chips.                                   *)
LEMMA TableBetType ==
    ASSUME HandInv, NEW p, CanAct(p)
    PROVE  TableBet \in Nat
<1> DEFINE bets == {g.bet[q] : q \in Seated(g)}
<1>1. g \in Game /\ p \in Seated(g) /\ Seated(g) \in SUBSET Player
  BY CanActSeated, SeatedPlayers DEF HandInv, TypeOK
<1>2. bets \in SUBSET Nat /\ bets # {}
  BY <1>1 DEF Game
<1>3. IsFiniteSet(bets)
  <2> DEFINE f == [q \in Seated(g) |-> g.bet[q]]
  <2>1. f \in Surjection(Seated(g), bets)
    BY DEF Surjection
  <2>2. IsFiniteSet(Seated(g))
    BY <1>1, SeatedPlayers
  <2>3. QED
    BY <2>1, <2>2, FS_Surjection
<1>4. Max(bets) \in Nat
  <2> HIDE DEF bets
  <2>1. QED
    BY <1>2, <1>3, MaxOfNats
<1>5. g.currentBet \in Nat
  BY <1>1 DEF Game
<1>6. QED
  BY <1>4, <1>5 DEF TableBet

LEMMA PlayerCallStep ==
    ASSUME HandInv, inbox # <<>>, NEW p \in Player, PlayerCall(p),
           autoStart' = autoStart
    PROVE  GoodStep
<1> DEFINE delta == Lesser(TableBet - g.bet[p], g.balance[p])
<1>1. CASE Reject
  BY <1>1, RejectStep
<1>2. CASE CanAct(p) /\ Proceed(g, p)
  BY <1>2, CanActSeated, SelfKeeps, ProceedStep
<1>3. CASE CanAct(p) /\ TableBet > g.bet[p] /\ Proceed(Pay(g, p, delta), p)
  <2>1. g \in Game /\ NumPlayers(g) >= 1 /\ TableBet \in Nat
    BY <1>3, SelfKeeps, CanActSeated, TableBetType
  <2>2. delta \in Nat /\ delta <= g.balance[p]
    BY <1>3, <2>1 DEF Lesser, Game
  <2> HIDE DEF delta
  <2>3. Keeps(g, Pay(g, p, delta))
    BY <2>1, <2>2, PayKeeps
  <2>4. QED
    BY <1>3, <2>1, <2>3, CanActSeated, ProceedStep
<1>4. QED
  BY <1>1, <1>2, <1>3 DEF PlayerCall

LEMMA PlayerBetStep ==
    ASSUME HandInv, inbox # <<>>, NEW p \in Player, NEW amount \in Nat,
           PlayerBet(p, amount), autoStart' = autoStart
    PROVE  GoodStep
<1> DEFINE delta == Lesser(amount - g.bet[p], g.balance[p])
           total == g.bet[p] + delta
           allIn == delta = g.balance[p]
           paid == Pay(g, p, delta)
<1>1. CASE Reject
  BY <1>1, RejectStep
<1>2. CASE Block
  BY <1>2, BlockStep
<1>3. CASE CanAct(p) /\ Proceed(g, p)
  BY <1>3, CanActSeated, SelfKeeps, ProceedStep
<1>4. CASE CanAct(p) /\ amount >= g.bet[p] /\ Proceed(RaiseTable(paid, total, allIn), p)
  <2>1. g \in Game /\ NumPlayers(g) >= 1
    BY <1>4, SelfKeeps, CanActSeated
  <2>2. delta \in Nat /\ delta <= g.balance[p] /\ total \in Nat
    BY <1>4, <2>1 DEF Lesser, Game
  <2> HIDE DEF delta, total, allIn
  <2>3. Keeps(g, paid)
    BY <2>1, <2>2, PayKeeps
  <2> HIDE DEF paid
  <2>4. Keeps(g, RaiseTable(paid, total, allIn))
    BY <2>2, <2>3, RaiseTableKeeps, KeepsTransitive DEF Keeps
  <2>5. QED
    BY <1>4, <2>1, <2>4, CanActSeated, ProceedStep
<1>5. QED
  BY <1>1, <1>2, <1>3, <1>4 DEF PlayerBet

LEMMA HandleTimebankStep ==
    ASSUME HandInv, HandleTimebankExpired
    PROVE  GoodStep
<1> DEFINE p == Head(inbox).id
<1>1. inbox # <<>> /\ p \in Player /\ autoStart' = autoStart
  <2>1. inbox \in Seq(Event) /\ inbox # <<>> /\ Head(inbox).type = "timebank"
    BY DEF HandInv, TypeOK, HandleTimebankExpired, Receive
  <2>2. QED
    BY <2>1, HeadTailProperties, EventFields DEF HandleTimebankExpired
<1>2. Reject \/ PlayerCheck(p) \/ PlayerFold(p)
  BY DEF HandleTimebankExpired
<1> HIDE DEF p
<1>3. QED
  BY <1>1, <1>2, RejectStep, PlayerCheckStep, PlayerFoldStep

LEMMA HandleRequestStep ==
    ASSUME HandInv, HandleFoldReq \/ HandleCheckReq \/ HandleCallReq \/ HandleBetReq
    PROVE  GoodStep
<1> DEFINE e == Head(inbox)
<1>1. inbox # <<>> /\ e \in Event /\ autoStart' = autoStart
  <2>1. inbox \in Seq(Event) /\ inbox # <<>> /\ autoStart' = autoStart
    BY DEF HandInv, TypeOK, HandleFoldReq, HandleCheckReq, HandleCallReq,
           HandleBetReq, Receive
  <2>2. QED
    BY <2>1, HeadTailProperties
<1>2. CASE HandleFoldReq
  BY <1>1, <1>2, EventFields, PlayerFoldStep DEF HandleFoldReq, Receive
<1>3. CASE HandleCheckReq
  BY <1>1, <1>3, EventFields, PlayerCheckStep DEF HandleCheckReq, Receive
<1>4. CASE HandleCallReq
  BY <1>1, <1>4, EventFields, PlayerCallStep DEF HandleCallReq, Receive
<1>5. CASE HandleBetReq
  BY <1>1, <1>5, EventFields, PlayerBetStep DEF HandleBetReq, Receive
<1>6. QED
  BY <1>2, <1>3, <1>4, <1>5

(***************************************************************************)
(* Streets and showdown.                                                   *)
(***************************************************************************)
LEMMA StreetStarterRange ==
    ASSUME NEW h, Playable(h)
    PROVE  StreetStarter(h) \in -1 .. NumPlayers(h) - 1
<1> DEFINE start == IF h.phase # "PRE_FLOP" THEN h.dealer + 1
                    ELSE IF NumPlayers(h) = 2 THEN h.dealer ELSE h.dealer + 3
<1>1. start \in Int
  BY DEF Playable, Game
<1>2. StreetStarter(h) = FirstFrom(h, start, Actionable(h))
  BY DEF StreetStarter
<1> HIDE DEF start
<1>3. QED
  BY <1>1, <1>2, FirstFromRange

LEMMA EnterStreetKeeps ==
    ASSUME NEW h, Playable(h), h.phase \in Streets, NEW street \in Streets
    PROVE  Keeps(h, EnterStreet(h, street))
<1> DEFINE reset == [ResetBettingRound(h) EXCEPT !.phase = street]
           running == h.autoAdvance /\ Cardinality(Actionable(h)) <= 1
           actor == IF running THEN -1 ELSE StreetStarter(reset)
           timer == reset.advanceTimer \/ running
           auto == reset.autoAdvance /\ ~(running /\ street = "RIVER")
           seated == [reset EXCEPT !.currentPlayer = actor,
                                   !.advanceTimer = timer,
                                   !.autoAdvance = auto]
<1>1. Keeps(h, reset)
  BY BlindsAssumption DEF ResetBettingRound, Keeps, Game, Playable
<1>2. Playable(reset) /\ NumPlayers(reset) = NumPlayers(h)
  BY <1>1, KeepsPlayable
<1>3. actor \in -1 .. NumPlayers(h) - 1
  <2> HIDE DEF reset, running
  <2>1. StreetStarter(reset) \in -1 .. NumPlayers(h) - 1
    BY <1>2, StreetStarterRange
  <2>2. NumPlayers(h) \in Nat /\ NumPlayers(h) >= 1
    BY SeatedPlayers DEF Playable
  <2>3. QED
    BY <2>1, <2>2
<1>4. timer \in BOOLEAN /\ auto \in BOOLEAN
  <2> HIDE DEF reset, running
  <2>1. reset.advanceTimer \in BOOLEAN /\ reset.autoAdvance \in BOOLEAN
    BY <1>2 DEF Playable, Game
  <2>2. running \in BOOLEAN
    BY DEF running
  <2>3. QED
    BY <2>1, <2>2
<1>5. EnterStreet(h, street)
          = IF actor = -1 THEN seated ELSE StartTurn(seated, At(seated, actor))
  BY DEF EnterStreet
<1> HIDE DEF reset, running, actor, timer, auto
<1>6. actor \in Nat \cup {-1}
  BY <1>3, SeatedPlayers DEF Playable
<1>7. Keeps(h, seated)
  <2>1. Keeps(reset, seated)
    <3>1. reset \in Game
      BY <1>2 DEF Playable
    <3>2. seated \in Game
      BY <1>4, <1>6, <3>1 DEF seated, Game
    <3>3. /\ seated.players = reset.players /\ seated.round = reset.round
          /\ seated.phase = reset.phase /\ seated.starting = reset.starting
          /\ seated.balance = reset.balance /\ seated.contrib = reset.contrib
      BY <3>1 DEF seated, Game
    <3>4. QED
      BY <3>2, <3>3 DEF Keeps
  <2>2. QED
    BY <1>1, <2>1, KeepsTransitive
<1> HIDE DEF seated
<1>8. CASE actor = -1
  BY <1>5, <1>7, <1>8
<1>9. CASE actor # -1
  <2>1. seated \in Game /\ NumPlayers(seated) = NumPlayers(h)
    BY <1>7, KeepsPlayable DEF Keeps
  <2>2. actor \in 0 .. NumPlayers(seated) - 1
    BY <1>3, <1>9, <2>1, SeatedPlayers
  <2>3. At(seated, actor) \in Player
    BY <2>1, <2>2, SeatedPlayers
  <2>4. QED
    BY <1>5, <1>7, <1>9, <2>1, <2>3, StartTurnKeeps, KeepsTransitive
<1>10. QED
  BY <1>8, <1>9

LEMMA CreditType ==
    ASSUME NEW balance \in Nat, NEW amount
    PROVE  Credit(balance, amount) \in Nat
BY DEF Credit

(* Settling the pots leaves the players seated, between two hands, with    *)
(* natural numbers of chips.                                               *)
LEMMA SettleType ==
    ASSUME NEW h, h \in Game, NEW rank
    PROVE  /\ Settle(h, rank) \in Game
           /\ Settle(h, rank).players = h.players
           /\ Settle(h, rank).phase = "SHOWDOWN"
<1> DEFINE S == Seated(h)
           contrib == [p \in S |-> h.contrib[p]]
           refund == UncalledBet(contrib, Forced(h))
           kept == [contrib EXCEPT ![refund.to] = @ - refund.amount]
           refunded == [h.balance EXCEPT ![refund.to] = Credit(@, refund.amount)]
           payouts == DistributePots(RebuildPots(kept, Alive(h)), h.players, rank)
           paid == [p \in Player |-> IF p \in S THEN Credit(refunded[p], payouts[p])
                                    ELSE refunded[p]]
           pot == [p \in Player |-> IF p \in S THEN kept[p] ELSE h.contrib[p]]
<1>1. /\ S \in SUBSET Player /\ IsFiniteSet(S)
      /\ h.balance \in [Player -> Nat] /\ h.contrib \in [Player -> Nat]
  BY SeatedPlayers DEF Game
<1> HIDE DEF S
<1>2. contrib \in [S -> Nat]
  BY <1>1
<1>3. Forced(h) \in [S -> Nat]
  BY BlindsAssumption DEF Forced, S
<1> HIDE DEF contrib
<1>4. /\ refund.amount \in Nat
      /\ refund.amount > 0 => refund.to \in S /\ refund.amount <= contrib[refund.to]
  BY <1>1, <1>2, <1>3, RefundWithinBet
<1> HIDE DEF refund
<1>5. kept \in [S -> Nat]
  <2>1. CASE refund.amount = 0
    <3>1. \A q \in S : contrib[q] \in Nat /\ contrib[q] - refund.amount = contrib[q]
      BY <1>2, <2>1
    <3>2. kept = [q \in S |-> IF q = refund.to THEN contrib[q] - refund.amount
                              ELSE contrib[q]]
      BY <1>2
    <3> HIDE DEF kept
    <3>3. QED
      BY <3>1, <3>2
  <2>2. CASE refund.amount > 0
    <3>1. contrib[refund.to] - refund.amount \in Nat
      BY <1>2, <1>4, <2>2
    <3>2. QED
      BY <1>2, <3>1
  <2>3. QED
    BY <1>4, <2>1, <2>2
<1>6. refunded \in [Player -> Nat]
  <2>1. \A p \in Player : Credit(h.balance[p], refund.amount) \in Nat
    BY <1>1, CreditType
  <2>2. QED
    BY <1>1, <2>1
<1> HIDE DEF kept, refunded, payouts
<1>7. paid \in [Player -> Nat]
  <2>1. \A p \in Player : Credit(refunded[p], payouts[p]) \in Nat
    BY <1>6, CreditType
  <2>2. QED
    BY <1>6, <2>1
<1>8. pot \in [Player -> Nat]
  BY <1>1, <1>5
<1>9. Settle(h, rank)
          = [h EXCEPT !.phase = "SHOWDOWN", !.currentPlayer = -1,
                      !.turn = {}, !.timer = {},
                      !.balance = paid, !.contrib = pot,
                      !.bet = [p \in Player |-> 0],
                      !.status = [p \in Player |-> "AT_TABLE"]]
  BY DEF Settle, S, contrib, refund, kept, refunded, payouts, Game
<1> HIDE DEF paid, pot
<1> DEFINE k == Settle(h, rank)
<1> HIDE DEF k
<1>10. k = [h EXCEPT !.phase = "SHOWDOWN", !.currentPlayer = -1,
                     !.turn = {}, !.timer = {},
                     !.balance = paid, !.contrib = pot,
                     !.bet = [p \in Player |-> 0],
                     !.status = [p \in Player |-> "AT_TABLE"]]
  BY <1>9 DEF k
<1>11. k \in Game /\ k.players = h.players /\ k.phase = "SHOWDOWN"
  BY <1>7, <1>8, <1>10 DEF Game
<1>12. QED
  BY <1>11 DEF k

(* While a hand is played nothing is pending for the next one.             *)
LEMMA NoNextHandInHand ==
    ASSUME HandInv, g.phase \in Streets
    PROVE  NextHandEvents = {} /\ autoStart = "off"
BY DEF HandInv, NextHandOrdered

LEMMA EnterShowdownStep ==
    ASSUME HandInv, inbox # <<>>, g.phase \in Streets, EnterShowdown
    PROVE  GoodStep
<1>1. PICK rank \in [Seated(g) -> 1 .. NumPlayers(g)] :
              /\ Handled(Settle(g, rank), Player, <<>>)
              /\ autoStart' \in {autoStart, "armed"}
  BY DEF EnterShowdown
<1>2. /\ inbox' \in Seq(Event)
      /\ expiries' \in Seq(TimebankEvent)
      /\ \A i \in NextHandEvents' :
             i + 1 \in NextHandEvents /\ inbox'[i].type = inbox[i + 1].type
  BY <1>1, HandledQueue, NoEventOrdinary DEF HandInv
<1>3. /\ g' \in Game /\ g'.phase = "SHOWDOWN" /\ blocked' = blocked
      /\ g'.players = g.players
  BY <1>1, SettleType DEF Handled, HandInv, TypeOK
<1>4. g'.phase \notin Streets
  BY <1>3 DEF Streets
<1>5. NextHandEvents' = {} /\ autoStart' \in {"off", "armed"}
  BY <1>1, <1>2, NoNextHandInHand
<1>6. TypeOK'
  BY <1>2, <1>3, <1>5 DEF HandInv, TypeOK
<1>7. LedgerBalances' /\ NextHandOrdered' /\ FundedForNextHand'
  <2>1. LedgerBalances'
    BY <1>4 DEF LedgerBalances
  <2>2. NextHandOrdered' /\ FundedForNextHand'
    BY <1>4, <1>5 DEF NextHandOrdered, FundedForNextHand
  <2>3. QED
    BY <2>1, <2>2
<1>8. g'.round = g.round
  <2>1. PICK k : k = Settle(g, rank)
    OBVIOUS
  <2>2. k.round = g.round
    BY <2>1 DEF Settle, HandInv, TypeOK, Game
  <2>3. QED
    BY <1>1, <2>1, <2>2 DEF Handled
<1>9. ChipsMove
  BY <1>1 DEF ChipsMove, Handled
<1>10. QED
  BY <1>6, <1>7, <1>8, <1>9 DEF HandInv, GoodStep

LEMMA HandleAdvanceStep ==
    ASSUME HandInv, HandleAdvance
    PROVE  GoodStep
<1>1. inbox # <<>>
  BY DEF HandleAdvance, Receive
<1>2. CASE /\ g.phase \in DOMAIN NextStreet
           /\ Handled(EnterStreet(g, NextStreet[g.phase]), {}, <<>>)
           /\ autoStart' = autoStart
  <2>1. g.phase \in Streets /\ NextStreet[g.phase] \in Streets
    BY <1>2 DEF NextStreet, Streets
  <2>2. Playable(g)
    BY <2>1, SeatedPlayers DEF HandInv, TypeOK, NextHandOrdered, Playable
  <2>3. Keeps(g, EnterStreet(g, NextStreet[g.phase]))
    BY <2>1, <2>2, EnterStreetKeeps
  <2>4. QED
    BY <1>1, <1>2, <2>1, <2>3, OrdinaryStep, NoEventOrdinary
<1>3. CASE g.phase = "RIVER" /\ EnterShowdown
  BY <1>1, <1>3, EnterShowdownStep DEF Streets
<1>4. CASE Reject /\ autoStart' = autoStart
  BY <1>1, <1>4, RejectStep
<1>5. QED
  BY <1>2, <1>3, <1>4 DEF HandleAdvance

LEMMA HandleGotoShowdownStep ==
    ASSUME HandInv, HandleGotoShowdown
    PROVE  GoodStep
<1>1. inbox # <<>>
  BY DEF HandleGotoShowdown, Receive
<1>2. CASE g.phase \in Streets /\ EnterShowdown
  BY <1>1, <1>2, EnterShowdownStep
<1>3. CASE Reject /\ autoStart' = autoStart
  BY <1>1, <1>3, RejectStep
<1>4. QED
  BY <1>2, <1>3 DEF HandleGotoShowdown

(***************************************************************************)
(* The start of a hand.                                                    *)
(***************************************************************************)
LEMMA BlindSeats ==
    ASSUME NEW h, Playable(h), h.dealer \in 0 .. NumPlayers(h) - 1
    PROVE  /\ SmallBlindSeat(h) \in 0 .. NumPlayers(h) - 1
           /\ BigBlindSeat(h) \in 0 .. NumPlayers(h) - 1
<1> DEFINE n == NumPlayers(h)
<1>1. n \in Nat \ {0} /\ h.dealer \in Nat
  BY SeatedPlayers DEF Playable
<1>2. h.dealer \in 0 .. n - 1
  OBVIOUS
<1>3. /\ SmallBlindSeat(h) = IF n = 2 THEN h.dealer ELSE (h.dealer + 1) % n
      /\ BigBlindSeat(h) = (h.dealer + (IF n = 2 THEN 1 ELSE 2)) % n
  BY DEF SmallBlindSeat, BigBlindSeat
<1> HIDE DEF n
<1>4. \A k \in Nat : k % n \in 0 .. n - 1
  BY <1>1
<1>5. (h.dealer + 1) % n \in 0 .. n - 1 /\ (h.dealer + 2) % n \in 0 .. n - 1
  BY <1>1, <1>4
<1>6. QED
  BY <1>2, <1>3, <1>5 DEF n

(* A new hand: the same seats, every contribution back to zero, the stacks *)
(* recorded as starting balances, the dealer on a seat.                    *)
LEMMA ResetHandType ==
    ASSUME NEW h, Playable(h)
    PROVE  /\ Playable(ResetHand(h))
           /\ NumPlayers(ResetHand(h)) = NumPlayers(h)
           /\ ResetHand(h).players = h.players
           /\ ResetHand(h).phase \in Streets
           /\ ResetHand(h).dealer \in 0 .. NumPlayers(h) - 1
           /\ \A p \in Seated(h) :
                  ResetHand(h).balance[p] + ResetHand(h).contrib[p]
                      = ResetHand(h).starting[p]
<1> DEFINE dealer == IF h.dealer < 0 THEN 0 ELSE (h.dealer + 1) % NumPlayers(h)
           starting == [p \in Player |-> IF p \in Seated(h) THEN h.balance[p]
                                        ELSE h.starting[p]]
           status == [p \in Player |-> IF p \in Seated(h)
                                      THEN [q \in Player |-> "IN_GAME"][p]
                                      ELSE h.status[p]]
           zero == [p \in Player |-> 0]
           r == ResetHand(h)
<1>1. h \in Game /\ NumPlayers(h) \in Nat \ {0} /\ Seated(h) \in SUBSET Player
  BY SeatedPlayers DEF Playable
<1>2. dealer \in 0 .. NumPlayers(h) - 1
  <2> DEFINE n == NumPlayers(h)
  <2> HIDE DEF n
  <2>1. n \in Nat \ {0}
    BY <1>1 DEF n
  <2>2. 0 \in 0 .. n - 1 /\ \A k \in Nat : k % n \in 0 .. n - 1
    BY <2>1
  <2>3. h.dealer \in Nat \cup {-1}
    BY <1>1 DEF Game
  <2>4. dealer = IF h.dealer < 0 THEN 0 ELSE (h.dealer + 1) % n
    BY DEF n
  <2> HIDE DEF dealer
  <2>5. dealer \in 0 .. n - 1
    BY <2>2, <2>3, <2>4
  <2>6. QED
    BY <2>5 DEF n
<1>3. starting \in [Player -> Nat]
  BY <1>1 DEF Game
<1>4. status \in [Player -> {"AT_TABLE", "IN_GAME", "ALL_IN", "FOLDED"}]
  BY <1>1 DEF Game
<1>5. zero \in [Player -> Nat]
  OBVIOUS
<1>6. r = [h EXCEPT !.currentBet = 0, !.lastAggressor = -1, !.lastRaise = BigBlind,
                    !.round = h.round + 1, !.phase = "PRE_FLOP", !.dealer = dealer,
                    !.autoAdvance = FALSE, !.advanceTimer = FALSE,
                    !.starting = starting, !.contrib = zero, !.bet = zero,
                    !.status = status, !.turn = {}]
  BY <1>1 DEF ResetHand, ResetBettingRound, Game
<1> HIDE DEF r, dealer, status, zero, starting
<1>7. r \in Game
  <2>1. /\ dealer \in Nat \cup {-1} /\ BigBlind \in Nat
        /\ "PRE_FLOP" \in Streets \cup {"NEW_HAND_DEALING", "SHOWDOWN"}
        /\ h.round + 1 \in Nat
    BY <1>1, <1>2, BlindsAssumption DEF Streets, Game
  <2>2. QED
    BY <1>1, <1>3, <1>4, <1>5, <1>6, <2>1 DEF Game
<1>8. /\ r.players = h.players /\ r.phase = "PRE_FLOP" /\ r.dealer = dealer
      /\ r.balance = h.balance /\ r.contrib = zero /\ r.starting = starting
  BY <1>1, <1>6 DEF Game
<1>9. ASSUME NEW p \in Seated(h)
      PROVE  r.balance[p] + r.contrib[p] = r.starting[p]
  <2>1. zero[p] = 0 /\ starting[p] = h.balance[p] /\ h.balance[p] \in Nat
    BY <1>1, <1>9 DEF zero, starting, Game
  <2>2. QED
    BY <1>8, <2>1
<1>10. QED
  BY <1>1, <1>2, <1>7, <1>8, <1>9 DEF r, Playable, NumPlayers, Streets

LEMMA PostBlindsKeeps ==
    ASSUME NEW h, Playable(h), h.dealer \in 0 .. NumPlayers(h) - 1
    PROVE  Keeps(h, PostBlinds(h)) /\ PostBlinds(h).dealer = h.dealer
<1> DEFINE sb == At(h, SmallBlindSeat(h))
           bb == At(h, BigBlindSeat(h))
           small == PostBlind(h, sb, SmallBlind)
<1>1. sb \in Player /\ bb \in Player /\ h \in Game
  BY BlindSeats, SeatedPlayers DEF Playable
<1>2. SmallBlind \in Nat /\ BigBlind \in Nat
  BY BlindsAssumption
<1>3. PostBlinds(h) = PostBlind(small, bb, BigBlind)
  BY DEF PostBlinds
<1>4. ASSUME NEW k, k \in Game, NEW p, NEW blind
      PROVE  PostBlind(k, p, blind).dealer = k.dealer
  BY <1>4 DEF PostBlind, Pay, Game
<1> HIDE DEF sb, bb, small
<1>5. Keeps(h, small) /\ small.dealer = h.dealer
  BY <1>1, <1>2, <1>4, PostBlindKeeps DEF small
<1>6. Keeps(small, PostBlinds(h)) /\ PostBlinds(h).dealer = small.dealer
  <2>1. small \in Game
    BY <1>5 DEF Keeps
  <2>2. Keeps(small, PostBlind(small, bb, BigBlind))
    BY <1>1, <1>2, <2>1, PostBlindKeeps
  <2>3. PostBlind(small, bb, BigBlind).dealer = small.dealer
    BY <1>4, <2>1
  <2>4. QED
    BY <1>3, <2>2, <2>3
<1>7. QED
  BY <1>5, <1>6, KeepsTransitive

LEMMA FirstToActKeeps ==
    ASSUME NEW h, Playable(h), h.dealer \in 0 .. NumPlayers(h) - 1
    PROVE  Keeps(h, FirstToAct(h))
<1> DEFINE seat == IF NumPlayers(h) = 2 THEN SmallBlindSeat(h)
                   ELSE (BigBlindSeat(h) + 1) % NumPlayers(h)
           placed == [h EXCEPT !.currentPlayer = seat]
<1>1. seat \in 0 .. NumPlayers(h) - 1
  <2> DEFINE n == NumPlayers(h)
  <2>1. n \in Nat \ {0}
    BY SeatedPlayers DEF Playable
  <2>2. SmallBlindSeat(h) \in 0 .. n - 1 /\ BigBlindSeat(h) \in 0 .. n - 1
    BY BlindSeats
  <2>3. seat = IF n = 2 THEN SmallBlindSeat(h) ELSE (BigBlindSeat(h) + 1) % n
    OBVIOUS
  <2> HIDE DEF n, seat
  <2>4. \A k \in Nat : k % n \in 0 .. n - 1
    BY <2>1
  <2>5. seat \in 0 .. n - 1
    BY <2>1, <2>2, <2>3, <2>4
  <2>6. QED
    BY <2>5 DEF n
<1>2. /\ FirstToAct(h) \in {AdvanceToNextPlayer(placed), placed,
                            StartTurn(placed, At(h, seat))}
  BY DEF FirstToAct
<1> HIDE DEF seat
<1>3. Keeps(h, placed)
  <2>1. seat \in Nat \cup {-1}
    BY <1>1, SeatedPlayers DEF Playable
  <2>2. QED
    BY <2>1, CurrentPlayerKeeps DEF Playable
<1>4. At(h, seat) \in Player
  BY <1>1, SeatedPlayers DEF Playable
<1> HIDE DEF placed
<1>5. Playable(placed)
  BY <1>3, KeepsPlayable
<1>6. Keeps(placed, AdvanceToNextPlayer(placed))
  BY <1>5, AdvanceToNextPlayerKeeps
<1>7. Keeps(placed, StartTurn(placed, At(h, seat)))
  BY <1>4, <1>5, StartTurnKeeps DEF Playable
<1>8. QED
  BY <1>2, <1>3, <1>6, <1>7, KeepsTransitive

(* The request for the next hand that is handled was the only one.         *)
LEMMA HandledNextHand ==
    ASSUME HandInv, inbox # <<>>, Head(inbox).type \in NextHandType,
           NEW h, NEW ended, NEW sent, Handled(h, ended, sent), Ordinary(sent)
    PROVE  /\ 1 \in NextHandEvents /\ inbox[1] = Head(inbox)
           /\ NextHandEvents' = {}
           /\ inbox' \in Seq(Event)
           /\ expiries' \in Seq(TimebankEvent)
<1>1. inbox \in Seq(Event)
  BY DEF HandInv, TypeOK
<1>2. 1 \in DOMAIN inbox /\ inbox[1] = Head(inbox)
  BY <1>1
<1>3. 1 \in NextHandEvents
  BY <1>2 DEF NextHandEvents, NextHandType
<1>4. /\ inbox' \in Seq(Event)
      /\ expiries' \in Seq(TimebankEvent)
      /\ \A i \in NextHandEvents' : i + 1 \in NextHandEvents
  BY HandledQueue DEF HandInv
<1>5. ASSUME NEW i \in NextHandEvents' PROVE FALSE
  <2>1. i + 1 = 1
    BY <1>3, <1>4 DEF HandInv, NextHandOrdered
  <2>2. i \in Nat /\ i >= 1
    BY <1>4, LenProperties DEF NextHandEvents
  <2>3. QED
    BY <2>1, <2>2
<1>6. QED
  BY <1>2, <1>3, <1>4, <1>5

LEMMA HandleStartHandStep ==
    ASSUME HandInv, HandleStartHand
    PROVE  GoodStep
<1> DEFINE r == ResetHand(g)
           h == FirstToAct(PostBlinds(r))
           k == MaybeCompleteBettingRound(h)
           ended == IF RoundOutcome(h) = "closed" THEN Player ELSE {}
<1>1. inbox # <<>> /\ Head(inbox).type = "startHand"
  BY DEF HandleStartHand, Receive
<1>2. CASE Reject /\ autoStart' = autoStart
  BY <1>1, <1>2, RejectStep
<1>3. CASE Handled(k, ended, RoundEvents(h)) /\ autoStart' = "off"
  <2>1. g \in Game /\ inbox \in Seq(Event) /\ NumPlayers(g) \in Nat
    BY SeatedPlayers DEF HandInv, TypeOK
  <2>2. 1 \in NextHandEvents /\ inbox[1] = Head(inbox)
    BY <1>1, <2>1 DEF NextHandEvents
  <2>3. NumPlayers(g) >= 2 /\ Playable(g)
    BY <1>1, <2>1, <2>2 DEF HandInv, NextHandOrdered, Playable
  <2>4. /\ Playable(r)
        /\ NumPlayers(r) = NumPlayers(g)
        /\ r.players = g.players
        /\ r.phase \in Streets
        /\ r.dealer \in 0 .. NumPlayers(g) - 1
        /\ \A p \in Seated(g) : r.balance[p] + r.contrib[p] = r.starting[p]
    BY <2>3, ResetHandType
  <2> HIDE DEF r
  <2>5. Keeps(r, h)
    <3>1. Keeps(r, PostBlinds(r)) /\ PostBlinds(r).dealer = r.dealer
      BY <2>4, PostBlindsKeeps
    <3>2. Playable(PostBlinds(r)) /\ NumPlayers(PostBlinds(r)) = NumPlayers(r)
      BY <2>4, <3>1, KeepsPlayable
    <3>3. Keeps(PostBlinds(r), h)
      BY <2>4, <3>1, <3>2, FirstToActKeeps
    <3> HIDE DEF h
    <3>4. QED
      BY <3>1, <3>3, KeepsTransitive
  <2> HIDE DEF h
  <2>6. Keeps(r, k) /\ Ordinary(RoundEvents(h))
    BY <2>5, MaybeCompleteKeeps, KeepsTransitive, RoundEventsOrdinary DEF Keeps
  <2> HIDE DEF k, ended
  <2>7. /\ NextHandEvents' = {}
        /\ inbox' \in Seq(Event)
        /\ expiries' \in Seq(TimebankEvent)
    BY <1>1, <1>3, <2>6, HandledNextHand DEF NextHandType
  <2>8. /\ g' = k /\ blocked' = blocked /\ g' \in Game
        /\ g'.players = g.players /\ g'.phase \in Streets
        /\ NumPlayers(g)' = NumPlayers(g) /\ Seated(g)' = Seated(g)
    BY <1>3, <2>4, <2>6 DEF Handled, Keeps, NumPlayers, Seated
  <2>9. TypeOK'
    BY <1>3, <2>7, <2>8 DEF HandInv, TypeOK
  <2>10. LedgerBalances'
    <3>1. Seated(g) \in SUBSET Player
      BY <2>1, SeatedPlayers
    <3>2. ASSUME NEW p \in Seated(g)
          PROVE  g'.balance[p] + g'.contrib[p] = g'.starting[p]
      BY <2>4, <2>6, <2>8, <3>1 DEF Keeps
    <3>3. QED
      BY <2>8, <3>2 DEF LedgerBalances
  <2>11. NextHandOrdered' /\ FundedForNextHand'
    BY <1>3, <2>3, <2>7, <2>8 DEF NextHandOrdered, FundedForNextHand
  <2>12. Funded(g)
    BY <1>1, <2>2 DEF HandInv, FundedForNextHand
  <2>13. ChipsMove
    <3>1. g.phase \notin Streets
      BY <1>1, <2>2 DEF HandInv, NextHandOrdered
    <3>2. QED
      BY <2>3, <2>6, <2>8, <3>1 DEF ChipsMove, r, h, k
  <2>14. QED
    BY <2>9, <2>10, <2>11, <2>12, <2>13 DEF HandInv, GoodStep
<1>4. QED
  BY <1>2, <1>3 DEF HandleStartHand

(* The players who stay are players.                                       *)
LEMMA StayingType ==
    ASSUME NEW h, h \in Game
    PROVE  Staying(h) \in Seq(Player)
<1> DEFINE seats == {i \in DOMAIN h.players : h.balance[h.players[i]] > 0}
           n == Cardinality(seats)
<1>1. h.players \in Seq(Player)
  BY DEF Game
<1>2. /\ Len(h.players) \in Nat /\ DOMAIN h.players = 1 .. Len(h.players)
      /\ h.players \in [1 .. Len(h.players) -> Player]
  BY <1>1, LenProperties
<1>3. IsFiniteSet(seats) /\ seats \in SUBSET Nat /\ seats \subseteq DOMAIN h.players
  <2>1. IsFiniteSet(1 .. Len(h.players))
    BY <1>2, FS_Interval
  <2>2. seats \in SUBSET (1 .. Len(h.players))
    BY <1>2
  <2>3. 1 .. Len(h.players) \subseteq Nat
    OBVIOUS
  <2> HIDE DEF seats
  <2>4. IsFiniteSet(seats)
    BY <2>1, <2>2, FS_Subset
  <2>5. QED
    BY <1>2, <2>2, <2>3, <2>4
<1>4. Staying(h) = [k \in 1 .. n |-> h.players[Nth(seats, k)]]
  BY DEF Staying
<1> HIDE DEF seats
<1>5. n \in Nat
  BY <1>3, FS_CardinalityType
<1>6. ASSUME NEW k \in 1 .. n PROVE h.players[Nth(seats, k)] \in Player
  <2>1. \E i \in seats : Cardinality({j \in seats : j <= i}) = k
    BY <1>3, NthOfNats
  <2>2. Nth(seats, k) \in seats
    BY <2>1 DEF Nth
  <2>3. QED
    BY <1>2, <1>3, <2>2
<1> HIDE DEF n
<1>7. Staying(h) \in [1 .. n -> Player]
  BY <1>4, <1>6
<1>8. QED
  BY <1>5, <1>7

(* Whoever stays has chips.                                                *)
LEMMA StayingFunded ==
    ASSUME NEW h, h \in Game, NEW k, k = [h EXCEPT !.players = Staying(h)]
    PROVE  Funded(k)
<1> DEFINE seats == {i \in DOMAIN h.players : h.balance[h.players[i]] > 0}
           n == Cardinality(seats)
<1>1. /\ Len(h.players) \in Nat /\ DOMAIN h.players = 1 .. Len(h.players)
  BY LenProperties DEF Game
<1>2. IsFiniteSet(seats) /\ seats \in SUBSET Nat
  <2>1. IsFiniteSet(1 .. Len(h.players))
    <3>1. 1 \in Int /\ Len(h.players) \in Int
      BY <1>1
    <3>2. QED
      BY <3>1, FS_Interval
  <2>2. seats \in SUBSET (1 .. Len(h.players)) /\ 1 .. Len(h.players) \subseteq Nat
    BY <1>1
  <2> HIDE DEF seats
  <2>3. QED
    BY <2>1, <2>2, FS_Subset
<1>3. k.players = [j \in 1 .. n |-> h.players[Nth(seats, j)]] /\ k.balance = h.balance
  BY DEF Staying, Game
<1>4. ASSUME NEW i \in seats PROVE h.balance[h.players[i]] > 0
  OBVIOUS
<1> HIDE DEF seats, n
<1>5. ASSUME NEW j \in 1 .. n PROVE k.balance[k.players[j]] > 0
  <2>1. \E i \in seats : Cardinality({l \in seats : l <= i}) = j
    BY <1>2, NthOfNats DEF n
  <2>2. Nth(seats, j) \in seats
    BY <2>1 DEF Nth
  <2>3. QED
    BY <1>3, <1>4, <2>2
<1>6. ASSUME NEW p \in Seated(k) PROVE \E j \in 1 .. n : p = k.players[j]
  BY <1>3 DEF Seated, Range
<1>7. QED
  BY <1>5, <1>6 DEF Funded

LEMMA HandlePruneStep ==
    ASSUME HandInv, HandlePrune
    PROVE  GoodStep
<1> DEFINE k == [g EXCEPT !.players = Staying(g)]
<1>1. /\ inbox # <<>> /\ Head(inbox).type = "prune"
      /\ g.phase \in Streets \/ (Handled(k, {}, <<>>) /\ autoStart' = "ready")
  BY DEF HandlePrune, Receive
<1>2. 1 \in NextHandEvents /\ inbox[1].type = "prune"
  BY <1>1 DEF NextHandEvents, HandInv, TypeOK
<1>3. g.phase \notin Streets /\ Handled(k, {}, <<>>) /\ autoStart' = "ready"
  BY <1>1, <1>2 DEF HandInv, NextHandOrdered
<1>4. g \in Game /\ Staying(g) \in Seq(Player) /\ Funded(k)
  BY StayingType, StayingFunded DEF HandInv, TypeOK
<1>5. /\ k \in Game /\ k.phase = g.phase /\ k.round = g.round
      /\ k.balance = g.balance
  BY <1>4 DEF Game
<1> HIDE DEF k
<1>6. /\ NextHandEvents' = {}
      /\ inbox' \in Seq(Event)
      /\ expiries' \in Seq(TimebankEvent)
  BY <1>1, <1>3, HandledNextHand, NoEventOrdinary DEF NextHandType
<1>7. g' = k /\ blocked' = blocked
  BY <1>3 DEF Handled
<1>8. TypeOK'
  BY <1>3, <1>5, <1>6, <1>7 DEF HandInv, TypeOK
<1>9. LedgerBalances' /\ NextHandOrdered'
  BY <1>3, <1>5, <1>6, <1>7 DEF LedgerBalances, NextHandOrdered
<1>10. FundedForNextHand'
  BY <1>4, <1>6, <1>7 DEF FundedForNextHand
<1>11. ChipsMove
  BY <1>3, <1>5, <1>7 DEF ChipsMove
<1>12. QED
  BY <1>5, <1>7, <1>8, <1>9, <1>10, <1>11 DEF HandInv, GoodStep

(***************************************************************************)
(* What runs around the machine.                                           *)
(***************************************************************************)
(* Adding an event to the inbox.                                           *)
LEMMA EnqueueType ==
    ASSUME TypeOK, NEW e \in Event, Enqueue(e)
    PROVE  /\ inbox' \in Seq(Event)
           /\ NextHandEvents' = NextHandEvents
                  \cup (IF e.type \in NextHandType THEN {Len(inbox) + 1} ELSE {})
           /\ \A i \in NextHandEvents : inbox'[i] = inbox[i]
           /\ inbox'[Len(inbox) + 1] = e
<1>1. inbox \in Seq(Event) /\ inbox' = Append(inbox, e)
  BY DEF TypeOK, Enqueue
<1>2. /\ inbox' \in Seq(Event)
      /\ Len(inbox') = Len(inbox) + 1
      /\ \A i \in 1 .. Len(inbox) : inbox'[i] = inbox[i]
      /\ inbox'[Len(inbox) + 1] = e
  BY <1>1, AppendProperties
<1>3. /\ Len(inbox) \in Nat
      /\ DOMAIN inbox = 1 .. Len(inbox)
      /\ DOMAIN inbox' = 1 .. Len(inbox) + 1
  BY <1>1, <1>2, LenProperties
<1>4. \A i \in DOMAIN inbox' : i \in DOMAIN inbox \/ i = Len(inbox) + 1
  BY <1>3
<1>5. Len(inbox) + 1 \in DOMAIN inbox' /\ DOMAIN inbox \subseteq DOMAIN inbox'
  BY <1>3
<1>6. QED
  BY <1>2, <1>3, <1>4, <1>5 DEF NextHandEvents, NextHandType

(* What keeps the game and adds ordinary events only keeps the invariant.  *)
LEMMA AroundStep ==
    ASSUME HandInv, Keeps(g, g'), autoStart' = autoStart, blocked' = blocked,
           g'.balance = g.balance,
           inbox' = inbox \/ \E e \in Event : e.type \notin NextHandType /\ Enqueue(e),
           expiries' \in Seq(TimebankEvent)
    PROVE  GoodStep
<1>1. /\ inbox' \in Seq(Event)
      /\ NextHandEvents' = NextHandEvents
      /\ \A i \in NextHandEvents : inbox'[i] = inbox[i]
  <2>1. CASE inbox' = inbox
    BY <2>1 DEF HandInv, TypeOK, NextHandEvents
  <2>2. CASE \E e \in Event : e.type \notin NextHandType /\ Enqueue(e)
    BY <2>2, EnqueueType DEF HandInv
  <2>3. QED
    BY <2>1, <2>2
<1>2. /\ g' \in Game
      /\ g'.players = g.players
      /\ g.phase \in Streets <=> g'.phase \in Streets
      /\ NumPlayers(g)' = NumPlayers(g)
      /\ Seated(g)' = Seated(g)
  BY DEF Keeps, NumPlayers, Seated
<1>3. TypeOK'
  BY <1>1, <1>2 DEF HandInv, TypeOK
<1>4. LedgerBalances'
  <2>1. \A p \in Seated(g) : p \in Player
    BY SeatedPlayers DEF HandInv, TypeOK
  <2>2. QED
    BY <1>2, <2>1 DEF HandInv, LedgerBalances, Keeps
<1>5. NextHandOrdered'
  BY <1>1, <1>2 DEF HandInv, NextHandOrdered
<1>6. FundedForNextHand'
  <2>1. Funded(g) => Funded(g)'
    BY <1>2 DEF Funded
  <2>2. QED
    BY <1>1, <2>1 DEF HandInv, FundedForNextHand
<1>7. ChipsMove
  BY <1>2 DEF ChipsMove
<1>8. QED
  BY <1>2, <1>3, <1>4, <1>5, <1>6, <1>7 DEF HandInv, GoodStep, Keeps

LEMMA ClientRequestStep ==
    ASSUME HandInv, NEW p \in Player, ClientRequest(p)
    PROVE  GoodStep
<1>1. /\ g' = g /\ expiries' = expiries /\ autoStart' = autoStart
      /\ blocked' = blocked
  BY DEF ClientRequest
<1>2. \E e \in Event : e.type \notin NextHandType /\ Enqueue(e)
  <2>1. CASE \E type \in Requests \ {"bet"} : Enqueue([type |-> type, id |-> p])
    <3>1. PICK type \in Requests \ {"bet"} : Enqueue([type |-> type, id |-> p])
      BY <2>1
    <3>2. [type |-> type, id |-> p] \in Event
      BY RequestsAssumption DEF Event
    <3>3. type \notin NextHandType
      BY RequestsAssumption DEF NextHandType
    <3>4. QED
      BY <3>1, <3>2, <3>3
  <2>2. CASE \E amount \in BetAmounts :
                 Enqueue([type |-> "bet", id |-> p, amount |-> amount])
    <3>1. PICK amount \in BetAmounts :
              Enqueue([type |-> "bet", id |-> p, amount |-> amount])
      BY <2>2
    <3>2. [type |-> "bet", id |-> p, amount |-> amount] \in Event
      BY RequestsAssumption DEF Event
    <3>3. QED
      BY <3>1, <3>2 DEF NextHandType
  <2>3. QED
    BY <2>1, <2>2 DEF ClientRequest
<1>3. QED
  BY <1>1, <1>2, SelfKeeps, AroundStep DEF HandInv, TypeOK

LEMMA TimerStep ==
    ASSUME HandInv,
           (\E p \in Player : TimebankFires(p)) \/ ForwardExpiry \/ AdvanceTimerFires
    PROVE  GoodStep
<1>1. /\ g \in Game /\ inbox \in Seq(Event) /\ expiries \in Seq(TimebankEvent)
      /\ Keeps(g, g)
  BY SelfKeeps DEF HandInv, TypeOK
<1>2. ASSUME NEW p \in Player, TimebankFires(p) PROVE GoodStep
  <2>1. Keeps(g, g') /\ g'.balance = g.balance
    BY <1>1, <1>2 DEF TimebankFires, Keeps, Game
  <2>2. expiries' \in Seq(TimebankEvent)
    <3>1. [type |-> "timebank", id |-> p, fresh |-> TRUE] \in TimebankEvent
      BY DEF TimebankEvent
    <3>2. QED
      BY <1>1, <1>2, <3>1, AppendProperties DEF TimebankFires
  <2>3. QED
    BY <1>2, <2>1, <2>2, AroundStep DEF TimebankFires
<1>3. CASE ForwardExpiry
  <2>1. Head(expiries) \in TimebankEvent /\ Tail(expiries) \in Seq(TimebankEvent)
    BY <1>1, <1>3, HeadTailProperties DEF ForwardExpiry
  <2>2. Head(expiries) \in Event /\ Head(expiries).type \notin NextHandType
    BY <2>1, TimebankEventIsEvent DEF TimebankEvent, NextHandType
  <2>3. Enqueue(Head(expiries)) /\ expiries' = Tail(expiries)
        /\ g' = g /\ autoStart' = autoStart /\ blocked' = blocked
    BY <1>3 DEF ForwardExpiry
  <2>4. QED
    BY <1>1, <2>1, <2>2, <2>3, AroundStep
<1>4. CASE AdvanceTimerFires
  <2>1. Keeps(g, g') /\ g'.balance = g.balance
    BY <1>1, <1>4 DEF AdvanceTimerFires, Keeps, Game
  <2>2. [type |-> "advance"] \in Event /\ "advance" \notin NextHandType
    BY DEF Event, NextHandType
  <2>3. QED
    BY <1>1, <1>4, <2>1, <2>2, AroundStep DEF AdvanceTimerFires
<1>5. QED
  BY <1>2, <1>3, <1>4

LEMMA AutoStartStep ==
    ASSUME HandInv, AutoStartFires
    PROVE  GoodStep
<1>1. /\ autoStart = "armed" /\ g' = g /\ expiries' = expiries
      /\ blocked' = blocked
  BY DEF AutoStartFires
<1>2. NextHandEvents = {} /\ g.phase \notin Streets
  BY <1>1 DEF HandInv, NextHandOrdered
<1>3. LedgerBalances'
  BY <1>1, <1>2 DEF LedgerBalances
<1>4. CASE Enqueue([type |-> "prune"]) /\ autoStart' = "pruning"
  <2>1. [type |-> "prune"] \in Event
    BY DEF Event
  <2>2. /\ inbox' \in Seq(Event) /\ NextHandEvents' = {Len(inbox) + 1}
        /\ inbox'[Len(inbox) + 1].type = "prune"
    BY <1>2, <1>4, <2>1, EnqueueType DEF HandInv, NextHandType
  <2>3. TypeOK'
    BY <1>1, <1>4, <2>2 DEF HandInv, TypeOK
  <2>4. NextHandOrdered' /\ FundedForNextHand'
    BY <1>1, <1>2, <1>4, <2>2 DEF NextHandOrdered, FundedForNextHand
  <2>5. QED
    BY <1>1, <1>2, <1>3, <2>3, <2>4 DEF HandInv, GoodStep, ChipsMove
<1>5. CASE /\ inbox' = inbox /\ autoStart' = "ready"
           /\ WithChips(g) = Seated(g)
  <2>1. TypeOK'
    BY <1>1, <1>5 DEF HandInv, TypeOK
  <2>2. NextHandOrdered' /\ FundedForNextHand'
    <3>1. Funded(g)
      BY <1>5 DEF WithChips, Funded
    <3>2. Funded(g)'
      BY <1>1, <3>1 DEF Funded
    <3>3. NextHandEvents' = {}
      BY <1>2, <1>5 DEF NextHandEvents
    <3>4. QED
      BY <1>1, <1>2, <1>5, <3>2, <3>3 DEF NextHandOrdered, FundedForNextHand
  <2>3. QED
    BY <1>1, <1>2, <1>3, <2>1, <2>2 DEF HandInv, GoodStep, ChipsMove
<1>6. QED
  BY <1>4, <1>5 DEF AutoStartFires

(* Two players with chips sit on two seats.                                *)
LEMMA WithChipsSeats ==
    ASSUME NEW h, h \in Game, Cardinality(WithChips(h)) >= 2
    PROVE  NumPlayers(h) >= 2
<1> DEFINE n == Len(h.players)
<1>1. h.players \in Seq(Player)
  BY DEF Game
<1>2. n \in Nat /\ h.players \in Surjection(1 .. n, Seated(h))
  BY <1>1, LenProperties DEF Surjection, Seated, Range
<1>3. /\ IsFiniteSet(1 .. n)
      /\ Cardinality(1 .. n) = IF 1 > n THEN 0 ELSE n - 1 + 1
  <2>1. 1 \in Int /\ n \in Int
    BY <1>2
  <2> HIDE DEF n
  <2>2. QED
    BY <2>1, FS_Interval
<1>4. IsFiniteSet(Seated(h)) /\ Cardinality(Seated(h)) <= Cardinality(1 .. n)
  BY <1>2, <1>3, FS_Surjection
<1>5. WithChips(h) \in SUBSET Seated(h)
  BY DEF WithChips
<1>6. IsFiniteSet(WithChips(h)) /\ Cardinality(WithChips(h)) <= Cardinality(Seated(h))
  BY <1>4, <1>5, FS_Subset
<1>7. Cardinality(WithChips(h)) \in Nat /\ Cardinality(Seated(h)) \in Nat
  BY <1>4, <1>6, FS_CardinalityType
<1> HIDE DEF n
<1>8. n >= 2
  BY <1>2, <1>3, <1>4, <1>6, <1>7
<1>9. QED
  BY <1>8 DEF n, NumPlayers

LEMMA StartNewHandStep ==
    ASSUME HandInv, StartNewHand
    PROVE  GoodStep
<1>1. /\ autoStart = "ready" /\ autoStart' = "off" /\ g' = g
      /\ expiries' = expiries /\ blocked' = blocked
      /\ Enqueue([type |-> "startHand"])
  BY DEF StartNewHand
<1>2. NextHandEvents = {} /\ g.phase \notin Streets
  BY <1>1 DEF HandInv, NextHandOrdered
<1>3. NumPlayers(g) >= 2
  BY WithChipsSeats DEF StartNewHand, HandInv, TypeOK
<1>4. [type |-> "startHand"] \in Event
  BY DEF Event
<1>5. /\ inbox' \in Seq(Event) /\ NextHandEvents' = {Len(inbox) + 1}
      /\ inbox'[Len(inbox) + 1].type = "startHand"
  BY <1>1, <1>2, <1>4, EnqueueType DEF HandInv, NextHandType
<1>6. TypeOK'
  BY <1>1, <1>5 DEF HandInv, TypeOK
<1>7. LedgerBalances' /\ NextHandOrdered'
  BY <1>1, <1>2, <1>3, <1>5 DEF LedgerBalances, NextHandOrdered
<1>8. FundedForNextHand'
  <2>1. Funded(g)
    BY <1>1 DEF HandInv, FundedForNextHand
  <2>2. Funded(g)'
    BY <1>1, <2>1 DEF Funded
  <2>3. QED
    BY <1>1, <2>2 DEF FundedForNextHand
<1>9. QED
  BY <1>1, <1>2, <1>6, <1>7, <1>8 DEF HandInv, GoodStep, ChipsMove

(***************************************************************************)
(* The theorems.                                                           *)
(***************************************************************************)
LEMMA HandInvInit == Init => HandInv
<1> SUFFICES ASSUME Init PROVE HandInv
  OBVIOUS
<1>1. g \in Game
  <2>1. Seats \in Seq(Player) /\ Stacks \in [Player -> Nat] /\ BigBlind \in Nat
    BY PlayersAssumption, BlindsAssumption
  <2>2. QED
    BY <2>1 DEF Init, Game
<1>2. inbox \in Seq(Event) /\ NextHandEvents = {1} /\ inbox[1].type = "startHand"
  <2>1. [type |-> "startHand"] \in Event
    BY DEF Event
  <2>2. QED
    BY <2>1 DEF Init, NextHandEvents
<1>3. expiries \in Seq(TimebankEvent) /\ autoStart = "off" /\ blocked = FALSE
  BY DEF Init
<1>4. g.phase \notin Streets /\ NumPlayers(g) >= 2
  BY PlayersAssumption DEF Init, Streets, NumPlayers
<1>5. Funded(g)
  <2>1. Seated(g) = Range(Seats) /\ g.balance = Stacks /\ Range(Seats) \subseteq Player
    BY PlayersAssumption DEF Init, Seated, Range
  <2>2. QED
    BY <2>1, PlayersAssumption DEF Funded
<1>6. TypeOK /\ LedgerBalances /\ NextHandOrdered
  BY <1>1, <1>2, <1>3, <1>4 DEF TypeOK, LedgerBalances, NextHandOrdered
<1>7. QED
  BY <1>3, <1>5, <1>6 DEF HandInv, FundedForNextHand

LEMMA HandInvNext ==
    ASSUME HandInv, [Next]_vars
    PROVE  GoodStep
<1>1. CASE Machine
  <2>1. CASE HandleFoldReq \/ HandleCheckReq \/ HandleCallReq \/ HandleBetReq
    BY <2>1, HandleRequestStep
  <2>2. CASE HandleTimebankExpired
    BY <2>2, HandleTimebankStep
  <2>3. CASE HandleAdvance
    BY <2>3, HandleAdvanceStep
  <2>4. CASE HandleGotoShowdown
    BY <2>4, HandleGotoShowdownStep
  <2>5. CASE HandleStartHand
    BY <2>5, HandleStartHandStep
  <2>6. CASE HandlePrune
    BY <2>6, HandlePruneStep
  <2>7. QED
    BY <1>1, <2>1, <2>2, <2>3, <2>4, <2>5, <2>6 DEF Machine
<1>2. CASE Timers
  BY <1>2, TimerStep, AutoStartStep, StartNewHandStep DEF Timers
<1>3. CASE \E p \in Player : ClientRequest(p)
  BY <1>3, ClientRequestStep
<1>4. CASE UNCHANGED vars
  <2>1. HandInv'
    BY <1>4 DEF vars, HandInv, TypeOK, LedgerBalances, NextHandOrdered,
                FundedForNextHand, NextHandEvents
  <2>2. ChipsMove
    BY <1>4 DEF vars, HandInv, TypeOK, ChipsMove, Keeps
  <2>3. QED
    BY <1>4, <2>1, <2>2 DEF vars, GoodStep
<1>5. QED
  BY <1>1, <1>2, <1>3, <1>4 DEF Next, Over

(* The inductive invariant holds: types, the ledger of the hand being      *)
(* played, the order of the requests for the next hand and the chips of    *)
(* those it will be dealt to, together.                                    *)
THEOREM HandInvariant == Spec => []HandInv
<1>1. HandInv /\ [Next]_vars => HandInv'
  BY HandInvNext DEF GoodStep
<1>2. QED
  BY HandInvInit, <1>1, PTL DEF Spec

(* Every variable keeps its type, whatever the number of players, the      *)
(* stacks, the blinds and the bets: in particular no stack and no          *)
(* contribution ever becomes negative, and no refund exceeds a bet.        *)
THEOREM TypeCorrect == Spec => []TypeOK
<1>1. HandInv => TypeOK
  BY DEF HandInv
<1>2. QED
  BY HandInvariant, <1>1, PTL

(* While a hand is played, stack and contribution of every player add up   *)
(* to what it started the hand with.                                       *)
THEOREM LedgerAlwaysBalances == Spec => []LedgerBalances
<1>1. HandInv => LedgerBalances
  BY DEF HandInv
<1>2. QED
  BY HandInvariant, <1>1, PTL

(* The next hand is asked for once, between hands, after pruning.          *)
THEOREM NextHandAlwaysOrdered == Spec => []NextHandOrdered
<1>1. HandInv => NextHandOrdered
  BY DEF HandInv
<1>2. QED
  BY HandInvariant, <1>1, PTL

(* Every hand is dealt to players with chips only.                         *)
THEOREM OnlyFundedAlwaysDealtIn == Spec => OnlyFundedDealtIn
<1>1. HandInv /\ [Next]_vars => [g'.round # g.round => Funded(g)]_vars
  BY HandInvNext DEF GoodStep
<1>2. QED
  BY HandInvariant, <1>1, PTL DEF Spec, OnlyFundedDealtIn

(***************************************************************************)
(* Where the chips are.                                                    *)
(***************************************************************************)
(* The sum of two functions on the players.                                *)
LEMMA SumOfPlayers ==
    ASSUME NEW f \in [Player -> Nat], NEW h \in [Player -> Nat]
    PROVE  /\ SumFunction(f) \in Nat
           /\ SumFunction(f) + SumFunction(h)
                = SumFunctionOnSet([p \in Player |-> f[p] + h[p]], Player)
<1>1. IsFiniteSet(Player)
  BY PlayersAssumption
<1>2. SumFunction(f) = SumFunctionOnSet(f, Player)
        /\ SumFunction(h) = SumFunctionOnSet(h, Player)
  BY SumFunctionIs
<1>3. SumFunctionOnSet(f, Player) \in Nat
  <2>1. \A p \in Player : f[p] \in Nat
    OBVIOUS
  <2>2. QED
    BY <1>1, <2>1, SumIsNat
<1>4. PICK k : k = [p \in Player |-> f[p] + h[p]]
  OBVIOUS
<1>5. \A p \in Player : f[p] \in Int /\ h[p] \in Int /\ k[p] = f[p] + h[p]
  BY <1>4
<1>6. SumFunctionOnSet(k, Player) = SumFunctionOnSet(f, Player) + SumFunctionOnSet(h, Player)
  BY <1>1, <1>5, SumAdds
<1>7. QED
  BY <1>2, <1>3, <1>4, <1>6

(* Equal chips player by player, equal chips in all.                       *)
LEMMA KeepsTotal ==
    ASSUME NEW h, h \in Game, NEW k, Keeps(h, k)
    PROVE  SumFunction(k.balance) + SumFunction(k.contrib)
             = SumFunction(h.balance) + SumFunction(h.contrib)
<1>1. /\ h.balance \in [Player -> Nat] /\ h.contrib \in [Player -> Nat]
      /\ k.balance \in [Player -> Nat] /\ k.contrib \in [Player -> Nat]
  BY DEF Keeps, Game
<1>2. [p \in Player |-> k.balance[p] + k.contrib[p]]
        = [p \in Player |-> h.balance[p] + h.contrib[p]]
  BY DEF Keeps
<1>3. PICK a, b, c, d : a = h.balance /\ b = h.contrib /\ c = k.balance /\ d = k.contrib
  OBVIOUS
<1>4. /\ SumFunction(a) + SumFunction(b)
           = SumFunctionOnSet([p \in Player |-> a[p] + b[p]], Player)
      /\ SumFunction(c) + SumFunction(d)
           = SumFunctionOnSet([p \in Player |-> c[p] + d[p]], Player)
  BY <1>1, <1>3, SumOfPlayers
<1>5. [p \in Player |-> c[p] + d[p]] = [p \in Player |-> a[p] + b[p]]
  BY <1>2, <1>3
<1>6. QED
  BY <1>3, <1>4, <1>5

\* The bets in the pot once the uncalled bet has been returned.
Kept(h) ==
    LET contrib == [p \in Seated(h) |-> h.contrib[p]]
        refund == UncalledBet(contrib, Forced(h))
    IN  [contrib EXCEPT ![refund.to] = @ - refund.amount]

(* handleShowdown: every seated player takes back `back`, the rest of its  *)
(* contribution goes into the pots, and the payouts come out of them.      *)
SettledWith(h, k, rank, back, kept, payouts) ==
    LET S == Seated(h)
    IN  /\ back \in [S -> Nat] /\ kept \in [S -> Nat] /\ kept = Kept(h)
        /\ \A p \in S : h.contrib[p] = kept[p] + back[p]
        /\ payouts = DistributePots(RebuildPots(kept, Alive(h)), h.players, rank)
        /\ payouts \in [S -> Nat]
        /\ k.balance = [p \in Player |-> IF p \in S THEN h.balance[p] + back[p] + payouts[p]
                                        ELSE h.balance[p]]

(* A settlement pays the seated players, the unfolded ones among them.     *)
LEMMA SettleShowdown ==
    ASSUME NEW h, h \in Game, NEW rank \in [Seated(h) -> 1 .. NumPlayers(h)]
    PROVE  /\ ShowdownAmong(Seated(h), h.players, rank)
           /\ Alive(h) \in SUBSET Seated(h)
<1>1. h.players \in Seq(Player) /\ NumPlayers(h) \in Nat /\ IsFiniteSet(Seated(h))
  BY SeatedPlayers DEF Game
<1>2. h.players \in Seq(Seated(h)) /\ Range(h.players) = Seated(h)
  BY <1>1 DEF Seated, Range
<1>3. rank \in [Seated(h) -> Nat]
  <2>1. 1 .. NumPlayers(h) \subseteq Nat
    BY <1>1
  <2>2. QED
    BY <2>1
<1>4. QED
  BY <1>1, <1>2, <1>3 DEF ShowdownAmong, Alive

(* A credit adds the amount.                                               *)
LEMMA CreditAdds ==
    ASSUME NEW balance \in Nat, NEW amount \in Nat
    PROVE  Credit(balance, amount) = balance + amount
BY DEF Credit

(* Every settlement is one of these.                                       *)
LEMMA SettlePays ==
    ASSUME NEW h, h \in Game, NEW rank \in [Seated(h) -> 1 .. NumPlayers(h)]
    PROVE  \E back, kept, payouts :
               SettledWith(h, Settle(h, rank), rank, back, kept, payouts)
<1> DEFINE S == Seated(h)
           contrib == [p \in S |-> h.contrib[p]]
           refund == UncalledBet(contrib, Forced(h))
           kept == [contrib EXCEPT ![refund.to] = @ - refund.amount]
           refunded == [h.balance EXCEPT ![refund.to] = Credit(@, refund.amount)]
           payouts == DistributePots(RebuildPots(kept, Alive(h)), h.players, rank)
           paid == [p \in Player |-> IF p \in S THEN Credit(refunded[p], payouts[p])
                                    ELSE refunded[p]]
           back == [p \in S |-> IF p = refund.to THEN refund.amount ELSE 0]
<1>1. /\ S \in SUBSET Player /\ IsFiniteSet(S)
      /\ h.balance \in [Player -> Nat] /\ h.contrib \in [Player -> Nat]
  BY SeatedPlayers DEF Game
<1>2. ShowdownAmong(S, h.players, rank) /\ Alive(h) \in SUBSET S
  BY SettleShowdown
<1>3. Settle(h, rank).balance = paid /\ kept = Kept(h)
  BY DEF Settle, Game, Kept
<1>4. Forced(h) \in [S -> Nat]
  BY BlindsAssumption DEF Forced
<1> HIDE DEF S
<1>5. contrib \in [S -> Nat] /\ \A p \in S : contrib[p] = h.contrib[p]
  BY <1>1
<1> HIDE DEF contrib
<1>6. /\ refund.amount \in Nat
      /\ refund.amount > 0 => refund.to \in S /\ refund.amount <= contrib[refund.to]
  BY <1>1, <1>4, <1>5, RefundWithinBet
<1> HIDE DEF refund
<1>7. back \in [S -> Nat]
  BY <1>6
<1>8. \A p \in S : kept[p] \in Nat /\ contrib[p] = kept[p] + back[p]
  <2>1. TAKE p \in S
  <2>2. contrib[p] \in Nat
    BY <1>5
  <2>3. CASE p = refund.to
    <3>1. kept[p] = contrib[p] - refund.amount /\ back[p] = refund.amount
      BY <1>5, <2>3
    <3>2. refund.amount <= contrib[p]
      BY <1>6, <2>2, <2>3
    <3> HIDE DEF kept, back
    <3>3. QED
      BY <1>6, <2>2, <3>1, <3>2
  <2>4. CASE p # refund.to
    <3>1. kept[p] = contrib[p] /\ back[p] = 0
      BY <1>5, <2>4
    <3> HIDE DEF kept, back
    <3>2. QED
      BY <2>2, <3>1
  <2>5. QED
    BY <2>3, <2>4
<1>9. kept \in [S -> Nat]
  <2>1. kept = [p \in S |-> kept[p]]
    BY <1>5
  <2> HIDE DEF kept
  <2>2. QED
    BY <1>8, <2>1
<1>10. \A p \in Player : refunded[p] = IF p \in S THEN h.balance[p] + back[p]
                                     ELSE h.balance[p]
  <2>1. TAKE p \in Player
  <2>2. h.balance[p] \in Nat
    BY <1>1
  <2>3. CASE p = refund.to
    <3>1. refunded[p] = h.balance[p] + refund.amount
      BY <1>1, <1>6, <2>2, <2>3, CreditAdds
    <3>2. CASE p \in S
      BY <2>3, <3>1, <3>2
    <3>3. CASE p \notin S
      <4>1. refund.amount = 0
        BY <1>6, <2>3, <3>3
      <4>2. QED
        BY <2>2, <3>1, <3>3, <4>1
    <3>4. QED
      BY <3>2, <3>3
  <2>4. CASE p # refund.to
    <3>1. refunded[p] = h.balance[p] /\ (p \in S => back[p] = 0)
      BY <1>1, <2>4
    <3>2. QED
      BY <2>2, <3>1
  <2>5. QED
    BY <2>3, <2>4
<1> HIDE DEF kept, refunded, back
<1>11. payouts \in [S -> Nat]
  BY <1>2, <1>9, PayoutsAddUp
<1> HIDE DEF payouts
<1>12. paid = [p \in Player |-> IF p \in S THEN h.balance[p] + back[p] + payouts[p]
                               ELSE h.balance[p]]
  <2>1. ASSUME NEW p \in S PROVE Credit(refunded[p], payouts[p]) = h.balance[p] + back[p] + payouts[p]
    <3>1. h.balance[p] \in Nat /\ back[p] \in Nat /\ payouts[p] \in Nat
      BY <1>1, <1>7, <1>11
    <3>2. refunded[p] = h.balance[p] + back[p] /\ refunded[p] \in Nat
      BY <1>1, <1>10, <3>1
    <3>3. QED
      BY <3>1, <3>2, CreditAdds
  <2>2. QED
    BY <1>10, <2>1
<1> HIDE DEF paid
<1>13. \A p \in S : h.contrib[p] = kept[p] + back[p]
  BY <1>5, <1>8
<1>14. SettledWith(h, Settle(h, rank), rank, back, kept, payouts)
  BY <1>3, <1>7, <1>9, <1>11, <1>12, <1>13 DEF SettledWith, S, payouts
<1>15. QED
  BY <1>14

(* Players who are not seated add nothing.                                 *)
LEMMA PaddedSum ==
    ASSUME NEW S \in SUBSET Player, NEW f \in [S -> Nat],
           NEW padded \in [Player -> Nat], \A p \in S : padded[p] = f[p],
           \A p \in Player \ S : padded[p] = 0
    PROVE  SumFunction(padded) = SumFunction(f)
<1>1. IsFiniteSet(Player) /\ IsFiniteSet(S) /\ IsFiniteSet(Player \ S)
  BY PlayersAssumption, FS_Subset
<1>2. SumFunction(padded) = SumFunctionOnSet(padded, Player)
        /\ SumFunction(f) = SumFunctionOnSet(f, S)
  BY SumFunctionIs
<1>3. SumFunctionOnSet(padded, Player)
        = SumFunctionOnSet(padded, S) + SumFunctionOnSet(padded, Player \ S)
  <2>1. \A p \in Player : padded[p] \in Int
    OBVIOUS
  <2>2. QED
    BY <1>1, <2>1, SumSplits
<1>4. SumFunctionOnSet(padded, Player \ S) = 0
  <2>1. \A p \in Player \ S : padded[p] = 0
    OBVIOUS
  <2>2. QED
    BY <1>1, <2>1, SumOfZeros
<1>5. SumFunctionOnSet(f, S) = SumFunctionOnSet(padded, S) /\ SumFunctionOnSet(f, S) \in Nat
  <2>1. \A p \in S : f[p] \in Int /\ f[p] = padded[p] /\ f[p] \in Nat
    OBVIOUS
  <2>2. QED
    BY <1>1, <2>1, SumSame, SumIsNat
<1>6. QED
  BY <1>2, <1>3, <1>4, <1>5

(* A settlement gives out no more than the bets; all of them when each pot *)
(* has somebody to win it and only seated players have bet.                *)
LEMMA SettleTotal ==
    ASSUME NEW h, h \in Game, NEW rank \in [Seated(h) -> 1 .. NumPlayers(h)],
           NEW k, NEW back, NEW kept, NEW payouts,
           SettledWith(h, k, rank, back, kept, payouts)
    PROVE  /\ SumFunction(k.balance) <= SumFunction(h.balance) + SumFunction(h.contrib)
           /\ /\ Distributable(RebuildPots(kept, Alive(h)))
              /\ \A p \in Player \ Seated(h) : h.contrib[p] = 0
              => SumFunction(k.balance) = SumFunction(h.balance) + SumFunction(h.contrib)
<1> DEFINE S == Seated(h)
           sound == /\ Distributable(RebuildPots(kept, Alive(h)))
                    /\ \A p \in Player \ S : h.contrib[p] = 0
<1>1. /\ S \in SUBSET Player /\ IsFiniteSet(Player)
      /\ h.balance \in [Player -> Nat] /\ h.contrib \in [Player -> Nat]
  BY SeatedPlayers, PlayersAssumption DEF Game
<1>2. /\ back \in [S -> Nat] /\ kept \in [S -> Nat] /\ payouts \in [S -> Nat]
      /\ \A p \in S : h.contrib[p] = kept[p] + back[p]
      /\ k.balance = [p \in Player |-> IF p \in S THEN h.balance[p] + back[p] + payouts[p]
                                      ELSE h.balance[p]]
  BY DEF SettledWith
<1>3. SumFunction(payouts) = IF Distributable(RebuildPots(kept, Alive(h)))
                             THEN SumFunction(kept) ELSE 0
  BY <1>2, SettleShowdown, PayoutsAddUp DEF SettledWith
<1> HIDE DEF S
<1>4. PICK b0, k0, p0 : /\ b0 = [p \in Player |-> IF p \in S THEN back[p] ELSE 0]
                        /\ k0 = [p \in Player |-> IF p \in S THEN kept[p] ELSE 0]
                        /\ p0 = [p \in Player |-> IF p \in S THEN payouts[p] ELSE 0]
  OBVIOUS
<1>5. /\ b0 \in [Player -> Nat] /\ k0 \in [Player -> Nat] /\ p0 \in [Player -> Nat]
      /\ SumFunction(k0) = SumFunction(kept) /\ SumFunction(p0) = SumFunction(payouts)
  <2>1. b0 \in [Player -> Nat] /\ k0 \in [Player -> Nat] /\ p0 \in [Player -> Nat]
    BY <1>2, <1>4
  <2>2. /\ \A p \in S : k0[p] = kept[p] /\ p0[p] = payouts[p]
        /\ \A p \in Player \ S : k0[p] = 0 /\ p0[p] = 0
    BY <1>1, <1>4
  <2>3. SumFunction(k0) = SumFunction(kept) /\ SumFunction(p0) = SumFunction(payouts)
    BY <1>1, <1>2, <2>1, <2>2, PaddedSum
  <2>4. QED
    BY <2>1, <2>3
<1>6. PICK bal, bets, new, put : /\ bal = h.balance /\ bets = h.contrib /\ new = k.balance
                                 /\ put = [p \in Player |-> k0[p] + b0[p]]
  OBVIOUS
<1>7. /\ bal \in [Player -> Nat] /\ bets \in [Player -> Nat] /\ put \in [Player -> Nat]
      /\ \A p \in Player : put[p] = k0[p] + b0[p] /\ put[p] <= bets[p]
      /\ sound => \A p \in Player : put[p] = bets[p]
  <2>1. bal \in [Player -> Nat] /\ bets \in [Player -> Nat] /\ put \in [Player -> Nat]
    BY <1>1, <1>5, <1>6
  <2>2. \A p \in S : put[p] = bets[p]
    BY <1>1, <1>2, <1>4, <1>6
  <2>3. \A p \in Player \ S : put[p] = 0
    BY <1>4, <1>6
  <2>4. \A p \in Player : put[p] \in Nat /\ bets[p] \in Nat
    BY <2>1
  <2>5. \A p \in Player : put[p] <= bets[p]
    BY <2>2, <2>3, <2>4
  <2>6. QED
    BY <1>6, <2>1, <2>2, <2>3, <2>5
<1>8. PICK got : got = [p \in Player |-> b0[p] + p0[p]]
  OBVIOUS
<1>9. got \in [Player -> Nat] /\ new \in [Player -> Nat]
      /\ \A p \in Player : new[p] = bal[p] + got[p]
  <2>1. ASSUME NEW p \in Player PROVE new[p] = bal[p] + got[p] /\ new[p] \in Nat
    <3>1. bal[p] \in Nat /\ b0[p] \in Nat /\ p0[p] \in Nat
      BY <1>5, <1>7
    <3>2. new[p] = bal[p] + b0[p] + p0[p]
      BY <1>2, <1>4, <1>6, <3>1
    <3>3. QED
      BY <1>8, <3>1, <3>2
  <2>2. got \in [Player -> Nat]
    BY <1>5, <1>8
  <2>3. new = [p \in Player |-> new[p]]
    BY <1>2, <1>6
  <2>4. QED
    BY <2>1, <2>2, <2>3
<1> DEFINE total(f) == SumFunctionOnSet(f, Player)
<1>10. \A f : f \in [Player -> Nat] => SumFunction(f) = total(f) /\ total(f) \in Nat
  <2>1. TAKE f
  <2>2. HAVE f \in [Player -> Nat]
  <2>3. SumFunction(f) = total(f)
    BY <2>2, SumFunctionIs
  <2>4. \A p \in Player : f[p] \in Nat
    BY <2>2
  <2>5. total(f) \in Nat
    BY <1>1, <2>4, SumIsNat
  <2>6. QED
    BY <2>3, <2>5
<1>11. total(new) = total(bal) + total(got)
  <2>1. \A p \in Player : bal[p] \in Int /\ got[p] \in Int /\ new[p] = bal[p] + got[p]
    BY <1>7, <1>9
  <2>2. QED
    BY <1>1, <2>1, SumAdds
<1>12. total(got) = total(b0) + total(p0)
  <2>1. \A p \in Player : b0[p] \in Int /\ p0[p] \in Int /\ got[p] = b0[p] + p0[p]
    BY <1>5, <1>8
  <2>2. QED
    BY <1>1, <2>1, SumAdds
<1>13. total(put) = total(k0) + total(b0)
  <2>1. \A p \in Player : k0[p] \in Int /\ b0[p] \in Int /\ put[p] = k0[p] + b0[p]
    BY <1>5, <1>7
  <2>2. QED
    BY <1>1, <2>1, SumAdds
<1>14. total(put) <= total(bets) /\ (sound => total(put) = total(bets))
  <2>1. \A p \in Player : put[p] \in Int /\ bets[p] \in Int /\ put[p] <= bets[p]
    BY <1>7
  <2>2. total(put) <= total(bets)
    BY <1>1, <2>1, SumMonotone
  <2>3. ASSUME sound PROVE total(put) = total(bets)
    <3>1. \A p \in Player : put[p] \in Int /\ put[p] = bets[p]
      BY <1>7, <2>1, <2>3
    <3>2. QED
      BY <1>1, <3>1, SumSame
  <2>4. QED
    BY <2>2, <2>3
<1>15. total(p0) <= total(k0) /\ (sound => total(p0) = total(k0))
  <2>1. total(k0) \in Nat /\ total(k0) = SumFunction(kept) /\ total(p0) = SumFunction(payouts)
    BY <1>5, <1>10
  <2> HIDE DEF total
  <2>2. QED
    BY <1>3, <2>1
<1>16. /\ total(new) \in Nat /\ total(bal) \in Nat /\ total(bets) \in Nat /\ total(put) \in Nat
       /\ total(k0) \in Nat /\ total(b0) \in Nat /\ total(p0) \in Nat /\ total(got) \in Nat
       /\ SumFunction(k.balance) = total(new) /\ SumFunction(h.balance) = total(bal)
       /\ SumFunction(h.contrib) = total(bets)
  BY <1>5, <1>6, <1>7, <1>9, <1>10
<1> HIDE DEF total, sound
<1>17. total(new) <= total(bal) + total(bets) /\ (sound => total(new) = total(bal) + total(bets))
  BY <1>11, <1>12, <1>13, <1>14, <1>15, <1>16
<1>18. QED
  BY <1>16, <1>17 DEF sound, S

(* A deal moves chips from the stacks to the pot and loses none.           *)
LEMMA DealTotal ==
    ASSUME NEW h, h \in Game, NEW k, k \in Game, Keeps(ResetHand(h), k)
    PROVE  /\ k.phase \in Streets
           /\ SumFunction(k.balance) + SumFunction(k.contrib) = SumFunction(h.balance)
<1>1. PICK r : r = ResetHand(h)
  OBVIOUS
<1>2. /\ r.balance = h.balance /\ r.contrib = [p \in Player |-> 0]
      /\ r.phase \in Streets
  BY <1>1 DEF ResetHand, ResetBettingRound, Game, Streets
<1>3. k.phase \in Streets /\ \A p \in Player : k.balance[p] + k.contrib[p]
                                                   = r.balance[p] + r.contrib[p]
  BY <1>1, <1>2 DEF Keeps
<1>4. PICK bal, new, bets, zero : /\ bal = h.balance /\ new = k.balance /\ bets = k.contrib
                                  /\ zero = [p \in Player |-> 0]
  OBVIOUS
<1>5. /\ bal \in [Player -> Nat] /\ new \in [Player -> Nat] /\ bets \in [Player -> Nat]
      /\ zero \in [Player -> Nat]
  BY <1>4 DEF Game
<1>6. [p \in Player |-> new[p] + bets[p]] = [p \in Player |-> bal[p] + zero[p]]
  BY <1>2, <1>3, <1>4
<1>7. SumFunction(new) + SumFunction(bets) = SumFunction(bal) + SumFunction(zero)
  <2>1. /\ SumFunction(new) + SumFunction(bets)
             = SumFunctionOnSet([p \in Player |-> new[p] + bets[p]], Player)
        /\ SumFunction(bal) + SumFunction(zero)
             = SumFunctionOnSet([p \in Player |-> bal[p] + zero[p]], Player)
    BY <1>5, SumOfPlayers
  <2>2. QED
    BY <1>6, <2>1
<1>8. SumFunction(zero) = 0
  <2>1. IsFiniteSet(Player) /\ (\A p \in Player : zero[p] = 0) /\ DOMAIN zero = Player
    BY <1>4, PlayersAssumption
  <2>2. QED
    BY <2>1, SumOfZeros, SumFunctionIs
<1>9. SumFunction(bal) \in Nat
  BY <1>5, SumOfPlayers
<1>10. QED
  BY <1>3, <1>4, <1>7, <1>8, <1>9

(* One step never adds a chip.                                             *)
LEMMA ChipsNotCreated ==
    ASSUME HandInv, HandInv', ChipsMove
    PROVE  SumFunction(g.balance)' + InPot' <= SumFunction(g.balance) + InPot
<1>1. /\ g \in Game /\ g' \in Game
      /\ g.balance \in [Player -> Nat] /\ g.contrib \in [Player -> Nat]
      /\ g'.balance \in [Player -> Nat] /\ g'.contrib \in [Player -> Nat]
  BY DEF HandInv, TypeOK, Game
<1>2. /\ SumFunction(g.balance) \in Nat /\ SumFunction(g.contrib) \in Nat
      /\ SumFunction(g'.balance) \in Nat /\ SumFunction(g'.contrib) \in Nat
  BY <1>1, SumOfPlayers
<1>3. CASE g.phase \in Streets /\ Keeps(g, g')
  <2>1. g'.phase \in Streets
    BY <1>3 DEF Keeps
  <2>2. SumFunction(g'.balance) + SumFunction(g'.contrib)
          = SumFunction(g.balance) + SumFunction(g.contrib)
    BY <1>1, <1>3, KeepsTotal
  <2>3. QED
    BY <1>2, <1>3, <2>1, <2>2 DEF InPot
<1>4. CASE /\ g.phase \in Streets
           /\ \E rank \in [Seated(g) -> 1 .. NumPlayers(g)] : g' = Settle(g, rank)
  <2>1. PICK rank \in [Seated(g) -> 1 .. NumPlayers(g)] : g' = Settle(g, rank)
    BY <1>4
  <2>2. PICK back, kept, payouts : SettledWith(g, g', rank, back, kept, payouts)
    BY <1>1, <2>1, SettlePays
  <2>3. SumFunction(g'.balance) <= SumFunction(g.balance) + SumFunction(g.contrib)
    BY <1>1, <2>2, SettleTotal
  <2>4. g'.phase \notin Streets
    BY <1>1, <2>1, SettleType DEF Streets
  <2>5. QED
    BY <1>2, <1>4, <2>3, <2>4 DEF InPot
<1>5. CASE g.phase \notin Streets /\ Keeps(ResetHand(g), g')
  <2>1. /\ g'.phase \in Streets
        /\ SumFunction(g'.balance) + SumFunction(g'.contrib) = SumFunction(g.balance)
    BY <1>1, <1>5, DealTotal
  <2>2. QED
    BY <1>2, <1>5, <2>1 DEF InPot
<1>6. CASE g.phase \notin Streets /\ g'.phase \notin Streets /\ g'.balance = g.balance
  BY <1>2, <1>6 DEF InPot
<1>7. QED
  BY <1>3, <1>4, <1>5, <1>6 DEF ChipsMove

(* No chip is ever created: over any number of hands the stacks and the    *)
(* pot never hold more than the players brought.                           *)
THEOREM NoChipsEverCreated == Spec => []NoChipsCreated
<1>1. Init => NoChipsCreated
  <2> SUFFICES ASSUME Init PROVE NoChipsCreated
    OBVIOUS
  <2>1. g.balance = Stacks /\ g.phase \notin Streets
    BY DEF Init, Streets
  <2>2. SumFunction(Stacks) \in Nat
    <3>1. Stacks \in [Player -> Nat]
      BY PlayersAssumption
    <3>2. QED
      BY <3>1, SumOfPlayers
  <2>3. QED
    BY <2>1, <2>2 DEF NoChipsCreated, InPot
<1>2. HandInv /\ NoChipsCreated /\ HandInv' /\ [Next]_vars => NoChipsCreated'
  <2> SUFFICES ASSUME HandInv, NoChipsCreated, HandInv', [Next]_vars PROVE NoChipsCreated'
    OBVIOUS
  <2>1. SumFunction(g.balance)' + InPot' <= SumFunction(g.balance) + InPot
    BY HandInvNext, ChipsNotCreated DEF GoodStep
  <2>2. SumFunction(g.balance) + InPot <= SumFunction(Stacks)
    BY DEF NoChipsCreated
  <2>3. /\ SumFunction(g.balance) \in Nat /\ SumFunction(g.contrib) \in Nat
        /\ SumFunction(g'.balance) \in Nat /\ SumFunction(g'.contrib) \in Nat
        /\ SumFunction(Stacks) \in Nat
    <3>1. /\ g.balance \in [Player -> Nat] /\ g.contrib \in [Player -> Nat]
          /\ g'.balance \in [Player -> Nat] /\ g'.contrib \in [Player -> Nat]
          /\ Stacks \in [Player -> Nat]
      BY PlayersAssumption DEF HandInv, TypeOK, Game
    <3>2. QED
      BY <3>1, SumOfPlayers
  <2>4. InPot \in Nat /\ InPot' \in Nat
    BY <2>3 DEF InPot
  <2>5. SumFunction(g.balance)' + InPot' <= SumFunction(Stacks)
    BY <2>1, <2>2, <2>3, <2>4
  <2>6. QED
    BY <2>5 DEF NoChipsCreated
<1>3. QED
  BY <1>1, <1>2, HandInvariant, PTL DEF Spec

(* What a settlement gives one player, refund included.                    *)
LEMMA SettleCapped ==
    ASSUME NEW h, h \in Game, NEW rank \in [Seated(h) -> 1 .. NumPlayers(h)],
           NEW k, NEW back, NEW kept, NEW payouts,
           SettledWith(h, k, rank, back, kept, payouts),
           Cardinality(Alive(h)) # 1, NEW p \in Seated(h)
    PROVE  k.balance[p] - h.balance[p]
             <= IF p \in Alive(h)
                THEN SumFunction([q \in Seated(h) |-> Lesser(h.contrib[q], h.contrib[p])])
                ELSE h.contrib[p]
<1> DEFINE S == Seated(h)
           alive == Alive(h)
<1>1. /\ S \in SUBSET Player /\ IsFiniteSet(S) /\ alive \in SUBSET S
      /\ h.balance \in [Player -> Nat] /\ h.contrib \in [Player -> Nat]
      /\ ShowdownAmong(S, h.players, rank)
  BY SeatedPlayers, SettleShowdown DEF Game
<1>2. /\ back \in [S -> Nat] /\ kept \in [S -> Nat] /\ payouts \in [S -> Nat]
      /\ \A q \in S : h.contrib[q] = kept[q] + back[q]
      /\ payouts = DistributePots(RebuildPots(kept, alive), h.players, rank)
      /\ k.balance[p] = h.balance[p] + back[p] + payouts[p]
  BY <1>1 DEF SettledWith
<1> HIDE DEF S, alive
<1>3. p \in S
  BY DEF S
<1>4. /\ p \in alive =>
             payouts[p] <= Matched(S, kept, p)
      /\ p \notin alive => payouts[p] = 0
  <2>1. Cardinality(alive) # 1
    BY DEF alive
  <2>2. QED
    BY <1>1, <1>2, <1>3, <2>1, PayoutsCapped
<1>5. PICK gain : gain = k.balance[p] - h.balance[p]
  OBVIOUS
<1>6. /\ gain = back[p] + payouts[p] /\ back[p] \in Nat /\ payouts[p] \in Nat
      /\ h.contrib[p] \in Nat /\ back[p] <= h.contrib[p]
  <2>1. h.balance[p] \in Nat /\ back[p] \in Nat /\ payouts[p] \in Nat /\ kept[p] \in Nat
        /\ h.contrib[p] = kept[p] + back[p]
    BY <1>1, <1>2, <1>3
  <2>2. gain = (h.balance[p] + back[p] + payouts[p]) - h.balance[p]
    BY <1>2, <1>5
  <2>3. QED
    BY <2>1, <2>2
<1>7. CASE p \notin alive
  <2>1. gain <= h.contrib[p]
    BY <1>4, <1>6, <1>7
  <2>2. QED
    BY <1>5, <1>7, <2>1 DEF alive
<1>8. CASE p \in alive
  <2>1. PICK low, own, all :
              /\ low = [q \in S |-> Lesser(kept[q], kept[p])]
              /\ own = [q \in S |-> IF q = p THEN back[p] ELSE 0]
              /\ all = [q \in S |-> Lesser(h.contrib[q], h.contrib[p])]
    OBVIOUS
  <2>2. PICK sum : sum = [q \in S |-> low[q] + own[q]]
    OBVIOUS
  <2>3. ASSUME NEW q \in S
        PROVE  /\ low[q] \in Nat /\ own[q] \in Nat /\ all[q] \in Nat
               /\ sum[q] = low[q] + own[q] /\ sum[q] <= all[q]
    <3>1. /\ kept[q] \in Nat /\ kept[p] \in Nat /\ back[q] \in Nat /\ back[p] \in Nat
          /\ h.contrib[q] = kept[q] + back[q] /\ h.contrib[p] = kept[p] + back[p]
      BY <1>2, <1>3
    <3>2. /\ low[q] = Lesser(kept[q], kept[p])
          /\ own[q] = IF q = p THEN back[p] ELSE 0
          /\ all[q] = Lesser(kept[q] + back[q], kept[p] + back[p])
          /\ sum[q] = low[q] + own[q]
      BY <2>1, <2>2, <3>1
    <3>3. CASE q = p
      <4>1. low[q] = kept[p] /\ own[q] = back[p] /\ all[q] = kept[p] + back[p]
        BY <3>1, <3>2, <3>3 DEF Lesser
      <4>2. QED
        BY <3>1, <3>2, <4>1
    <3>4. CASE q # p
      <4>1. own[q] = 0 /\ low[q] \in Nat /\ all[q] \in Nat /\ low[q] <= all[q]
        BY <3>1, <3>2, <3>4 DEF Lesser
      <4>2. QED
        BY <3>2, <4>1
    <3>5. QED
      BY <3>3, <3>4
  <2>4. SumFunctionOnSet(own, S) = back[p]
    <3>1. SumFunctionOnSet(own, S) = own[p] + SumFunctionOnSet(own, S \ {p})
      <4>1. \A q \in S : own[q] \in Int
        BY <2>3
      <4>2. QED
        BY <1>1, <1>3, <4>1, SumStep
    <3>2. SumFunctionOnSet(own, S \ {p}) = 0
      <4>1. IsFiniteSet(S \ {p}) /\ \A q \in S \ {p} : own[q] = 0
        BY <1>1, <2>1, FS_Subset
      <4>2. QED
        BY <4>1, SumOfZeros
    <3>3. own[p] = back[p]
      BY <1>3, <2>1
    <3>4. QED
      BY <1>6, <3>1, <3>2, <3>3
  <2>5. SumFunctionOnSet(sum, S) = SumFunctionOnSet(low, S) + SumFunctionOnSet(own, S)
    <3>1. \A q \in S : low[q] \in Int /\ own[q] \in Int /\ sum[q] = low[q] + own[q]
      BY <2>3
    <3>2. QED
      BY <1>1, <3>1, SumAdds
  <2>6. SumFunctionOnSet(sum, S) <= SumFunctionOnSet(all, S)
    <3>1. \A q \in S : sum[q] \in Int /\ all[q] \in Int /\ sum[q] <= all[q]
      BY <2>3
    <3>2. QED
      BY <1>1, <3>1, SumMonotone
  <2>7. /\ SumFunctionOnSet(low, S) \in Nat /\ SumFunctionOnSet(all, S) \in Nat
        /\ SumFunctionOnSet(sum, S) \in Nat
    <3>1. \A q \in S : low[q] \in Nat /\ all[q] \in Nat /\ sum[q] \in Nat
      BY <2>3
    <3>2. QED
      BY <1>1, <3>1, SumIsNat
  <2>8. payouts[p] <= SumFunctionOnSet(low, S)
    BY <1>4, <1>8, <2>1 DEF Matched
  <2>9. gain <= SumFunctionOnSet(all, S)
    BY <1>6, <2>4, <2>5, <2>6, <2>7, <2>8
  <2>10. SumFunction(all) = SumFunctionOnSet(all, S)
    BY <2>1, SumFunctionIs
  <2>11. all = [q \in Seated(h) |-> Lesser(h.contrib[q], h.contrib[p])] /\ p \in Alive(h)
    BY <1>8, <2>1 DEF S, alive
  <2>12. QED
    BY <1>5, <2>9, <2>10, <2>11
<1>9. QED
  BY <1>7, <1>8

(* In a showdown between two players or more, each takes from every other  *)
(* no more than it put in itself, and a folded player gets back at most    *)
(* what it put in: the refund of the uncalled bet is never paid twice and  *)
(* no side pot reaches a player who is not in it.                          *)
THEOREM SidePotsAlwaysCap == Spec => SidePotsCapWinnings
<1>1. HandInv /\ [Next]_vars =>
         [SettlesHand /\ Cardinality(Alive(g)) > 1 =>
             \A p \in Seated(g) :
                 Gain(p) <= IF p \in Alive(g) THEN MatchedBy(p) ELSE g.contrib[p]]_vars
  <2> SUFFICES ASSUME HandInv, [Next]_vars, SettlesHand, Cardinality(Alive(g)) > 1,
                      NEW p \in Seated(g)
               PROVE  Gain(p) <= IF p \in Alive(g) THEN MatchedBy(p) ELSE g.contrib[p]
    OBVIOUS
  <2>1. g \in Game /\ ChipsMove
    BY HandInvNext DEF GoodStep, HandInv, TypeOK
  <2>2. g.phase \in Streets /\ g'.phase \notin Streets
    BY DEF SettlesHand, Streets
  <2>3. PICK rank \in [Seated(g) -> 1 .. NumPlayers(g)] : g' = Settle(g, rank)
    BY <2>1, <2>2 DEF ChipsMove, Keeps
  <2>4. PICK back, kept, payouts : SettledWith(g, g', rank, back, kept, payouts)
    BY <2>1, <2>3, SettlePays
  <2>5. Cardinality(Alive(g)) # 1
    OBVIOUS
  <2>6. QED
    BY <2>1, <2>4, <2>5, SettleCapped DEF Gain, MatchedBy
<1>2. QED
  BY <1>1, HandInvariant, PTL DEF Spec, SidePotsCapWinnings

(***************************************************************************)
(* Whose stack a step touches.                                             *)
(***************************************************************************)
\* From h to k no stack grows, and only those of S may have shrunk.
Payers(h, k, S) ==
    \A q \in Player : /\ k.balance[q] <= h.balance[q]
                      /\ q \notin S => k.balance[q] = h.balance[q]

(* Turns, streets and raises leave the stacks alone.                       *)
LEMMA StacksStay ==
    ASSUME NEW h, h \in Game, NEW p
    PROVE  /\ EndTurn(h, p).balance = h.balance
           /\ StartTurn(h, p).balance = h.balance
           /\ MaybeCompleteBettingRound(h).balance = h.balance
           /\ \A total, allIn : RaiseTable(h, total, allIn).balance = h.balance
<1>1. EndTurn(h, p).balance = h.balance
  BY DEF EndTurn, Game
<1>2. StartTurn(h, p).balance = h.balance
  BY DEF StartTurn, Game
<1>3. MaybeCompleteBettingRound(h).balance = h.balance
  BY DEF MaybeCompleteBettingRound, Game
<1>4. \A total, allIn : RaiseTable(h, total, allIn).balance = h.balance
  BY DEF RaiseTable, Game
<1>5. QED
  BY <1>1, <1>2, <1>3, <1>4

(* So does looking for the next player to act.                             *)
LEMMA AdvanceStacks ==
    ASSUME NEW h, h \in Game
    PROVE  AdvanceToNextPlayer(h).balance = h.balance
<1> DEFINE next == FirstFrom(h, h.currentPlayer + 1, Actionable(h))
           moved == [h EXCEPT !.currentPlayer = next]
<1>1. moved.balance = h.balance
  BY DEF Game
<1>2. StartTurn(moved, At(moved, next)).balance = moved.balance
  BY DEF StartTurn, Game
<1>3. AdvanceToNextPlayer(h) \in {h, moved, StartTurn(moved, At(moved, next))}
  BY DEF AdvanceToNextPlayer
<1> HIDE DEF moved
<1>4. QED
  BY <1>1, <1>2, <1>3

(* The end of an action: only what was paid before counts.                 *)
LEMMA ProceedStacks ==
    ASSUME NEW h, Playable(h), NEW p \in Player, Proceed(h, p)
    PROVE  g'.balance = h.balance
<1> DEFINE over == EndTurn(h, p)
           moved == AdvanceToNextPlayer(over)
<1>1. h \in Game
  BY DEF Playable
<1>2. Playable(over) /\ over \in Game /\ over.balance = h.balance
  BY <1>1, EndTurnKeeps, KeepsPlayable, StacksStay DEF Playable
<1> HIDE DEF over
<1>3. moved \in Game /\ moved.balance = over.balance
  BY <1>2, AdvanceToNextPlayerKeeps, AdvanceStacks DEF Keeps
<1>4. g' = MaybeCompleteBettingRound(moved)
  BY DEF Proceed, Handled, moved, over
<1> HIDE DEF moved
<1>5. QED
  BY <1>2, <1>3, <1>4, StacksStay

(* A payment shrinks one stack.                                            *)
LEMMA PayStacks ==
    ASSUME NEW h, h \in Game, NEW p \in Player,
           NEW amount \in Nat, amount <= h.balance[p],
           NEW k, k.balance = Pay(h, p, amount).balance
    PROVE  Payers(h, k, {p})
<1>1. k.balance = [h.balance EXCEPT ![p] = @ - amount] /\ h.balance \in [Player -> Nat]
  BY DEF Pay, Game
<1>2. QED
  BY <1>1 DEF Payers

(* Without a payment no stack moves.                                       *)
LEMMA SameStacks ==
    ASSUME TypeOK, NEW S, g'.balance = g.balance
    PROVE  Payers(g, g', S)
<1>1. \A q \in Player : g.balance[q] \in Nat
  BY DEF TypeOK, Game
<1>2. QED
  BY <1>1 DEF Payers

(* A request of p, or its timebank, takes chips from nobody else.          *)
LEMMA RequestPayers ==
    ASSUME HandInv, NEW p \in Player,
           \/ PlayerFold(p) \/ PlayerCheck(p) \/ PlayerCall(p)
           \/ \E amount \in Nat : PlayerBet(p, amount)
    PROVE  Payers(g, g', {p} \cap Seated(g))
<1>1. g \in Game /\ TypeOK
  BY DEF HandInv, TypeOK
<1>2. CASE g' = g
  BY <1>1, <1>2, SameStacks
<1>3. ASSUME CanAct(p), Proceed(g, p) PROVE g'.balance = g.balance
  BY <1>3, CanActSeated, ProceedStacks
<1>4. CASE PlayerFold(p)
  <2> DEFINE folded == [g EXCEPT !.status[p] = "FOLDED"]
  <2>1. folded \in Game /\ folded.balance = g.balance
    BY <1>1 DEF Game
  <2>2. CASE CanAct(p) /\ g' = EndTurn(folded, p)
    <3>1. EndTurn(folded, p).balance = folded.balance
      <4> HIDE DEF folded
      <4>1. QED
        BY <2>1, StacksStay
    <3>2. QED
      BY <1>1, <2>1, <2>2, <3>1, SameStacks
  <2>3. CASE CanAct(p) /\ Proceed(folded, p)
    <3>1. Playable(folded)
      BY <1>1, <2>3, CanActSeated, FoldKeeps, KeepsPlayable
    <3> HIDE DEF folded
    <3>2. g'.balance = folded.balance
      BY <2>3, <3>1, ProceedStacks
    <3>3. QED
      BY <1>1, <2>1, <3>2, SameStacks
  <2>4. QED
    BY <1>2, <1>4, <2>2, <2>3 DEF PlayerFold, Handled, Reject, Block
<1>5. CASE PlayerCheck(p)
  BY <1>1, <1>2, <1>3, <1>5, SameStacks DEF PlayerCheck, Handled, Reject
<1>6. CASE PlayerCall(p)
  <2> DEFINE delta == Lesser(TableBet - g.bet[p], g.balance[p])
  <2>1. CASE CanAct(p) /\ TableBet > g.bet[p] /\ Proceed(Pay(g, p, delta), p)
    <3>1. TableBet \in Nat /\ p \in Seated(g) /\ Playable(g)
      BY <1>1, <2>1, TableBetType, CanActSeated
    <3>2. delta \in Nat /\ delta <= g.balance[p]
      BY <1>1, <2>1, <3>1 DEF Lesser, Game
    <3> HIDE DEF delta
    <3>3. Playable(Pay(g, p, delta))
      BY <1>1, <3>1, <3>2, PayKeeps, KeepsPlayable
    <3>4. g'.balance = Pay(g, p, delta).balance
      BY <2>1, <3>3, ProceedStacks
    <3>5. Payers(g, g', {p})
      BY <1>1, <3>2, <3>4, PayStacks
    <3>6. {p} \cap Seated(g) = {p}
      BY <3>1
    <3>7. QED
      BY <3>5, <3>6
  <2>2. QED
    BY <1>1, <1>2, <1>3, <1>6, <2>1, SameStacks DEF PlayerCall, Handled, Reject
<1>7. ASSUME NEW amount \in Nat, PlayerBet(p, amount)
      PROVE  Payers(g, g', {p} \cap Seated(g))
  <2> DEFINE delta == Lesser(amount - g.bet[p], g.balance[p])
             total == g.bet[p] + delta
             allIn == delta = g.balance[p]
             paid == Pay(g, p, delta)
  <2>1. CASE CanAct(p) /\ amount >= g.bet[p] /\ Proceed(RaiseTable(paid, total, allIn), p)
    <3>1. p \in Seated(g) /\ Playable(g)
      BY <2>1, CanActSeated
    <3>2. delta \in Nat /\ delta <= g.balance[p] /\ total \in Nat
      <4>1. g.balance[p] \in Nat /\ g.bet[p] \in Nat
        BY <1>1 DEF Game
      <4>2. amount - g.bet[p] \in Nat
        BY <2>1, <4>1
      <4>3. delta \in Nat /\ delta <= g.balance[p]
        BY <4>1, <4>2 DEF Lesser
      <4> HIDE DEF delta
      <4>4. QED
        BY <4>1, <4>3
    <3> HIDE DEF delta, total, allIn
    <3>3. Playable(paid)
      BY <1>1, <3>1, <3>2, PayKeeps, KeepsPlayable
    <3>4. PICK k : k = RaiseTable(paid, total, allIn)
      OBVIOUS
    <3>5. Playable(k) /\ k.balance = paid.balance
      <4> HIDE DEF paid
      <4>1. paid \in Game
        BY <3>3 DEF Playable
      <4>2. Keeps(paid, k)
        BY <3>2, <3>4, <4>1, RaiseTableKeeps
      <4>3. QED
        BY <3>3, <3>4, <4>1, <4>2, KeepsPlayable, StacksStay
    <3>6. g'.balance = paid.balance
      BY <2>1, <3>4, <3>5, ProceedStacks
    <3>7. Payers(g, g', {p})
      BY <1>1, <3>2, <3>6, PayStacks
    <3>8. {p} \cap Seated(g) = {p}
      BY <3>1
    <3>9. QED
      BY <3>7, <3>8
  <2>2. QED
    BY <1>1, <1>2, <1>3, <1>7, <2>1, SameStacks DEF PlayerBet, Handled, Reject, Block
<1>8. QED
  BY <1>4, <1>5, <1>6, <1>7

(* A street is entered without touching a stack.                           *)
LEMMA EnterStreetStacks ==
    ASSUME NEW h, h \in Game, NEW street
    PROVE  EnterStreet(h, street).balance = h.balance
<1> DEFINE reset == [ResetBettingRound(h) EXCEPT !.phase = street]
           running == h.autoAdvance /\ Cardinality(Actionable(h)) <= 1
           actor == IF running THEN -1 ELSE StreetStarter(reset)
           seated == [reset EXCEPT !.currentPlayer = actor,
                                   !.advanceTimer = @ \/ running,
                                   !.autoAdvance = @ /\ ~(running /\ street = "RIVER")]
<1> HIDE DEF actor, running
<1>1. seated.balance = h.balance
  BY DEF ResetBettingRound, Game
<1>2. StartTurn(seated, At(seated, actor)).balance = seated.balance
  BY DEF StartTurn, ResetBettingRound, Game
<1>3. EnterStreet(h, street) \in {seated, StartTurn(seated, At(seated, actor))}
  BY DEF EnterStreet, running, actor
<1> HIDE DEF seated
<1>4. QED
  BY <1>1, <1>2, <1>3

(* While a hand is played a step takes chips from one seated player at     *)
(* most.                                                                   *)
LEMMA StackStep ==
    ASSUME HandInv, [Next]_vars, g.phase \in Streets, g'.phase \in Streets
    PROVE  \/ g'.balance = g.balance
           \/ \E p \in Seated(g) : Payers(g, g', {p})
<1> DEFINE Goal == \/ g'.balance = g.balance
                   \/ \E p \in Seated(g) : Payers(g, g', {p})
<1>0. g \in Game /\ g.balance \in [Player -> Nat] /\ inbox \in Seq(Event)
  BY DEF HandInv, TypeOK, Game
<1>1. ASSUME NEW p \in Player, Payers(g, g', {p} \cap Seated(g)) PROVE Goal
  <2>1. CASE p \in Seated(g)
    <3>1. {p} \cap Seated(g) = {p}
      BY <2>1
    <3>2. QED
      BY <1>1, <2>1, <3>1
  <2>2. CASE p \notin Seated(g)
    <3>1. \A q \in Player : g'.balance[q] = g.balance[q]
      BY <1>1, <2>2 DEF Payers
    <3>2. g'.balance \in [Player -> Nat]
      BY HandInvNext DEF GoodStep, HandInv, TypeOK, Game
    <3>3. QED
      BY <1>0, <3>1, <3>2
  <2>3. QED
    BY <2>1, <2>2
<1>2. CASE HandleFoldReq \/ HandleCheckReq \/ HandleCallReq \/ HandleBetReq
             \/ HandleTimebankExpired
  <2>1. Head(inbox) \in Event /\ Head(inbox).type \in {"fold", "check", "call", "bet", "timebank"}
    <3>1. inbox # <<>> /\ Head(inbox).type \in {"fold", "check", "call", "bet", "timebank"}
      BY <1>2 DEF HandleFoldReq, HandleCheckReq, HandleCallReq, HandleBetReq,
                  HandleTimebankExpired, Receive
    <3>2. QED
      BY <1>0, <3>1, HeadTailProperties
  <2>2. PICK p \in Player : p = Head(inbox).id
    BY <2>1, EventFields
  <2>3. \/ PlayerFold(p) \/ PlayerCheck(p) \/ PlayerCall(p)
        \/ \E amount \in Nat : PlayerBet(p, amount)
        \/ g' = g
    BY <1>2, <2>1, <2>2, EventFields
       DEF HandleFoldReq, HandleCheckReq, HandleCallReq, HandleBetReq,
           HandleTimebankExpired, Receive, Reject, Handled
  <2>4. QED
    BY <1>1, <2>3, RequestPayers
<1>3. ASSUME EnterShowdown PROVE FALSE
  BY <1>0, <1>3, SettleType DEF EnterShowdown, Handled, Streets
<1>4. CASE HandleAdvance
  <2>1. \/ g' = g \/ EnterShowdown
        \/ g' = EnterStreet(g, NextStreet[g.phase])
    BY <1>4 DEF HandleAdvance, Reject, Handled
  <2>2. QED
    BY <1>0, <1>3, <2>1, EnterStreetStacks
<1>5. CASE HandleGotoShowdown
  BY <1>3, <1>5 DEF HandleGotoShowdown, Reject, Handled
<1>6. CASE HandleStartHand \/ HandlePrune
  <2>1. g.phase \notin {"NEW_HAND_DEALING", "SHOWDOWN"}
    BY DEF Streets
  <2>2. QED
    BY <1>6, <2>1 DEF HandleStartHand, HandlePrune, Reject, Handled
<1>7. CASE Timers
  <2>1. ASSUME NEW p \in Player, TimebankFires(p) PROVE g'.balance = g.balance
    BY <1>0, <2>1 DEF TimebankFires, Game
  <2>2. ASSUME AdvanceTimerFires PROVE g'.balance = g.balance
    BY <1>0, <2>2 DEF AdvanceTimerFires, Game
  <2>3. QED
    BY <1>7, <2>1, <2>2 DEF Timers, ForwardExpiry, AutoStartFires, StartNewHand
<1>8. CASE (\E p \in Player : ClientRequest(p)) \/ UNCHANGED vars
  BY <1>8 DEF ClientRequest, vars
<1> HIDE DEF Goal
<1>9. Goal
  BY <1>2, <1>4, <1>5, <1>6, <1>7, <1>8 DEF Next, Machine, Over, Goal
<1>10. QED
  BY <1>9 DEF Goal

(***************************************************************************)
(* The blinds.                                                             *)
(***************************************************************************)
LEMMA BlindStacks ==
    ASSUME NEW h, h \in Game, NEW p \in Player, NEW blind \in Nat \ {0}
    PROVE  /\ PostBlind(h, p, blind) \in Game
           /\ Payers(h, PostBlind(h, p, blind), {p})
           /\ h.balance[p] > 0 => PostBlind(h, p, blind).balance[p] < h.balance[p]
<1> DEFINE amount == Lesser(blind, h.balance[p])
           paid == Pay(h, p, amount)
           bet == Greater(paid.currentBet, amount)
<1>1. /\ amount \in Nat /\ amount <= h.balance[p] /\ h.balance \in [Player -> Nat]
      /\ h.balance[p] > 0 => amount > 0
  BY DEF Lesser, Game
<1> HIDE DEF amount
<1>2. PostBlind(h, p, blind) \in Game
  BY PostBlindKeeps DEF Keeps
<1>3. PostBlind(h, p, blind).balance
        = IF amount = 0 THEN h.balance ELSE [h.balance EXCEPT ![p] = @ - amount]
  <2>1. CASE amount = 0
    BY <2>1 DEF PostBlind, amount
  <2>2. CASE amount # 0
    <3>1. PostBlind(h, p, blind) = [paid EXCEPT !.currentBet = bet]
      BY <2>2 DEF PostBlind, amount
    <3>2. paid.balance = [h.balance EXCEPT ![p] = @ - amount] /\ paid \in Game
      <4>1. paid.balance = [h.balance EXCEPT ![p] = @ - amount]
        BY DEF Pay, Game
      <4>2. QED
        BY <1>1, <4>1, PayKeeps DEF Keeps
    <3> HIDE DEF paid, bet
    <3>3. [paid EXCEPT !.currentBet = bet].balance = paid.balance
      BY <3>2 DEF Game
    <3>4. QED
      BY <2>2, <3>1, <3>2, <3>3
  <2>3. QED
    BY <2>1, <2>2
<1>4. Payers(h, PostBlind(h, p, blind), {p})
  BY <1>1, <1>3 DEF Payers
<1>5. h.balance[p] > 0 => PostBlind(h, p, blind).balance[p] < h.balance[p]
  BY <1>1, <1>3
<1>6. QED
  BY <1>2, <1>4, <1>5

(* Only the blinds pay when a hand is dealt, and one of them at least.     *)
LEMMA DealPayers ==
    ASSUME NEW h, Playable(h), Funded(h), NEW k,
           k = MaybeCompleteBettingRound(FirstToAct(PostBlinds(ResetHand(h))))
    PROVE  \E sb, bb \in Seated(h) : /\ Payers(h, k, {sb, bb})
                                     /\ k.balance[sb] < h.balance[sb]
<1>1. PICK r : r = ResetHand(h)
  OBVIOUS
<1>2. /\ Playable(r) /\ NumPlayers(r) = NumPlayers(h) /\ r.players = h.players
      /\ r.dealer \in 0 .. NumPlayers(r) - 1 /\ r.balance = h.balance
      /\ r \in Game /\ h \in Game
  <2>1. r.balance = h.balance
    BY <1>1 DEF ResetHand, ResetBettingRound, Playable, Game
  <2>2. QED
    BY <1>1, <2>1, ResetHandType DEF Playable
<1>3. PICK sb, bb : sb = At(r, SmallBlindSeat(r)) /\ bb = At(r, BigBlindSeat(r))
  OBVIOUS
<1>4. sb \in Seated(h) /\ bb \in Seated(h) /\ Seated(h) \in SUBSET Player
  BY <1>2, <1>3, BlindSeats, SeatedPlayers DEF Seated
<1>5. PICK small : small = PostBlind(r, sb, SmallBlind)
  OBVIOUS
<1>6. PICK posted : posted = PostBlind(small, bb, BigBlind)
  OBVIOUS
<1>7. /\ small \in Game /\ Payers(r, small, {sb})
      /\ r.balance[sb] > 0 => small.balance[sb] < r.balance[sb]
  BY <1>2, <1>4, <1>5, BlindsAssumption, BlindStacks
<1>8. posted \in Game /\ Payers(small, posted, {bb})
  BY <1>4, <1>6, <1>7, BlindsAssumption, BlindStacks
<1>9. posted = PostBlinds(r)
  BY <1>3, <1>5, <1>6 DEF PostBlinds
<1>10. /\ Playable(posted) /\ posted.dealer \in 0 .. NumPlayers(posted) - 1
  <2>1. Keeps(r, posted) /\ posted.dealer = r.dealer
    BY <1>2, <1>9, PostBlindsKeeps
  <2>2. Playable(posted) /\ NumPlayers(posted) = NumPlayers(r)
    BY <1>2, <2>1, KeepsPlayable
  <2>3. QED
    BY <1>2, <2>1, <2>2
<1>11. k.balance = posted.balance
  <2>1. PICK first : first = FirstToAct(posted)
    OBVIOUS
  <2>2. first \in Game
    BY <1>10, <2>1, FirstToActKeeps DEF Keeps
  <2>3. k.balance = first.balance
    BY <1>1, <1>9, <2>1, <2>2, StacksStay
  <2>4. PICK seat : seat = IF NumPlayers(posted) = 2 THEN SmallBlindSeat(posted)
                           ELSE (BigBlindSeat(posted) + 1) % NumPlayers(posted)
    OBVIOUS
  <2>5. PICK placed : placed = [posted EXCEPT !.currentPlayer = seat]
    OBVIOUS
  <2>6. placed.balance = posted.balance /\ DOMAIN placed = DOMAIN posted
    BY <1>8, <2>5 DEF Game
  <2>7. first \in {AdvanceToNextPlayer(placed), placed, StartTurn(placed, At(posted, seat))}
    BY <2>1, <2>4, <2>5 DEF FirstToAct
  <2>8. AdvanceToNextPlayer(placed).balance = placed.balance
    <3>1. PICK next : next = FirstFrom(placed, placed.currentPlayer + 1, Actionable(placed))
      OBVIOUS
    <3>2. PICK moved : moved = [placed EXCEPT !.currentPlayer = next]
      OBVIOUS
    <3>3. moved.balance = placed.balance /\ DOMAIN moved = DOMAIN placed
      BY <1>8, <2>6, <3>2 DEF Game
    <3>4. StartTurn(moved, At(moved, next)).balance = moved.balance
      BY <1>8, <2>6, <3>3 DEF StartTurn, Game
    <3>5. AdvanceToNextPlayer(placed) \in {placed, moved, StartTurn(moved, At(moved, next))}
      BY <3>1, <3>2 DEF AdvanceToNextPlayer
    <3>6. QED
      BY <3>3, <3>4, <3>5
  <2>9. StartTurn(placed, At(posted, seat)).balance = placed.balance
    BY <1>8, <2>6 DEF StartTurn, Game
  <2>10. QED
    BY <2>3, <2>6, <2>7, <2>8, <2>9
<1>12. \A q \in Player : h.balance[q] \in Nat /\ small.balance[q] \in Nat
                         /\ posted.balance[q] \in Nat
  BY <1>2, <1>7, <1>8 DEF Game
<1>13. Payers(h, k, {sb, bb})
  BY <1>2, <1>7, <1>8, <1>11, <1>12 DEF Payers
<1>14. k.balance[sb] < h.balance[sb]
  <2>1. h.balance[sb] > 0
    BY <1>4 DEF Funded
  <2>2. k.balance[sb] <= small.balance[sb] /\ small.balance[sb] < h.balance[sb]
    BY <1>2, <1>4, <1>7, <1>8, <1>11, <2>1 DEF Payers
  <2>3. QED
    BY <1>4, <1>11, <1>12, <2>2
<1>15. QED
  BY <1>4, <1>13, <1>14

(***************************************************************************)
(* Conservation, and the refinement of the chip ledger.                    *)
(***************************************************************************)
\* Only the players of the hand have bet.
UnseatedOut == g.phase \in Streets => \A p \in Player \ Seated(g) : g.contrib[p] = 0

\* No settlement meets a pot with chips and nobody to win it: what
\* potmanager.go answers to with an error, and an empty distribution.
EveryPotIsWon ==
    [][SettlesHand => Distributable(RebuildPots(Kept(g), Alive(g)))]_vars

(* The hand that is dealt is dealt to funded players.                      *)
LEMMA DealIsFunded ==
    ASSUME HandInv, [Next]_vars, g \in Game, Keeps(ResetHand(g), g')
    PROVE  Funded(g)
<1>1. g'.round = ResetHand(g).round /\ ResetHand(g).round = g.round + 1 /\ g.round \in Nat
  BY DEF Keeps, ResetHand, ResetBettingRound, Game
<1>2. g'.round # g.round
  BY <1>1
<1>3. QED
  BY <1>2, HandInvNext DEF GoodStep

(* What a step does to the chips when no pot is lost.                      *)
LEMMA ConservingStep ==
    ASSUME HandInv, [Next]_vars, HandInv', ChipsMove, UnseatedOut,
           SettlesHand => Distributable(RebuildPots(Kept(g), Alive(g)))
    PROVE  /\ UnseatedOut'
           /\ SumFunction(g.balance)' + InPot' = SumFunction(g.balance) + InPot
<1>1. /\ g \in Game /\ g' \in Game
      /\ g.balance \in [Player -> Nat] /\ g.contrib \in [Player -> Nat]
      /\ g'.balance \in [Player -> Nat] /\ g'.contrib \in [Player -> Nat]
      /\ Seated(g) \in SUBSET Player
  BY SeatedPlayers DEF HandInv, TypeOK, Game
<1>2. /\ SumFunction(g.balance) \in Nat /\ SumFunction(g.contrib) \in Nat
      /\ SumFunction(g'.balance) \in Nat /\ SumFunction(g'.contrib) \in Nat
  BY <1>1, SumOfPlayers
<1>3. CASE g.phase \in Streets /\ Keeps(g, g')
  <2>1. g'.phase \in Streets /\ Seated(g)' = Seated(g)
    BY <1>3 DEF Keeps, Seated
  <2>2. SumFunction(g'.balance) + SumFunction(g'.contrib)
          = SumFunction(g.balance) + SumFunction(g.contrib)
    BY <1>1, <1>3, KeepsTotal
  <2>3. ASSUME NEW p \in Player \ Seated(g) PROVE g'.contrib[p] = 0
    <3>1. g'.balance[p] = g.balance[p]
      BY <1>3, <2>1, StackStep DEF Payers
    <3>2. g'.balance[p] + g'.contrib[p] = g.balance[p] + g.contrib[p]
      BY <1>3 DEF Keeps
    <3>3. g.contrib[p] = 0 /\ g.balance[p] \in Nat /\ g'.contrib[p] \in Nat
      BY <1>1, <1>3 DEF UnseatedOut
    <3>4. QED
      BY <3>1, <3>2, <3>3
  <2>4. QED
    BY <1>2, <1>3, <2>1, <2>2, <2>3 DEF InPot, UnseatedOut
<1>4. CASE /\ g.phase \in Streets
           /\ \E rank \in [Seated(g) -> 1 .. NumPlayers(g)] : g' = Settle(g, rank)
  <2>1. PICK rank \in [Seated(g) -> 1 .. NumPlayers(g)] : g' = Settle(g, rank)
    BY <1>4
  <2>2. PICK back, kept, payouts : SettledWith(g, g', rank, back, kept, payouts)
    BY <1>1, <2>1, SettlePays
  <2>3. g'.phase = "SHOWDOWN"
    BY <1>1, <2>1, SettleType
  <2>4. kept = Kept(g) /\ Distributable(RebuildPots(Kept(g), Alive(g)))
    BY <1>4, <2>2, <2>3 DEF SettledWith, SettlesHand
  <2>5. \A p \in Player \ Seated(g) : g.contrib[p] = 0
    BY <1>4 DEF UnseatedOut
  <2>6. SumFunction(g'.balance) = SumFunction(g.balance) + SumFunction(g.contrib)
    BY <1>1, <2>2, <2>4, <2>5, SettleTotal
  <2>7. QED
    BY <1>2, <1>4, <2>3, <2>6 DEF InPot, UnseatedOut, Streets
<1>5. CASE /\ g.phase \notin Streets /\ NumPlayers(g) >= 2
           /\ g' = MaybeCompleteBettingRound(FirstToAct(PostBlinds(ResetHand(g))))
           /\ Keeps(ResetHand(g), g')
  <2>1. /\ g'.phase \in Streets
        /\ SumFunction(g'.balance) + SumFunction(g'.contrib) = SumFunction(g.balance)
    BY <1>1, <1>5, DealTotal
  <2>2. ASSUME NEW p \in Player \ Seated(g)' PROVE g'.contrib[p] = 0
    <3>1. PICK r : r = ResetHand(g)
      OBVIOUS
    <3>2. r.balance = g.balance /\ r.contrib = [q \in Player |-> 0] /\ r.players = g.players
      BY <1>1, <3>1 DEF ResetHand, ResetBettingRound, Game
    <3>3. /\ g'.balance[p] + g'.contrib[p] = g.balance[p] + 0
          /\ Seated(g)' = Seated(g)
      BY <1>5, <3>1, <3>2 DEF Keeps, Seated
    <3>4. g'.balance[p] = g.balance[p]
      <4>1. Playable(g) /\ Funded(g)
        <5>1. NumPlayers(g) \in Nat
          BY <1>1, SeatedPlayers
        <5>2. Funded(g)
          BY <1>1, <1>5, DealIsFunded
        <5>3. QED
          BY <1>1, <1>5, <5>1, <5>2 DEF Playable
      <4>2. QED
        BY <1>5, <3>3, <4>1, DealPayers DEF Payers
    <3>5. QED
      BY <1>1, <3>3, <3>4
  <2>3. QED
    BY <1>2, <1>5, <2>1, <2>2 DEF InPot, UnseatedOut
<1>6. CASE g.phase \notin Streets /\ g'.phase \notin Streets /\ g'.balance = g.balance
  BY <1>2, <1>6 DEF InPot, UnseatedOut
<1>7. QED
  BY <1>3, <1>4, <1>5, <1>6 DEF ChipsMove

(* The same over a whole behaviour: the chips change only when a pot is    *)
(* lost.                                                                   *)
LEMMA ChipsInvariant == Spec /\ EveryPotIsWon => [](UnseatedOut /\ ChipsConserved)
<1>1. Init => UnseatedOut /\ ChipsConserved
  <2> SUFFICES ASSUME Init PROVE UnseatedOut /\ ChipsConserved
    OBVIOUS
  <2>1. g.balance = Stacks /\ g.phase \notin Streets
    BY DEF Init, Streets
  <2>2. SumFunction(Stacks) \in Nat
    <3>1. Stacks \in [Player -> Nat]
      BY PlayersAssumption
    <3>2. QED
      BY <3>1, SumOfPlayers
  <2>3. QED
    BY <2>1, <2>2 DEF UnseatedOut, ChipsConserved, InPot
<1>2. /\ HandInv /\ HandInv' /\ [Next]_vars
      /\ UnseatedOut /\ ChipsConserved
      /\ [SettlesHand => Distributable(RebuildPots(Kept(g), Alive(g)))]_vars
      => UnseatedOut' /\ ChipsConserved'
  <2> SUFFICES ASSUME HandInv, HandInv', [Next]_vars, UnseatedOut, ChipsConserved,
                      [SettlesHand => Distributable(RebuildPots(Kept(g), Alive(g)))]_vars
               PROVE  UnseatedOut' /\ ChipsConserved'
    OBVIOUS
  <2>1. CASE UNCHANGED vars
    BY <2>1 DEF vars, UnseatedOut, ChipsConserved, InPot, Seated
  <2>2. CASE SettlesHand => Distributable(RebuildPots(Kept(g), Alive(g)))
    <3>1. ChipsMove
      BY HandInvNext DEF GoodStep
    <3>2. /\ UnseatedOut'
          /\ SumFunction(g.balance)' + InPot' = SumFunction(g.balance) + InPot
      BY <2>2, <3>1, ConservingStep
    <3>3. QED
      BY <3>2 DEF ChipsConserved
  <2>3. QED
    BY <2>1, <2>2
<1>3. QED
  BY <1>1, <1>2, HandInvariant, PTL DEF Spec, EveryPotIsWon

(* Chips are conserved over any number of hands as long as every pot with  *)
(* chips in it has a player to win it: a lost pot is the only way for a    *)
(* chip to leave the table.                                                *)
THEOREM ChipsLostOnlyWithPot == Spec /\ EveryPotIsWon => []ChipsConserved
BY ChipsInvariant, PTL

(* The ledger's sums are the model's.                                      *)
LEMMA LedgerTotal == \A f : Ledger!Total(f) = SumFunction(f)
BY DEF Ledger!Total, SumFunction, Ledger!SumFunction, SumFunctionOnSet,
       Ledger!SumFunctionOnSet, FoldFunctionOnSet, Ledger!FoldFunctionOnSet,
       MapThenFoldSet, Ledger!MapThenFoldSet

(* The ledger's counts are the model's.                                    *)
LEMMA LedgerCardinality == \A D : Ledger!Cardinality(D) = Cardinality(D)
BY DEF Cardinality, Ledger!Cardinality

(* A set of one or two of two players.                                     *)
LEMMA OneOrTwo ==
    ASSUME NEW D, NEW a \in D, NEW b, D \subseteq {a, b}
    PROVE  Cardinality(D) \in 1 .. 2
<1>1. D = {a} \/ D = {a, b}
  OBVIOUS
<1>2. IsFiniteSet({a}) /\ Cardinality({a}) = 1
  BY FS_Singleton
<1>3. IsFiniteSet({a} \cup {b}) /\ Cardinality({a} \cup {b}) \in {1, 2}
  BY <1>2, FS_AddElement
<1>4. {a, b} = {a} \cup {b}
  OBVIOUS
<1>5. QED
  BY <1>1, <1>2, <1>3, <1>4

(* Every step of the hand is a step of the ledger or leaves it unchanged.  *)
LEMMA LedgerStep ==
    ASSUME HandInv, [Next]_vars, HandInv', ChipsMove, UnseatedOut,
           SettlesHand => Distributable(RebuildPots(Kept(g), Alive(g)))
    PROVE  [Ledger!Next]_(Ledger!ledger)
<1>1. /\ g \in Game /\ g' \in Game
      /\ g.balance \in [Player -> Nat] /\ g.contrib \in [Player -> Nat]
      /\ g'.balance \in [Player -> Nat] /\ g'.contrib \in [Player -> Nat]
      /\ Seated(g) \in SUBSET Player
  BY SeatedPlayers DEF HandInv, TypeOK, Game
<1>2. /\ SumFunction(g.balance) \in Nat /\ SumFunction(g'.balance) \in Nat
      /\ InPot \in Nat /\ InPot' \in Nat
  BY <1>1, SumOfPlayers DEF InPot
<1>3. SumFunction(g'.balance) + InPot' = SumFunction(g.balance) + InPot
  BY ConservingStep
<1>4. /\ Ledger!Total(g.balance) = SumFunction(g.balance)
      /\ Ledger!Total(g'.balance) = SumFunction(g'.balance)
  BY LedgerTotal
<1>5. InPot' = InPot + SumFunction(g.balance) - SumFunction(g'.balance)
  BY <1>2, <1>3
<1>6. ASSUME NEW S, Payers(g, g', S) PROVE Ledger!PutIn
  <2>1. \A p \in Player : g.balance[p] \in Nat /\ g'.balance[p] \in Nat
    BY <1>1
  <2>2. \A p \in Player : g'.balance[p] \in 0 .. g.balance[p]
    BY <1>6, <2>1 DEF Payers
  <2>3. QED
    BY <1>4, <1>5, <2>2 DEF Ledger!PutIn
<1>7. ASSUME g'.balance = g.balance, g.phase \in Streets <=> g'.phase \in Streets
      PROVE  UNCHANGED Ledger!ledger
  <2>1. InPot' = InPot
    BY <1>2, <1>3, <1>7
  <2>2. QED
    BY <1>7, <2>1 DEF Ledger!ledger
<1>8. CASE g.phase \in Streets /\ Keeps(g, g')
  <2>1. g'.phase \in Streets
    BY <1>8 DEF Keeps
  <2>2. CASE g'.balance = g.balance
    BY <1>7, <1>8, <2>1, <2>2
  <2>3. ASSUME NEW p \in Seated(g), Payers(g, g', {p})
        PROVE  Ledger!Wager(p)
    <3>1. Ledger!PutIn
      BY <1>6, <2>3
    <3>2. \A q \in Player \ {p} : g'.balance[q] = g.balance[q]
      BY <2>3 DEF Payers
    <3>3. QED
      BY <1>8, <2>1, <3>1, <3>2 DEF Ledger!Wager
  <2>4. QED
    BY <1>1, <1>8, <2>1, <2>2, <2>3, StackStep DEF Ledger!Next
<1>9. CASE /\ g.phase \in Streets
           /\ \E rank \in [Seated(g) -> 1 .. NumPlayers(g)] : g' = Settle(g, rank)
  <2>1. PICK rank \in [Seated(g) -> 1 .. NumPlayers(g)] : g' = Settle(g, rank)
    BY <1>9
  <2>2. PICK back, kept, payouts : SettledWith(g, g', rank, back, kept, payouts)
    BY <1>1, <2>1, SettlePays
  <2>3. g'.phase \notin Streets
    BY <1>1, <2>1, SettleType DEF Streets
  <2>4. ASSUME NEW p \in Player PROVE g'.balance[p] >= g.balance[p]
    <3>1. /\ g.balance[p] \in Nat
          /\ p \in Seated(g) => back[p] \in Nat /\ payouts[p] \in Nat
          /\ g'.balance[p] = IF p \in Seated(g) THEN g.balance[p] + back[p] + payouts[p]
                             ELSE g.balance[p]
      BY <1>1, <2>2 DEF SettledWith
    <3>2. QED
      BY <3>1
  <2>5. InPot' = 0
    BY <2>3 DEF InPot
  <2>6. SumFunction(g'.balance) = SumFunction(g.balance) + InPot
    BY <1>2, <1>3, <2>5
  <2>7. Ledger!Settle
    BY <1>4, <1>9, <2>3, <2>4, <2>5, <2>6 DEF Ledger!Settle
  <2>8. QED
    BY <2>7 DEF Ledger!Next
<1>10. CASE /\ g.phase \notin Streets /\ NumPlayers(g) >= 2
            /\ g' = MaybeCompleteBettingRound(FirstToAct(PostBlinds(ResetHand(g))))
            /\ Keeps(ResetHand(g), g')
  <2>1. g'.phase \in Streets
    BY <1>1, <1>10, DealTotal
  <2>2. Playable(g) /\ Funded(g)
    <3>1. NumPlayers(g) \in Nat
      BY <1>1, SeatedPlayers
    <3>2. Funded(g)
      BY <1>1, <1>10, DealIsFunded
    <3>3. QED
      BY <1>1, <1>10, <3>1, <3>2 DEF Playable
  <2>3. PICK sb, bb \in Seated(g) : /\ Payers(g, g', {sb, bb})
                                    /\ g'.balance[sb] < g.balance[sb]
    BY <1>10, <2>2, DealPayers
  <2>4. PICK paying : paying = {p \in Player : g'.balance[p] # g.balance[p]}
    OBVIOUS
  <2>5. paying \subseteq {sb, bb} /\ sb \in paying
    <3>1. g'.balance[sb] \in Nat /\ g.balance[sb] \in Nat
      BY <1>1
    <3>2. QED
      BY <1>1, <2>3, <2>4, <3>1 DEF Payers
  <2>6. Cardinality(paying) \in 1 .. 2
    BY <2>5, OneOrTwo
  <2>7. Ledger!PutIn
    BY <1>6, <2>3
  <2>8. InPot = 0
    BY <1>10 DEF InPot
  <2>9. Ledger!OpenHand
    BY <1>10, <2>1, <2>4, <2>6, <2>7, <2>8, LedgerCardinality DEF Ledger!OpenHand
  <2>10. QED
    BY <2>9 DEF Ledger!Next
<1>11. CASE g.phase \notin Streets /\ g'.phase \notin Streets /\ g'.balance = g.balance
  BY <1>7, <1>11
<1>12. QED
  BY <1>8, <1>9, <1>10, <1>11 DEF ChipsMove

(* The hand implements the chip ledger: blinds open a hand, each step takes *)
(* chips from one stack at most, and one settlement gives the whole pot    *)
(* back -- as long as every pot with chips in it has a player to win it.   *)
THEOREM HandImplementsLedger == Spec /\ EveryPotIsWon => ImplementsLedger
<1>1. Init => Ledger!Init
  BY DEF Init, Ledger!Init, InPot, Streets
<1>2. /\ HandInv /\ HandInv' /\ [Next]_vars /\ UnseatedOut
      /\ [SettlesHand => Distributable(RebuildPots(Kept(g), Alive(g)))]_vars
      => [Ledger!Next]_(Ledger!ledger)
  <2> SUFFICES ASSUME HandInv, HandInv', [Next]_vars, UnseatedOut,
                      [SettlesHand => Distributable(RebuildPots(Kept(g), Alive(g)))]_vars
               PROVE  [Ledger!Next]_(Ledger!ledger)
    OBVIOUS
  <2>1. CASE UNCHANGED vars
    BY <2>1 DEF vars, Ledger!ledger, InPot
  <2>2. CASE SettlesHand => Distributable(RebuildPots(Kept(g), Alive(g)))
    BY <2>2, HandInvNext, LedgerStep DEF GoodStep
  <2>3. QED
    BY <2>1, <2>2
<1>3. QED
  BY <1>1, <1>2, HandInvariant, ChipsInvariant, PTL
     DEF Spec, EveryPotIsWon, ImplementsLedger, Ledger!Spec
=============================================================================
