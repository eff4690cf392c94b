------------------------------ MODULE TurnProofs ------------------------------
(***************************************************************************)
(* Theorems about whose turn it is in the Game state machine: a hand in    *)
(* progress always has something that moves it, the machine blocks only    *)
(* when nothing is left to decide, and without timebanks only the current  *)
(* player has the turn.                                                    *)
(***************************************************************************)
EXTENDS HandProofs

(***************************************************************************)
(* Finding a seat.                                                         *)
(***************************************************************************)
(* FirstFrom looks at every seat before it gives up, from a start less     *)
(* than two rounds ahead, and what it finds is in the set.                 *)
LEMMA FirstFromFinds ==
    ASSUME NEW h, Playable(h), NEW start \in 0 .. 2 * NumPlayers(h) - 1, NEW S
    PROVE  IF FirstFrom(h, start, S) = -1
           THEN Seated(h) \cap S = {}
           ELSE /\ FirstFrom(h, start, S) \in 0 .. NumPlayers(h) - 1
                /\ At(h, FirstFrom(h, start, S)) \in S
<1> DEFINE n == NumPlayers(h)
           hits == {k \in 0 .. n - 1 : At(h, (start + k) % n) \in S}
<1>1. n \in Nat \ {0} /\ start \in 0 .. 2 * n - 1
  BY SeatedPlayers DEF Playable
<1>2. FirstFrom(h, start, S) = IF hits = {} THEN -1 ELSE (start + Min(hits)) % n
  BY DEF FirstFrom
<1>3. CASE hits = {}
  <2>1. FirstFrom(h, start, S) = -1
    BY <1>2, <1>3
  <2>2. ASSUME NEW i \in 0 .. n - 1 PROVE At(h, i) \notin S
    <3> HIDE DEF n, hits
    <3>1. \E k \in 0 .. n - 1 : (start + k) % n = i
      <4>1. i % n = i
        BY <1>1, <2>2
      <4>2. (i + n) % n = i
        BY <1>1, <2>2
      <4>3. (i + 2 * n) % n = i
        BY <1>1, <2>2
      <4>4. CASE start <= i
        <5>1. i - start \in 0 .. n - 1 /\ start + (i - start) = i
          BY <1>1, <2>2, <4>4
        <5>2. QED
          BY <4>1, <5>1
      <4>5. CASE start > i /\ start <= i + n
        <5>1. i + n - start \in 0 .. n - 1 /\ start + (i + n - start) = i + n
          BY <1>1, <2>2, <4>5
        <5>2. QED
          BY <4>2, <5>1
      <4>6. CASE start > i + n
        <5>1. i + 2 * n - start \in 0 .. n - 1
              /\ start + (i + 2 * n - start) = i + 2 * n
          BY <1>1, <2>2, <4>6
        <5>2. QED
          BY <4>3, <5>1
      <4>7. QED
        BY <1>1, <2>2, <4>4, <4>5, <4>6
    <3>2. QED
      BY <1>3, <3>1 DEF hits
  <2>3. ASSUME NEW q \in Seated(h) PROVE \E i \in 0 .. n - 1 : At(h, i) = q
    <3>1. PICK j \in DOMAIN h.players : h.players[j] = q
      BY <2>3 DEF Seated, Range
    <3>2. j \in 1 .. n /\ n = Len(h.players)
      BY <3>1, LenProperties DEF Playable, Game, NumPlayers
    <3> HIDE DEF n
    <3>3. j - 1 \in 0 .. n - 1 /\ (j - 1) + 1 = j
      BY <1>1, <3>2
    <3>4. QED
      BY <3>1, <3>3 DEF At
  <2>4. QED
    BY <2>1, <2>2, <2>3
<1>4. CASE hits # {}
  <2> HIDE DEF n
  <2>1. hits \in SUBSET Nat
    BY <1>1
  <2>2. Min(hits) \in hits
    <3> HIDE DEF hits
    <3>1. QED
      BY <1>4, <2>1, MinOfNats
  <2>3. /\ Min(hits) \in 0 .. n - 1
        /\ At(h, (start + Min(hits)) % n) \in S
    BY <2>2
  <2> HIDE DEF hits
  <2>4. (start + Min(hits)) % n \in 0 .. n - 1
    BY <1>1, <2>3
  <2>5. FirstFrom(h, start, S) = (start + Min(hits)) % n
    BY <1>2, <1>4
  <2>6. FirstFrom(h, start, S) # -1
    BY <1>1, <2>4, <2>5
  <2>7. QED
    BY <2>3, <2>4, <2>5, <2>6 DEF n
<1>5. QED
  BY <1>3, <1>4

(***************************************************************************)
(* The current player and the turn, in one game.                           *)
(***************************************************************************)
\* Nothing that tells who is in the hand and who owes what has changed.
SameHand(h, k) ==
    /\ k.players = h.players
    /\ k.status = h.status
    /\ k.bet = h.bet
    /\ k.currentBet = h.currentBet

LEMMA SameHandSame ==
    ASSUME NEW h, NEW k, SameHand(h, k)
    PROVE  /\ NumPlayers(k) = NumPlayers(h) /\ Seated(k) = Seated(h)
           /\ \A i : At(k, i) = At(h, i)
           /\ Actionable(k) = Actionable(h) /\ AllIn(k) = AllIn(h)
           /\ Alive(k) = Alive(h)
           /\ EffectiveBet(k) = EffectiveBet(h) /\ Unmatched(k) = Unmatched(h)
           /\ ShouldSkipTurnTimer(k) <=> ShouldSkipTurnTimer(h)
<1>1. /\ NumPlayers(k) = NumPlayers(h) /\ Seated(k) = Seated(h)
      /\ \A i : At(k, i) = At(h, i)
  BY DEF SameHand, NumPlayers, Seated, At
<1>2. Actionable(k) = Actionable(h) /\ AllIn(k) = AllIn(h) /\ Alive(k) = Alive(h)
  BY <1>1 DEF SameHand, Actionable, AllIn, Alive
<1>3. EffectiveBet(k) = EffectiveBet(h)
  BY <1>2 DEF SameHand, EffectiveBet
<1>4. Unmatched(k) = Unmatched(h)
  BY <1>2, <1>3 DEF SameHand, Unmatched
<1>5. ShouldSkipTurnTimer(k) <=> ShouldSkipTurnTimer(h)
  BY <1>2, <1>4 DEF ShouldSkipTurnTimer
<1>6. QED
  BY <1>1, <1>2, <1>3, <1>4, <1>5

\* One player is left, or nobody is left who can act.
Decided(h) == Cardinality(Alive(h)) = 1 \/ Actionable(h) = {}

\* Who has the turn is still in the hand and has chips.
TurnsInGame(h) == \A p \in h.turn : h.status[p] = "IN_GAME"

\* The current player has not folded, unless nothing is left to decide.
CurrentPlays(h) ==
    \A p \in Player : IsCurrent(h, p) /\ h.status[p] = "FOLDED" => Decided(h)

\* The current player has the turn, and its timebank runs.
HasTurn(h) == \E p \in h.turn : IsCurrent(h, p) /\ p \in h.timer

\* The game after the search for the next player.
Placed(h) ==
    /\ TurnsInGame(h)
    /\ CurrentPlays(h)
    /\ ShouldSkipTurnTimer(h) \/ HasTurn(h)

(* The next player is one who can act, and gets the turn unless there is   *)
(* nobody to bet against; when nobody can act nothing changes.             *)
LEMMA AdvancePlaces ==
    ASSUME NEW h, Playable(h), h.currentPlayer \in -1 .. NumPlayers(h) - 1,
           TurnsInGame(h),
           NEW m, m = AdvanceToNextPlayer(h)
    PROVE  /\ Placed(m) /\ SameHand(h, m) /\ Keeps(h, m)
           /\ m.advanceTimer = h.advanceTimer /\ m.autoAdvance = h.autoAdvance
           /\ m.phase = h.phase /\ m.dealer = h.dealer
           /\ Actionable(h) = {} => m = h
           /\ ShouldSkipTurnTimer(h) => m.turn = h.turn /\ m.timer = h.timer
           /\ Actionable(h) # {} =>
                  \E q \in Actionable(h) :
                      /\ IsCurrent(m, q)
                      /\ m.turn \subseteq h.turn \cup {q}
                      /\ m.timer \subseteq h.timer \cup {q}
<1> DEFINE n == NumPlayers(h)
           next == FirstFrom(h, h.currentPlayer + 1, Actionable(h))
           moved == [h EXCEPT !.currentPlayer = next]
<1>0. Keeps(h, m)
  BY AdvanceToNextPlayerKeeps
<1>1. h \in Game /\ n \in Nat \ {0} /\ h.currentPlayer + 1 \in 0 .. 2 * n - 1
  BY SeatedPlayers DEF Playable
<1>2. IF next = -1 THEN Seated(h) \cap Actionable(h) = {}
      ELSE next \in 0 .. n - 1 /\ At(h, next) \in Actionable(h)
  BY <1>1, FirstFromFinds
<1>3. m = IF next = -1 THEN h
          ELSE IF ShouldSkipTurnTimer(moved) THEN moved
          ELSE StartTurn(moved, At(moved, next))
  BY DEF AdvanceToNextPlayer
<1>4. SameHand(h, moved)
  BY <1>1 DEF SameHand, Game
<1> HIDE DEF next
<1>5. /\ ShouldSkipTurnTimer(moved) <=> ShouldSkipTurnTimer(h)
      /\ At(moved, next) = At(h, next)
  BY <1>4, SameHandSame
<1>6. CASE next = -1
  <2>1. m = h /\ Actionable(h) = {}
    BY <1>2, <1>3, <1>6 DEF Actionable
  <2>2. Decided(h) /\ ShouldSkipTurnTimer(h)
    BY <2>1 DEF Decided, ShouldSkipTurnTimer
  <2>3. QED
    BY <1>0, <2>1, <2>2 DEF Placed, CurrentPlays, SameHand
<1>7. CASE next # -1
  <2>1. PICK q : q = At(h, next)
    OBVIOUS
  <2>2. next \in 0 .. n - 1 /\ q \in Actionable(h) /\ h.status[q] = "IN_GAME"
    BY <1>2, <1>7, <2>1 DEF Actionable
  <2>3. m \in {moved, StartTurn(moved, q)}
        /\ (ShouldSkipTurnTimer(h) => m = moved)
        /\ (~ShouldSkipTurnTimer(h) => m = StartTurn(moved, q))
    BY <1>3, <1>5, <1>7, <2>1
  <2>4. /\ m.players = h.players /\ m.status = h.status /\ m.bet = h.bet
        /\ m.currentBet = h.currentBet /\ m.currentPlayer = next
        /\ m.advanceTimer = h.advanceTimer /\ m.autoAdvance = h.autoAdvance
        /\ m.phase = h.phase /\ m.dealer = h.dealer
        /\ (ShouldSkipTurnTimer(h) => m.turn = h.turn /\ m.timer = h.timer)
        /\ (~ShouldSkipTurnTimer(h) => m.turn = h.turn \cup {q}
                                       /\ m.timer = h.timer \cup {q})
    <3>1. /\ moved.players = h.players /\ moved.status = h.status /\ moved.bet = h.bet
          /\ moved.currentBet = h.currentBet /\ moved.currentPlayer = next
          /\ moved.advanceTimer = h.advanceTimer /\ moved.autoAdvance = h.autoAdvance
          /\ moved.phase = h.phase /\ moved.dealer = h.dealer
          /\ moved.turn = h.turn /\ moved.timer = h.timer
      BY <1>1 DEF Game
    <3>2. StartTurn(moved, q) = [moved EXCEPT !.turn = h.turn \cup {q},
                                              !.timer = h.timer \cup {q}]
      BY <2>2, <3>1 DEF StartTurn
    <3>3. DOMAIN moved = DOMAIN h /\ {"turn", "timer"} \subseteq DOMAIN h
      BY <1>1 DEF Game
    <3> HIDE DEF moved
    <3>4. CASE ShouldSkipTurnTimer(h)
      BY <2>3, <3>1, <3>4
    <3>5. CASE ~ShouldSkipTurnTimer(h)
      <4>1. m = [moved EXCEPT !.turn = h.turn \cup {q}, !.timer = h.timer \cup {q}]
        BY <2>3, <3>2, <3>5
      <4>2. m.turn = h.turn \cup {q} /\ m.timer = h.timer \cup {q}
        BY <3>3, <4>1
      <4>3. QED
        BY <3>1, <3>5, <4>1, <4>2
    <3>6. QED
      BY <3>4, <3>5
  <2>5. SameHand(h, m)
    BY <2>4 DEF SameHand
  <2>6. NumPlayers(m) = n /\ (ShouldSkipTurnTimer(m) <=> ShouldSkipTurnTimer(h))
        /\ At(m, next) = q
    BY <2>1, <2>5, SameHandSame
  <2> HIDE DEF n
  <2>7. IsCurrent(m, q) /\ \A p : IsCurrent(m, p) => p = q
    BY <2>2, <2>4, <2>6 DEF IsCurrent
  <2>8. TurnsInGame(m)
    BY <2>2, <2>4 DEF TurnsInGame
  <2>9. CurrentPlays(m)
    BY <2>2, <2>4, <2>7 DEF CurrentPlays
  <2>10. ShouldSkipTurnTimer(m) \/ HasTurn(m)
    BY <2>4, <2>6, <2>7 DEF HasTurn
  <2>11. m.turn \subseteq h.turn \cup {q} /\ m.timer \subseteq h.timer \cup {q}
    BY <2>4
  <2>12. QED
    BY <1>0, <2>2, <2>4, <2>5, <2>7, <2>8, <2>9, <2>10, <2>11 DEF Placed
<1>8. QED
  BY <1>6, <1>7

\* What moves the hand after a round has been looked at: the turn of the
\* current player, the auto-advance timer, or an event sent to the machine.
Moves(k, outcome) ==
    \/ outcome \in {"uncontested", "closed"}
    \/ outcome = "autoAdvance" /\ k.advanceTimer /\ k.autoAdvance
    \/ outcome = "open" /\ HasTurn(k)

(* Looking at the round leaves the hand moving.                            *)
LEMMA RoundMoves ==
    ASSUME NEW m, m \in Game, Placed(m),
           NEW k, k = MaybeCompleteBettingRound(m)
    PROVE  /\ TurnsInGame(k) /\ CurrentPlays(k)
           /\ Moves(k, RoundOutcome(m))
           /\ Actionable(k) = {} => RoundOutcome(m) \in {"uncontested", "autoAdvance"}
           /\ k.phase = m.phase /\ k.dealer = m.dealer /\ k.round = m.round
           /\ k.currentPlayer = m.currentPlayer
<1>1. /\ RoundOutcome(m) \in {"uncontested", "autoAdvance", "closed", "open"}
      /\ ShouldSkipTurnTimer(m) => RoundOutcome(m) \in {"uncontested", "autoAdvance"}
      /\ RoundOutcome(m) = "autoAdvance" => ShouldSkipTurnTimer(m)
  BY DEF RoundOutcome
<1>2. /\ k.players = m.players /\ k.status = m.status /\ k.turn \subseteq m.turn
      /\ k.currentPlayer = m.currentPlayer /\ k.phase = m.phase /\ k.dealer = m.dealer
      /\ k.round = m.round
      /\ RoundOutcome(m) = "autoAdvance" => k.advanceTimer /\ k.autoAdvance
      /\ RoundOutcome(m) = "open" => k = m
  <2>1. CASE RoundOutcome(m) = "autoAdvance"
    BY <2>1 DEF MaybeCompleteBettingRound, Game
  <2>2. CASE RoundOutcome(m) = "closed"
    BY <2>2 DEF MaybeCompleteBettingRound, Game
  <2>3. CASE RoundOutcome(m) \notin {"autoAdvance", "closed"}
    BY <2>3 DEF MaybeCompleteBettingRound
  <2>4. QED
    BY <2>1, <2>2, <2>3
<1>3. Actionable(k) = Actionable(m) /\ Alive(k) = Alive(m)
  BY <1>2 DEF Actionable, Alive, Seated
<1>4. \A p : IsCurrent(k, p) => IsCurrent(m, p)
  BY <1>2 DEF IsCurrent, NumPlayers, At
<1>5. TurnsInGame(k) /\ CurrentPlays(k)
  BY <1>2, <1>3, <1>4 DEF Placed, TurnsInGame, CurrentPlays, Decided
<1>6. Moves(k, RoundOutcome(m))
  BY <1>1, <1>2 DEF Moves, Placed
<1>7. Actionable(k) = {} => ShouldSkipTurnTimer(m)
  BY <1>3 DEF ShouldSkipTurnTimer
<1>8. QED
  BY <1>1, <1>2, <1>5, <1>6, <1>7

(***************************************************************************)
(* What moves the hand.                                                    *)
(***************************************************************************)
\* An expiry of a turn of p that still runs is under way.
ExpiryOf(p) ==
    \E e \in Range(expiries) \cup Range(inbox) :
        e.type = "timebank" /\ e.id = p /\ e.fresh

TurnRuns == \E p \in g.turn : IsCurrent(g, p) /\ (p \in g.timer \/ ExpiryOf(p))
AdvanceQueued == \E e \in Range(inbox) : e.type = "advance"
ShowdownQueued ==
    \E e \in Range(inbox) : e.type = "gotoShowdown" /\ e.round = g.round

\* HandIsDriven for the current player and the current hand.
Driven ==
    g.phase \in Streets /\ ~blocked =>
        TurnRuns \/ g.advanceTimer \/ AdvanceQueued \/ ShowdownQueued

\* When nobody can act the board is run out, or the showdown is on its way.
RunOutMarked ==
    g.phase \in DOMAIN NextStreet /\ Actionable(g) = {} =>
        g.autoAdvance \/ ShowdownQueued

DealerSeated == g.phase \in Streets => g.dealer \in 0 .. NumPlayers(g) - 1

DriveInv ==
    /\ Driven
    /\ RunOutMarked
    /\ DealerSeated
    /\ TurnsInGame(g)
    /\ g.phase \in Streets => CurrentPlays(g)
    /\ BlockedOnlyAfterLastDecision

(* What a handler leaves in the inbox: what was behind the event it took,  *)
(* expiries marked as late at most, and what it sends.                     *)
LEMMA QueueAfter ==
    ASSUME TypeOK, inbox # <<>>, NEW h, NEW ended, NEW sent \in Seq(Event),
           Handled(h, ended, sent)
    PROVE  /\ Range(sent) \subseteq Range(inbox')
           /\ \A e \in Range(inbox) :
                  e = Head(inbox) \/ e.type = "timebank" \/ e \in Range(inbox')
           /\ ended = {} => /\ expiries' = expiries
                            /\ \A e \in Range(inbox) :
                                   e = Head(inbox) \/ e \in Range(inbox')
<1> DEFINE tail == Tail(inbox)
           rest == Retire(tail, ended)
<1>1. inbox \in Seq(Event) /\ expiries \in Seq(TimebankEvent)
  BY DEF TypeOK
<1>2. /\ tail \in Seq(Event) /\ Len(inbox) \in Nat /\ Len(inbox) >= 1
      /\ Len(tail) = Len(inbox) - 1
      /\ DOMAIN inbox = 1 .. Len(inbox) /\ DOMAIN tail = 1 .. Len(tail)
      /\ \A i \in 1 .. Len(tail) : tail[i] = inbox[i + 1]
      /\ inbox[1] = Head(inbox)
  <2>1. tail \in Seq(Event) /\ Len(tail) = Len(inbox) - 1
        /\ \A i \in 1 .. Len(tail) : tail[i] = inbox[i + 1]
    BY <1>1, HeadTailProperties
  <2> HIDE DEF tail
  <2>2. QED
    BY <1>1, <2>1, LenProperties, EmptySeq
<1> HIDE DEF tail
<1>3. rest = [i \in 1 .. Len(tail) |->
                 IF tail[i].type = "timebank" /\ tail[i].id \in ended
                 THEN [tail[i] EXCEPT !.fresh = FALSE] ELSE tail[i]]
  BY <1>2 DEF Retire
<1>4. rest \in Seq(Event) /\ Len(rest) = Len(tail)
  BY <1>2, RetireKeeps
<1> HIDE DEF rest
<1>5. inbox' = rest \o sent /\ expiries' = Retire(expiries, ended)
  BY DEF Handled, rest, tail
<1>6. /\ Len(sent) \in Nat /\ Len(rest) \in Nat /\ DOMAIN sent = 1 .. Len(sent)
      /\ DOMAIN inbox' = 1 .. Len(rest) + Len(sent)
      /\ \A i \in 1 .. Len(rest) : inbox'[i] = rest[i]
      /\ \A i \in 1 .. Len(sent) : inbox'[Len(rest) + i] = sent[i]
  <2>1. /\ rest \o sent \in Seq(Event) /\ Len(rest \o sent) = Len(rest) + Len(sent)
        /\ \A i \in 1 .. Len(rest) + Len(sent) :
               (rest \o sent)[i] = IF i <= Len(rest) THEN rest[i]
                                   ELSE sent[i - Len(rest)]
    BY <1>4, ConcatProperties
  <2>2. Len(sent) \in Nat /\ Len(rest) \in Nat /\ DOMAIN sent = 1 .. Len(sent)
        /\ DOMAIN (rest \o sent) = 1 .. Len(rest) + Len(sent)
    BY <1>4, <2>1, LenProperties
  <2>3. QED
    BY <1>5, <2>1, <2>2
<1>7. ASSUME NEW e \in Range(sent) PROVE e \in Range(inbox')
  <2>1. PICK i \in 1 .. Len(sent) : sent[i] = e
    BY <1>6, <1>7 DEF Range
  <2>2. Len(rest) + i \in DOMAIN inbox' /\ inbox'[Len(rest) + i] = e
    BY <1>6, <2>1
  <2>3. QED
    BY <2>2 DEF Range
<1>8. ASSUME NEW e \in Range(inbox), e # Head(inbox),
             e.type # "timebank" \/ ended = {}
      PROVE  e \in Range(inbox')
  <2>1. PICK j \in 1 .. Len(inbox) : inbox[j] = e
    BY <1>2, <1>8 DEF Range
  <2>2. j - 1 \in 1 .. Len(tail) /\ tail[j - 1] = e
    <3>1. j # 1
      BY <1>2, <1>8, <2>1
    <3>2. j - 1 \in 1 .. Len(tail) /\ (j - 1) + 1 = j
      BY <1>2, <2>1, <3>1
    <3>3. QED
      BY <1>2, <2>1, <3>2
  <2>3. rest[j - 1] = e
    BY <1>3, <1>8, <2>2
  <2>4. j - 1 \in DOMAIN inbox' /\ inbox'[j - 1] = e
    BY <1>4, <1>6, <2>2, <2>3
  <2>5. QED
    BY <2>4 DEF Range
<1>9. ended = {} => expiries' = expiries
  <2>1. ASSUME ended = {} PROVE Retire(expiries, ended) = expiries
    <3>1. Retire(expiries, ended) = [i \in DOMAIN expiries |-> expiries[i]]
      BY <2>1 DEF Retire
    <3>2. expiries = [i \in DOMAIN expiries |-> expiries[i]]
      BY <1>1
    <3>3. QED
      BY <3>1, <3>2
  <2>2. QED
    BY <1>5, <2>1
<1>10. QED
  BY <1>7, <1>8, <1>9

(* A handler that has moved to the next player and looked at the round     *)
(* leaves the hand moving.                                                 *)
LEMMA RoundDrives ==
    ASSUME HandInv, inbox # <<>>, ~blocked,
           NEW m, m \in Game, Placed(m), m.phase \in Streets,
           m.dealer \in 0 .. NumPlayers(m) - 1,
           NEW ended, Handled(MaybeCompleteBettingRound(m), ended, RoundEvents(m))
    PROVE  DriveInv'
<1>1. PICK k : k = MaybeCompleteBettingRound(m)
  OBVIOUS
<1>2. PICK o : o = RoundOutcome(m)
  OBVIOUS
<1>3. g' = k /\ ~blocked'
  BY <1>1 DEF Handled
<1>4. /\ TurnsInGame(k) /\ CurrentPlays(k) /\ Moves(k, o)
      /\ Actionable(k) = {} => o \in {"uncontested", "autoAdvance"}
      /\ k.phase = m.phase /\ k.dealer = m.dealer /\ k.round = m.round
  BY <1>1, <1>2, RoundMoves
<1>5. NumPlayers(k) = NumPlayers(m)
  BY <1>1, MaybeCompleteKeeps DEF Keeps, NumPlayers
<1>6. PICK sent : sent = RoundEvents(m)
  OBVIOUS
<1>7. sent \in Seq(Event)
  BY <1>6, RoundEventsOrdinary DEF Ordinary
<1>8. Range(sent) \subseteq Range(inbox')
  BY <1>1, <1>6, <1>7, QueueAfter DEF HandInv
<1>9. o = "uncontested" => ShowdownQueued'
  <2>1. SUFFICES ASSUME o = "uncontested" PROVE ShowdownQueued'
    OBVIOUS
  <2>2. sent = <<[type |-> "gotoShowdown", round |-> m.round]>>
    BY <1>2, <1>6, <2>1 DEF RoundEvents
  <2>3. [type |-> "gotoShowdown", round |-> m.round] \in Range(sent)
    BY <2>2 DEF Range
  <2>4. QED
    BY <1>3, <1>4, <1>8, <2>3 DEF ShowdownQueued
<1>10. o = "closed" => AdvanceQueued'
  <2>1. SUFFICES ASSUME o = "closed" PROVE AdvanceQueued'
    OBVIOUS
  <2>2. sent = <<[type |-> "advance"]>>
    BY <1>2, <1>6, <2>1 DEF RoundEvents
  <2>3. [type |-> "advance"] \in Range(sent)
    BY <2>2 DEF Range
  <2>4. QED
    BY <1>8, <2>3 DEF AdvanceQueued
<1>11. HasTurn(k) => TurnRuns'
  BY <1>3 DEF HasTurn, TurnRuns
<1>12. Driven'
  BY <1>3, <1>4, <1>9, <1>10, <1>11 DEF Driven, Moves
<1>13. RunOutMarked'
  BY <1>3, <1>4, <1>9 DEF RunOutMarked, Moves
<1>14. DealerSeated' /\ BlockedOnlyAfterLastDecision'
  BY <1>3, <1>4, <1>5 DEF DealerSeated, BlockedOnlyAfterLastDecision
<1>15. TurnsInGame(g)' /\ (g.phase \in Streets => CurrentPlays(g))'
  BY <1>3, <1>4
<1>16. QED
  BY <1>12, <1>13, <1>14, <1>15 DEF DriveInv

(* The end of every accepted action leaves the hand moving.                *)
LEMMA ProceedDrives ==
    ASSUME HandInv, DriveInv, inbox # <<>>, ~blocked, NEW p \in Player, CanAct(p),
           NEW h, Keeps(g, h), h.currentPlayer = g.currentPlayer,
           h.turn = g.turn, h.dealer = g.dealer, h.phase = g.phase,
           \A q \in Player : q # p => h.status[q] = g.status[q],
           Proceed(h, p)
    PROVE  DriveInv'
<1>1. PICK e : e = EndTurn(h, p)
  OBVIOUS
<1>2. PICK m : m = AdvanceToNextPlayer(e)
  OBVIOUS
<1>3. h \in Game /\ Keeps(h, e) /\ Playable(e) /\ NumPlayers(e) = NumPlayers(g)
  <2>1. h \in Game /\ Playable(g)
    BY CanActSeated DEF Keeps
  <2>2. Keeps(g, e) /\ Keeps(h, e)
    BY <1>1, <2>1, EndTurnKeeps, KeepsTransitive
  <2>3. QED
    BY <2>1, <2>2, KeepsPlayable
<1>4. /\ e.turn = g.turn \ {p} /\ e.status = h.status /\ e.phase = g.phase
      /\ e.dealer = g.dealer /\ e.currentPlayer = g.currentPlayer
  BY <1>1, <1>3 DEF EndTurn, Game
<1>5. TurnsInGame(e)
  <2>1. \A q \in g.turn : q \in Player /\ g.status[q] = "IN_GAME"
    BY DEF DriveInv, TurnsInGame, HandInv, TypeOK, Game
  <2>2. QED
    BY <1>4, <2>1 DEF TurnsInGame
<1>6. e.currentPlayer \in -1 .. NumPlayers(e) - 1 /\ g.phase \in Streets
  <2>1. g.currentPlayer \in 0 .. NumPlayers(g) - 1 /\ NumPlayers(g) \in Nat
    BY SeatedPlayers DEF CanAct, IsCurrent, HandInv, TypeOK
  <2>2. QED
    BY <1>3, <1>4, <2>1 DEF CanAct
<1>7. Placed(m) /\ Keeps(e, m) /\ m.phase = e.phase /\ m.dealer = e.dealer
  BY <1>2, <1>3, <1>5, <1>6, AdvancePlaces
<1>8. m \in Game /\ NumPlayers(m) = NumPlayers(g)
  BY <1>3, <1>7 DEF Keeps, NumPlayers
<1>9. PICK ended : Handled(MaybeCompleteBettingRound(m), ended, RoundEvents(m))
  BY <1>1, <1>2 DEF Proceed
<1>10. m.dealer \in 0 .. NumPlayers(m) - 1 /\ m.phase \in Streets
  BY <1>4, <1>6, <1>7, <1>8 DEF DriveInv, DealerSeated
<1>11. QED
  BY <1>7, <1>8, <1>9, <1>10, RoundDrives

\* Losing the event at the head of the inbox does not stop the hand.
HeadIdle ==
    /\ g.phase \in Streets => Head(inbox).type # "advance"
    /\ Head(inbox).type = "gotoShowdown" =>
           g.phase \notin Streets \/ Head(inbox).round # g.round
    /\ Head(inbox).type = "timebank" =>
           ~CanAct(Head(inbox).id) \/ Head(inbox).id \notin g.turn

LEMMA RejectDrives ==
    ASSUME HandInv, DriveInv, inbox # <<>>, ~blocked, HeadIdle, Reject
    PROVE  DriveInv'
<1>1. g' = g /\ ~blocked' /\ expiries' = expiries
      /\ \A e \in Range(inbox) : e = Head(inbox) \/ e \in Range(inbox')
  <2>1. <<>> \in Seq(Event)
    BY EmptySeq
  <2>2. QED
    BY <2>1, QueueAfter DEF Reject, Handled, HandInv
<1>2. g.phase \in Streets /\ ShowdownQueued => ShowdownQueued'
  BY <1>1 DEF ShowdownQueued, HeadIdle
<1>3. g.phase \in Streets /\ AdvanceQueued => AdvanceQueued'
  BY <1>1 DEF AdvanceQueued, HeadIdle
<1>4. g.phase \in Streets /\ TurnRuns => TurnRuns'
  <2>1. SUFFICES ASSUME g.phase \in Streets, NEW p \in g.turn, IsCurrent(g, p),
                        p \in g.timer \/ ExpiryOf(p)
                 PROVE  TurnRuns'
    BY DEF TurnRuns
  <2>2. ExpiryOf(p) => ExpiryOf(p)'
    <3>1. SUFFICES ASSUME NEW e \in Range(expiries) \cup Range(inbox),
                          e.type = "timebank", e.id = p, e.fresh
                   PROVE  ExpiryOf(p)'
      BY DEF ExpiryOf
    <3>2. e \in Range(expiries') \cup Range(inbox')
      <4>1. CASE e \in Range(expiries)
        BY <1>1, <4>1
      <4>2. CASE e \in Range(inbox)
        <5>1. e # Head(inbox)
          BY <2>1, <3>1 DEF HeadIdle, CanAct
        <5>2. QED
          BY <1>1, <4>2, <5>1
      <4>3. QED
        BY <4>1, <4>2
    <3>3. QED
      BY <3>1, <3>2 DEF ExpiryOf
  <2>3. IsCurrent(g, p)'
    BY <1>1, <2>1
  <2>4. QED
    BY <1>1, <2>1, <2>2, <2>3 DEF TurnRuns
<1>5. Driven' /\ RunOutMarked'
  <2>1. g.phase \in DOMAIN NextStreet => g.phase \in Streets
    BY DEF NextStreet, Streets
  <2>2. QED
    BY <1>1, <1>2, <1>3, <1>4, <2>1 DEF DriveInv, Driven, RunOutMarked
<1>6. DealerSeated' /\ BlockedOnlyAfterLastDecision'
  BY <1>1 DEF DriveInv, DealerSeated, BlockedOnlyAfterLastDecision
<1>7. TurnsInGame(g)' /\ (g.phase \in Streets => CurrentPlays(g))'
  BY <1>1 DEF DriveInv
<1>8. QED
  BY <1>5, <1>6, <1>7 DEF DriveInv

(* The machine blocks on a player who has folded and is still the current  *)
(* one: nothing is left to decide.                                         *)
LEMMA BlockDrives ==
    ASSUME HandInv, DriveInv, NEW p \in Player, CanAct(p), g.status[p] = "FOLDED", Block
    PROVE  DriveInv'
<1>1. g' = g /\ inbox' = inbox /\ expiries' = expiries /\ blocked'
  BY DEF Block
<1>2. Cardinality(Alive(g)) = 1 \/ Actionable(g) = {}
  BY DEF DriveInv, CurrentPlays, Decided, CanAct
<1>3. BlockedOnlyAfterLastDecision'
  BY <1>1, <1>2 DEF BlockedOnlyAfterLastDecision, CanAct
<1>4. Driven' /\ RunOutMarked' /\ DealerSeated'
  BY <1>1 DEF DriveInv, Driven, RunOutMarked, DealerSeated, ShowdownQueued
<1>5. TurnsInGame(g)' /\ (g.phase \in Streets => CurrentPlays(g))'
  BY <1>1 DEF DriveInv
<1>6. QED
  BY <1>3, <1>4, <1>5 DEF DriveInv

(***************************************************************************)
(* The requests of the players.                                            *)
(***************************************************************************)
LEMMA PlayerFoldDrives ==
    ASSUME HandInv, DriveInv, inbox # <<>>, ~blocked, NEW p \in Player,
           (CanAct(p) /\ p \in g.turn) \/ HeadIdle,
           PlayerFold(p)
    PROVE  DriveInv'
<1> DEFINE folded == [g EXCEPT !.status[p] = "FOLDED"]
           showdown == [type |-> "gotoShowdown", round |-> g.round]
<1>1. CASE (~CanAct(p) \/ g.status[p] = "ALL_IN") /\ Reject
  <2>1. HeadIdle
    BY <1>1 DEF DriveInv, TurnsInGame
  <2>2. QED
    BY <1>1, <2>1, RejectDrives
<1>2. CASE CanAct(p) /\ g.status[p] = "FOLDED" /\ Block
  BY <1>2, BlockDrives
<1>3. CASE /\ CanAct(p) /\ g.status[p] = "IN_GAME"
           /\ IF Cardinality(Alive(folded)) = 1
              THEN Handled(EndTurn(folded, p), {p}, <<showdown>>)
              ELSE Proceed(folded, p)
  <2>1. g \in Game /\ g.phase \in Streets
    BY <1>3, CanActSeated DEF HandInv, TypeOK
  <2>2. Keeps(g, folded)
    BY <2>1, FoldKeeps
  <2>3. /\ folded.currentPlayer = g.currentPlayer /\ folded.turn = g.turn
        /\ folded.dealer = g.dealer /\ folded.phase = g.phase
        /\ folded.status[p] = "FOLDED" /\ folded.timer = g.timer
        /\ \A q \in Player : q # p => folded.status[q] = g.status[q]
    BY <2>1 DEF Game
  <2> HIDE DEF folded
  <2>4. CASE Proceed(folded, p)
    BY <1>3, <2>2, <2>3, <2>4, ProceedDrives
  <2>5. CASE Cardinality(Alive(folded)) = 1
             /\ Handled(EndTurn(folded, p), {p}, <<showdown>>)
    <3>1. showdown \in Event /\ <<showdown>> \in Seq(Event)
      BY <2>1 DEF Event, Game
    <3>2. Range(<<showdown>>) \subseteq Range(inbox')
      BY <2>5, <3>1, QueueAfter DEF HandInv
    <3>3. showdown \in Range(inbox')
      BY <3>2 DEF Range
    <3>4. folded \in Game /\ folded.players = g.players /\ folded.round = g.round
      BY <2>2 DEF Keeps
    <3>5. PICK k : k = EndTurn(folded, p)
      OBVIOUS
    <3>6. /\ k.players = g.players /\ k.round = g.round
          /\ k.currentPlayer = g.currentPlayer /\ k.turn = g.turn \ {p}
          /\ k.dealer = g.dealer /\ k.phase = g.phase /\ k.status = folded.status
      BY <2>3, <3>4, <3>5 DEF EndTurn, Game
    <3>7. g' = k /\ ~blocked'
      BY <2>5, <3>5 DEF Handled
    <3>8. ShowdownQueued'
      BY <3>3, <3>6, <3>7 DEF ShowdownQueued
    <3>9. Driven' /\ RunOutMarked'
      BY <3>8 DEF Driven, RunOutMarked
    <3>10. DealerSeated' /\ BlockedOnlyAfterLastDecision'
      BY <3>6, <3>7 DEF DriveInv, DealerSeated, NumPlayers, BlockedOnlyAfterLastDecision
    <3>11. TurnsInGame(k)
      <4>1. \A q \in g.turn : q \in Player /\ g.status[q] = "IN_GAME"
        BY DEF DriveInv, TurnsInGame, HandInv, TypeOK, Game
      <4>2. QED
        BY <2>3, <3>6, <4>1 DEF TurnsInGame
    <3>12. CurrentPlays(k)
      <4>1. Alive(k) = Alive(folded)
        BY <3>4, <3>6 DEF Alive, Seated
      <4>2. QED
        BY <2>5, <4>1 DEF CurrentPlays, Decided
    <3>13. QED
      BY <3>7, <3>9, <3>10, <3>11, <3>12 DEF DriveInv
  <2>6. QED
    BY <1>3, <2>4, <2>5 DEF folded
<1>4. QED
  BY <1>1, <1>2, <1>3 DEF PlayerFold

LEMMA PlayerCheckDrives ==
    ASSUME HandInv, DriveInv, inbox # <<>>, ~blocked, NEW p \in Player,
           (CanAct(p) /\ g.currentBet <= g.bet[p]) \/ HeadIdle,
           PlayerCheck(p)
    PROVE  DriveInv'
<1>1. g.bet[p] \in Nat /\ g.currentBet \in Nat /\ Keeps(g, g)
  BY SelfKeeps DEF Game
<1>2. CASE (~CanAct(p) \/ g.bet[p] < g.currentBet) /\ Reject
  <2>1. HeadIdle
    BY <1>1, <1>2
  <2>2. QED
    BY <1>2, <2>1, RejectDrives
<1>3. CASE CanAct(p) /\ Proceed(g, p)
  BY <1>1, <1>3, ProceedDrives
<1>4. QED
  BY <1>2, <1>3 DEF PlayerCheck

(* Chips paid leave the turn and the seats alone.                          *)
LEMMA PayTurn ==
    ASSUME NEW h, h \in Game, NEW p \in Player, NEW amount,
           NEW k, k = Pay(h, p, amount)
    PROVE  /\ k.currentPlayer = h.currentPlayer /\ k.turn = h.turn
           /\ k.timer = h.timer /\ k.dealer = h.dealer /\ k.phase = h.phase
           /\ k.players = h.players /\ k.currentBet = h.currentBet
           /\ k.advanceTimer = h.advanceTimer /\ k.autoAdvance = h.autoAdvance
           /\ \A q \in Player : q # p => k.status[q] = h.status[q]
BY DEF Pay, Game

LEMMA PlayerCallDrives ==
    ASSUME HandInv, DriveInv, inbox # <<>>, ~blocked, NEW p \in Player, HeadIdle,
           PlayerCall(p)
    PROVE  DriveInv'
<1> DEFINE delta == Lesser(TableBet - g.bet[p], g.balance[p])
<1>1. CASE Reject
  BY <1>1, RejectDrives
<1>2. CASE CanAct(p) /\ Proceed(g, p)
  BY <1>2, SelfKeeps, ProceedDrives
<1>3. CASE CanAct(p) /\ TableBet > g.bet[p] /\ Proceed(Pay(g, p, delta), p)
  <2>1. g \in Game /\ TableBet \in Nat
    BY <1>3, SelfKeeps, TableBetType
  <2>2. delta \in Nat /\ delta <= g.balance[p]
    BY <1>3, <2>1 DEF Lesser, Game
  <2> HIDE DEF delta
  <2>3. PICK h : h = Pay(g, p, delta)
    OBVIOUS
  <2>4. Keeps(g, h)
    BY <2>1, <2>2, <2>3, PayKeeps
  <2>5. /\ h.currentPlayer = g.currentPlayer /\ h.turn = g.turn
        /\ h.dealer = g.dealer /\ h.phase = g.phase
        /\ \A q \in Player : q # p => h.status[q] = g.status[q]
    BY <2>1, <2>3, PayTurn
  <2>6. QED
    BY <1>3, <2>3, <2>4, <2>5, ProceedDrives
<1>4. QED
  BY <1>1, <1>2, <1>3 DEF PlayerCall

(* A raise leaves the turn and the stacks alone.                           *)
LEMMA RaiseTurn ==
    ASSUME NEW h, h \in Game, NEW total, NEW allIn,
           NEW k, k = RaiseTable(h, total, allIn)
    PROVE  /\ k.currentPlayer = h.currentPlayer /\ k.turn = h.turn
           /\ k.timer = h.timer /\ k.dealer = h.dealer /\ k.phase = h.phase
           /\ k.players = h.players /\ k.status = h.status /\ k.bet = h.bet
           /\ k.advanceTimer = h.advanceTimer /\ k.autoAdvance = h.autoAdvance
BY DEF RaiseTable, Game

LEMMA PlayerBetDrives ==
    ASSUME HandInv, DriveInv, inbox # <<>>, ~blocked, NEW p \in Player,
           NEW amount \in Nat, HeadIdle, PlayerBet(p, amount)
    PROVE  DriveInv'
<1> DEFINE delta == Lesser(amount - g.bet[p], g.balance[p])
           total == g.bet[p] + delta
           allIn == delta = g.balance[p]
<1>1. CASE Reject
  BY <1>1, RejectDrives
<1>2. CASE CanAct(p) /\ g.status[p] = "FOLDED" /\ Block
  BY <1>2, BlockDrives
<1>3. CASE CanAct(p) /\ Proceed(g, p)
  BY <1>3, SelfKeeps, ProceedDrives
<1>4. CASE /\ CanAct(p) /\ amount >= g.bet[p]
           /\ Proceed(RaiseTable(Pay(g, p, delta), total, allIn), p)
  <2>1. g \in Game
    BY SelfKeeps
  <2>2. delta \in Nat /\ delta <= g.balance[p] /\ total \in Nat
    BY <1>4, <2>1 DEF Lesser, Game
  <2> HIDE DEF delta, total, allIn
  <2>3. PICK paid : paid = Pay(g, p, delta)
    OBVIOUS
  <2>4. PICK h : h = RaiseTable(paid, total, allIn)
    OBVIOUS
  <2>5. Keeps(g, paid) /\ paid \in Game
    BY <2>1, <2>2, <2>3, PayKeeps DEF Keeps
  <2>6. Keeps(g, h)
    BY <2>2, <2>4, <2>5, RaiseTableKeeps, KeepsTransitive
  <2>7. /\ paid.currentPlayer = g.currentPlayer /\ paid.turn = g.turn
        /\ paid.dealer = g.dealer /\ paid.phase = g.phase
        /\ \A q \in Player : q # p => paid.status[q] = g.status[q]
    BY <2>1, <2>3, PayTurn
  <2>8. /\ h.currentPlayer = g.currentPlayer /\ h.turn = g.turn
        /\ h.dealer = g.dealer /\ h.phase = g.phase
        /\ \A q \in Player : q # p => h.status[q] = g.status[q]
    BY <2>4, <2>5, <2>7, RaiseTurn
  <2>9. QED
    BY <1>4, <2>3, <2>4, <2>6, <2>8, ProceedDrives
<1>5. QED
  BY <1>1, <1>2, <1>3, <1>4 DEF PlayerBet

(* A request that is rejected was not what moves the hand; an expiry of a  *)
(* turn that still runs is never rejected.                                 *)
LEMMA HandleRequestDrives ==
    ASSUME HandInv, DriveInv,
           \/ HandleFoldReq \/ HandleCheckReq \/ HandleCallReq \/ HandleBetReq
           \/ HandleTimebankExpired
    PROVE  DriveInv'
<1> DEFINE e == Head(inbox)
           p == e.id
<1>1. inbox # <<>> /\ ~blocked /\ e \in Event
  <2>1. inbox \in Seq(Event) /\ inbox # <<>> /\ ~blocked
    BY DEF HandInv, TypeOK, HandleFoldReq, HandleCheckReq, HandleCallReq,
           HandleBetReq, HandleTimebankExpired, Receive
  <2>2. QED
    BY <2>1, HeadTailProperties
<1>2. e.type \in {"fold", "check", "call", "bet"} => HeadIdle
  BY DEF HeadIdle
<1>3. CASE HandleFoldReq
  BY <1>1, <1>2, <1>3, EventFields, PlayerFoldDrives DEF HandleFoldReq, Receive
<1>4. CASE HandleCheckReq
  BY <1>1, <1>2, <1>4, EventFields, PlayerCheckDrives DEF HandleCheckReq, Receive
<1>5. CASE HandleCallReq
  BY <1>1, <1>2, <1>5, EventFields, PlayerCallDrives DEF HandleCallReq, Receive
<1>6. CASE HandleBetReq
  BY <1>1, <1>2, <1>6, EventFields, PlayerBetDrives DEF HandleBetReq, Receive
<1>7. CASE HandleTimebankExpired
  <2>1. e.type = "timebank" /\ p \in Player
    BY <1>1, <1>7, EventFields DEF HandleTimebankExpired, Receive
  <2>2. HeadIdle \/ (CanAct(p) /\ p \in g.turn)
    BY <2>1 DEF HeadIdle
  <2>3. ~CanAct(p) => HeadIdle
    BY <2>1 DEF HeadIdle
  <2>4. \/ ~CanAct(p) /\ Reject
        \/ CanAct(p) /\ g.currentBet <= g.bet[p] /\ PlayerCheck(p)
        \/ CanAct(p) /\ PlayerFold(p)
    BY <1>7 DEF HandleTimebankExpired
  <2> HIDE DEF p, e
  <2>5. QED
    BY <1>1, <2>1, <2>2, <2>3, <2>4, RejectDrives, PlayerCheckDrives, PlayerFoldDrives
<1>8. QED
  BY <1>3, <1>4, <1>5, <1>6, <1>7

(***************************************************************************)
(* Streets and showdown.                                                   *)
(***************************************************************************)
(* The starter of a street is a seat of an actionable player, if any.      *)
LEMMA StreetStarterFinds ==
    ASSUME NEW h, Playable(h), NumPlayers(h) >= 2, h.dealer \in 0 .. NumPlayers(h) - 1
    PROVE  IF StreetStarter(h) = -1 THEN Actionable(h) = {}
           ELSE /\ StreetStarter(h) \in 0 .. NumPlayers(h) - 1
                /\ At(h, StreetStarter(h)) \in Actionable(h)
<1> DEFINE n == NumPlayers(h)
           start == IF h.phase # "PRE_FLOP" THEN h.dealer + 1
                    ELSE IF n = 2 THEN h.dealer ELSE h.dealer + 3
<1>1. n \in Nat /\ n >= 2 /\ h.dealer \in 0 .. n - 1
  BY SeatedPlayers DEF Playable
<1>2. start \in 0 .. 2 * n - 1
  <2> HIDE DEF n
  <2>1. /\ h.dealer \in 0 .. 2 * n - 1
        /\ h.dealer + 1 \in 0 .. 2 * n - 1
        /\ n # 2 => h.dealer + 3 \in 0 .. 2 * n - 1
    BY <1>1
  <2>2. QED
    BY <2>1
<1>3. StreetStarter(h) = FirstFrom(h, start, Actionable(h))
  BY DEF StreetStarter
<1> HIDE DEF start
<1>4. IF FirstFrom(h, start, Actionable(h)) = -1
      THEN Seated(h) \cap Actionable(h) = {}
      ELSE /\ FirstFrom(h, start, Actionable(h)) \in 0 .. NumPlayers(h) - 1
           /\ At(h, FirstFrom(h, start, Actionable(h))) \in Actionable(h)
  BY <1>2, FirstFromFinds
<1>5. Seated(h) \cap Actionable(h) = Actionable(h)
  BY DEF Actionable
<1>6. QED
  BY <1>3, <1>4, <1>5

(* Entering a street either runs out the board, or gives the turn to the   *)
(* starter of the street, or finds that nobody can act.                    *)
LEMMA EnterStreetMoves ==
    ASSUME NEW h, Playable(h), NumPlayers(h) >= 2, h.phase \in Streets,
           h.dealer \in 0 .. NumPlayers(h) - 1, TurnsInGame(h),
           NEW street \in Streets,
           NEW k, k = EnterStreet(h, street)
    PROVE  /\ k.phase = street /\ k.dealer = h.dealer /\ k.round = h.round
           /\ NumPlayers(k) = NumPlayers(h)
           /\ Actionable(k) = Actionable(h)
           /\ TurnsInGame(k) /\ CurrentPlays(k)
           /\ \/ /\ k.advanceTimer
                 /\ street # "RIVER" => k.autoAdvance
              \/ Actionable(h) # {} /\ HasTurn(k)
              \/ Actionable(h) = {} /\ ~h.autoAdvance
<1> DEFINE reset == [ResetBettingRound(h) EXCEPT !.phase = street]
           running == h.autoAdvance /\ Cardinality(Actionable(h)) <= 1
           actor == IF running THEN -1 ELSE StreetStarter(reset)
           timer == reset.advanceTimer \/ running
           auto == reset.autoAdvance /\ ~(running /\ street = "RIVER")
           seated == [reset EXCEPT !.currentPlayer = actor,
                                   !.advanceTimer = timer,
                                   !.autoAdvance = auto]
<1>1. h \in Game /\ NumPlayers(h) \in Nat
  BY SeatedPlayers DEF Playable
<1>2. /\ reset.players = h.players /\ reset.status = h.status
      /\ reset.dealer = h.dealer /\ reset.phase = street /\ reset.round = h.round
      /\ reset.turn = h.turn /\ reset.timer = h.timer
      /\ reset.autoAdvance = h.autoAdvance /\ reset.advanceTimer = h.advanceTimer
      /\ DOMAIN reset = DOMAIN h
  BY <1>1 DEF ResetBettingRound, Game
<1>3. Keeps(h, reset)
  BY BlindsAssumption DEF ResetBettingRound, Keeps, Game, Playable
<1>4. EnterStreet(h, street)
          = IF actor = -1 THEN seated ELSE StartTurn(seated, At(seated, actor))
  BY DEF EnterStreet
<1> HIDE DEF reset
<1>5. Playable(reset) /\ NumPlayers(reset) = NumPlayers(h)
  BY <1>3, KeepsPlayable
<1>6. Actionable(reset) = Actionable(h)
  BY <1>2 DEF Actionable, Seated
<1>7. IF StreetStarter(reset) = -1 THEN Actionable(h) = {}
      ELSE /\ StreetStarter(reset) \in 0 .. NumPlayers(h) - 1
           /\ At(reset, StreetStarter(reset)) \in Actionable(h)
  BY <1>2, <1>5, <1>6, StreetStarterFinds
<1>8. /\ {"currentPlayer", "advanceTimer", "autoAdvance", "turn", "timer"}
             \subseteq DOMAIN reset
      /\ DOMAIN seated = DOMAIN reset
  BY <1>1, <1>2 DEF Game
<1>9. /\ seated.players = h.players /\ seated.status = h.status
      /\ seated.dealer = h.dealer /\ seated.phase = street /\ seated.round = h.round
      /\ seated.turn = h.turn /\ seated.timer = h.timer
      /\ seated.currentPlayer = actor
      /\ seated.autoAdvance = auto /\ seated.advanceTimer = timer
  <2> HIDE DEF actor, timer, auto
  <2>1. QED
    BY <1>2, <1>8
<1>10. k \in {seated, StartTurn(seated, At(seated, actor))}
       /\ (actor = -1 => k = seated)
       /\ (actor # -1 => k = StartTurn(seated, At(seated, actor)))
  BY <1>4
<1> HIDE DEF seated
<1>11. CASE actor = -1
  <2>1. /\ k.players = h.players /\ k.status = h.status /\ k.turn = h.turn
        /\ k.dealer = h.dealer /\ k.phase = street /\ k.round = h.round
        /\ k.currentPlayer = -1
        /\ running => k.advanceTimer /\ (street # "RIVER" => k.autoAdvance)
    BY <1>2, <1>9, <1>10, <1>11
  <2>2. NumPlayers(k) = NumPlayers(h) /\ Actionable(k) = Actionable(h)
    BY <2>1 DEF NumPlayers, Actionable, Seated
  <2>3. TurnsInGame(k) /\ CurrentPlays(k)
    BY <2>1 DEF TurnsInGame, CurrentPlays, IsCurrent
  <2>4. ~running => Actionable(h) = {} /\ ~h.autoAdvance
    <3>1. ~running => Actionable(h) = {}
      BY <1>7, <1>11
    <3>2. Cardinality({}) <= 1
      BY FS_EmptySet
    <3>3. QED
      BY <3>1, <3>2
  <2>5. QED
    BY <2>1, <2>2, <2>3, <2>4
<1>12. CASE actor # -1
  <2>1. PICK q : q = At(reset, actor)
    OBVIOUS
  <2>2. actor \in 0 .. NumPlayers(h) - 1 /\ q \in Actionable(h)
    BY <1>7, <1>12, <2>1
  <2>3. At(seated, actor) = q
    BY <1>2, <1>9, <2>1 DEF At
  <2>4. seated.status[q] = "IN_GAME"
    BY <1>9, <2>2 DEF Actionable
  <2>5. k = [seated EXCEPT !.turn = h.turn \cup {q}, !.timer = h.timer \cup {q}]
    BY <1>9, <1>10, <1>12, <2>3, <2>4 DEF StartTurn
  <2>6. /\ k.players = h.players /\ k.status = h.status /\ k.turn = h.turn \cup {q}
        /\ k.timer = h.timer \cup {q}
        /\ k.dealer = h.dealer /\ k.phase = street /\ k.round = h.round
        /\ k.currentPlayer = actor
    BY <1>8, <1>9, <2>5
  <2>7. NumPlayers(k) = NumPlayers(h) /\ Actionable(k) = Actionable(h)
        /\ At(k, actor) = q
    BY <1>2, <2>1, <2>6 DEF NumPlayers, Actionable, Seated, At
  <2>8. IsCurrent(k, q) /\ \A p : IsCurrent(k, p) => p = q
    BY <2>2, <2>6, <2>7 DEF IsCurrent
  <2>9. k.status[q] = "IN_GAME"
    BY <2>2, <2>6 DEF Actionable
  <2>10. TurnsInGame(k) /\ CurrentPlays(k) /\ HasTurn(k)
    BY <2>6, <2>8, <2>9 DEF TurnsInGame, CurrentPlays, HasTurn
  <2>11. QED
    BY <2>2, <2>6, <2>7, <2>10
<1>13. QED
  BY <1>11, <1>12

LEMMA EnterStreetDrives ==
    ASSUME HandInv, DriveInv, inbox # <<>>, ~blocked, Head(inbox).type = "advance",
           g.phase \in DOMAIN NextStreet,
           Handled(EnterStreet(g, NextStreet[g.phase]), {}, <<>>)
    PROVE  DriveInv'
<1>1. PICK street : street = NextStreet[g.phase]
  OBVIOUS
<1>2. g.phase \in Streets /\ street \in Streets
  BY <1>1 DEF NextStreet, Streets
<1>3. PICK k : k = EnterStreet(g, street)
  OBVIOUS
<1>4. Playable(g) /\ NumPlayers(g) >= 2
  BY <1>2, SeatedPlayers DEF HandInv, TypeOK, NextHandOrdered, Playable
<1>5. /\ k.phase = street /\ k.dealer = g.dealer /\ k.round = g.round
      /\ NumPlayers(k) = NumPlayers(g)
      /\ Actionable(k) = Actionable(g)
      /\ TurnsInGame(k) /\ CurrentPlays(k)
      /\ \/ /\ k.advanceTimer
            /\ street # "RIVER" => k.autoAdvance
         \/ Actionable(g) # {} /\ HasTurn(k)
         \/ Actionable(g) = {} /\ ~g.autoAdvance
  <2>1. g.dealer \in 0 .. NumPlayers(g) - 1 /\ TurnsInGame(g)
    BY <1>2 DEF DriveInv, DealerSeated
  <2>2. QED
    BY <1>2, <1>3, <1>4, <2>1, EnterStreetMoves
<1>6. g' = k /\ ~blocked' /\ \A e \in Range(inbox) : e = Head(inbox) \/ e \in Range(inbox')
  <2>1. <<>> \in Seq(Event)
    BY EmptySeq
  <2>2. Handled(k, {}, <<>>)
    BY <1>1, <1>3
  <2>3. TypeOK
    BY DEF HandInv
  <2>4. \A e \in Range(inbox) : e = Head(inbox) \/ e \in Range(inbox')
    BY <2>1, <2>2, <2>3, QueueAfter
  <2>5. QED
    BY <2>2, <2>4 DEF Handled
<1>7. Actionable(g) = {} /\ ~g.autoAdvance => ShowdownQueued'
  <2>1. SUFFICES ASSUME Actionable(g) = {}, ~g.autoAdvance PROVE ShowdownQueued'
    OBVIOUS
  <2>2. PICK e \in Range(inbox) : e.type = "gotoShowdown" /\ e.round = g.round
    BY <2>1 DEF DriveInv, RunOutMarked, ShowdownQueued
  <2>3. e \in Range(inbox')
    BY <1>6, <2>2
  <2>4. QED
    BY <1>5, <1>6, <2>2, <2>3 DEF ShowdownQueued
<1>8. HasTurn(k) => TurnRuns'
  BY <1>6 DEF HasTurn, TurnRuns
<1>9. Driven'
  BY <1>5, <1>6, <1>7, <1>8 DEF Driven
<1>10. RunOutMarked'
  <2>1. street # "RIVER" \/ street \notin DOMAIN NextStreet
    BY DEF NextStreet
  <2>2. QED
    BY <1>5, <1>6, <1>7, <2>1 DEF RunOutMarked
<1>11. DealerSeated' /\ BlockedOnlyAfterLastDecision'
  BY <1>2, <1>5, <1>6 DEF DriveInv, DealerSeated, BlockedOnlyAfterLastDecision
<1>12. TurnsInGame(g)' /\ (g.phase \in Streets => CurrentPlays(g))'
  BY <1>5, <1>6
<1>13. QED
  BY <1>9, <1>10, <1>11, <1>12 DEF DriveInv

(* Out of a hand nothing has to move, when nobody has the turn.            *)
LEMMA BetweenHandsDrives ==
    ASSUME g'.phase \notin Streets, TurnsInGame(g)', ~blocked'
    PROVE  DriveInv'
<1>1. g'.phase \notin DOMAIN NextStreet
  BY DEF NextStreet, Streets
<1>2. Driven' /\ RunOutMarked' /\ DealerSeated' /\ BlockedOnlyAfterLastDecision'
  BY <1>1 DEF Driven, RunOutMarked, DealerSeated, BlockedOnlyAfterLastDecision
<1>3. (g.phase \in Streets => CurrentPlays(g))'
  OBVIOUS
<1>4. QED
  BY <1>2, <1>3 DEF DriveInv

LEMMA EnterShowdownDrives ==
    ASSUME HandInv, ~blocked, EnterShowdown
    PROVE  DriveInv'
<1>1. PICK rank : Handled(Settle(g, rank), Player, <<>>)
  BY DEF EnterShowdown
<1>2. PICK k : k = Settle(g, rank)
  OBVIOUS
<1>3. k.phase = "SHOWDOWN" /\ k.turn = {}
  BY <1>2 DEF Settle, HandInv, TypeOK, Game
<1>4. g' = k /\ ~blocked'
  BY <1>1, <1>2 DEF Handled
<1>5. g'.phase \notin Streets
  BY <1>3, <1>4 DEF Streets
<1>6. TurnsInGame(g)'
  BY <1>3, <1>4 DEF TurnsInGame
<1>7. QED
  BY <1>4, <1>5, <1>6, BetweenHandsDrives

LEMMA HandleAdvanceDrives ==
    ASSUME HandInv, DriveInv, HandleAdvance
    PROVE  DriveInv'
<1>1. inbox # <<>> /\ ~blocked /\ Head(inbox).type = "advance"
  BY DEF HandleAdvance, Receive
<1>2. CASE g.phase \in DOMAIN NextStreet
           /\ Handled(EnterStreet(g, NextStreet[g.phase]), {}, <<>>)
  BY <1>1, <1>2, EnterStreetDrives
<1>3. CASE EnterShowdown
  BY <1>1, <1>3, EnterShowdownDrives
<1>4. CASE g.phase \notin Streets /\ Reject
  <2>1. HeadIdle
    BY <1>1, <1>4 DEF HeadIdle
  <2>2. QED
    BY <1>1, <1>4, <2>1, RejectDrives
<1>5. QED
  BY <1>2, <1>3, <1>4 DEF HandleAdvance

LEMMA HandleGotoShowdownDrives ==
    ASSUME HandInv, DriveInv, HandleGotoShowdown
    PROVE  DriveInv'
<1>1. inbox # <<>> /\ ~blocked /\ Head(inbox).type = "gotoShowdown"
  BY DEF HandleGotoShowdown, Receive
<1>2. CASE EnterShowdown
  BY <1>1, <1>2, EnterShowdownDrives
<1>3. CASE (Head(inbox).round # g.round \/ g.phase \notin Streets) /\ Reject
  <2>1. HeadIdle
    BY <1>1, <1>3 DEF HeadIdle
  <2>2. QED
    BY <1>1, <1>3, <2>1, RejectDrives
<1>4. QED
  BY <1>2, <1>3 DEF HandleGotoShowdown

(***************************************************************************)
(* The start of a hand.                                                    *)
(***************************************************************************)
\* Every seated player is in the hand, and nobody has the turn yet.
DealtIn(h) ==
    /\ h.turn = {}
    /\ \A q \in Seated(h) : h.status[q] \in {"IN_GAME", "ALL_IN"}

LEMMA ResetHandDeals ==
    ASSUME NEW h, Playable(h), NEW r, r = ResetHand(h)
    PROVE  DealtIn(r)
<1> DEFINE status == [p \in Player |-> IF p \in Seated(h)
                                      THEN [q \in Player |-> "IN_GAME"][p]
                                      ELSE h.status[p]]
<1>1. h \in Game /\ Seated(h) \in SUBSET Player
  BY SeatedPlayers DEF Playable
<1>2. r.turn = {} /\ r.players = h.players /\ r.status = status
  BY <1>1 DEF ResetHand, ResetBettingRound, Game
<1>3. \A q \in Seated(h) : status[q] = "IN_GAME"
  BY <1>1
<1> HIDE DEF status
<1>4. QED
  BY <1>2, <1>3 DEF DealtIn, Seated

LEMMA PostBlindDeals ==
    ASSUME NEW h, h \in Game, DealtIn(h), NEW p \in Player, NEW blind \in Nat,
           NEW k, k = PostBlind(h, p, blind)
    PROVE  DealtIn(k) /\ k.dealer = h.dealer /\ k.players = h.players
<1> DEFINE amount == Lesser(blind, h.balance[p])
           paid == Pay(h, p, amount)
<1>1. /\ paid.turn = h.turn /\ paid.players = h.players /\ paid.dealer = h.dealer
      /\ \A q \in Player : paid.status[q] \in {h.status[q], "ALL_IN"}
      /\ DOMAIN paid = DOMAIN h /\ "currentBet" \in DOMAIN h
  BY DEF Pay, Game
<1>2. k = h \/ k = [paid EXCEPT !.currentBet = Greater(@, amount)]
  BY DEF PostBlind
<1> HIDE DEF paid, amount
<1>3. /\ k.turn = h.turn /\ k.players = h.players /\ k.dealer = h.dealer
      /\ \A q \in Player : k.status[q] \in {h.status[q], "ALL_IN"}
  <2>1. CASE k = h
    BY <2>1
  <2>2. CASE k = [paid EXCEPT !.currentBet = Greater(@, amount)]
    <3>1. {"turn", "players", "dealer", "status"} \subseteq DOMAIN paid
      BY <1>1 DEF Game
    <3>2. /\ k.turn = paid.turn /\ k.players = paid.players
          /\ k.dealer = paid.dealer /\ k.status = paid.status
      BY <2>2, <3>1
    <3>3. QED
      BY <1>1, <3>2
  <2>3. QED
    BY <1>2, <2>1, <2>2
<1>4. Seated(h) \in SUBSET Player
  BY SeatedPlayers
<1>5. QED
  BY <1>3, <1>4 DEF DealtIn, Seated

LEMMA PostBlindsDeals ==
    ASSUME NEW h, Playable(h), DealtIn(h), h.dealer \in 0 .. NumPlayers(h) - 1,
           NEW k, k = PostBlinds(h)
    PROVE  DealtIn(k)
<1> DEFINE sb == At(h, SmallBlindSeat(h))
           bb == At(h, BigBlindSeat(h))
<1>1. sb \in Player /\ bb \in Player /\ h \in Game
  BY BlindSeats, SeatedPlayers DEF Playable
<1>2. SmallBlind \in Nat /\ BigBlind \in Nat
  BY BlindsAssumption
<1>3. k = PostBlind(PostBlind(h, sb, SmallBlind), bb, BigBlind)
  BY DEF PostBlinds
<1> HIDE DEF sb, bb
<1>4. PICK small : small = PostBlind(h, sb, SmallBlind)
  OBVIOUS
<1>5. DealtIn(small) /\ small \in Game
  <2>1. Keeps(h, small)
    BY <1>1, <1>2, <1>4, PostBlindKeeps
  <2>2. QED
    BY <1>1, <1>2, <1>4, <2>1, PostBlindDeals DEF Keeps
<1>6. QED
  BY <1>1, <1>2, <1>3, <1>4, <1>5, PostBlindDeals

(* The first player to act gets the turn, unless the blinds have left      *)
(* nobody to bet against.                                                  *)
LEMMA FirstToActPlaces ==
    ASSUME NEW h, Playable(h), DealtIn(h), h.dealer \in 0 .. NumPlayers(h) - 1,
           NEW m, m = FirstToAct(h)
    PROVE  Placed(m) /\ m.dealer = h.dealer
<1> DEFINE seat == IF NumPlayers(h) = 2 THEN SmallBlindSeat(h)
                   ELSE (BigBlindSeat(h) + 1) % NumPlayers(h)
           placed == [h EXCEPT !.currentPlayer = seat]
<1>1. seat \in 0 .. NumPlayers(h) - 1
  <2> DEFINE n == NumPlayers(h)
  <2>1. n \in Nat \ {0}
    BY SeatedPlayers DEF Playable
  <2>2. SmallBlindSeat(h) \in 0 .. n - 1 /\ BigBlindSeat(h) \in 0 .. n - 1
    BY BlindSeats
  <2>3. seat = IF n = 2 THEN SmallBlindSeat(h) ELSE (BigBlindSeat(h) + 1) % n
    OBVIOUS
  <2> HIDE DEF n, seat
  <2>4. \A k \in Nat : k % n \in 0 .. n - 1
    BY <2>1
  <2>5. seat \in 0 .. n - 1
    BY <2>1, <2>2, <2>3, <2>4
  <2>6. QED
    BY <2>5 DEF n
<1>2. m = IF h.status[At(h, seat)] = "ALL_IN" THEN AdvanceToNextPlayer(placed)
          ELSE IF ShouldSkipTurnTimer(placed) THEN placed
          ELSE StartTurn(placed, At(h, seat))
  BY DEF FirstToAct
<1> HIDE DEF seat
<1>3. h \in Game /\ seat \in Nat \cup {-1}
  BY <1>1, SeatedPlayers DEF Playable
<1>4. /\ Keeps(h, placed) /\ DOMAIN placed = DOMAIN h
      /\ placed.players = h.players /\ placed.status = h.status
      /\ placed.turn = {} /\ placed.timer = h.timer /\ placed.currentPlayer = seat
      /\ placed.dealer = h.dealer
  <2>1. Keeps(h, placed)
    BY <1>3, CurrentPlayerKeeps
  <2>2. QED
    BY <1>3, <2>1 DEF DealtIn, Game
<1> HIDE DEF placed
<1>5. Playable(placed) /\ NumPlayers(placed) = NumPlayers(h)
  BY <1>4, KeepsPlayable
<1>6. TurnsInGame(placed)
  BY <1>4 DEF TurnsInGame
<1>7. PICK q : q = At(h, seat)
  OBVIOUS
<1>8. q \in Seated(h) /\ h.status[q] \in {"IN_GAME", "ALL_IN"}
  <2>1. q \in Seated(h)
    BY <1>1, <1>3, <1>7, SeatedPlayers
  <2>2. QED
    BY <2>1 DEF DealtIn
<1>9. CASE h.status[q] = "ALL_IN"
  <2>1. m = AdvanceToNextPlayer(placed)
    BY <1>2, <1>7, <1>9
  <2>2. placed.currentPlayer \in -1 .. NumPlayers(placed) - 1
    BY <1>1, <1>4, <1>5
  <2>3. Placed(m) /\ m.dealer = placed.dealer
    BY <1>5, <1>6, <2>1, <2>2, AdvancePlaces
  <2>4. QED
    BY <1>4, <2>3
<1>10. CASE h.status[q] # "ALL_IN" /\ ShouldSkipTurnTimer(placed)
  <2>1. m = placed
    BY <1>2, <1>7, <1>10
  <2>2. At(placed, seat) = q
    BY <1>4, <1>7 DEF At
  <2>3. CurrentPlays(placed)
    BY <1>4, <1>8, <2>2 DEF CurrentPlays, IsCurrent
  <2>4. QED
    BY <1>4, <1>6, <1>10, <2>1, <2>3 DEF Placed
<1>11. CASE h.status[q] # "ALL_IN" /\ ~ShouldSkipTurnTimer(placed)
  <2>1. m = StartTurn(placed, q)
    BY <1>2, <1>7, <1>11
  <2>2. {"turn", "timer"} \subseteq DOMAIN placed /\ placed.status[q] = "IN_GAME"
    BY <1>3, <1>4, <1>8, <1>11 DEF Game
  <2>3. m = [placed EXCEPT !.turn = {q}, !.timer = h.timer \cup {q}]
    BY <1>4, <2>1, <2>2 DEF StartTurn
  <2>4. /\ m.players = h.players /\ m.status = h.status /\ m.turn = {q}
        /\ q \in m.timer /\ m.currentPlayer = seat /\ m.dealer = h.dealer
    BY <1>4, <2>2, <2>3
  <2>5. At(m, seat) = q /\ NumPlayers(m) = NumPlayers(h)
    BY <1>7, <2>4 DEF At, NumPlayers
  <2>6. IsCurrent(m, q) /\ \A p : IsCurrent(m, p) => p = q
    BY <1>1, <2>4, <2>5 DEF IsCurrent
  <2>7. m.status[q] = "IN_GAME"
    BY <1>8, <1>11, <2>4
  <2>8. TurnsInGame(m) /\ CurrentPlays(m) /\ HasTurn(m)
    BY <2>4, <2>6, <2>7 DEF TurnsInGame, CurrentPlays, HasTurn
  <2>9. QED
    BY <2>4, <2>8 DEF Placed
<1>12. QED
  BY <1>8, <1>9, <1>10, <1>11

LEMMA HandleStartHandDrives ==
    ASSUME HandInv, DriveInv, HandleStartHand
    PROVE  DriveInv'
<1>1. inbox # <<>> /\ ~blocked /\ Head(inbox).type = "startHand"
  BY DEF HandleStartHand, Receive
<1>2. CASE Reject
  <2>1. HeadIdle
    BY <1>1 DEF HeadIdle
  <2>2. QED
    BY <1>1, <1>2, <2>1, RejectDrives
<1>3. CASE ~Reject
  <2>1. PICK r : r = ResetHand(g)
    OBVIOUS
  <2>2. PICK b : b = PostBlinds(r)
    OBVIOUS
  <2>3. PICK m : m = FirstToAct(b)
    OBVIOUS
  <2>4. PICK ended : Handled(MaybeCompleteBettingRound(m), ended, RoundEvents(m))
    BY <1>3, <2>1, <2>2, <2>3 DEF HandleStartHand
  <2>5. Playable(g)
    <3>1. g \in Game /\ inbox \in Seq(Event) /\ NumPlayers(g) \in Nat
      BY SeatedPlayers DEF HandInv, TypeOK
    <3>2. 1 \in NextHandEvents /\ inbox[1] = Head(inbox)
      BY <1>1, <3>1 DEF NextHandEvents
    <3>3. QED
      BY <1>1, <3>1, <3>2 DEF HandInv, NextHandOrdered, Playable
  <2>6. /\ Playable(r) /\ NumPlayers(r) = NumPlayers(g) /\ DealtIn(r)
        /\ r.phase \in Streets /\ r.dealer \in 0 .. NumPlayers(r) - 1
    BY <2>1, <2>5, ResetHandType, ResetHandDeals
  <2>7. DealtIn(b) /\ Keeps(r, b) /\ b.dealer = r.dealer
    BY <2>2, <2>6, PostBlindsDeals, PostBlindsKeeps
  <2>8. Playable(b) /\ NumPlayers(b) = NumPlayers(r)
    BY <2>6, <2>7, KeepsPlayable
  <2>9. b.dealer \in 0 .. NumPlayers(b) - 1
    BY <2>6, <2>7, <2>8
  <2>10. Placed(m) /\ m.dealer = b.dealer /\ Keeps(b, m)
    BY <2>3, <2>7, <2>8, <2>9, FirstToActPlaces, FirstToActKeeps
  <2>11. m \in Game /\ NumPlayers(m) = NumPlayers(b) /\ m.phase \in Streets
    BY <2>6, <2>7, <2>10 DEF Keeps, NumPlayers
  <2>12. m.dealer \in 0 .. NumPlayers(m) - 1
    BY <2>9, <2>10, <2>11
  <2>13. QED
    BY <1>1, <2>4, <2>10, <2>11, <2>12, RoundDrives
<1>4. QED
  BY <1>2, <1>3

LEMMA HandlePruneDrives ==
    ASSUME HandInv, DriveInv, HandlePrune
    PROVE  DriveInv'
<1> DEFINE k == [g EXCEPT !.players = Staying(g)]
<1>1. inbox # <<>> /\ ~blocked /\ Head(inbox).type = "prune"
  BY DEF HandlePrune, Receive
<1>2. CASE Reject
  <2>1. HeadIdle
    BY <1>1 DEF HeadIdle
  <2>2. QED
    BY <1>1, <1>2, <2>1, RejectDrives
<1>3. CASE g.phase \notin Streets /\ Handled(k, {}, <<>>)
  <2>1. k.phase = g.phase /\ k.turn = g.turn /\ k.status = g.status
    BY DEF HandInv, TypeOK, Game
  <2> HIDE DEF k
  <2>2. g' = k /\ ~blocked'
    BY <1>1, <1>3 DEF Handled
  <2>3. TurnsInGame(g)'
    BY <2>1, <2>2 DEF DriveInv, TurnsInGame
  <2>4. QED
    BY <1>3, <2>1, <2>2, <2>3, BetweenHandsDrives
<1>4. QED
  BY <1>2, <1>3 DEF HandlePrune

(***************************************************************************)
(* What runs around the machine.                                           *)
(***************************************************************************)
LEMMA EnqueueRange ==
    ASSUME TypeOK, NEW e \in Event, Enqueue(e)
    PROVE  Range(inbox') = Range(inbox) \cup {e}
<1>1. inbox \in Seq(Event) /\ inbox' = Append(inbox, e)
  BY DEF TypeOK, Enqueue
<1>2. /\ Len(inbox') = Len(inbox) + 1
      /\ \A i \in 1 .. Len(inbox) : inbox'[i] = inbox[i]
      /\ inbox'[Len(inbox) + 1] = e
      /\ inbox' \in Seq(Event)
  BY <1>1, AppendProperties
<1>3. /\ Len(inbox) \in Nat /\ DOMAIN inbox = 1 .. Len(inbox)
      /\ DOMAIN inbox' = 1 .. Len(inbox) + 1
  BY <1>1, <1>2, LenProperties
<1>4. \A i \in DOMAIN inbox' : i \in DOMAIN inbox \/ i = Len(inbox) + 1
  BY <1>3
<1>5. Len(inbox) + 1 \in DOMAIN inbox' /\ DOMAIN inbox \subseteq DOMAIN inbox'
  BY <1>3
<1>6. \A i \in DOMAIN inbox : inbox'[i] = inbox[i]
  BY <1>2, <1>3
<1>7. QED
  BY <1>2, <1>4, <1>5, <1>6 DEF Range

(* A step that leaves the game alone and loses no event.                   *)
LEMMA SameGameDrives ==
    ASSUME DriveInv, g' = g, blocked' = blocked,
           Range(inbox) \subseteq Range(inbox'),
           Range(expiries) \subseteq Range(expiries') \cup Range(inbox')
    PROVE  DriveInv'
<1>1. (ShowdownQueued => ShowdownQueued') /\ (AdvanceQueued => AdvanceQueued')
  BY DEF ShowdownQueued, AdvanceQueued
<1>2. TurnRuns => TurnRuns'
  <2>1. ASSUME NEW p, ExpiryOf(p) PROVE ExpiryOf(p)'
    BY <2>1 DEF ExpiryOf
  <2>2. SUFFICES ASSUME NEW p \in g.turn, IsCurrent(g, p), p \in g.timer \/ ExpiryOf(p)
                 PROVE  TurnRuns'
    BY DEF TurnRuns
  <2>3. p \in g'.turn /\ IsCurrent(g, p)' /\ (p \in g'.timer \/ ExpiryOf(p)')
    BY <2>1, <2>2
  <2>4. QED
    BY <2>3 DEF TurnRuns
<1>3. Driven' /\ RunOutMarked'
  BY <1>1, <1>2 DEF DriveInv, Driven, RunOutMarked
<1>4. DealerSeated' /\ BlockedOnlyAfterLastDecision'
  BY DEF DriveInv, DealerSeated, BlockedOnlyAfterLastDecision
<1>5. TurnsInGame(g)' /\ (g.phase \in Streets => CurrentPlays(g))'
  BY DEF DriveInv
<1>6. QED
  BY <1>3, <1>4, <1>5 DEF DriveInv

LEMMA ClientRequestDrives ==
    ASSUME HandInv, DriveInv, NEW p \in Player, ClientRequest(p)
    PROVE  DriveInv'
<1>1. g' = g /\ blocked' = blocked /\ expiries' = expiries
  BY DEF ClientRequest
<1>2. \E e \in Event : Enqueue(e)
  <2>1. CASE \E type \in Requests \ {"bet"} : Enqueue([type |-> type, id |-> p])
    <3>1. PICK type \in Requests \ {"bet"} : Enqueue([type |-> type, id |-> p])
      BY <2>1
    <3>2. [type |-> type, id |-> p] \in Event
      BY RequestsAssumption DEF Event
    <3>3. QED
      BY <3>1, <3>2
  <2>2. CASE \E amount \in BetAmounts :
                 Enqueue([type |-> "bet", id |-> p, amount |-> amount])
    <3>1. PICK amount \in BetAmounts :
                   Enqueue([type |-> "bet", id |-> p, amount |-> amount])
      BY <2>2
    <3>2. [type |-> "bet", id |-> p, amount |-> amount] \in Event
      BY RequestsAssumption DEF Event
    <3>3. QED
      BY <3>1, <3>2
  <2>3. QED
    BY <2>1, <2>2 DEF ClientRequest
<1>3. Range(inbox) \subseteq Range(inbox')
  BY <1>2, EnqueueRange DEF HandInv
<1>4. QED
  BY <1>1, <1>3, SameGameDrives

LEMMA ForwardExpiryDrives ==
    ASSUME HandInv, DriveInv, ForwardExpiry
    PROVE  DriveInv'
<1>1. /\ g' = g /\ blocked' = blocked /\ expiries # <<>>
      /\ Enqueue(Head(expiries)) /\ expiries' = Tail(expiries)
  BY DEF ForwardExpiry
<1>2. PICK e : e = Head(expiries)
  OBVIOUS
<1>3. expiries \in Seq(TimebankEvent) /\ e \in Event
  BY <1>1, <1>2, HeadTailProperties, TimebankEventIsEvent DEF HandInv, TypeOK
<1>4. Range(inbox') = Range(inbox) \cup {e}
  BY <1>1, <1>2, <1>3, EnqueueRange DEF HandInv
<1>5. \A x \in Range(expiries) : x = e \/ x \in Range(expiries')
  <2>1. /\ expiries' \in Seq(TimebankEvent) /\ Len(expiries') = Len(expiries) - 1
        /\ \A i \in 1 .. Len(expiries') : expiries'[i] = expiries[i + 1]
    BY <1>1, <1>3, HeadTailProperties
  <2>2. /\ Len(expiries) \in Nat /\ DOMAIN expiries = 1 .. Len(expiries)
        /\ DOMAIN expiries' = 1 .. Len(expiries') /\ expiries[1] = e
    BY <1>2, <1>3, <2>1, LenProperties
  <2>3. SUFFICES ASSUME NEW i \in 1 .. Len(expiries), i # 1
                 PROVE  expiries[i] \in Range(expiries')
    BY <2>2 DEF Range
  <2>4. i - 1 \in 1 .. Len(expiries') /\ (i - 1) + 1 = i
    BY <2>1, <2>2, <2>3
  <2>5. expiries'[i - 1] = expiries[i]
    BY <2>1, <2>4
  <2>6. QED
    BY <2>2, <2>4, <2>5 DEF Range
<1>6. QED
  BY <1>1, <1>4, <1>5, SameGameDrives

(* A timebank that fires leaves an expiry of the turn.                     *)
LEMMA TimebankFiresDrives ==
    ASSUME HandInv, DriveInv, NEW p \in Player, TimebankFires(p)
    PROVE  DriveInv'
<1> DEFINE e == [type |-> "timebank", id |-> p, fresh |-> TRUE]
<1>1. /\ g' = [g EXCEPT !.timer = g.timer \ {p}] /\ expiries' = Append(expiries, e)
      /\ inbox' = inbox /\ blocked' = blocked /\ g \in Game
  BY DEF TimebankFires, HandInv, TypeOK
<1>2. PICK k : k = [g EXCEPT !.timer = g.timer \ {p}]
  OBVIOUS
<1>3. /\ k.players = g.players /\ k.status = g.status /\ k.turn = g.turn
      /\ k.phase = g.phase /\ k.dealer = g.dealer /\ k.round = g.round
      /\ k.currentPlayer = g.currentPlayer
      /\ k.advanceTimer = g.advanceTimer /\ k.autoAdvance = g.autoAdvance
      /\ k.timer = g.timer \ {p}
  BY <1>1, <1>2 DEF Game
<1>4. g' = k
  BY <1>1, <1>2
<1>5. Range(expiries') = Range(expiries) \cup {e}
  <2>1. expiries \in Seq(TimebankEvent) /\ e \in TimebankEvent
    BY DEF HandInv, TypeOK, TimebankEvent
  <2> HIDE DEF e
  <2>2. /\ Len(expiries') = Len(expiries) + 1
        /\ \A i \in 1 .. Len(expiries) : expiries'[i] = expiries[i]
        /\ expiries'[Len(expiries) + 1] = e
        /\ expiries' \in Seq(TimebankEvent)
    BY <1>1, <2>1, AppendProperties
  <2>3. /\ Len(expiries) \in Nat /\ DOMAIN expiries = 1 .. Len(expiries)
        /\ DOMAIN expiries' = 1 .. Len(expiries) + 1
    BY <2>1, <2>2, LenProperties
  <2>4. \A i \in DOMAIN expiries' : i \in DOMAIN expiries \/ i = Len(expiries) + 1
    BY <2>3
  <2>5. Len(expiries) + 1 \in DOMAIN expiries' /\ DOMAIN expiries \subseteq DOMAIN expiries'
    BY <2>3
  <2>6. \A i \in DOMAIN expiries : expiries'[i] = expiries[i]
    BY <2>2, <2>3
  <2>7. QED
    BY <2>2, <2>4, <2>5, <2>6 DEF Range
<1>6. /\ NumPlayers(k) = NumPlayers(g) /\ Actionable(k) = Actionable(g)
      /\ Alive(k) = Alive(g)
      /\ \A q : IsCurrent(k, q) <=> IsCurrent(g, q)
  BY <1>3 DEF NumPlayers, Actionable, Alive, Seated, IsCurrent, At
<1>7. (ShowdownQueued => ShowdownQueued') /\ (AdvanceQueued => AdvanceQueued')
  BY <1>1, <1>3, <1>4 DEF ShowdownQueued, AdvanceQueued
<1>8. ExpiryOf(p)'
  <2>1. PICK x : x = e
    OBVIOUS
  <2>2. x \in Range(expiries') /\ x.type = "timebank" /\ x.id = p /\ x.fresh
    BY <1>5, <2>1
  <2>3. QED
    BY <2>2 DEF ExpiryOf
<1>9. ASSUME NEW q, ExpiryOf(q) PROVE ExpiryOf(q)'
  BY <1>1, <1>5, <1>9 DEF ExpiryOf
<1>10. TurnRuns => TurnRuns'
  <2>1. SUFFICES ASSUME NEW q \in g.turn, IsCurrent(g, q), q \in g.timer \/ ExpiryOf(q)
                 PROVE  TurnRuns'
    BY DEF TurnRuns
  <2>2. q \in k.turn /\ IsCurrent(k, q) /\ (q \in k.timer \/ ExpiryOf(q)')
    BY <1>3, <1>6, <1>8, <1>9, <2>1
  <2>3. QED
    BY <1>4, <2>2 DEF TurnRuns
<1>11. Driven' /\ RunOutMarked'
  BY <1>1, <1>3, <1>4, <1>6, <1>7, <1>10 DEF DriveInv, Driven, RunOutMarked
<1>12. DealerSeated'
  BY <1>3, <1>4, <1>6 DEF DriveInv, DealerSeated
<1>13. BlockedOnlyAfterLastDecision'
  BY <1>1, <1>3, <1>4, <1>6 DEF TimebankFires, BlockedOnlyAfterLastDecision
<1>14. TurnsInGame(k)
  BY <1>3 DEF DriveInv, TurnsInGame
<1>15. k.phase \in Streets => CurrentPlays(k)
  BY <1>3, <1>6 DEF DriveInv, CurrentPlays, Decided
<1>16. QED
  BY <1>4, <1>11, <1>12, <1>13, <1>14, <1>15 DEF DriveInv

(* The auto-advance timer leaves its event.                                *)
LEMMA AdvanceTimerDrives ==
    ASSUME HandInv, DriveInv, AdvanceTimerFires
    PROVE  DriveInv'
<1> DEFINE e == [type |-> "advance"]
<1>1. /\ g' = [g EXCEPT !.advanceTimer = FALSE] /\ expiries' = expiries
      /\ Enqueue(e) /\ blocked' = blocked /\ g \in Game /\ e \in Event
  BY DEF AdvanceTimerFires, HandInv, TypeOK, Event
<1>2. PICK k : k = [g EXCEPT !.advanceTimer = FALSE]
  OBVIOUS
<1>3. /\ k.players = g.players /\ k.status = g.status /\ k.turn = g.turn
      /\ k.phase = g.phase /\ k.dealer = g.dealer /\ k.round = g.round
      /\ k.currentPlayer = g.currentPlayer
      /\ k.timer = g.timer /\ k.autoAdvance = g.autoAdvance
  BY <1>1, <1>2 DEF Game
<1>4. g' = k
  BY <1>1, <1>2
<1>5. Range(inbox') = Range(inbox) \cup {e}
  BY <1>1, EnqueueRange DEF HandInv
<1>6. /\ NumPlayers(k) = NumPlayers(g) /\ Actionable(k) = Actionable(g)
      /\ Alive(k) = Alive(g)
      /\ \A q : IsCurrent(k, q) <=> IsCurrent(g, q)
  BY <1>3 DEF NumPlayers, Actionable, Alive, Seated, IsCurrent, At
<1>7. (ShowdownQueued => ShowdownQueued') /\ AdvanceQueued'
  <2>1. PICK x : x = e
    OBVIOUS
  <2>2. x \in Range(inbox') /\ x.type = "advance"
    BY <1>5, <2>1
  <2>3. AdvanceQueued'
    BY <2>2 DEF AdvanceQueued
  <2> HIDE DEF e
  <2>4. ShowdownQueued => ShowdownQueued'
    BY <1>3, <1>4, <1>5 DEF ShowdownQueued
  <2>5. QED
    BY <2>3, <2>4
<1>8. Driven' /\ RunOutMarked'
  BY <1>3, <1>4, <1>6, <1>7 DEF DriveInv, Driven, RunOutMarked
<1>9. DealerSeated'
  BY <1>3, <1>4, <1>6 DEF DriveInv, DealerSeated
<1>10. BlockedOnlyAfterLastDecision'
  BY <1>1 DEF AdvanceTimerFires, BlockedOnlyAfterLastDecision
<1>11. TurnsInGame(k)
  BY <1>3 DEF DriveInv, TurnsInGame
<1>12. k.phase \in Streets => CurrentPlays(k)
  BY <1>3, <1>6 DEF DriveInv, CurrentPlays, Decided
<1>13. QED
  BY <1>4, <1>8, <1>9, <1>10, <1>11, <1>12 DEF DriveInv

LEMMA NextHandDrives ==
    ASSUME HandInv, DriveInv, AutoStartFires \/ StartNewHand
    PROVE  DriveInv'
<1>1. g' = g /\ blocked' = blocked /\ expiries' = expiries
  BY DEF AutoStartFires, StartNewHand
<1>2. inbox' = inbox \/ \E e \in Event : Enqueue(e)
  <2>1. [type |-> "prune"] \in Event /\ [type |-> "startHand"] \in Event
    BY DEF Event
  <2>2. QED
    BY <2>1 DEF AutoStartFires, StartNewHand
<1>3. Range(inbox) \subseteq Range(inbox')
  BY <1>2, EnqueueRange DEF HandInv
<1>4. QED
  BY <1>1, <1>3, SameGameDrives

(***************************************************************************)
(* The theorems.                                                           *)
(***************************************************************************)
LEMMA DriveInvInit == Init => DriveInv
<1> SUFFICES ASSUME Init PROVE DriveInv
  OBVIOUS
<1>1. g.phase = "NEW_HAND_DEALING" /\ g.turn = {} /\ blocked = FALSE
  BY DEF Init
<1>2. g.phase \notin Streets /\ g.phase \notin DOMAIN NextStreet
  BY <1>1 DEF Streets, NextStreet
<1>3. QED
  BY <1>1, <1>2 DEF DriveInv, Driven, RunOutMarked, DealerSeated, TurnsInGame,
                    BlockedOnlyAfterLastDecision

LEMMA DriveInvNext ==
    ASSUME HandInv, DriveInv, [Next]_vars
    PROVE  DriveInv'
<1>1. CASE Machine
  <2>1. CASE \/ HandleFoldReq \/ HandleCheckReq \/ HandleCallReq \/ HandleBetReq
             \/ HandleTimebankExpired
    BY <2>1, HandleRequestDrives
  <2>2. CASE HandleAdvance
    BY <2>2, HandleAdvanceDrives
  <2>3. CASE HandleGotoShowdown
    BY <2>3, HandleGotoShowdownDrives
  <2>4. CASE HandleStartHand
    BY <2>4, HandleStartHandDrives
  <2>5. CASE HandlePrune
    BY <2>5, HandlePruneDrives
  <2>6. QED
    BY <1>1, <2>1, <2>2, <2>3, <2>4, <2>5 DEF Machine
<1>2. CASE Timers
  <2>1. CASE \E p \in Player : TimebankFires(p)
    BY <2>1, TimebankFiresDrives
  <2>2. CASE ForwardExpiry
    BY <2>2, ForwardExpiryDrives
  <2>3. CASE AdvanceTimerFires
    BY <2>3, AdvanceTimerDrives
  <2>4. CASE AutoStartFires \/ StartNewHand
    BY <2>4, NextHandDrives
  <2>5. QED
    BY <1>2, <2>1, <2>2, <2>3, <2>4 DEF Timers
<1>3. CASE \E p \in Player : ClientRequest(p)
  BY <1>3, ClientRequestDrives
<1>4. CASE UNCHANGED vars
  BY <1>4, SameGameDrives DEF vars
<1>5. QED
  BY <1>1, <1>2, <1>3, <1>4 DEF Next, Over

(* What moves the hand is always there: the turn of the current player     *)
(* with its timebank or its expiry, the auto-advance timer, or an event in *)
(* the inbox that will be accepted.                                        *)
THEOREM DriveInvariant == Spec => []DriveInv
<1>1. HandInv /\ DriveInv /\ [Next]_vars => DriveInv'
  BY DriveInvNext
<1>2. QED
  BY DriveInvInit, <1>1, HandInvariant, PTL DEF Spec

LEMMA DrivenIsDriven ==
    ASSUME TypeOK, Driven
    PROVE  HandIsDriven
<1>1. ASSUME NEW p, ExpiryOf(p)
      PROVE  \E i \in DOMAIN (expiries \o inbox) :
                 LET event == (expiries \o inbox)[i]
                 IN  event.type = "timebank" /\ event.id = p /\ event.fresh
  <2> DEFINE both == expiries \o inbox
  <2>1. PICK e \in Range(expiries) \cup Range(inbox) :
                 e.type = "timebank" /\ e.id = p /\ e.fresh
    BY <1>1 DEF ExpiryOf
  <2>2. expiries \in Seq(Event) /\ inbox \in Seq(Event)
    BY TimebankEventIsEvent DEF TypeOK
  <2>3. /\ both \in Seq(Event) /\ Len(both) = Len(expiries) + Len(inbox)
        /\ \A i \in 1 .. Len(expiries) + Len(inbox) :
               both[i] = IF i <= Len(expiries) THEN expiries[i]
                         ELSE inbox[i - Len(expiries)]
    BY <2>2, ConcatProperties
  <2> HIDE DEF both
  <2>4. /\ Len(expiries) \in Nat /\ Len(inbox) \in Nat
        /\ DOMAIN expiries = 1 .. Len(expiries) /\ DOMAIN inbox = 1 .. Len(inbox)
        /\ DOMAIN both = 1 .. Len(expiries) + Len(inbox)
    BY <2>2, <2>3, LenProperties
  <2>5. \E i \in DOMAIN both : both[i] = e
    <3>1. CASE e \in Range(expiries)
      <4>1. PICK i \in 1 .. Len(expiries) : expiries[i] = e
        BY <2>4, <3>1 DEF Range
      <4>2. i \in DOMAIN both /\ both[i] = e
        BY <2>3, <2>4, <4>1
      <4>3. QED
        BY <4>2
    <3>2. CASE e \in Range(inbox)
      <4>1. PICK i \in 1 .. Len(inbox) : inbox[i] = e
        BY <2>4, <3>2 DEF Range
      <4>2. /\ Len(expiries) + i \in 1 .. Len(expiries) + Len(inbox)
            /\ ~(Len(expiries) + i <= Len(expiries))
            /\ (Len(expiries) + i) - Len(expiries) = i
        BY <2>4, <4>1
      <4>3. Len(expiries) + i \in DOMAIN both /\ both[Len(expiries) + i] = e
        BY <2>3, <2>4, <4>1, <4>2
      <4>4. QED
        BY <4>3
    <3>3. QED
      BY <3>1, <3>2
  <2>6. PICK i \in DOMAIN both : both[i] = e
    BY <2>5
  <2>7. QED
    BY <2>1, <2>6 DEF both
<1>2. ASSUME NEW e \in Range(inbox)
      PROVE  \E i \in DOMAIN inbox : inbox[i] = e
  BY <1>2 DEF Range
<1>3. AdvanceQueued \/ ShowdownQueued =>
          \E i \in DOMAIN inbox : inbox[i].type \in {"advance", "gotoShowdown"}
  BY <1>2 DEF AdvanceQueued, ShowdownQueued
<1>4. SUFFICES ASSUME g.phase \in Streets, ~blocked, TurnRuns, g.timer = {}
               PROVE  HandIsDriven
  BY <1>3 DEF Driven, HandIsDriven
<1>5. PICK p \in g.turn : ExpiryOf(p)
  BY <1>4 DEF TurnRuns
<1>6. QED
  BY <1>1, <1>5 DEF HandIsDriven

(* A hand in progress always has something that moves it, whatever the     *)
(* number of players and the requests and expiries under way.              *)
THEOREM HandAlwaysDriven == Spec => []HandIsDriven
<1>1. HandInv /\ DriveInv => HandIsDriven
  BY DrivenIsDriven DEF HandInv, DriveInv
<1>2. QED
  BY HandInvariant, DriveInvariant, <1>1, PTL

(* The machine gets stuck only when nothing is left to decide.             *)
THEOREM OnlyBlockedAfterLastDecision == Spec => []BlockedOnlyAfterLastDecision
<1>1. DriveInv => BlockedOnlyAfterLastDecision
  BY DEF DriveInv
<1>2. QED
  BY DriveInvariant, <1>1, PTL

(***************************************************************************)
(* Without timebanks only the current player has the turn.                 *)
(***************************************************************************)
\* Where a request of a player, an advance to the next street, or the start
\* of a hand is queued.
Requested(queue, i) ==
    i \in DOMAIN queue /\ queue[i].type \in {"fold", "check", "call", "bet"}
Advancing(queue, i) == i \in DOMAIN queue /\ queue[i].type = "advance"
Starting(queue, i) == i \in DOMAIN queue /\ queue[i].type = "startHand"

\* There are no timebanks.
NoTimebank == expiries = <<>> /\ \A i \in DOMAIN inbox : inbox[i].type # "timebank"

SeatsDiffer(h) ==
    \A i, j \in DOMAIN h.players : h.players[i] = h.players[j] => i = j

\* Who sits in a hand was dealt in.
NobodyAside(h) ==
    h.phase \in Streets => \A p \in Seated(h) : h.status[p] # "AT_TABLE"

\* Of two players' requests the first comes too late: its player is no longer
\* the current one, and will not be before it is handled.
InOrder ==
    \A i, j : Requested(inbox, i) /\ Requested(inbox, j) /\ i < j
              /\ inbox[i].id # inbox[j].id =>
        /\ ~IsCurrent(g, inbox[i].id)
        /\ \A k : Advancing(inbox, k) => k > i

\* A request behind an advance is one of the current player.
Behind ==
    g.phase \in Streets =>
        \A i, j : Advancing(inbox, i) /\ Requested(inbox, j) /\ i < j =>
            g.currentPlayer = -1 \/ IsCurrent(g, inbox[j].id)

\* The street is about to be left.
Leaving == g.advanceTimer \/ g.autoAdvance \/ \E i : Advancing(inbox, i)

\* Nobody is left to bet against, and the board is run out.
RunOut(h) ==
    /\ ShouldSkipTurnTimer(h)
    /\ h.autoAdvance \/ h.phase = "RIVER"
    /\ \A p \in Actionable(h) : h.currentPlayer = -1 \/ IsCurrent(h, p)

\* The street was closed by an action: one advance is queued, and the current
\* player has no request before it.
StreetClosed ==
    /\ ~g.advanceTimer /\ ~g.autoAdvance
    /\ \A i, j : Advancing(inbox, i) /\ Advancing(inbox, j) => i = j
    /\ \A i, j : Advancing(inbox, i) /\ Requested(inbox, j) /\ j < i =>
           ~IsCurrent(g, inbox[j].id)

\* Until then nobody has the turn.
StreetLeaves ==
    g.phase \in Streets /\ Leaving =>
        /\ g.turn = {} /\ g.timer = {}
        /\ RunOut(g) \/ StreetClosed

OneTurn == \A p \in g.turn \cup g.timer : CanAct(p)

\* Requests and advances of a hand are gone before the next one is dealt.
HandsApart ==
    /\ g.phase \notin Streets => g.currentPlayer = -1 \/ \A i : ~Requested(inbox, i)
    /\ autoStart \in {"pruning", "ready"} => ~g.advanceTimer
    /\ \A i : Starting(inbox, i) =>
           /\ ~g.advanceTimer
           /\ \A j : Requested(inbox, j) \/ Advancing(inbox, j) => j < i

TurnInv ==
    /\ NoTimebank /\ SeatsDiffer(g) /\ NobodyAside(g)
    /\ InOrder /\ Behind /\ StreetLeaves /\ OneTurn /\ HandsApart

\* What a handler may send to its own machine.
Announces(sent) ==
    /\ sent \in Seq(Event) /\ Len(sent) <= 1
    /\ \A i \in 1 .. Len(sent) : sent[i].type \in {"gotoShowdown", "advance"}
Closing(sent) == \E i \in 1 .. Len(sent) : sent[i].type = "advance"

\* The handled event is gone, those behind it have moved up, and what was
\* sent comes last.
Shifted(sent) ==
    /\ Len(inbox) \in Nat \ {0} /\ inbox[1] = Head(inbox)
    /\ \A i : Requested(inbox', i) =>
           /\ i \in Nat \ {0} /\ i < Len(inbox)
           /\ Requested(inbox, i + 1) /\ inbox'[i].id = inbox[i + 1].id
    /\ \A i : Advancing(inbox', i) =>
           /\ i \in Nat \ {0}
           /\ \/ i < Len(inbox) /\ Advancing(inbox, i + 1)
              \/ i = Len(inbox) /\ Closing(sent)
    /\ \A i : Starting(inbox', i) =>
           i \in Nat \ {0} /\ i < Len(inbox) /\ Starting(inbox, i + 1)

(* What a handler leaves in the inbox, place by place.                     *)
LEMMA QueueShift ==
    ASSUME TypeOK, NoTimebank, inbox # <<>>, NEW h, NEW ended, NEW sent,
           Announces(sent), Handled(h, ended, sent)
    PROVE  NoTimebank' /\ Shifted(sent)
<1> DEFINE tail == Tail(inbox)
           rest == Retire(tail, ended)
<1>1. inbox \in Seq(Event) /\ sent \in Seq(Event)
  BY DEF TypeOK, Announces
<1>2. /\ tail \in Seq(Event) /\ Len(inbox) \in Nat \ {0}
      /\ Len(tail) = Len(inbox) - 1
      /\ DOMAIN inbox = 1 .. Len(inbox) /\ DOMAIN tail = 1 .. Len(tail)
      /\ \A i \in 1 .. Len(tail) : tail[i] = inbox[i + 1]
      /\ inbox[1] = Head(inbox)
  <2>1. tail \in Seq(Event) /\ Len(tail) = Len(inbox) - 1
        /\ \A i \in 1 .. Len(tail) : tail[i] = inbox[i + 1]
    BY <1>1, HeadTailProperties
  <2> HIDE DEF tail
  <2>2. QED
    BY <1>1, <2>1, LenProperties, EmptySeq
<1> HIDE DEF tail
<1>3. \A i \in 1 .. Len(tail) : i + 1 \in DOMAIN inbox /\ i < Len(inbox)
  BY <1>2
<1>4. rest = [i \in 1 .. Len(tail) |->
                 IF tail[i].type = "timebank" /\ tail[i].id \in ended
                 THEN [tail[i] EXCEPT !.fresh = FALSE] ELSE tail[i]]
  BY <1>2 DEF Retire
<1>5. \A i \in 1 .. Len(tail) : tail[i].type # "timebank"
  BY <1>2, <1>3 DEF NoTimebank
<1>6. rest \in Seq(Event) /\ Len(rest) = Len(tail)
      /\ \A i \in 1 .. Len(tail) : rest[i] = inbox[i + 1]
  <2>1. rest \in Seq(Event) /\ Len(rest) = Len(tail)
    BY <1>2, RetireKeeps
  <2>2. QED
    BY <1>2, <1>4, <1>5, <2>1
<1> HIDE DEF rest
<1>7. inbox' = rest \o sent /\ expiries' = Retire(expiries, ended)
  BY DEF Handled, rest, tail
<1>8. PICK n : n = Len(tail)
  OBVIOUS
<1>9. PICK s : s = Len(sent)
  OBVIOUS
<1>10. n \in Nat /\ s \in Nat /\ n + 1 = Len(inbox) /\ s <= 1
  BY <1>1, <1>2, <1>8, <1>9, LenProperties DEF Announces
<1>11. /\ DOMAIN inbox' = 1 .. n + s
       /\ \A i \in 1 .. n : inbox'[i] = inbox[i + 1]
       /\ \A i \in 1 .. n + s : ~(i <= n) => inbox'[i] = sent[i - n]
  <2>0. Len(rest) = n /\ Len(sent) = s
    BY <1>6, <1>8, <1>9
  <2>1. /\ rest \o sent \in Seq(Event) /\ Len(rest \o sent) = n + s
        /\ \A i \in 1 .. n + s :
               (rest \o sent)[i] = IF i <= n THEN rest[i] ELSE sent[i - n]
    <3>1. rest \in Seq(Event) /\ sent \in Seq(Event)
      BY <1>1, <1>6
    <3>2. /\ rest \o sent \in Seq(Event)
          /\ Len(rest \o sent) = Len(rest) + Len(sent)
          /\ \A i \in 1 .. Len(rest) + Len(sent) :
                 (rest \o sent)[i] = IF i <= Len(rest) THEN rest[i]
                                     ELSE sent[i - Len(rest)]
      BY <3>1, ConcatProperties
    <3>3. QED
      BY <2>0, <3>2
  <2>2. DOMAIN (rest \o sent) = 1 .. n + s
    BY <2>1, LenProperties
  <2>3. QED
    BY <1>6, <1>7, <1>8, <1>10, <2>1, <2>2
<1>12. ASSUME NEW i \in DOMAIN inbox'
       PROVE  \/ /\ i \in Nat \ {0} /\ i < Len(inbox)
                 /\ i + 1 \in DOMAIN inbox /\ inbox'[i] = inbox[i + 1]
              \/ /\ i = Len(inbox) /\ i \in Nat \ {0}
                 /\ s = 1 /\ inbox'[i] = sent[1]
  <2>1. i \in 1 .. n + s /\ i \in Nat \ {0}
    BY <1>10, <1>11
  <2>2. CASE i <= n
    <3>1. i \in 1 .. n
      BY <1>10, <2>1, <2>2
    <3>2. QED
      BY <1>3, <1>8, <1>11, <2>1, <3>1
  <2>3. CASE ~(i <= n)
    <3>1. i = n + 1 /\ s = 1 /\ i - n = 1
      BY <1>10, <2>1, <2>3
    <3>2. inbox'[i] = sent[1]
      BY <1>11, <2>1, <2>3, <3>1
    <3>3. QED
      BY <1>10, <2>1, <3>1, <3>2
  <2>4. QED
    BY <2>2, <2>3
<1>13. s = 1 => sent[1].type \in {"gotoShowdown", "advance"}
                /\ (sent[1].type = "advance" => Closing(sent))
  <2>1. s = 1 => 1 \in 1 .. Len(sent)
    BY <1>9
  <2>2. QED
    BY <2>1 DEF Announces, Closing
<1>14. NoTimebank'
  <2>1. expiries' = <<>>
    BY <1>7 DEF NoTimebank, Retire
  <2>2. ASSUME NEW i \in DOMAIN inbox' PROVE inbox'[i].type # "timebank"
    BY <1>12, <1>13 DEF NoTimebank
  <2>3. QED
    BY <2>1, <2>2 DEF NoTimebank
<1>15. ASSUME NEW i, Requested(inbox', i)
       PROVE  /\ i \in Nat \ {0} /\ i < Len(inbox)
              /\ Requested(inbox, i + 1) /\ inbox'[i].id = inbox[i + 1].id
  BY <1>12, <1>13, <1>15 DEF Requested
<1>16. ASSUME NEW i, Advancing(inbox', i)
       PROVE  /\ i \in Nat \ {0}
              /\ \/ i < Len(inbox) /\ Advancing(inbox, i + 1)
                 \/ i = Len(inbox) /\ Closing(sent)
  BY <1>12, <1>13, <1>16 DEF Advancing
<1>17. ASSUME NEW i, Starting(inbox', i)
       PROVE  i \in Nat \ {0} /\ i < Len(inbox) /\ Starting(inbox, i + 1)
  BY <1>12, <1>13, <1>17 DEF Starting
<1>18. QED
  BY <1>2, <1>14, <1>15, <1>16, <1>17 DEF Shifted

LEMMA InOrderShift ==
    ASSUME InOrder, NEW sent, Shifted(sent),
           \A p : IsCurrent(g', p) => IsCurrent(g, p)
    PROVE  InOrder'
<1> SUFFICES ASSUME NEW i, NEW j, Requested(inbox', i), Requested(inbox', j), i < j,
                    inbox'[i].id # inbox'[j].id
             PROVE  /\ ~IsCurrent(g', inbox'[i].id)
                    /\ \A k : Advancing(inbox', k) => k > i
  BY DEF InOrder
<1>1. /\ i \in Nat /\ j \in Nat /\ i < Len(inbox)
      /\ Requested(inbox, i + 1) /\ Requested(inbox, j + 1)
      /\ inbox'[i].id = inbox[i + 1].id /\ inbox'[j].id = inbox[j + 1].id
  BY DEF Shifted
<1>2. i + 1 < j + 1
  BY <1>1
<1>3. /\ ~IsCurrent(g, inbox[i + 1].id)
      /\ \A k : Advancing(inbox, k) => k > i + 1
  BY <1>1, <1>2 DEF InOrder
<1>4. ASSUME NEW k, Advancing(inbox', k) PROVE k > i
  <2>1. k \in Nat /\ Len(inbox) \in Nat
        /\ ((k < Len(inbox) /\ Advancing(inbox, k + 1)) \/ k = Len(inbox))
    BY <1>4 DEF Shifted
  <2>2. Advancing(inbox, k + 1) => k + 1 > i + 1
    BY <1>3
  <2>3. QED
    BY <1>1, <2>1, <2>2
<1>5. QED
  BY <1>1, <1>3, <1>4

LEMMA InOrderAlone ==
    ASSUME NEW p, \A i : Requested(inbox', i) => inbox'[i].id = p
    PROVE  InOrder'
BY DEF InOrder

LEMMA HandsApartShift ==
    ASSUME HandsApart, NEW sent, Shifted(sent), ~Closing(sent),
           g'.advanceTimer = g.advanceTimer, g'.currentPlayer = g.currentPlayer,
           g'.phase = g.phase, autoStart' \in {autoStart, "off"}
    PROVE  HandsApart'
<1>1. (\A i : ~Requested(inbox, i)) => \A i : ~Requested(inbox', i)
  BY DEF Shifted
<1>2. ASSUME NEW i, Starting(inbox', i)
      PROVE  /\ ~g'.advanceTimer
             /\ \A j : Requested(inbox', j) \/ Advancing(inbox', j) => j < i
  <2>1. i \in Nat /\ Starting(inbox, i + 1)
    BY <1>2 DEF Shifted
  <2>2. ~g.advanceTimer
        /\ \A j : Requested(inbox, j) \/ Advancing(inbox, j) => j < i + 1
    BY <2>1 DEF HandsApart
  <2>3. ASSUME NEW j, Requested(inbox', j) \/ Advancing(inbox', j) PROVE j < i
    <3>1. j \in Nat /\ (Requested(inbox, j + 1) \/ Advancing(inbox, j + 1))
      BY <2>3 DEF Shifted
    <3>2. j + 1 < i + 1
      BY <2>2, <3>1
    <3>3. QED
      BY <2>1, <3>1, <3>2
  <2>4. QED
    BY <2>2, <2>3
<1>3. (g'.phase \notin Streets => g'.currentPlayer = -1 \/ \A i : ~Requested(inbox', i))
  BY <1>1 DEF HandsApart
<1>4. autoStart' \in {"pruning", "ready"} => ~g'.advanceTimer
  BY DEF HandsApart
<1>5. QED
  BY <1>2, <1>3, <1>4 DEF HandsApart

\* The same player is to act, and nobody else has got the turn.
SameActor(h, k) ==
    /\ k.players = h.players /\ k.phase = h.phase
    /\ k.currentPlayer = h.currentPlayer
    /\ k.autoAdvance = h.autoAdvance /\ k.advanceTimer = h.advanceTimer
    /\ k.turn \subseteq h.turn /\ k.timer \subseteq h.timer

LEMMA SameActorSame ==
    ASSUME NEW h, NEW k, k.players = h.players, k.currentPlayer = h.currentPlayer
    PROVE  \A p : IsCurrent(k, p) <=> IsCurrent(h, p)
BY DEF IsCurrent, NumPlayers, At

LEMMA CanActIs ==
    \A p : CanAct(p)' <=> g'.phase \in Streets /\ IsCurrent(g', p)
BY DEF CanAct

(* A step that leaves the turn where it was, or takes it away.             *)
LEMMA SameActorTurns ==
    ASSUME TurnInv, NEW sent, Shifted(sent), ~Closing(sent), NoTimebank',
           SameActor(g, g'), NobodyAside(g'), autoStart' \in {autoStart, "off"},
           g.phase \in Streets /\ Leaving /\ RunOut(g) => RunOut(g')
    PROVE  TurnInv'
<1>1. /\ g'.players = g.players /\ g'.phase = g.phase
      /\ g'.currentPlayer = g.currentPlayer
      /\ g'.autoAdvance = g.autoAdvance /\ g'.advanceTimer = g.advanceTimer
      /\ g'.turn \subseteq g.turn /\ g'.timer \subseteq g.timer
  BY DEF SameActor
<1>2. \A p : IsCurrent(g', p) <=> IsCurrent(g, p)
  BY <1>1, SameActorSame
<1>3. InOrder'
  BY <1>2, InOrderShift DEF TurnInv
<1>4. Behind'
  <2>1. SUFFICES ASSUME g.phase \in Streets, NEW i, NEW j, Advancing(inbox', i),
                        Requested(inbox', j), i < j
                 PROVE  g.currentPlayer = -1 \/ IsCurrent(g, inbox'[j].id)
    BY <1>1, <1>2 DEF Behind
  <2>2. /\ i \in Nat /\ j \in Nat /\ inbox'[j].id = inbox[j + 1].id
        /\ Requested(inbox, j + 1) /\ Advancing(inbox, i + 1)
    BY <2>1 DEF Shifted
  <2>3. i + 1 < j + 1
    BY <2>1, <2>2
  <2>4. QED
    BY <2>1, <2>2, <2>3 DEF TurnInv, Behind
<1>5. Leaving' => Leaving
  BY <1>1 DEF Leaving, Shifted
<1>6. StreetClosed => StreetClosed'
  <2>1. SUFFICES ASSUME StreetClosed PROVE StreetClosed'
    OBVIOUS
  <2>2. ASSUME NEW i, NEW j, Advancing(inbox', i), Advancing(inbox', j) PROVE i = j
    <3>1. i \in Nat /\ j \in Nat /\ Advancing(inbox, i + 1) /\ Advancing(inbox, j + 1)
      BY <2>2 DEF Shifted
    <3>2. i + 1 = j + 1
      BY <2>1, <3>1 DEF StreetClosed
    <3>3. QED
      BY <3>1, <3>2
  <2>3. ASSUME NEW i, NEW j, Advancing(inbox', i), Requested(inbox', j), j < i
        PROVE  ~IsCurrent(g', inbox'[j].id)
    <3>1. /\ i \in Nat /\ j \in Nat /\ inbox'[j].id = inbox[j + 1].id
          /\ Requested(inbox, j + 1) /\ Advancing(inbox, i + 1)
      BY <2>3 DEF Shifted
    <3>2. j + 1 < i + 1
      BY <2>3, <3>1
    <3>3. ~IsCurrent(g, inbox[j + 1].id)
      BY <2>1, <3>1, <3>2 DEF StreetClosed
    <3>4. QED
      BY <1>2, <3>1, <3>3
  <2>4. ~g'.advanceTimer /\ ~g'.autoAdvance
    BY <1>1, <2>1 DEF StreetClosed
  <2>5. QED
    BY <2>2, <2>3, <2>4 DEF StreetClosed
<1>7. StreetLeaves'
  <2>1. SUFFICES ASSUME g'.phase \in Streets, Leaving'
                 PROVE  g'.turn = {} /\ g'.timer = {} /\ (RunOut(g') \/ StreetClosed')
    BY DEF StreetLeaves
  <2>2. g.turn = {} /\ g.timer = {} /\ (RunOut(g) \/ StreetClosed)
    BY <1>1, <1>5, <2>1 DEF TurnInv, StreetLeaves
  <2>3. QED
    BY <1>1, <1>5, <1>6, <2>1, <2>2
<1>8. OneTurn'
  <2>1. \A p \in g.turn \cup g.timer : g.phase \in Streets /\ IsCurrent(g, p)
    BY DEF TurnInv, OneTurn, CanAct
  <2>2. \A p \in g'.turn \cup g'.timer : g'.phase \in Streets /\ IsCurrent(g', p)
    BY <1>1, <1>2, <2>1
  <2>3. QED
    BY <2>2, CanActIs DEF OneTurn
<1>9. HandsApart'
  BY <1>1, HandsApartShift DEF TurnInv
<1>10. SeatsDiffer(g)'
  BY <1>1 DEF TurnInv, SeatsDiffer
<1>11. QED
  BY <1>3, <1>4, <1>7, <1>8, <1>9, <1>10 DEF TurnInv

LEMMA NothingSent == Announces(<<>>) /\ ~Closing(<<>>)
BY EmptySeq DEF Announces, Closing

LEMMA RejectTurns ==
    ASSUME HandInv, TurnInv, inbox # <<>>, Reject, autoStart' \in {autoStart, "off"}
    PROVE  TurnInv'
<1>1. Handled(g, {}, <<>>) /\ g' = g
  BY DEF Reject, Handled
<1>2. NoTimebank' /\ Shifted(<<>>)
  BY <1>1, NothingSent, QueueShift DEF HandInv, TurnInv
<1>3. SameActor(g, g') /\ NobodyAside(g') /\ (RunOut(g) => RunOut(g'))
  BY <1>1 DEF SameActor, TurnInv
<1>4. QED
  BY <1>2, <1>3, NothingSent, SameActorTurns

LEMMA BlockTurns ==
    ASSUME TurnInv, Block, autoStart' = autoStart
    PROVE  TurnInv'
BY DEF Block, TurnInv, NoTimebank, SeatsDiffer, NobodyAside, InOrder, Behind,
       StreetLeaves, Leaving, StreetClosed, OneTurn, CanAct, HandsApart

(* The next player is another one when another one can act.                *)
LEMMA NextIsOther ==
    ASSUME NEW h, Playable(h), SeatsDiffer(h), NEW p, IsCurrent(h, p),
           NEW r \in Actionable(h), r # p,
           NEW next, next = FirstFrom(h, h.currentPlayer + 1, Actionable(h))
    PROVE  next \in 0 .. NumPlayers(h) - 1 /\ next # h.currentPlayer
<1> DEFINE hits == {k \in 0 .. NumPlayers(h) - 1 :
                        At(h, (h.currentPlayer + 1 + k) % NumPlayers(h)) \in Actionable(h)}
<1>1. PICK n : n = NumPlayers(h)
  OBVIOUS
<1>2. PICK c : c = h.currentPlayer
  OBVIOUS
<1>3. n \in Nat \ {0} /\ c \in 0 .. n - 1 /\ At(h, c) = p
  BY <1>1, <1>2, SeatedPlayers DEF Playable, IsCurrent
<1>4. PICK i : i \in 0 .. n - 1 /\ At(h, i) = r
  <2>1. PICK j \in DOMAIN h.players : h.players[j] = r
    BY DEF Actionable, Seated, Range
  <2>2. j \in 1 .. n
    BY <1>1, <2>1, LenProperties DEF Playable, Game, NumPlayers
  <2>3. j - 1 \in 0 .. n - 1 /\ (j - 1) + 1 = j
    BY <1>3, <2>2
  <2>4. QED
    BY <2>1, <2>3 DEF At
<1>5. i # c
  BY <1>3, <1>4
<1>6. PICK k : k \in 0 .. n - 2 /\ (c + 1 + k) % n = i
  <2>1. CASE i > c
    <3>1. i - c - 1 \in 0 .. n - 2 /\ c + 1 + (i - c - 1) = i /\ i % n = i
      BY <1>3, <1>4, <2>1
    <3>2. QED
      BY <3>1
  <2>2. CASE i < c
    <3>1. i + n - c - 1 \in 0 .. n - 2 /\ c + 1 + (i + n - c - 1) = i + n
          /\ (i + n) % n = i
      BY <1>3, <1>4, <2>2
    <3>2. QED
      BY <3>1
  <2>3. QED
    BY <1>3, <1>4, <1>5, <2>1, <2>2
<1>7. k \in hits
  <2>1. k \in 0 .. n - 1
    BY <1>3, <1>6
  <2>2. QED
    BY <1>1, <1>2, <1>4, <1>6, <2>1
<1>8. hits \in SUBSET Nat /\ hits \subseteq 0 .. n - 1
  BY <1>1, <1>3
<1>9. next = IF hits = {} THEN -1 ELSE (c + 1 + Min(hits)) % n
  BY <1>1, <1>2 DEF FirstFrom
<1> HIDE DEF hits
<1>10. Min(hits) \in hits /\ Min(hits) <= k
  BY <1>7, <1>8, MinOfNats
<1>11. PICK x : x = Min(hits)
  OBVIOUS
<1>12. x \in 0 .. n - 2
  <2>1. x \in 0 .. n - 1 /\ x <= k
    BY <1>8, <1>10, <1>11
  <2>2. QED
    BY <1>3, <1>6, <2>1
<1>13. next = (c + 1 + x) % n
  BY <1>7, <1>9, <1>11
<1>14. (c + 1 + x) % n \in 0 .. n - 1 /\ (c + 1 + x) % n # c
  <2>1. CASE c + 1 + x < n
    <3>1. (c + 1 + x) % n = c + 1 + x
      BY <1>3, <1>12, <2>1
    <3>2. QED
      BY <1>3, <1>12, <2>1, <3>1
  <2>2. CASE c + 1 + x >= n
    <3>1. c + 1 + x - n \in 0 .. n - 1 /\ (c + 1 + x - n) + n = c + 1 + x
          /\ c + 1 + x - n # c
      BY <1>3, <1>12, <2>2
    <3>2. PICK y : y = c + 1 + x - n
      OBVIOUS
    <3>3. y \in 0 .. n - 1 /\ y + n = c + 1 + x /\ y # c
      BY <3>1, <3>2
    <3>4. (y + n) % n = y
      BY <1>3, <3>3
    <3>5. QED
      BY <3>3, <3>4
  <2>3. QED
    BY <1>3, <1>12, <2>1, <2>2
<1>15. QED
  BY <1>1, <1>2, <1>13, <1>14

LEMMA AtDiffers ==
    ASSUME NEW h, h \in Game, SeatsDiffer(h),
           NEW i \in 0 .. NumPlayers(h) - 1, NEW j \in 0 .. NumPlayers(h) - 1,
           At(h, i) = At(h, j)
    PROVE  i = j
<1>1. /\ DOMAIN h.players = 1 .. NumPlayers(h) /\ NumPlayers(h) \in Nat
  BY LenProperties DEF Game, NumPlayers
<1>2. i + 1 \in DOMAIN h.players /\ j + 1 \in DOMAIN h.players
  BY <1>1
<1>3. i + 1 = j + 1
  BY <1>2 DEF SeatsDiffer, At
<1>4. QED
  BY <1>1, <1>3

(* Where the search for the next player puts the turn.                     *)
LEMMA AdvanceActor ==
    ASSUME NEW h, Playable(h), SeatsDiffer(h), TurnsInGame(h),
           h.turn = {}, h.timer = {},
           NEW p, IsCurrent(h, p),
           NEW m, m = AdvanceToNextPlayer(h)
    PROVE  /\ Actionable(h) = {} => IsCurrent(m, p)
           /\ \A q \in m.turn \cup m.timer : IsCurrent(m, q)
           /\ \A q : Actionable(h) = {q} => IsCurrent(m, q)
           /\ ShouldSkipTurnTimer(h) => m.turn = {} /\ m.timer = {}
           /\ (\E r \in Actionable(h) : r # p) => ~IsCurrent(m, p)
           /\ m.turn # {} \/ m.timer # {} => Actionable(h) # {}
<1>1. h \in Game /\ h.currentPlayer \in 0 .. NumPlayers(h) - 1 /\ NumPlayers(h) \in Nat
      /\ h.currentPlayer \in -1 .. NumPlayers(h) - 1
  BY SeatedPlayers DEF Playable, IsCurrent
<1>2. /\ SameHand(h, m)
      /\ Actionable(h) = {} => m = h
      /\ ShouldSkipTurnTimer(h) => m.turn = h.turn /\ m.timer = h.timer
      /\ Actionable(h) # {} =>
             \E q \in Actionable(h) : /\ IsCurrent(m, q)
                                      /\ m.turn \subseteq h.turn \cup {q}
                                      /\ m.timer \subseteq h.timer \cup {q}
  BY <1>1, AdvancePlaces
<1>3. ASSUME NEW r \in Actionable(h), r # p PROVE ~IsCurrent(m, p)
  <2>1. PICK next : next = FirstFrom(h, h.currentPlayer + 1, Actionable(h))
    OBVIOUS
  <2>2. next \in 0 .. NumPlayers(h) - 1 /\ next # h.currentPlayer
    BY <1>3, <2>1, NextIsOther
  <2>3. m.currentPlayer = next
    <3>1. next # -1
      BY <1>1, <2>2
    <3>2. PICK moved : moved = [h EXCEPT !.currentPlayer = next]
      OBVIOUS
    <3>3. moved.currentPlayer = next /\ DOMAIN moved = DOMAIN h
      BY <1>1, <3>2 DEF Game
    <3>4. m = moved \/ m = StartTurn(moved, At(moved, next))
      BY <2>1, <3>1, <3>2 DEF AdvanceToNextPlayer
    <3>5. StartTurn(moved, At(moved, next)).currentPlayer = next
      BY <1>1, <3>3 DEF StartTurn, Game
    <3>6. QED
      BY <3>3, <3>4, <3>5
  <2>4. NumPlayers(m) = NumPlayers(h) /\ \A i : At(m, i) = At(h, i)
    BY <1>2, SameHandSame
  <2>5. At(h, h.currentPlayer) = p
    BY DEF IsCurrent
  <2>6. At(h, next) # p
    BY <1>1, <2>2, <2>5, AtDiffers
  <2>7. QED
    BY <2>3, <2>4, <2>6 DEF IsCurrent
<1>4. Actionable(h) = {} => IsCurrent(m, p) /\ m.turn = {} /\ m.timer = {}
  BY <1>2
<1>5. \A q \in m.turn \cup m.timer : IsCurrent(m, q)
  BY <1>2
<1>6. \A q : Actionable(h) = {q} => IsCurrent(m, q)
  BY <1>2
<1>7. QED
  BY <1>2, <1>3, <1>4, <1>5, <1>6

(* While a hand is played nothing of the next one is under way.            *)
LEMMA HandsApartInHand ==
    ASSUME HandInv', g'.phase \in Streets
    PROVE  HandsApart'
<1>1. NextHandEvents' = {} /\ autoStart' = "off"
  BY DEF HandInv, NextHandOrdered
<1>2. \A i : ~Starting(inbox', i)
  BY <1>1 DEF Starting, NextHandEvents
<1>3. QED
  BY <1>1, <1>2 DEF HandsApart

(* What looking at the round does to the turn.                             *)
LEMMA RoundActor ==
    ASSUME NEW m, m \in Game, NEW k, k = MaybeCompleteBettingRound(m),
           NEW o, o = RoundOutcome(m)
    PROVE  /\ o \in {"uncontested", "autoAdvance", "closed", "open"}
           /\ ShouldSkipTurnTimer(m) => o \in {"uncontested", "autoAdvance"}
           /\ o = "autoAdvance" =>
                  /\ ShouldSkipTurnTimer(m) /\ SameHand(m, k) /\ k.autoAdvance
                  /\ k.turn = m.turn /\ k.timer = m.timer
           /\ o = "closed" =>
                  /\ Unmatched(m) = {} /\ ~(Cardinality(Alive(m)) <= 1)
                  /\ ~ShouldSkipTurnTimer(m)
                  /\ k.turn = {} /\ k.timer = {}
                  /\ k.autoAdvance = m.autoAdvance /\ k.advanceTimer = m.advanceTimer
           /\ o \in {"uncontested", "open"} => k = m
           /\ k.players = m.players /\ k.currentPlayer = m.currentPlayer
           /\ k.phase = m.phase /\ k.status = m.status
           /\ Announces(RoundEvents(m))
           /\ Closing(RoundEvents(m)) => o = "closed"
<1>1. /\ o \in {"uncontested", "autoAdvance", "closed", "open"}
      /\ ShouldSkipTurnTimer(m) => o \in {"uncontested", "autoAdvance"}
      /\ o = "autoAdvance" => ShouldSkipTurnTimer(m)
      /\ o = "closed" => /\ Unmatched(m) = {} /\ ~(Cardinality(Alive(m)) <= 1)
                         /\ ~ShouldSkipTurnTimer(m)
  BY DEF RoundOutcome
<1>2. PICK sent : sent = RoundEvents(m)
  OBVIOUS
<1>3. ASSUME NEW e \in Event, e.type \in {"gotoShowdown", "advance"}
      PROVE  /\ Announces(<<e>>)
             /\ e.type # "advance" => ~Closing(<<e>>)
  BY <1>3 DEF Announces, Closing
<1>4. CASE o = "autoAdvance"
  <2>1. sent = <<>>
    BY <1>2, <1>4 DEF RoundEvents
  <2>2. /\ k.players = m.players /\ k.currentPlayer = m.currentPlayer
        /\ k.phase = m.phase /\ k.status = m.status /\ k.bet = m.bet
        /\ k.currentBet = m.currentBet /\ k.turn = m.turn /\ k.timer = m.timer
        /\ k.autoAdvance
    BY <1>4 DEF MaybeCompleteBettingRound, Game
  <2>3. QED
    BY <1>1, <1>2, <1>4, <2>1, <2>2, NothingSent DEF SameHand
<1>5. CASE o = "closed"
  <2>1. sent = <<[type |-> "advance"]>>
    BY <1>2, <1>5 DEF RoundEvents
  <2>2. [type |-> "advance"] \in Event
    BY DEF Event
  <2>3. /\ k.players = m.players /\ k.currentPlayer = m.currentPlayer
        /\ k.phase = m.phase /\ k.status = m.status /\ k.turn = {} /\ k.timer = {}
        /\ k.autoAdvance = m.autoAdvance /\ k.advanceTimer = m.advanceTimer
    BY <1>5 DEF MaybeCompleteBettingRound, Game
  <2>4. QED
    BY <1>1, <1>2, <1>3, <1>5, <2>1, <2>2, <2>3
<1>6. CASE o = "uncontested"
  <2>1. PICK e : e = [type |-> "gotoShowdown", round |-> m.round]
    OBVIOUS
  <2>2. sent = <<e>> /\ e.type = "gotoShowdown"
    BY <1>2, <1>6, <2>1 DEF RoundEvents
  <2>3. e \in Event
    BY <2>1 DEF Event, Game
  <2>4. k = m
    BY <1>6 DEF MaybeCompleteBettingRound
  <2>5. QED
    BY <1>1, <1>2, <1>3, <1>6, <2>2, <2>3, <2>4
<1>7. CASE o = "open"
  <2>1. sent = <<>> /\ k = m
    BY <1>2, <1>7 DEF RoundEvents, MaybeCompleteBettingRound
  <2>2. QED
    BY <1>1, <1>2, <1>7, <2>1, NothingSent
<1>8. QED
  BY <1>1, <1>4, <1>5, <1>6, <1>7

\* Who has the turn is the current player, and nobody has it when the board
\* is run out.
TurnSettled(m) ==
    /\ \A q \in m.turn \cup m.timer : IsCurrent(m, q)
    /\ ShouldSkipTurnTimer(m) =>
           /\ m.turn = {} /\ m.timer = {}
           /\ \A q \in Actionable(m) : IsCurrent(m, q)

\* Nothing was about to end the street before the step.
StreetOpen(m) == ~m.autoAdvance /\ ~m.advanceTimer /\ \A i : ~Advancing(inbox, i)

(* A handler that has moved to the next player and looked at the round     *)
(* leaves the turn to one player at most.                                  *)
LEMMA RoundTurns ==
    ASSUME TypeOK, NoTimebank, inbox # <<>>, HandInv',
           NEW m, m \in Game, m.phase \in Streets, SeatsDiffer(m), NobodyAside(m),
           TurnSettled(m),
           NEW ended, Handled(MaybeCompleteBettingRound(m), ended, RoundEvents(m)),
           InOrder',
           RoundOutcome(m) = "closed" =>
               \A j : Requested(inbox', j) => ~IsCurrent(m, inbox'[j].id),
           \/ StreetOpen(m)
           \/ /\ ShouldSkipTurnTimer(m)
              /\ m.autoAdvance \/ m.phase = "RIVER"
              /\ \A j : Requested(inbox', j) => IsCurrent(m, inbox'[j].id)
    PROVE  TurnInv'
<1>1. PICK k : k = MaybeCompleteBettingRound(m)
  OBVIOUS
<1>2. PICK o : o = RoundOutcome(m)
  OBVIOUS
<1>3. PICK sent : sent = RoundEvents(m)
  OBVIOUS
<1>4. /\ o \in {"uncontested", "autoAdvance", "closed", "open"}
      /\ ShouldSkipTurnTimer(m) => o \in {"uncontested", "autoAdvance"}
      /\ o = "autoAdvance" =>
             /\ ShouldSkipTurnTimer(m) /\ SameHand(m, k) /\ k.autoAdvance
             /\ k.turn = m.turn /\ k.timer = m.timer
      /\ o = "closed" =>
             /\ ~ShouldSkipTurnTimer(m)
             /\ k.turn = {} /\ k.timer = {}
             /\ k.autoAdvance = m.autoAdvance /\ k.advanceTimer = m.advanceTimer
      /\ o \in {"uncontested", "open"} => k = m
      /\ k.players = m.players /\ k.currentPlayer = m.currentPlayer
      /\ k.phase = m.phase /\ k.status = m.status
      /\ Announces(sent)
      /\ Closing(sent) => o = "closed"
  BY <1>1, <1>2, <1>3, RoundActor
<1>5. g' = k
  BY <1>1 DEF Handled
<1>6. NoTimebank' /\ Shifted(sent)
  BY <1>1, <1>3, <1>4, QueueShift
<1>7. \A q : IsCurrent(k, q) <=> IsCurrent(m, q)
  BY <1>4, SameActorSame
<1>8. SeatsDiffer(g)' /\ NobodyAside(g)'
  <2>1. SeatsDiffer(k)
    BY <1>4 DEF SeatsDiffer
  <2>2. NobodyAside(k)
    BY <1>4 DEF NobodyAside, Seated
  <2>3. QED
    BY <1>5, <2>1, <2>2
<1>9. HandsApart'
  <2>1. g'.phase \in Streets
    BY <1>4, <1>5
  <2>2. QED
    BY <2>1, HandsApartInHand
<1>10. \A q \in k.turn \cup k.timer : IsCurrent(k, q)
  BY <1>4, <1>7 DEF TurnSettled
<1>11. OneTurn'
  BY <1>4, <1>5, <1>10, CanActIs DEF OneTurn
<1>12. ASSUME ShouldSkipTurnTimer(m),
              o = "autoAdvance" \/ m.autoAdvance \/ m.phase = "RIVER"
       PROVE  RunOut(k) /\ k.turn = {} /\ k.timer = {}
  <2>1. o \in {"uncontested", "autoAdvance"} /\ SameHand(m, k)
        /\ k.turn = m.turn /\ k.timer = m.timer
    BY <1>4, <1>12 DEF SameHand
  <2>2. Actionable(k) = Actionable(m) /\ ShouldSkipTurnTimer(k)
    BY <1>12, <2>1, SameHandSame
  <2>3. k.autoAdvance \/ k.phase = "RIVER"
    BY <1>4, <1>12, <2>1
  <2>4. \A q \in Actionable(k) : IsCurrent(k, q)
    BY <1>7, <1>12, <2>2 DEF TurnSettled
  <2>5. QED
    BY <1>12, <2>1, <2>2, <2>3, <2>4 DEF RunOut, TurnSettled
<1>13. CASE StreetOpen(m)
  <2>1. \A i : Advancing(inbox', i) => i = Len(inbox) /\ o = "closed"
    BY <1>4, <1>6, <1>13 DEF StreetOpen, Shifted
  <2>2. \A j : Requested(inbox', j) => j \in Nat /\ j < Len(inbox)
    BY <1>6 DEF Shifted
  <2>3. Behind'
    <3>1. \A i, j : Advancing(inbox', i) /\ Requested(inbox', j) => ~(i < j)
      <4>1. Len(inbox) \in Nat
        BY <1>6 DEF Shifted
      <4>2. QED
        BY <2>1, <2>2, <4>1
    <3>2. QED
      BY <3>1 DEF Behind
  <2>4. StreetLeaves'
    <3>1. SUFFICES ASSUME Leaving' PROVE g'.turn = {} /\ g'.timer = {}
                                         /\ (RunOut(g') \/ StreetClosed')
      BY DEF StreetLeaves
    <3>2. k.advanceTimer \/ k.autoAdvance \/ o = "closed"
      BY <1>5, <2>1, <3>1 DEF Leaving
    <3>3. o \in {"closed", "autoAdvance"}
      BY <1>4, <1>13, <3>2 DEF StreetOpen
    <3>4. CASE o = "autoAdvance"
      BY <1>4, <1>5, <1>12, <3>4
    <3>5. CASE o = "closed"
      <4>1. ~k.advanceTimer /\ ~k.autoAdvance /\ k.turn = {} /\ k.timer = {}
        BY <1>4, <1>13, <3>5 DEF StreetOpen
      <4>2. \A j : Requested(inbox', j) => ~IsCurrent(k, inbox'[j].id)
        BY <1>2, <1>7, <3>5
      <4>3. StreetClosed'
        BY <1>5, <2>1, <4>1, <4>2 DEF StreetClosed
      <4>4. QED
        BY <1>5, <4>1, <4>3
    <3>6. QED
      BY <3>3, <3>4, <3>5
  <2>5. QED
    BY <1>6, <1>8, <1>9, <1>11, <2>3, <2>4 DEF TurnInv
<1>14. CASE /\ ShouldSkipTurnTimer(m)
            /\ m.autoAdvance \/ m.phase = "RIVER"
            /\ \A j : Requested(inbox', j) => IsCurrent(m, inbox'[j].id)
  <2>1. RunOut(k) /\ k.turn = {} /\ k.timer = {}
    BY <1>12, <1>14
  <2>2. StreetLeaves'
    BY <1>5, <2>1 DEF StreetLeaves
  <2>3. \A j : Requested(inbox', j) => IsCurrent(k, inbox'[j].id)
    BY <1>7, <1>14
  <2>4. Behind'
    BY <1>5, <2>3 DEF Behind
  <2>5. QED
    BY <1>6, <1>8, <1>9, <1>11, <2>2, <2>4 DEF TurnInv
<1>15. QED
  BY <1>13, <1>14

\* The event at the head of the inbox is a request of p.
HeadOf(p) == inbox # <<>> /\ Requested(inbox, 1) /\ inbox[1].id = p

(* If the street is about to be left when a request of the current player  *)
(* is handled, the board is run out: an action that closes the street has  *)
(* no request of the next player before the advance it sends.              *)
LEMMA LeavingNow ==
    ASSUME TypeOK, TurnInv, NEW p, HeadOf(p), CanAct(p), Leaving
    PROVE  g.turn = {} /\ RunOut(g) /\ Actionable(g) \subseteq {p}
<1>1. g.turn = {} /\ g.timer = {} /\ (RunOut(g) \/ StreetClosed)
  BY DEF TurnInv, StreetLeaves, CanAct
<1>2. ~StreetClosed
  <2>1. SUFFICES ASSUME StreetClosed PROVE FALSE
    OBVIOUS
  <2>2. PICK i : Advancing(inbox, i)
    BY <2>1 DEF Leaving, StreetClosed
  <2>3. i \in Nat \ {0}
    BY <2>2, LenProperties DEF Advancing, TypeOK
  <2>4. i # 1
    BY <2>2 DEF Advancing, Requested, HeadOf
  <2>5. 1 < i
    BY <2>3, <2>4
  <2>6. ~IsCurrent(g, p)
    BY <2>1, <2>2, <2>5 DEF StreetClosed, HeadOf
  <2>7. QED
    BY <2>6 DEF CanAct
<1>3. g.currentPlayer # -1 /\ \A q : IsCurrent(g, q) => q = p
  <2>1. g.currentPlayer \in 0 .. NumPlayers(g) - 1 /\ NumPlayers(g) \in Nat
        /\ At(g, g.currentPlayer) = p
    BY SeatedPlayers DEF CanAct, IsCurrent, TypeOK
  <2>2. QED
    BY <2>1 DEF IsCurrent
<1>4. QED
  BY <1>1, <1>2, <1>3 DEF RunOut

(* When a request of the current player is handled, every other request is *)
(* its own.                                                                *)
LEMMA HeadRequest ==
    ASSUME InOrder, NEW sent, Shifted(sent), NEW p, HeadOf(p), CanAct(p),
           NEW i, Requested(inbox', i)
    PROVE  inbox'[i].id = p
<1>1. /\ i \in Nat \ {0} /\ Requested(inbox, i + 1)
      /\ inbox'[i].id = inbox[i + 1].id
  BY DEF Shifted
<1>2. 1 < i + 1
  BY <1>1
<1>3. inbox[i + 1].id # p => ~IsCurrent(g, p)
  BY <1>1, <1>2 DEF InOrder, HeadOf
<1>4. QED
  BY <1>1, <1>3 DEF CanAct

(* A street closes only when another player could act.                     *)
LEMMA ClosedHasOther ==
    ASSUME NEW h, h \in Game, h.phase \in Streets, NobodyAside(h), NEW p,
           ~ShouldSkipTurnTimer(h), Unmatched(h) = {},
           ~(Cardinality(Alive(h)) <= 1)
    PROVE  \E r \in Actionable(h) : r # p
<1> SUFFICES ASSUME Actionable(h) \subseteq {p} PROVE FALSE
  OBVIOUS
<1>1. Actionable(h) = {p}
  BY DEF ShouldSkipTurnTimer
<1>2. Cardinality(Actionable(h)) = 1
  BY <1>1, FS_Singleton
<1>3. AllIn(h) = {}
  BY <1>2 DEF ShouldSkipTurnTimer
<1>4. ASSUME NEW q \in Alive(h) PROVE q = p
  <2>1. q \in Seated(h) /\ h.status[q] # "FOLDED" /\ h.status[q] # "AT_TABLE" /\ q \in Player
    BY <1>4, SeatedPlayers DEF Alive, NobodyAside
  <2>2. h.status[q] \in {"AT_TABLE", "IN_GAME", "ALL_IN", "FOLDED"}
    BY <2>1 DEF Game
  <2>3. q \in Actionable(h) \/ q \in AllIn(h)
    BY <2>1, <2>2 DEF Actionable, AllIn
  <2>4. QED
    BY <1>1, <1>3, <2>3
<1>5. p \in Alive(h)
  BY <1>1 DEF Actionable, Alive
<1>6. Alive(h) = {p}
  BY <1>4, <1>5
<1>7. Cardinality(Alive(h)) = 1
  BY <1>6, FS_Singleton
<1>8. QED
  BY <1>7

LEMMA SkipAlone ==
    ASSUME NEW h, h \in Game, ShouldSkipTurnTimer(h), NEW q \in Actionable(h)
    PROVE  Actionable(h) = {q}
<1>1. Cardinality(Actionable(h)) = 1
  BY DEF ShouldSkipTurnTimer
<1>2. IsFiniteSet(Actionable(h))
  <2>1. IsFiniteSet(Seated(h)) /\ Actionable(h) \subseteq Seated(h)
    BY SeatedPlayers DEF Actionable
  <2>2. QED
    BY <2>1, FS_Subset
<1>3. QED
  BY <1>1, <1>2, FS_Singleton

(* The end of every accepted action.                                       *)
LEMMA ProceedTurns ==
    ASSUME HandInv, HandInv', TurnInv,
           NEW p \in Player, HeadOf(p), CanAct(p),
           NEW h, Keeps(g, h), SameActor(g, h),
           \A q \in Player : h.status[q] = "AT_TABLE" => g.status[q] = "AT_TABLE",
           Leaving => ShouldSkipTurnTimer(h) /\ Actionable(h) \subseteq {p},
           Proceed(h, p)
    PROVE  TurnInv'
<1>1. PICK e : e = EndTurn(h, p)
  OBVIOUS
<1>2. PICK m : m = AdvanceToNextPlayer(e)
  OBVIOUS
<1>3. /\ h.players = g.players /\ h.phase = g.phase
      /\ h.currentPlayer = g.currentPlayer
      /\ h.autoAdvance = g.autoAdvance /\ h.advanceTimer = g.advanceTimer
      /\ h.turn \subseteq g.turn /\ h.timer \subseteq g.timer
  BY DEF SameActor
<1>4. h \in Game /\ Keeps(h, e) /\ Playable(e) /\ e \in Game
  <2>1. h \in Game /\ Playable(g)
    BY CanActSeated DEF Keeps
  <2>2. Keeps(g, e) /\ Keeps(h, e)
    BY <1>1, <2>1, EndTurnKeeps, KeepsTransitive
  <2>3. QED
    BY <2>1, <2>2, KeepsPlayable DEF Keeps
<1>5. /\ e.players = g.players /\ e.phase = g.phase /\ g.phase \in Streets
      /\ e.currentPlayer = g.currentPlayer
      /\ e.autoAdvance = g.autoAdvance /\ e.advanceTimer = g.advanceTimer
      /\ e.status = h.status /\ SameHand(h, e)
      /\ e.turn = h.turn \ {p} /\ e.timer = h.timer \ {p}
  BY <1>1, <1>3, <1>4 DEF EndTurn, Game, SameHand, CanAct
<1>6. \A q : IsCurrent(e, q) <=> IsCurrent(g, q)
  BY <1>5, SameActorSame
<1>7. IsCurrent(e, p) /\ \A q : IsCurrent(e, q) => q = p
  BY <1>6 DEF CanAct, IsCurrent
<1>8. e.turn = {} /\ e.timer = {}
  <2>1. \A q \in g.turn \cup g.timer : q = p
    BY <1>6, <1>7 DEF TurnInv, OneTurn, CanAct
  <2>2. QED
    BY <1>3, <1>5, <2>1
<1>9. SeatsDiffer(e) /\ NobodyAside(e)
  <2>1. SeatsDiffer(e)
    BY <1>5 DEF TurnInv, SeatsDiffer
  <2>2. Seated(e) = Seated(g) /\ Seated(e) \subseteq Player
    BY <1>4, <1>5, SeatedPlayers DEF Seated
  <2>3. NobodyAside(e)
    BY <1>5, <2>2 DEF TurnInv, NobodyAside
  <2>4. QED
    BY <2>1, <2>3
<1>10. TurnsInGame(e) /\ e.currentPlayer \in -1 .. NumPlayers(e) - 1
  <2>1. TurnsInGame(e)
    BY <1>8 DEF TurnsInGame
  <2>2. e.currentPlayer \in 0 .. NumPlayers(e) - 1 /\ NumPlayers(e) \in Nat
    BY <1>4, <1>7, SeatedPlayers DEF IsCurrent
  <2>3. QED
    BY <2>1, <2>2
<1>11. /\ SameHand(e, m) /\ Keeps(e, m) /\ m.phase = e.phase
       /\ m.advanceTimer = e.advanceTimer /\ m.autoAdvance = e.autoAdvance
  BY <1>2, <1>4, <1>10, AdvancePlaces
<1>12. /\ Actionable(e) = {} => IsCurrent(m, p)
       /\ \A q \in m.turn \cup m.timer : IsCurrent(m, q)
       /\ \A q : Actionable(e) = {q} => IsCurrent(m, q)
       /\ ShouldSkipTurnTimer(e) => m.turn = {} /\ m.timer = {}
       /\ (\E r \in Actionable(e) : r # p) => ~IsCurrent(m, p)
  BY <1>2, <1>4, <1>7, <1>8, <1>9, <1>10, AdvanceActor
<1>13. /\ Actionable(m) = Actionable(e) /\ Alive(m) = Alive(e)
       /\ Unmatched(m) = Unmatched(e) /\ Seated(m) = Seated(e)
       /\ ShouldSkipTurnTimer(m) <=> ShouldSkipTurnTimer(e)
  BY <1>11, SameHandSame
<1>14. m \in Game /\ m.phase \in Streets /\ SeatsDiffer(m) /\ NobodyAside(m)
  <2>1. m \in Game /\ m.players = e.players /\ m.status = e.status
    BY <1>11 DEF Keeps, SameHand
  <2>2. QED
    BY <1>5, <1>9, <1>11, <1>13, <2>1 DEF SeatsDiffer, NobodyAside
<1>15. TurnSettled(m)
  <2>1. ASSUME ShouldSkipTurnTimer(m), NEW q \in Actionable(m) PROVE IsCurrent(m, q)
    <3>1. Actionable(m) = {q}
      BY <1>14, <2>1, SkipAlone
    <3>2. QED
      BY <1>12, <1>13, <3>1
  <2>2. QED
    BY <1>12, <1>13, <2>1 DEF TurnSettled
<1>16. PICK ended : Handled(MaybeCompleteBettingRound(m), ended, RoundEvents(m))
  BY <1>1, <1>2 DEF Proceed
<1>17. PICK o : o = RoundOutcome(m)
  OBVIOUS
<1>18. o = "closed" => ~IsCurrent(m, p)
  <2>1. SUFFICES ASSUME o = "closed" PROVE ~IsCurrent(m, p)
    OBVIOUS
  <2>2. /\ Unmatched(m) = {} /\ ~(Cardinality(Alive(m)) <= 1)
        /\ ~ShouldSkipTurnTimer(m)
    BY <1>14, <1>17, <2>1, RoundActor
  <2>3. \E r \in Actionable(m) : r # p
    BY <1>14, <2>2, ClosedHasOther
  <2>4. QED
    BY <1>12, <1>13, <2>3
<1>19. /\ \A i : Requested(inbox', i) => inbox'[i].id = p
       /\ Leaving => RunOut(g)
  <2>1. /\ TypeOK /\ NoTimebank /\ inbox # <<>> /\ InOrder
        /\ Announces(RoundEvents(m))
    BY <1>14, RoundActor DEF HandInv, TurnInv, HeadOf
  <2>2. Shifted(RoundEvents(m))
    BY <1>16, <2>1, QueueShift
  <2>3. QED
    BY <2>1, <2>2, HeadRequest, LeavingNow
<1>20. InOrder'
  BY <1>19, InOrderAlone
<1>21. o = "closed" => \A j : Requested(inbox', j) => ~IsCurrent(m, inbox'[j].id)
  BY <1>18, <1>19
<1>22. \/ StreetOpen(m)
       \/ /\ ShouldSkipTurnTimer(m)
          /\ m.autoAdvance \/ m.phase = "RIVER"
          /\ \A j : Requested(inbox', j) => IsCurrent(m, inbox'[j].id)
  <2>1. CASE ~Leaving
    BY <1>5, <1>11, <2>1 DEF Leaving, StreetOpen
  <2>2. CASE Leaving
    <3>1. Actionable(h) = Actionable(e) /\ (ShouldSkipTurnTimer(h) <=> ShouldSkipTurnTimer(e))
      BY <1>5, SameHandSame
    <3>2. ShouldSkipTurnTimer(m) /\ Actionable(e) \subseteq {p}
      BY <1>13, <2>2, <3>1
    <3>3. IsCurrent(m, p)
      BY <1>12, <3>2
    <3>4. m.autoAdvance \/ m.phase = "RIVER"
      BY <1>5, <1>11, <1>19, <2>2 DEF RunOut
    <3>5. QED
      BY <1>19, <3>2, <3>3, <3>4
  <2>3. QED
    BY <2>1, <2>2
<1>23. TypeOK /\ NoTimebank /\ inbox # <<>>
  BY DEF HandInv, TurnInv, HeadOf
<1>24. QED
  BY <1>14, <1>15, <1>16, <1>17, <1>20, <1>21, <1>22, <1>23, RoundTurns

(***************************************************************************)
(* The requests of the players, without timebanks.                         *)
(***************************************************************************)
LEMMA SelfActor == SameActor(g, g)
BY DEF SameActor

LEMMA PlayerCheckTurns ==
    ASSUME HandInv, HandInv', TurnInv, NEW p \in Player, HeadOf(p),
           PlayerCheck(p), autoStart' = autoStart
    PROVE  TurnInv'
<1>1. CASE Reject
  BY <1>1, RejectTurns DEF HeadOf
<1>2. CASE CanAct(p) /\ Proceed(g, p)
  <2>1. Leaving => ShouldSkipTurnTimer(g) /\ Actionable(g) \subseteq {p}
    BY <1>2, LeavingNow DEF RunOut, HandInv
  <2>2. QED
    BY <1>2, <2>1, SelfKeeps, SelfActor, ProceedTurns
<1>3. QED
  BY <1>1, <1>2 DEF PlayerCheck

LEMMA PlayerFoldTurns ==
    ASSUME HandInv, HandInv', TurnInv, NEW p \in Player, HeadOf(p),
           PlayerFold(p), autoStart' = autoStart
    PROVE  TurnInv'
<1> DEFINE folded == [g EXCEPT !.status[p] = "FOLDED"]
           showdown == [type |-> "gotoShowdown", round |-> g.round]
<1>1. CASE Reject
  BY <1>1, RejectTurns DEF HeadOf
<1>2. CASE Block
  BY <1>2, BlockTurns
<1>3. CASE /\ CanAct(p) /\ g.status[p] = "IN_GAME"
           /\ IF Cardinality(Alive(folded)) = 1
              THEN Handled(EndTurn(folded, p), {p}, <<showdown>>)
              ELSE Proceed(folded, p)
  <2>1. g \in Game /\ g.phase \in Streets
    BY <1>3, CanActSeated DEF HandInv, TypeOK
  <2>2. Keeps(g, folded)
    BY <2>1, FoldKeeps
  <2>3. /\ SameActor(g, folded) /\ folded \in Game
        /\ folded.status = [g.status EXCEPT ![p] = "FOLDED"]
        /\ folded.currentBet = g.currentBet /\ folded.bet = g.bet
    BY <2>1 DEF Game, SameActor
  <2> HIDE DEF folded
  <2>4. \A q \in Player : folded.status[q] = "AT_TABLE" => g.status[q] = "AT_TABLE"
    BY <2>1, <2>3 DEF Game
  <2>5. Actionable(folded) = Actionable(g) \ {p}
    <3>1. Seated(folded) = Seated(g) /\ Seated(g) \subseteq Player
      BY <2>1, <2>3, SeatedPlayers DEF SameActor, Seated
    <3>2. \A q \in Seated(g) : folded.status[q] = IF q = p THEN "FOLDED" ELSE g.status[q]
      BY <2>1, <2>3, <3>1 DEF Game
    <3>3. QED
      BY <3>1, <3>2 DEF Actionable
  <2>6. Leaving => Actionable(folded) = {} /\ ShouldSkipTurnTimer(folded)
    <3>1. Leaving => Actionable(folded) = {}
      BY <1>3, <2>5, LeavingNow DEF HandInv
    <3>2. QED
      BY <3>1 DEF ShouldSkipTurnTimer
  <2>7. CASE Proceed(folded, p)
    BY <1>3, <2>2, <2>3, <2>4, <2>6, <2>7, ProceedTurns
  <2>8. CASE Handled(EndTurn(folded, p), {p}, <<showdown>>)
    <3>1. PICK k : k = EndTurn(folded, p)
      OBVIOUS
    <3>2. PICK event : event = showdown
      OBVIOUS
    <3>3. event \in Event /\ event.type = "gotoShowdown"
      BY <2>1, <3>2 DEF Event, Game
    <3>4. Announces(<<event>>) /\ ~Closing(<<event>>)
      BY <3>3 DEF Announces, Closing
    <3>5. Handled(k, {p}, <<event>>) /\ g' = k
      BY <2>8, <3>1, <3>2 DEF Handled
    <3>6. NoTimebank' /\ Shifted(<<event>>)
      BY <3>4, <3>5, QueueShift DEF HandInv, TurnInv, HeadOf
    <3>7. /\ k.players = g.players /\ k.phase = g.phase
          /\ k.currentPlayer = g.currentPlayer /\ k.status = folded.status
          /\ k.autoAdvance = g.autoAdvance /\ k.advanceTimer = g.advanceTimer
          /\ k.turn \subseteq g.turn /\ k.timer \subseteq g.timer
      BY <2>3, <3>1 DEF EndTurn, Game, SameActor
    <3>8. Actionable(k) = Actionable(folded)
      BY <2>3, <3>7 DEF Actionable, Seated, SameActor
    <3>9. NobodyAside(k)
      <4>1. Seated(k) = Seated(g) /\ Seated(g) \subseteq Player
        BY <2>1, <3>7, SeatedPlayers DEF Seated
      <4>2. QED
        BY <2>4, <3>7, <4>1 DEF TurnInv, NobodyAside
    <3>10. Leaving /\ RunOut(g) => RunOut(k)
      <4>1. SUFFICES ASSUME Leaving, RunOut(g) PROVE RunOut(k)
        OBVIOUS
      <4>2. Actionable(k) = {} /\ ShouldSkipTurnTimer(k)
        BY <2>6, <3>8, <4>1 DEF ShouldSkipTurnTimer
      <4>3. QED
        BY <3>7, <4>1, <4>2 DEF RunOut
    <3>11. SameActor(g, g') /\ NobodyAside(g')
      BY <3>5, <3>7, <3>9 DEF SameActor
    <3>12. QED
      BY <3>4, <3>5, <3>6, <3>10, <3>11, SameActorTurns
  <2>9. QED
    BY <1>3, <2>7, <2>8 DEF folded
<1>4. QED
  BY <1>1, <1>2, <1>3 DEF PlayerFold

LEMMA EffectiveBetType ==
    ASSUME NEW h, h \in Game
    PROVE  EffectiveBet(h) \in Nat
<1> DEFINE bets == {h.bet[q] : q \in AllIn(h)}
<1>1. IsFiniteSet(AllIn(h)) /\ AllIn(h) \subseteq Player
  <2>1. /\ IsFiniteSet(Seated(h)) /\ Seated(h) \subseteq Player
        /\ AllIn(h) \subseteq Seated(h)
    BY SeatedPlayers DEF AllIn
  <2>2. QED
    BY <2>1, FS_Subset
<1>2. bets \subseteq Nat
  BY <1>1 DEF Game
<1>3. IsFiniteSet(bets)
  <2> DEFINE f == [q \in AllIn(h) |-> h.bet[q]]
  <2>1. f \in Surjection(AllIn(h), bets)
    BY DEF Surjection
  <2>2. QED
    BY <1>1, <2>1, FS_Surjection
<1> HIDE DEF bets
<1>4. IsFiniteSet({0} \cup bets) /\ {0} \cup bets \in SUBSET Nat /\ {0} \cup bets # {}
  <2>1. IsFiniteSet({0})
    BY FS_Singleton
  <2>2. IsFiniteSet({0} \cup bets)
    BY <1>3, <2>1, FS_Union
  <2>3. QED
    BY <1>2, <2>2
<1>5. Max({0} \cup bets) \in Nat
  BY <1>4, MaxOfNats
<1>6. h.currentBet \in Nat
  BY DEF Game
<1>7. QED
  BY <1>5, <1>6 DEF EffectiveBet, bets

(* A call when the board is run out leaves nobody to bet against.          *)
LEMMA PaySkips ==
    ASSUME NEW h, h \in Game, NEW p \in Player, NEW amount \in Nat,
           amount <= h.balance[p], h.status[p] = "IN_GAME",
           ShouldSkipTurnTimer(h), Actionable(h) \subseteq {p},
           NEW k, k = Pay(h, p, amount)
    PROVE  ShouldSkipTurnTimer(k) /\ Actionable(k) \subseteq {p}
<1>1. /\ k.players = h.players /\ k.currentBet = h.currentBet
      /\ \A q \in Player : q # p => k.status[q] = h.status[q] /\ k.bet[q] = h.bet[q]
      /\ k.status[p] \in {"IN_GAME", "ALL_IN"}
      /\ k.bet[p] = h.bet[p] + amount
  BY DEF Pay, Game
<1>2. Seated(k) = Seated(h) /\ Seated(h) \subseteq Player
  BY <1>1, SeatedPlayers DEF Seated
<1>3. Actionable(k) \subseteq Actionable(h)
  BY <1>1, <1>2 DEF Actionable
<1>4. CASE Actionable(k) = {}
  BY <1>4 DEF ShouldSkipTurnTimer
<1>5. CASE Actionable(k) # {}
  <2>1. Actionable(k) = {p} /\ Actionable(h) = {p}
    BY <1>3, <1>5
  <2>2. k.status[p] = "IN_GAME"
    BY <2>1 DEF Actionable
  <2>3. AllIn(k) = AllIn(h) /\ \A q \in AllIn(h) : q \in Player /\ q # p
    BY <1>1, <1>2, <2>2 DEF AllIn
  <2>4. {k.bet[q] : q \in AllIn(k)} = {h.bet[q] : q \in AllIn(h)}
    BY <1>1, <2>3
  <2>5. EffectiveBet(k) = EffectiveBet(h)
    BY <1>1, <2>4 DEF EffectiveBet
  <2>6. AllIn(h) # {} /\ Unmatched(h) = {}
    BY <2>1 DEF ShouldSkipTurnTimer
  <2>7. ~(h.bet[p] < EffectiveBet(h))
    BY <2>1, <2>6 DEF Unmatched
  <2>8. EffectiveBet(h) \in Nat
    BY EffectiveBetType
  <2>9. ~(k.bet[p] < EffectiveBet(h))
    <3>1. h.bet[p] \in Nat
      BY DEF Game
    <3>2. QED
      BY <1>1, <2>7, <2>8, <3>1
  <2>10. Unmatched(k) = {}
    BY <2>1, <2>5, <2>9 DEF Unmatched
  <2>11. QED
    BY <2>1, <2>3, <2>6, <2>10, FS_Singleton DEF ShouldSkipTurnTimer
<1>6. QED
  BY <1>3, <1>4, <1>5

LEMMA PlayerCallTurns ==
    ASSUME HandInv, HandInv', TurnInv, NEW p \in Player, HeadOf(p),
           PlayerCall(p), autoStart' = autoStart
    PROVE  TurnInv'
<1> DEFINE delta == Lesser(TableBet - g.bet[p], g.balance[p])
<1>1. CASE Reject
  BY <1>1, RejectTurns DEF HeadOf
<1>2. CASE CanAct(p) /\ Proceed(g, p)
  <2>1. Leaving => ShouldSkipTurnTimer(g) /\ Actionable(g) \subseteq {p}
    BY <1>2, LeavingNow DEF RunOut, HandInv
  <2>2. QED
    BY <1>2, <2>1, SelfKeeps, SelfActor, ProceedTurns
<1>3. CASE /\ CanAct(p) /\ TableBet > g.bet[p] /\ g.status[p] = "IN_GAME"
           /\ Proceed(Pay(g, p, delta), p)
  <2>1. g \in Game /\ TableBet \in Nat
    BY <1>3, SelfKeeps, TableBetType
  <2>2. delta \in Nat /\ delta <= g.balance[p]
    BY <1>3, <2>1 DEF Lesser, Game
  <2> HIDE DEF delta
  <2>3. PICK h : h = Pay(g, p, delta)
    OBVIOUS
  <2>4. Keeps(g, h)
    BY <2>1, <2>2, <2>3, PayKeeps
  <2>5. SameActor(g, h) /\ \A q \in Player : q # p => h.status[q] = g.status[q]
    BY <2>1, <2>3, PayTurn DEF SameActor
  <2>6. h.status[p] # "AT_TABLE"
    BY <1>3, <2>1, <2>3 DEF Pay, Game
  <2>7. Leaving => ShouldSkipTurnTimer(h) /\ Actionable(h) \subseteq {p}
    <3>1. Leaving => ShouldSkipTurnTimer(g) /\ Actionable(g) \subseteq {p}
      BY <1>3, LeavingNow DEF RunOut, HandInv
    <3>2. QED
      BY <1>3, <2>1, <2>2, <2>3, <3>1, PaySkips
  <2>8. QED
    BY <1>3, <2>3, <2>4, <2>5, <2>6, <2>7, ProceedTurns
<1>4. QED
  BY <1>1, <1>2, <1>3 DEF PlayerCall

LEMMA PlayerBetTurns ==
    ASSUME HandInv, HandInv', TurnInv, NEW p \in Player, HeadOf(p),
           NEW amount \in Nat, PlayerBet(p, amount), autoStart' = autoStart
    PROVE  TurnInv'
<1> DEFINE delta == Lesser(amount - g.bet[p], g.balance[p])
           total == g.bet[p] + delta
           allIn == delta = g.balance[p]
<1>1. CASE Reject
  BY <1>1, RejectTurns DEF HeadOf
<1>2. CASE Block
  BY <1>2, BlockTurns
<1>3. CASE CanAct(p) /\ Proceed(g, p)
  <2>1. Leaving => ShouldSkipTurnTimer(g) /\ Actionable(g) \subseteq {p}
    BY <1>3, LeavingNow DEF RunOut, HandInv
  <2>2. QED
    BY <1>3, <2>1, SelfKeeps, SelfActor, ProceedTurns
<1>4. CASE /\ CanAct(p) /\ amount >= g.bet[p] /\ p \in g.turn
           /\ Proceed(RaiseTable(Pay(g, p, delta), total, allIn), p)
  <2>1. g \in Game
    BY SelfKeeps
  <2>2. delta \in Nat /\ delta <= g.balance[p] /\ total \in Nat
    BY <1>4, <2>1 DEF Lesser, Game
  <2> HIDE DEF delta, total, allIn
  <2>3. PICK paid : paid = Pay(g, p, delta)
    OBVIOUS
  <2>4. PICK h : h = RaiseTable(paid, total, allIn)
    OBVIOUS
  <2>5. Keeps(g, paid) /\ paid \in Game
    BY <2>1, <2>2, <2>3, PayKeeps DEF Keeps
  <2>6. Keeps(g, h)
    BY <2>2, <2>4, <2>5, RaiseTableKeeps, KeepsTransitive
  <2>7. SameActor(g, paid) /\ \A q \in Player : q # p => paid.status[q] = g.status[q]
    BY <2>1, <2>3, PayTurn DEF SameActor
  <2>8. paid.status[p] # "AT_TABLE" \/ g.status[p] = "AT_TABLE"
    BY <2>1, <2>3 DEF Pay, Game
  <2>9. SameActor(g, h) /\ h.status = paid.status
    BY <2>4, <2>5, <2>7, RaiseTurn DEF SameActor
  <2>10. ~Leaving
    BY <1>4, LeavingNow DEF HandInv
  <2>11. QED
    BY <1>4, <2>3, <2>4, <2>6, <2>7, <2>8, <2>9, <2>10, ProceedTurns
<1>5. QED
  BY <1>1, <1>2, <1>3, <1>4 DEF PlayerBet

LEMMA HandleRequestTurns ==
    ASSUME HandInv, HandInv', TurnInv,
           \/ HandleFoldReq \/ HandleCheckReq \/ HandleCallReq \/ HandleBetReq
           \/ HandleTimebankExpired
    PROVE  TurnInv'
<1>1. PICK e : e = Head(inbox)
  OBVIOUS
<1>2. inbox # <<>> /\ autoStart' = autoStart
  BY DEF HandleFoldReq, HandleCheckReq, HandleCallReq, HandleBetReq,
         HandleTimebankExpired, Receive
<1>3. 1 \in DOMAIN inbox /\ inbox[1] = e /\ e \in Event
  <2>1. inbox \in Seq(Event)
    BY DEF HandInv, TypeOK
  <2>2. QED
    BY <1>1, <1>2, <2>1
<1>4. e.type # "timebank"
  BY <1>3 DEF TurnInv, NoTimebank
<1>5. e.type \in {"fold", "check", "call", "bet"}
  BY <1>1, <1>4 DEF HandleFoldReq, HandleCheckReq, HandleCallReq, HandleBetReq,
                    HandleTimebankExpired, Receive
<1>6. PICK p \in Player : p = e.id
  BY <1>3, <1>5, EventFields
<1>7. HeadOf(p)
  BY <1>2, <1>3, <1>5, <1>6 DEF HeadOf, Requested
<1>8. CASE HandleFoldReq
  <2>1. PlayerFold(p)
    BY <1>1, <1>6, <1>8 DEF HandleFoldReq
  <2>2. QED
    BY <1>2, <1>7, <2>1, PlayerFoldTurns
<1>9. CASE HandleCheckReq
  <2>1. PlayerCheck(p)
    BY <1>1, <1>6, <1>9 DEF HandleCheckReq
  <2>2. QED
    BY <1>2, <1>7, <2>1, PlayerCheckTurns
<1>10. CASE HandleCallReq
  <2>1. PlayerCall(p)
    BY <1>1, <1>6, <1>10 DEF HandleCallReq
  <2>2. QED
    BY <1>2, <1>7, <2>1, PlayerCallTurns
<1>11. CASE HandleBetReq
  <2>1. PlayerBet(p, e.amount) /\ e.type = "bet"
    BY <1>1, <1>6, <1>11 DEF HandleBetReq, Receive
  <2>2. e.amount \in Nat
    BY <1>3, <2>1, EventFields
  <2>3. QED
    BY <1>2, <1>7, <2>1, <2>2, PlayerBetTurns
<1>12. CASE HandleTimebankExpired
  BY <1>1, <1>4, <1>12 DEF HandleTimebankExpired, Receive
<1>13. QED
  BY <1>8, <1>9, <1>10, <1>11, <1>12

(***************************************************************************)
(* Streets, showdown and the next hand, without timebanks.                 *)
(***************************************************************************)
LEMMA EnterStreetActor ==
    ASSUME NEW h, Playable(h), NumPlayers(h) >= 2, h.phase \in Streets,
           h.dealer \in 0 .. NumPlayers(h) - 1, h.turn = {}, h.timer = {},
           NEW street \in Streets,
           NEW k, k = EnterStreet(h, street)
    PROVE  /\ k.players = h.players /\ k.status = h.status /\ k.phase = street
           /\ \A q \in k.turn \cup k.timer : IsCurrent(k, q)
           /\ k.currentBet = 0 /\ k \in Game
           /\ IF h.autoAdvance /\ Cardinality(Actionable(h)) <= 1
              THEN /\ k.turn = {} /\ k.timer = {} /\ k.currentPlayer = -1
                   /\ k.autoAdvance \/ street = "RIVER"
              ELSE k.autoAdvance = h.autoAdvance /\ k.advanceTimer = h.advanceTimer
<1> DEFINE reset == [ResetBettingRound(h) EXCEPT !.phase = street]
           running == h.autoAdvance /\ Cardinality(Actionable(h)) <= 1
           actor == IF running THEN -1 ELSE StreetStarter(reset)
           timer == reset.advanceTimer \/ running
           auto == reset.autoAdvance /\ ~(running /\ street = "RIVER")
           seated == [reset EXCEPT !.currentPlayer = actor,
                                   !.advanceTimer = timer,
                                   !.autoAdvance = auto]
<1>0. k \in Game
  BY EnterStreetKeeps DEF Keeps
<1>1. h \in Game /\ NumPlayers(h) \in Nat
  BY SeatedPlayers DEF Playable
<1>2. /\ reset.players = h.players /\ reset.status = h.status
      /\ reset.dealer = h.dealer /\ reset.phase = street /\ reset.currentBet = 0
      /\ reset.turn = h.turn /\ reset.timer = h.timer
      /\ reset.autoAdvance = h.autoAdvance /\ reset.advanceTimer = h.advanceTimer
      /\ DOMAIN reset = DOMAIN h
  BY <1>1 DEF ResetBettingRound, Game
<1>3. Keeps(h, reset)
  BY BlindsAssumption DEF ResetBettingRound, Keeps, Game, Playable
<1>4. EnterStreet(h, street)
          = IF actor = -1 THEN seated ELSE StartTurn(seated, At(seated, actor))
  BY DEF EnterStreet
<1> HIDE DEF reset
<1>5. Playable(reset) /\ NumPlayers(reset) = NumPlayers(h)
  BY <1>3, KeepsPlayable
<1>6. Actionable(reset) = Actionable(h)
  BY <1>2 DEF Actionable, Seated
<1>7. StreetStarter(reset) # -1 =>
          /\ StreetStarter(reset) \in 0 .. NumPlayers(h) - 1
          /\ At(reset, StreetStarter(reset)) \in Actionable(h)
  BY <1>2, <1>5, <1>6, StreetStarterFinds
<1>8. /\ {"currentPlayer", "advanceTimer", "autoAdvance", "turn", "timer"}
             \subseteq DOMAIN reset
      /\ DOMAIN seated = DOMAIN reset
  BY <1>1, <1>2 DEF Game
<1>9. /\ seated.players = h.players /\ seated.status = h.status
      /\ seated.phase = street /\ seated.currentBet = 0
      /\ seated.turn = {} /\ seated.timer = {}
      /\ seated.currentPlayer = actor
      /\ seated.autoAdvance = auto /\ seated.advanceTimer = timer
  <2> HIDE DEF actor, timer, auto
  <2>1. QED
    BY <1>2, <1>8
<1>10. /\ running => timer /\ (auto \/ street = "RIVER") /\ actor = -1
       /\ ~running => auto = h.autoAdvance /\ timer = h.advanceTimer
  <2>1. h.autoAdvance \in BOOLEAN /\ h.advanceTimer \in BOOLEAN
    BY <1>1 DEF Game
  <2>2. QED
    BY <1>2, <2>1
<1>11. /\ actor = -1 => k = seated
       /\ actor # -1 => k = StartTurn(seated, At(seated, actor))
  BY <1>4
<1>12. actor # -1 => actor \in 0 .. NumPlayers(h) - 1 /\ At(reset, actor) \in Actionable(h)
  BY <1>7
<1> HIDE DEF seated, actor, timer, auto, running
<1>13. CASE actor = -1
  BY <1>0, <1>9, <1>10, <1>11, <1>13 DEF running
<1>14. CASE actor # -1
  <2>1. PICK q : q = At(reset, actor)
    OBVIOUS
  <2>2. actor \in 0 .. NumPlayers(h) - 1 /\ q \in Actionable(h)
    BY <1>12, <1>14, <2>1
  <2>3. At(seated, actor) = q
    BY <1>2, <1>9, <2>1 DEF At
  <2>4. seated.status[q] = "IN_GAME"
    BY <1>9, <2>2 DEF Actionable
  <2>5. k = [seated EXCEPT !.turn = {q}, !.timer = {q}]
    BY <1>9, <1>11, <1>14, <2>3, <2>4 DEF StartTurn
  <2>6. /\ k.players = h.players /\ k.status = h.status /\ k.turn = {q}
        /\ k.timer = {q} /\ k.phase = street /\ k.currentBet = 0
        /\ k.currentPlayer = actor
        /\ k.autoAdvance = auto /\ k.advanceTimer = timer
    BY <1>8, <1>9, <2>5
  <2>7. NumPlayers(k) = NumPlayers(h) /\ At(k, actor) = q
    BY <1>2, <2>1, <2>6 DEF NumPlayers, At
  <2>8. IsCurrent(k, q)
    BY <2>2, <2>6, <2>7 DEF IsCurrent
  <2>9. ~running
    BY <1>10, <1>14
  <2>10. QED
    BY <1>0, <1>10, <2>6, <2>8, <2>9 DEF running
<1>15. QED
  BY <1>13, <1>14

(* Nobody owes anything on a new street.                                   *)
LEMMA NewStreetSkips ==
    ASSUME NEW h, ShouldSkipTurnTimer(h),
           NEW k, k \in Game, k.players = h.players, k.status = h.status,
           k.currentBet = 0
    PROVE  ShouldSkipTurnTimer(k) /\ Actionable(k) = Actionable(h)
<1>1. Actionable(k) = Actionable(h) /\ AllIn(k) = AllIn(h)
  BY DEF Actionable, AllIn, Seated
<1>2. PICK x : x = Max({0} \cup {k.bet[p] : p \in AllIn(k)})
  OBVIOUS
<1>3. EffectiveBet(k) = IF 0 < x /\ x < 0 THEN x ELSE 0
  BY <1>2 DEF EffectiveBet
<1>4. EffectiveBet(k) \in Nat
  BY EffectiveBetType
<1>5. EffectiveBet(k) = 0
  BY <1>3, <1>4
<1>6. \A p \in Actionable(k) : k.bet[p] \in Nat
  BY SeatedPlayers DEF Actionable, Game
<1>7. Unmatched(k) = {}
  BY <1>5, <1>6 DEF Unmatched
<1>8. QED
  BY <1>1, <1>7 DEF ShouldSkipTurnTimer

LEMMA EnterStreetTurns ==
    ASSUME HandInv, HandInv', DriveInv, TurnInv,
           inbox # <<>>, Head(inbox).type = "advance",
           g.phase \in DOMAIN NextStreet,
           Handled(EnterStreet(g, NextStreet[g.phase]), {}, <<>>)
    PROVE  TurnInv'
<1>1. PICK street : street = NextStreet[g.phase]
  OBVIOUS
<1>2. g.phase \in Streets /\ street \in Streets /\ g.phase # "RIVER"
  BY <1>1 DEF NextStreet, Streets
<1>3. PICK k : k = EnterStreet(g, street)
  OBVIOUS
<1>4. Handled(k, {}, <<>>) /\ g' = k
  BY <1>1, <1>3 DEF Handled
<1>5. NoTimebank' /\ Shifted(<<>>) /\ ~Closing(<<>>)
  BY <1>4, NothingSent, QueueShift DEF HandInv, TurnInv
<1>6. Advancing(inbox, 1)
  <2>1. inbox \in Seq(Event)
    BY DEF HandInv, TypeOK
  <2>2. 1 \in DOMAIN inbox /\ inbox[1] = Head(inbox)
    BY <2>1
  <2>3. QED
    BY <2>2 DEF Advancing
<1>7. g.turn = {} /\ g.timer = {} /\ (RunOut(g) \/ StreetClosed)
  BY <1>2, <1>6 DEF TurnInv, StreetLeaves, Leaving
<1>8. /\ k.players = g.players /\ k.status = g.status /\ k.phase = street
      /\ \A q \in k.turn \cup k.timer : IsCurrent(k, q)
      /\ k.currentBet = 0 /\ k \in Game
      /\ IF g.autoAdvance /\ Cardinality(Actionable(g)) <= 1
         THEN /\ k.turn = {} /\ k.timer = {} /\ k.currentPlayer = -1
              /\ k.autoAdvance \/ street = "RIVER"
         ELSE k.autoAdvance = g.autoAdvance /\ k.advanceTimer = g.advanceTimer
  <2>1. Playable(g) /\ NumPlayers(g) >= 2
    BY <1>2, SeatedPlayers DEF HandInv, TypeOK, NextHandOrdered, Playable
  <2>2. g.dealer \in 0 .. NumPlayers(g) - 1
    BY <1>2 DEF DriveInv, DealerSeated
  <2>3. QED
    BY <1>2, <1>3, <1>7, <2>1, <2>2, EnterStreetActor
<1>9. SeatsDiffer(g)' /\ NobodyAside(g)'
  <2>1. SeatsDiffer(k)
    BY <1>8 DEF TurnInv, SeatsDiffer
  <2>2. NobodyAside(k)
    BY <1>2, <1>8 DEF TurnInv, NobodyAside, Seated
  <2>3. QED
    BY <1>4, <2>1, <2>2
<1>10. HandsApart' /\ OneTurn'
  <2>1. g'.phase \in Streets
    BY <1>2, <1>4, <1>8
  <2>2. QED
    BY <1>4, <1>8, <2>1, HandsApartInHand, CanActIs DEF OneTurn
<1>11. InOrder'
  <2>1. SUFFICES ASSUME NEW i, NEW j, Requested(inbox', i), Requested(inbox', j), i < j,
                        inbox'[i].id # inbox'[j].id
                 PROVE  FALSE
    BY DEF InOrder
  <2>2. /\ i \in Nat /\ j \in Nat
        /\ Requested(inbox, i + 1) /\ Requested(inbox, j + 1)
        /\ inbox[i + 1].id # inbox[j + 1].id
    BY <1>5, <2>1 DEF Shifted
  <2>3. i + 1 < j + 1
    BY <2>1, <2>2
  <2>4. 1 > i + 1
    BY <1>6, <2>2, <2>3 DEF TurnInv, InOrder
  <2>5. QED
    BY <2>2, <2>4
<1>12. CASE RunOut(g)
  <2>1. g.autoAdvance /\ ShouldSkipTurnTimer(g)
    BY <1>2, <1>12 DEF RunOut
  <2>2. Cardinality(Actionable(g)) <= 1
    BY <2>1, FS_EmptySet DEF ShouldSkipTurnTimer
  <2>3. /\ k.turn = {} /\ k.timer = {} /\ k.currentPlayer = -1
        /\ k.autoAdvance \/ k.phase = "RIVER"
    BY <1>8, <2>1, <2>2
  <2>4. ShouldSkipTurnTimer(k)
    BY <1>8, <2>1, NewStreetSkips
  <2>5. RunOut(k)
    BY <2>3, <2>4 DEF RunOut
  <2>6. Behind' /\ StreetLeaves'
    BY <1>4, <2>3, <2>5 DEF Behind, StreetLeaves
  <2>7. QED
    BY <1>5, <1>9, <1>10, <1>11, <2>6 DEF TurnInv
<1>13. CASE StreetClosed
  <2>1. \A i : ~Advancing(inbox', i)
    <3>1. SUFFICES ASSUME NEW i, Advancing(inbox', i) PROVE FALSE
      OBVIOUS
    <3>2. i \in Nat \ {0} /\ Advancing(inbox, i + 1)
      BY <1>5, <3>1 DEF Shifted
    <3>3. i + 1 = 1
      BY <1>6, <1>13, <3>2 DEF StreetClosed
    <3>4. QED
      BY <3>2, <3>3
  <2>2. ~k.autoAdvance /\ ~k.advanceTimer
    BY <1>8, <1>13 DEF StreetClosed
  <2>3. Behind' /\ StreetLeaves'
    BY <1>4, <2>1, <2>2 DEF Behind, StreetLeaves, Leaving
  <2>4. QED
    BY <1>5, <1>9, <1>10, <1>11, <2>3 DEF TurnInv
<1>14. QED
  BY <1>7, <1>12, <1>13

LEMMA EnterShowdownTurns ==
    ASSUME HandInv, TurnInv, inbox # <<>>, g.phase \in Streets, EnterShowdown
    PROVE  TurnInv'
<1>1. PICK rank : Handled(Settle(g, rank), Player, <<>>)
                  /\ autoStart' \in {autoStart, "armed"}
  BY DEF EnterShowdown
<1>2. PICK k : k = Settle(g, rank)
  OBVIOUS
<1>3. /\ k.phase = "SHOWDOWN" /\ k.currentPlayer = -1 /\ k.players = g.players
      /\ k.turn = {} /\ k.timer = {}
  BY <1>2 DEF Settle, HandInv, TypeOK, Game
<1>4. Handled(k, Player, <<>>) /\ g' = k
  BY <1>1, <1>2 DEF Handled
<1>5. NoTimebank' /\ Shifted(<<>>)
  BY <1>4, NothingSent, QueueShift DEF HandInv, TurnInv
<1>6. g'.phase \notin Streets
  BY <1>3, <1>4 DEF Streets
<1>7. InOrder'
  <2>1. \A p : ~IsCurrent(k, p)
    BY <1>3 DEF IsCurrent
  <2>2. QED
    BY <1>4, <1>5, <2>1, InOrderShift DEF TurnInv
<1>8. Behind' /\ StreetLeaves' /\ OneTurn'
  BY <1>3, <1>4, <1>6 DEF Behind, StreetLeaves, OneTurn
<1>9. SeatsDiffer(g)' /\ NobodyAside(g)'
  <2>1. SeatsDiffer(k)
    BY <1>3 DEF TurnInv, SeatsDiffer
  <2>2. NobodyAside(k)
    BY <1>4, <1>6 DEF NobodyAside
  <2>3. QED
    BY <1>4, <2>1, <2>2
<1>10. HandsApart'
  <2>1. NextHandEvents = {} /\ autoStart = "off"
    BY NoNextHandInHand
  <2>2. \A i : ~Starting(inbox, i)
    BY <2>1 DEF Starting, NextHandEvents
  <2>3. \A i : ~Starting(inbox', i)
    BY <1>5, <2>2 DEF Shifted
  <2>4. autoStart' \notin {"pruning", "ready"}
    BY <1>1, <2>1
  <2>5. QED
    BY <1>3, <1>4, <2>3, <2>4 DEF HandsApart
<1>11. QED
  BY <1>5, <1>7, <1>8, <1>9, <1>10 DEF TurnInv

LEMMA HandleAdvanceTurns ==
    ASSUME HandInv, HandInv', DriveInv, TurnInv, HandleAdvance
    PROVE  TurnInv'
<1>1. inbox # <<>> /\ Head(inbox).type = "advance"
  BY DEF HandleAdvance, Receive
<1>2. CASE g.phase \in DOMAIN NextStreet
           /\ Handled(EnterStreet(g, NextStreet[g.phase]), {}, <<>>)
  BY <1>1, <1>2, EnterStreetTurns
<1>3. CASE g.phase = "RIVER" /\ EnterShowdown
  BY <1>1, <1>3, EnterShowdownTurns DEF Streets
<1>4. CASE Reject /\ autoStart' = autoStart
  BY <1>1, <1>4, RejectTurns
<1>5. QED
  BY <1>2, <1>3, <1>4 DEF HandleAdvance

LEMMA HandleGotoShowdownTurns ==
    ASSUME HandInv, TurnInv, HandleGotoShowdown
    PROVE  TurnInv'
<1>1. inbox # <<>>
  BY DEF HandleGotoShowdown, Receive
<1>2. CASE g.phase \in Streets /\ EnterShowdown
  BY <1>1, <1>2, EnterShowdownTurns
<1>3. CASE Reject /\ autoStart' = autoStart
  BY <1>1, <1>3, RejectTurns
<1>4. QED
  BY <1>2, <1>3 DEF HandleGotoShowdown

\* A hand just dealt: nothing is about to end the street.
Fresh(h) == h.timer = {} /\ ~h.autoAdvance /\ ~h.advanceTimer

LEMMA ResetHandFresh ==
    ASSUME NEW h, Playable(h), h.timer = {}
    PROVE  Fresh(ResetHand(h))
BY DEF Playable, Game, ResetHand, ResetBettingRound, Fresh

LEMMA PostBlindFresh ==
    ASSUME NEW h, h \in Game, Fresh(h), NEW p, NEW blind
    PROVE  Fresh(PostBlind(h, p, blind))
<1> DEFINE amount == Lesser(blind, h.balance[p])
           paid == Pay(h, p, amount)
<1>1. /\ paid.timer = h.timer /\ paid.autoAdvance = h.autoAdvance
      /\ paid.advanceTimer = h.advanceTimer
      /\ {"timer", "autoAdvance", "advanceTimer"} \subseteq DOMAIN paid
  BY DEF Pay, Game
<1>2. PICK k : k = PostBlind(h, p, blind)
  OBVIOUS
<1>3. k = h \/ k = [paid EXCEPT !.currentBet = Greater(@, amount)]
  BY <1>2 DEF PostBlind
<1> HIDE DEF paid, amount
<1>4. /\ k.timer = h.timer /\ k.autoAdvance = h.autoAdvance
      /\ k.advanceTimer = h.advanceTimer
  BY <1>1, <1>3
<1>5. Fresh(k)
  BY <1>4 DEF Fresh
<1>6. QED
  BY <1>2, <1>5

LEMMA FirstToActActor ==
    ASSUME NEW h, Playable(h), DealtIn(h), Fresh(h), SeatsDiffer(h),
           h.dealer \in 0 .. NumPlayers(h) - 1,
           NEW m, m = FirstToAct(h)
    PROVE  /\ TurnSettled(m) /\ SameHand(h, m)
           /\ ~m.autoAdvance /\ ~m.advanceTimer
<1> DEFINE seat == IF NumPlayers(h) = 2 THEN SmallBlindSeat(h)
                   ELSE (BigBlindSeat(h) + 1) % NumPlayers(h)
           placed == [h EXCEPT !.currentPlayer = seat]
<1>1. seat \in 0 .. NumPlayers(h) - 1
  <2> DEFINE n == NumPlayers(h)
  <2>1. n \in Nat \ {0}
    BY SeatedPlayers DEF Playable
  <2>2. SmallBlindSeat(h) \in 0 .. n - 1 /\ BigBlindSeat(h) \in 0 .. n - 1
    BY BlindSeats
  <2>3. seat = IF n = 2 THEN SmallBlindSeat(h) ELSE (BigBlindSeat(h) + 1) % n
    OBVIOUS
  <2> HIDE DEF n, seat
  <2>4. \A k \in Nat : k % n \in 0 .. n - 1
    BY <2>1
  <2>5. seat \in 0 .. n - 1
    BY <2>1, <2>2, <2>3, <2>4
  <2>6. QED
    BY <2>5 DEF n
<1>2. m = IF h.status[At(h, seat)] = "ALL_IN" THEN AdvanceToNextPlayer(placed)
          ELSE IF ShouldSkipTurnTimer(placed) THEN placed
          ELSE StartTurn(placed, At(h, seat))
  BY DEF FirstToAct
<1> HIDE DEF seat
<1>3. h \in Game /\ seat \in Nat \cup {-1}
  BY <1>1, SeatedPlayers DEF Playable
<1>4. /\ Keeps(h, placed) /\ DOMAIN placed = DOMAIN h /\ SameHand(h, placed)
      /\ placed.players = h.players /\ placed.status = h.status
      /\ placed.turn = {} /\ placed.timer = {} /\ placed.currentPlayer = seat
      /\ ~placed.autoAdvance /\ ~placed.advanceTimer
  <2>1. Keeps(h, placed)
    BY <1>3, CurrentPlayerKeeps
  <2>2. QED
    BY <1>3, <2>1 DEF DealtIn, Fresh, Game, SameHand
<1> HIDE DEF placed
<1>5. /\ Playable(placed) /\ NumPlayers(placed) = NumPlayers(h) /\ placed \in Game
      /\ SeatsDiffer(placed) /\ TurnsInGame(placed)
      /\ Actionable(placed) = Actionable(h)
  BY <1>4, KeepsPlayable, SameHandSame DEF Keeps, SeatsDiffer, TurnsInGame
<1>6. PICK q : q = At(h, seat)
  OBVIOUS
<1>7. q \in Seated(h) /\ h.status[q] \in {"IN_GAME", "ALL_IN"}
  <2>1. q \in Seated(h)
    BY <1>1, <1>3, <1>6, SeatedPlayers
  <2>2. QED
    BY <2>1 DEF DealtIn
<1>8. IsCurrent(placed, q)
  BY <1>1, <1>4, <1>5, <1>6 DEF IsCurrent, At
<1>9. CASE h.status[q] = "ALL_IN"
  <2>1. m = AdvanceToNextPlayer(placed)
    BY <1>2, <1>6, <1>9
  <2>2. placed.currentPlayer \in -1 .. NumPlayers(placed) - 1
    BY <1>1, <1>4, <1>5
  <2>3. /\ SameHand(placed, m) /\ Keeps(placed, m)
        /\ m.advanceTimer = placed.advanceTimer /\ m.autoAdvance = placed.autoAdvance
    BY <1>5, <2>1, <2>2, AdvancePlaces
  <2>4. /\ \A x \in m.turn \cup m.timer : IsCurrent(m, x)
        /\ \A x : Actionable(placed) = {x} => IsCurrent(m, x)
        /\ ShouldSkipTurnTimer(placed) => m.turn = {} /\ m.timer = {}
    BY <1>4, <1>5, <1>8, <2>1, AdvanceActor
  <2>5. m \in Game /\ Actionable(m) = Actionable(placed)
        /\ (ShouldSkipTurnTimer(m) <=> ShouldSkipTurnTimer(placed))
    BY <2>3, SameHandSame DEF Keeps
  <2>6. ASSUME ShouldSkipTurnTimer(m), NEW x \in Actionable(m) PROVE IsCurrent(m, x)
    <3>1. Actionable(m) = {x}
      BY <2>5, <2>6, SkipAlone
    <3>2. QED
      BY <2>4, <2>5, <3>1
  <2>7. TurnSettled(m)
    BY <2>4, <2>5, <2>6 DEF TurnSettled
  <2>8. QED
    BY <1>4, <2>3, <2>7 DEF SameHand
<1>10. CASE h.status[q] # "ALL_IN" /\ ShouldSkipTurnTimer(placed)
  <2>1. m = placed
    BY <1>2, <1>6, <1>10
  <2>2. q \in Actionable(placed)
    BY <1>5, <1>7, <1>10 DEF Actionable
  <2>3. Actionable(placed) = {q}
    BY <1>5, <1>10, <2>2, SkipAlone
  <2>4. QED
    BY <1>4, <1>8, <2>1, <2>3 DEF TurnSettled
<1>11. CASE h.status[q] # "ALL_IN" /\ ~ShouldSkipTurnTimer(placed)
  <2>1. m = StartTurn(placed, q)
    BY <1>2, <1>6, <1>11
  <2>2. placed.status[q] = "IN_GAME"
    BY <1>4, <1>7, <1>11
  <2>3. /\ m.turn = {q} /\ m.timer = {q} /\ m.currentPlayer = placed.currentPlayer
        /\ SameHand(placed, m)
        /\ m.advanceTimer = placed.advanceTimer /\ m.autoAdvance = placed.autoAdvance
    BY <1>4, <1>5, <2>1, <2>2 DEF StartTurn, Game, SameHand
  <2>4. IsCurrent(m, q)
    BY <1>8, <2>3, SameActorSame DEF SameHand
  <2>5. ~ShouldSkipTurnTimer(m)
    BY <1>11, <2>3, SameHandSame
  <2>6. QED
    BY <1>4, <2>3, <2>4, <2>5 DEF TurnSettled, SameHand
<1>12. QED
  BY <1>7, <1>9, <1>10, <1>11

(* At the start request nothing of the hand before is left.                *)
LEMMA StartAlone ==
    ASSUME HandInv, TurnInv, inbox # <<>>, Head(inbox).type = "startHand"
    PROVE  /\ ~g.advanceTimer /\ g.phase \notin Streets /\ g.timer = {}
           /\ \A i : ~Requested(inbox, i) /\ ~Advancing(inbox, i)
           /\ Playable(g)
<1>1. g \in Game /\ inbox \in Seq(Event) /\ NumPlayers(g) \in Nat
  BY SeatedPlayers DEF HandInv, TypeOK
<1>2. /\ DOMAIN inbox = 1 .. Len(inbox) /\ Len(inbox) \in Nat \ {0}
      /\ inbox[1] = Head(inbox)
  BY <1>1, LenProperties, EmptySeq
<1>3. 1 \in DOMAIN inbox
  BY <1>2
<1>4. 1 \in NextHandEvents /\ Starting(inbox, 1)
  BY <1>2, <1>3 DEF NextHandEvents, Starting
<1>5. g.phase \notin Streets /\ NumPlayers(g) >= 2
  BY <1>2, <1>4 DEF HandInv, NextHandOrdered
<1>6. /\ ~g.advanceTimer
      /\ \A j : Requested(inbox, j) \/ Advancing(inbox, j) => j < 1
  BY <1>4 DEF TurnInv, HandsApart
<1>7. ASSUME NEW j, Requested(inbox, j) \/ Advancing(inbox, j) PROVE FALSE
  <2>1. j \in 1 .. Len(inbox) /\ j < 1
    BY <1>2, <1>6, <1>7 DEF Requested, Advancing
  <2>2. QED
    BY <1>2, <2>1
<1>8. g.timer = {}
  BY <1>5 DEF TurnInv, OneTurn, CanAct
<1>9. QED
  BY <1>1, <1>5, <1>6, <1>7, <1>8 DEF Playable

LEMMA PostBlindsFresh ==
    ASSUME NEW h, Playable(h), Fresh(h), h.dealer \in 0 .. NumPlayers(h) - 1,
           NEW k, k = PostBlinds(h)
    PROVE  Fresh(k)
<1> DEFINE sb == At(h, SmallBlindSeat(h))
           bb == At(h, BigBlindSeat(h))
<1>1. sb \in Player /\ h \in Game
  BY BlindSeats, SeatedPlayers DEF Playable
<1>2. k = PostBlind(PostBlind(h, sb, SmallBlind), bb, BigBlind)
  BY DEF PostBlinds
<1> HIDE DEF sb, bb
<1>3. PICK small : small = PostBlind(h, sb, SmallBlind)
  OBVIOUS
<1>4. Fresh(small) /\ small \in Game
  <2>1. Keeps(h, PostBlind(h, sb, SmallBlind))
    BY <1>1, PostBlindKeeps, BlindsAssumption
  <2>2. QED
    BY <1>1, <1>3, <2>1, PostBlindFresh DEF Keeps
<1>5. QED
  BY <1>2, <1>3, <1>4, PostBlindFresh

LEMMA HandleStartHandTurns ==
    ASSUME HandInv, HandInv', TurnInv, HandleStartHand
    PROVE  TurnInv'
<1>1. inbox # <<>> /\ Head(inbox).type = "startHand"
  BY DEF HandleStartHand, Receive
<1>2. CASE Reject
  <2>1. autoStart' \in {autoStart, "off"}
    BY DEF HandleStartHand
  <2>2. QED
    BY <1>1, <1>2, <2>1, RejectTurns
<1>3. CASE ~Reject
  <2>0. /\ ~g.advanceTimer /\ g.phase \notin Streets /\ g.timer = {}
        /\ \A i : ~Requested(inbox, i) /\ ~Advancing(inbox, i)
        /\ Playable(g)
    BY <1>1, StartAlone
  <2>1. PICK r : r = ResetHand(g)
    OBVIOUS
  <2>2. PICK b : b = PostBlinds(r)
    OBVIOUS
  <2>3. PICK m : m = FirstToAct(b)
    OBVIOUS
  <2>4. PICK ended : Handled(MaybeCompleteBettingRound(m), ended, RoundEvents(m))
    BY <1>3, <2>1, <2>2, <2>3 DEF HandleStartHand
  <2>5. /\ Playable(r) /\ NumPlayers(r) = NumPlayers(g) /\ DealtIn(r)
        /\ r.players = g.players
        /\ r.phase \in Streets /\ r.dealer \in 0 .. NumPlayers(r) - 1
        /\ Fresh(r)
    BY <2>0, <2>1, ResetHandType, ResetHandDeals, ResetHandFresh
  <2>6. DealtIn(b) /\ Keeps(r, b) /\ b.dealer = r.dealer /\ Fresh(b)
    BY <2>2, <2>5, PostBlindsDeals, PostBlindsKeeps, PostBlindsFresh
  <2>7. Playable(b) /\ NumPlayers(b) = NumPlayers(r)
    BY <2>5, <2>6, KeepsPlayable
  <2>8. b.dealer \in 0 .. NumPlayers(b) - 1
    BY <2>5, <2>6, <2>7
  <2>9. SeatsDiffer(b)
    BY <2>5, <2>6 DEF TurnInv, SeatsDiffer, Keeps
  <2>10. /\ TurnSettled(m) /\ SameHand(b, m)
         /\ ~m.autoAdvance /\ ~m.advanceTimer
    BY <2>3, <2>6, <2>7, <2>8, <2>9, FirstToActActor
  <2>11. m \in Game /\ m.phase \in Streets
    <3>1. Keeps(b, m)
      BY <2>3, <2>7, <2>8, FirstToActKeeps
    <3>2. QED
      BY <2>5, <2>6, <3>1 DEF Keeps
  <2>12. SeatsDiffer(m)
    BY <2>9, <2>10 DEF SeatsDiffer, SameHand
  <2>13. NobodyAside(m)
    <3>1. Seated(m) = Seated(b) /\ m.status = b.status
      BY <2>10 DEF SameHand, Seated
    <3>2. QED
      BY <2>6, <3>1 DEF DealtIn, NobodyAside
  <2>14. StreetOpen(m)
    BY <2>0, <2>10 DEF StreetOpen
  <2>15. \A i : ~Requested(inbox', i)
    <3>1. Announces(RoundEvents(m))
      BY <2>11, RoundActor
    <3>2. PICK sent : sent = RoundEvents(m)
      OBVIOUS
    <3>3. PICK k : k = MaybeCompleteBettingRound(m)
      OBVIOUS
    <3>4. Shifted(sent)
      BY <1>1, <2>4, <3>1, <3>2, <3>3, QueueShift DEF HandInv, TurnInv
    <3>5. QED
      BY <2>0, <3>4 DEF Shifted
  <2>16. InOrder'
    BY <2>15 DEF InOrder
  <2>17. TypeOK /\ NoTimebank
    BY DEF HandInv, TurnInv
  <2>18. QED
    BY <1>1, <2>4, <2>11, <2>12, <2>13, <2>10, <2>14, <2>15, <2>16, <2>17, RoundTurns
<1>4. QED
  BY <1>2, <1>3

(* The players who stay keep seats of their own.                           *)
LEMMA StayingDiffers ==
    ASSUME NEW h, h \in Game, SeatsDiffer(h),
           NEW k, k = [h EXCEPT !.players = Staying(h)]
    PROVE  SeatsDiffer(k)
<1> DEFINE seats == {i \in DOMAIN h.players : h.balance[h.players[i]] > 0}
           n == Cardinality(seats)
<1>1. /\ Len(h.players) \in Nat /\ DOMAIN h.players = 1 .. Len(h.players)
  BY LenProperties DEF Game
<1>2. IsFiniteSet(seats) /\ seats \in SUBSET Nat /\ seats \subseteq DOMAIN h.players
  <2>1. IsFiniteSet(1 .. Len(h.players))
    <3>1. 1 \in Int /\ Len(h.players) \in Int
      BY <1>1
    <3>2. QED
      BY <3>1, FS_Interval
  <2>2. seats \in SUBSET (1 .. Len(h.players)) /\ 1 .. Len(h.players) \subseteq Nat
    BY <1>1
  <2>3. seats \subseteq DOMAIN h.players
    OBVIOUS
  <2> HIDE DEF seats
  <2>4. QED
    BY <2>1, <2>2, <2>3, FS_Subset
<1>3. k.players = [j \in 1 .. n |-> h.players[Nth(seats, j)]]
  BY DEF Staying, Game
<1> HIDE DEF seats, n
<1>4. ASSUME NEW j \in 1 .. n
      PROVE  /\ Nth(seats, j) \in seats
             /\ Cardinality({l \in seats : l <= Nth(seats, j)}) = j
  <2>1. \E i \in seats : Cardinality({l \in seats : l <= i}) = j
    BY <1>2, NthOfNats DEF n
  <2>2. QED
    BY <2>1 DEF Nth
<1>5. ASSUME NEW i \in 1 .. n, NEW j \in 1 .. n, k.players[i] = k.players[j]
      PROVE  i = j
  <2>1. h.players[Nth(seats, i)] = h.players[Nth(seats, j)]
    BY <1>3, <1>5
  <2>2. Nth(seats, i) \in DOMAIN h.players /\ Nth(seats, j) \in DOMAIN h.players
    BY <1>2, <1>4
  <2>3. Nth(seats, i) = Nth(seats, j)
    BY <2>1, <2>2 DEF SeatsDiffer
  <2>4. QED
    BY <1>4, <2>3
<1>6. DOMAIN k.players = 1 .. n
  BY <1>3
<1>7. QED
  BY <1>5, <1>6 DEF SeatsDiffer

LEMMA HandlePruneTurns ==
    ASSUME HandInv, HandInv', TurnInv, HandlePrune
    PROVE  TurnInv'
<1>1. inbox # <<>> /\ Head(inbox).type = "prune"
  BY DEF HandlePrune, Receive
<1>2. CASE Reject /\ autoStart' = "off"
  BY <1>1, <1>2, RejectTurns
<1>3. CASE /\ g.phase \notin Streets
           /\ Handled([g EXCEPT !.players = Staying(g)], {}, <<>>)
           /\ autoStart' = "ready"
  <2>1. PICK k : k = [g EXCEPT !.players = Staying(g)]
    OBVIOUS
  <2>2. Handled(k, {}, <<>>) /\ g' = k
    BY <1>3, <2>1 DEF Handled
  <2>3. g \in Game /\ inbox \in Seq(Event)
    BY DEF HandInv, TypeOK
  <2>4. /\ k.phase = g.phase /\ k.currentPlayer = g.currentPlayer
        /\ k.turn = g.turn /\ k.timer = g.timer
        /\ k.advanceTimer = g.advanceTimer
    BY <2>1, <2>3 DEF Game
  <2>5. NoTimebank' /\ Shifted(<<>>)
    BY <1>1, <2>2, NothingSent, QueueShift DEF HandInv, TurnInv
  <2>6. autoStart = "pruning"
    <3>1. 1 \in DOMAIN inbox /\ inbox[1].type = "prune"
      BY <1>1, <2>3
    <3>2. 1 \in NextHandEvents
      BY <3>1 DEF NextHandEvents
    <3>3. QED
      BY <3>1, <3>2 DEF HandInv, NextHandOrdered
  <2>7. ~g.advanceTimer
    BY <2>6 DEF TurnInv, HandsApart
  <2>8. k.turn = {} /\ k.timer = {} /\ g'.phase \notin Streets
    BY <1>3, <2>2, <2>4 DEF TurnInv, OneTurn, CanAct
  <2>9. g.currentPlayer = -1 \/ \A i : ~Requested(inbox', i)
    <3>1. g.currentPlayer = -1 \/ \A i : ~Requested(inbox, i)
      BY <1>3 DEF TurnInv, HandsApart
    <3>2. QED
      BY <2>5, <3>1 DEF Shifted
  <2>10. InOrder'
    <3>1. CASE g.currentPlayer = -1
      <4>1. \A p : ~IsCurrent(g', p)
        BY <2>2, <2>4, <3>1 DEF IsCurrent
      <4>2. QED
        BY <2>5, <4>1, InOrderShift DEF TurnInv
    <3>2. CASE \A i : ~Requested(inbox', i)
      BY <3>2 DEF InOrder
    <3>3. QED
      BY <2>9, <3>1, <3>2
  <2>11. HandsApart'
    <3>1. \A i : ~Starting(inbox', i)
      <4>1. \A i \in NextHandEvents' : autoStart' = "off" \/ autoStart' = "pruning"
        BY DEF HandInv, NextHandOrdered
      <4>2. NextHandEvents' = {}
        BY <1>3, <4>1
      <4>3. QED
        BY <4>2 DEF NextHandEvents, Starting
    <3>2. QED
      BY <2>2, <2>4, <2>7, <2>9, <3>1 DEF HandsApart
  <2>12. SeatsDiffer(g)'
    <3>1. SeatsDiffer(k)
      BY <2>1, <2>3, StayingDiffers DEF TurnInv
    <3>2. QED
      BY <2>2, <3>1
  <2>13. NobodyAside(g)'
    <3>1. NobodyAside(k)
      BY <2>2, <2>8 DEF NobodyAside
    <3>2. QED
      BY <2>2, <3>1
  <2>14. Behind' /\ StreetLeaves' /\ OneTurn'
    BY <2>2, <2>8 DEF Behind, StreetLeaves, OneTurn
  <2>15. QED
    BY <2>5, <2>10, <2>11, <2>12, <2>13, <2>14 DEF TurnInv
<1>4. QED
  BY <1>2, <1>3 DEF HandlePrune

\* An event has been put last in the inbox.
Grown(e) ==
    /\ Len(inbox) \in Nat
    /\ \A i : Requested(inbox, i) \/ Advancing(inbox, i) \/ Starting(inbox, i) =>
           i \in 1 .. Len(inbox)
    /\ \A i : Requested(inbox', i) =>
           \/ Requested(inbox, i) /\ inbox'[i].id = inbox[i].id
           \/ /\ i = Len(inbox) + 1 /\ inbox'[i] = e
              /\ e.type \in {"fold", "check", "call", "bet"}
    /\ \A i : Advancing(inbox', i) =>
           Advancing(inbox, i) \/ (i = Len(inbox) + 1 /\ e.type = "advance")
    /\ \A i : Starting(inbox', i) =>
           Starting(inbox, i) \/ (i = Len(inbox) + 1 /\ e.type = "startHand")

LEMMA EnqueueGrows ==
    ASSUME TypeOK, NoTimebank, NEW e \in Event, e.type # "timebank", Enqueue(e),
           expiries' = expiries
    PROVE  Grown(e) /\ NoTimebank'
<1>1. inbox \in Seq(Event) /\ inbox' = Append(inbox, e)
  BY DEF TypeOK, Enqueue
<1>2. /\ Len(inbox') = Len(inbox) + 1
      /\ \A i \in 1 .. Len(inbox) : inbox'[i] = inbox[i]
      /\ inbox'[Len(inbox) + 1] = e
      /\ inbox' \in Seq(Event)
  BY <1>1, AppendProperties
<1>3. /\ Len(inbox) \in Nat /\ DOMAIN inbox = 1 .. Len(inbox)
      /\ DOMAIN inbox' = 1 .. Len(inbox) + 1
  BY <1>1, <1>2, LenProperties
<1>4. \A i \in DOMAIN inbox' :
          \/ i \in DOMAIN inbox /\ inbox'[i] = inbox[i]
          \/ i = Len(inbox) + 1 /\ inbox'[i] = e
  BY <1>2, <1>3
<1>5. NoTimebank'
  <2>1. \A i \in DOMAIN inbox' : inbox'[i].type # "timebank"
    BY <1>4 DEF NoTimebank
  <2>2. QED
    BY <2>1 DEF NoTimebank
<1>6. \A i : Requested(inbox', i) =>
          \/ Requested(inbox, i) /\ inbox'[i].id = inbox[i].id
          \/ /\ i = Len(inbox) + 1 /\ inbox'[i] = e
             /\ e.type \in {"fold", "check", "call", "bet"}
  BY <1>4 DEF Requested
<1>7. \A i : Advancing(inbox', i) =>
          Advancing(inbox, i) \/ (i = Len(inbox) + 1 /\ e.type = "advance")
  BY <1>4 DEF Advancing
<1>8. \A i : Starting(inbox', i) =>
          Starting(inbox, i) \/ (i = Len(inbox) + 1 /\ e.type = "startHand")
  BY <1>4 DEF Starting
<1>9. \A i : Requested(inbox, i) \/ Advancing(inbox, i) \/ Starting(inbox, i) =>
          i \in 1 .. Len(inbox)
  BY <1>3 DEF Requested, Advancing, Starting
<1>10. QED
  BY <1>3, <1>5, <1>6, <1>7, <1>8, <1>9 DEF Grown

(* A request is put behind everything by the player who is to act.         *)
LEMMA ClientRequestTurns ==
    ASSUME HandInv, HandInv', TurnInv, NEW p \in Player, ClientRequest(p)
    PROVE  TurnInv'
<1>1. /\ g' = g /\ expiries' = expiries /\ autoStart' = autoStart
      /\ g.phase \in Streets /\ IsCurrent(g, p)
  BY DEF ClientRequest, CanAct
<1>2. PICK e \in Event : /\ Enqueue(e) /\ e.id = p
                         /\ e.type \in {"fold", "check", "call", "bet"}
  <2>1. CASE \E type \in Requests \ {"bet"} : Enqueue([type |-> type, id |-> p])
    <3>1. PICK type \in Requests \ {"bet"} : Enqueue([type |-> type, id |-> p])
      BY <2>1
    <3>2. /\ [type |-> type, id |-> p] \in Event
          /\ type \in {"fold", "check", "call", "bet"}
      BY RequestsAssumption DEF Event
    <3>3. QED
      BY <3>1, <3>2
  <2>2. CASE \E amount \in BetAmounts :
                 Enqueue([type |-> "bet", id |-> p, amount |-> amount])
    <3>1. PICK amount \in BetAmounts :
                   Enqueue([type |-> "bet", id |-> p, amount |-> amount])
      BY <2>2
    <3>2. [type |-> "bet", id |-> p, amount |-> amount] \in Event
      BY RequestsAssumption DEF Event
    <3>3. QED
      BY <3>1, <3>2
  <2>3. QED
    BY <2>1, <2>2 DEF ClientRequest
<1>3. Grown(e) /\ NoTimebank'
  BY <1>1, <1>2, EnqueueGrows DEF HandInv, TurnInv
<1>4. \A i : Requested(inbox', i) =>
          \/ Requested(inbox, i) /\ i \in 1 .. Len(inbox) /\ inbox'[i].id = inbox[i].id
          \/ i = Len(inbox) + 1 /\ inbox'[i].id = p
  BY <1>2, <1>3 DEF Grown
<1>5. \A i : Advancing(inbox', i) => Advancing(inbox, i) /\ i \in 1 .. Len(inbox)
  BY <1>2, <1>3 DEF Grown
<1>6. Len(inbox) \in Nat
  BY <1>3 DEF Grown
<1>7. \A q : IsCurrent(g, q) => q = p
  BY <1>1 DEF IsCurrent
<1>8. g.currentPlayer # -1
  <2>1. g.currentPlayer \in 0 .. NumPlayers(g) - 1 /\ NumPlayers(g) \in Nat
    BY <1>1, SeatedPlayers DEF IsCurrent, HandInv, TypeOK
  <2>2. QED
    BY <2>1
<1>9. InOrder'
  <2>1. SUFFICES ASSUME NEW i, NEW j, Requested(inbox', i), Requested(inbox', j),
                        i < j, inbox'[i].id # inbox'[j].id
                 PROVE  /\ ~IsCurrent(g, inbox'[i].id)
                        /\ \A k : Advancing(inbox', k) => k > i
    BY <1>1 DEF InOrder
  <2>2. Requested(inbox, i) /\ i \in 1 .. Len(inbox) /\ inbox'[i].id = inbox[i].id
    <3>1. i = Len(inbox) + 1 => FALSE
      <4>1. j \in 1 .. Len(inbox) \/ j = Len(inbox) + 1
        BY <1>4, <2>1
      <4>2. QED
        BY <1>6, <2>1, <4>1
    <3>2. QED
      BY <1>4, <2>1, <3>1
  <2>3. CASE Requested(inbox, j) /\ inbox'[j].id = inbox[j].id
    <3>1. /\ ~IsCurrent(g, inbox[i].id)
          /\ \A k : Advancing(inbox, k) => k > i
      BY <2>1, <2>2, <2>3 DEF TurnInv, InOrder
    <3>2. QED
      BY <1>5, <2>2, <3>1
  <2>4. CASE inbox'[j].id = p
    <3>1. ~IsCurrent(g, inbox[i].id)
      BY <1>7, <2>1, <2>2, <2>4
    <3>2. ASSUME NEW k, Advancing(inbox', k) PROVE k > i
      <4>1. Advancing(inbox, k) /\ k \in 1 .. Len(inbox)
        BY <1>5, <3>2
      <4>2. ~(k < i)
        BY <1>1, <1>8, <2>2, <3>1, <4>1 DEF TurnInv, Behind
      <4>3. k # i
        BY <2>2, <4>1 DEF Requested, Advancing
      <4>4. QED
        BY <1>6, <2>2, <4>1, <4>2, <4>3
    <3>3. QED
      BY <2>2, <3>1, <3>2
  <2>5. QED
    BY <1>4, <2>1, <2>3, <2>4
<1>10. Behind'
  <2>1. SUFFICES ASSUME NEW i, NEW j, Advancing(inbox', i), Requested(inbox', j), i < j
                 PROVE  g.currentPlayer = -1 \/ IsCurrent(g, inbox'[j].id)
    BY <1>1 DEF Behind
  <2>2. CASE inbox'[j].id = p
    BY <1>1, <2>2
  <2>3. CASE Requested(inbox, j) /\ inbox'[j].id = inbox[j].id
    BY <1>1, <1>5, <2>1, <2>3 DEF TurnInv, Behind
  <2>4. QED
    BY <1>4, <2>1, <2>2, <2>3
<1>11. Leaving' => Leaving
  BY <1>1, <1>5 DEF Leaving
<1>12. StreetClosed => StreetClosed'
  <2>1. SUFFICES ASSUME StreetClosed PROVE StreetClosed'
    OBVIOUS
  <2>2. ASSUME NEW i, NEW j, Advancing(inbox', i), Requested(inbox', j), j < i
        PROVE  ~IsCurrent(g, inbox'[j].id)
    <3>1. Advancing(inbox, i) /\ i \in 1 .. Len(inbox)
      BY <1>5, <2>2
    <3>2. j # Len(inbox) + 1
      BY <1>6, <2>2, <3>1
    <3>3. Requested(inbox, j) /\ inbox'[j].id = inbox[j].id
      BY <1>4, <2>2, <3>2
    <3>4. QED
      BY <2>1, <2>2, <3>1, <3>3 DEF StreetClosed
  <2>3. \A i, j : Advancing(inbox', i) /\ Advancing(inbox', j) => i = j
    BY <1>5, <2>1 DEF StreetClosed
  <2>4. ~g'.advanceTimer /\ ~g'.autoAdvance
    BY <1>1, <2>1 DEF StreetClosed
  <2>5. \A i, j : Advancing(inbox', i) /\ Requested(inbox', j) /\ j < i =>
            ~IsCurrent(g', inbox'[j].id)
    BY <1>1, <2>2
  <2>6. QED
    BY <2>3, <2>4, <2>5 DEF StreetClosed
<1>13. StreetLeaves'
  <2>1. Leaving' => /\ g.turn = {} /\ g.timer = {}
                    /\ RunOut(g) \/ StreetClosed'
    BY <1>1, <1>11, <1>12 DEF TurnInv, StreetLeaves
  <2>2. RunOut(g)' <=> RunOut(g)
    BY <1>1
  <2>3. QED
    BY <1>1, <2>1, <2>2 DEF StreetLeaves
<1>14. HandsApart'
  <2>1. g'.phase \in Streets
    BY <1>1
  <2>2. QED
    BY <2>1, HandsApartInHand
<1>15. OneTurn'
  BY <1>1 DEF TurnInv, OneTurn, CanAct
<1>16. SeatsDiffer(g)' /\ NobodyAside(g)'
  BY <1>1 DEF TurnInv
<1>17. QED
  BY <1>3, <1>9, <1>10, <1>13, <1>14, <1>15, <1>16 DEF TurnInv

(* The auto-advance timer runs only when the board is run out.             *)
LEMMA AdvanceTimerTurns ==
    ASSUME HandInv, HandInv', TurnInv, AdvanceTimerFires
    PROVE  TurnInv'
<1>1. PICK e : e = [type |-> "advance"]
  OBVIOUS
<1>2. PICK k : k = [g EXCEPT !.advanceTimer = FALSE]
  OBVIOUS
<1>3. /\ g' = k /\ expiries' = expiries /\ Enqueue(e) /\ g.advanceTimer
      /\ autoStart' = autoStart
      /\ g \in Game /\ e \in Event /\ e.type = "advance"
  BY <1>1, <1>2 DEF AdvanceTimerFires, HandInv, TypeOK, Event
<1>4. /\ k.players = g.players /\ k.status = g.status /\ k.turn = g.turn
      /\ k.phase = g.phase /\ k.currentPlayer = g.currentPlayer
      /\ k.bet = g.bet /\ k.currentBet = g.currentBet
      /\ k.timer = g.timer /\ k.autoAdvance = g.autoAdvance /\ ~k.advanceTimer
  BY <1>2, <1>3 DEF Game
<1>5. Grown(e) /\ NoTimebank'
  BY <1>3, EnqueueGrows DEF HandInv, TurnInv
<1>6. \A i : Requested(inbox', i) =>
          Requested(inbox, i) /\ i \in 1 .. Len(inbox) /\ inbox'[i].id = inbox[i].id
  BY <1>3, <1>5 DEF Grown
<1>7. \A i : Advancing(inbox', i) =>
          (Advancing(inbox, i) /\ i \in 1 .. Len(inbox)) \/ i = Len(inbox) + 1
  BY <1>5 DEF Grown
<1>8. Len(inbox) \in Nat
  BY <1>5 DEF Grown
<1>9. \A q : IsCurrent(k, q) <=> IsCurrent(g, q)
  BY <1>4, SameActorSame
<1>10. InOrder'
  <2>1. SUFFICES ASSUME NEW i, NEW j, Requested(inbox', i), Requested(inbox', j),
                        i < j, inbox'[i].id # inbox'[j].id
                 PROVE  /\ ~IsCurrent(g', inbox'[i].id)
                        /\ \A l : Advancing(inbox', l) => l > i
    BY DEF InOrder
  <2>2. /\ Requested(inbox, i) /\ i \in 1 .. Len(inbox) /\ inbox'[i].id = inbox[i].id
        /\ Requested(inbox, j) /\ inbox'[j].id = inbox[j].id
    BY <1>6, <2>1
  <2>3. /\ ~IsCurrent(g, inbox[i].id)
        /\ \A l : Advancing(inbox, l) => l > i
    BY <2>1, <2>2 DEF TurnInv, InOrder
  <2>4. ASSUME NEW l, Advancing(inbox', l) PROVE l > i
    BY <1>7, <1>8, <2>2, <2>3, <2>4
  <2>5. QED
    BY <1>3, <1>9, <2>2, <2>3, <2>4
<1>11. Behind'
  <2>1. SUFFICES ASSUME g.phase \in Streets, NEW i, NEW j, Advancing(inbox', i),
                        Requested(inbox', j), i < j
                 PROVE  g.currentPlayer = -1 \/ IsCurrent(g, inbox'[j].id)
    BY <1>3, <1>4, <1>9 DEF Behind
  <2>2. Requested(inbox, j) /\ j \in 1 .. Len(inbox) /\ inbox'[j].id = inbox[j].id
    BY <1>6, <2>1
  <2>3. Advancing(inbox, i)
    BY <1>7, <1>8, <2>1, <2>2
  <2>4. QED
    BY <2>1, <2>2, <2>3 DEF TurnInv, Behind
<1>12. StreetLeaves'
  <2>1. SUFFICES ASSUME g.phase \in Streets
                 PROVE  g'.turn = {} /\ g'.timer = {} /\ RunOut(g')
    BY <1>3, <1>4 DEF StreetLeaves
  <2>2. g.turn = {} /\ g.timer = {} /\ RunOut(g)
    BY <1>3, <2>1 DEF TurnInv, StreetLeaves, Leaving, StreetClosed
  <2>3. SameHand(g, k)
    BY <1>4 DEF SameHand
  <2>4. Actionable(k) = Actionable(g) /\ ShouldSkipTurnTimer(k)
    BY <2>2, <2>3, SameHandSame DEF RunOut
  <2>5. RunOut(k)
    BY <1>4, <1>9, <2>2, <2>4 DEF RunOut
  <2>6. QED
    BY <1>3, <1>4, <2>2, <2>5
<1>13. OneTurn'
  BY <1>3, <1>4, <1>9, CanActIs DEF TurnInv, OneTurn, CanAct
<1>14. HandsApart'
  <2>1. \A i : ~Starting(inbox, i)
    BY <1>3 DEF TurnInv, HandsApart
  <2>2. \A i : ~Starting(inbox', i)
    BY <1>3, <1>5, <2>1 DEF Grown
  <2>3. g.phase \notin Streets => g.currentPlayer = -1 \/ \A i : ~Requested(inbox', i)
    BY <1>6 DEF TurnInv, HandsApart
  <2>4. QED
    BY <1>3, <1>4, <2>2, <2>3 DEF HandsApart
<1>15. SeatsDiffer(g)' /\ NobodyAside(g)'
  <2>1. SeatsDiffer(k) /\ NobodyAside(k)
    BY <1>4 DEF TurnInv, SeatsDiffer, NobodyAside, Seated
  <2>2. QED
    BY <1>3, <2>1
<1>16. QED
  BY <1>5, <1>10, <1>11, <1>12, <1>13, <1>14, <1>15 DEF TurnInv

(* The prune and the start of the next hand are asked for when no street   *)
(* is about to be left.                                                    *)
LEMMA NextHandTurns ==
    ASSUME HandInv, TurnInv, AdvanceFirst, AutoStartFires \/ StartNewHand
    PROVE  TurnInv'
<1>1. /\ g' = g /\ expiries' = expiries /\ ~g.advanceTimer
      /\ g.phase \notin Streets
  BY DEF AutoStartFires, StartNewHand, HandInv, NextHandOrdered, TurnInv, HandsApart
<1>2. /\ NoTimebank' /\ Len(inbox) \in Nat
      /\ \A i : Requested(inbox', i) =>
             /\ Requested(inbox, i) /\ i \in 1 .. Len(inbox)
             /\ inbox'[i].id = inbox[i].id
      /\ \A i : Advancing(inbox', i) => Advancing(inbox, i) /\ i \in 1 .. Len(inbox)
      /\ \A i : Starting(inbox', i) => Starting(inbox, i) \/ i = Len(inbox) + 1
  <2>1. CASE inbox' = inbox
    <3>1. inbox \in Seq(Event)
      BY DEF HandInv, TypeOK
    <3>2. Len(inbox) \in Nat /\ DOMAIN inbox = 1 .. Len(inbox)
      BY <3>1, LenProperties
    <3>3. NoTimebank'
      BY <1>1, <2>1 DEF TurnInv, NoTimebank
    <3>4. QED
      BY <2>1, <3>2, <3>3 DEF Requested, Advancing
  <2>2. CASE \E e \in Event : Enqueue(e) /\ e.type \in {"prune", "startHand"}
    <3>1. PICK e \in Event : Enqueue(e) /\ e.type \in {"prune", "startHand"}
      BY <2>2
    <3>2. Grown(e) /\ NoTimebank'
      BY <1>1, <3>1, EnqueueGrows DEF HandInv, TurnInv
    <3>3. QED
      BY <3>1, <3>2 DEF Grown
  <2>3. [type |-> "prune"] \in Event /\ [type |-> "startHand"] \in Event
    BY DEF Event
  <2>4. QED
    BY <2>1, <2>2, <2>3 DEF AutoStartFires, StartNewHand
<1>3. InOrder'
  BY <1>1, <1>2 DEF TurnInv, InOrder
<1>4. Behind' /\ StreetLeaves'
  BY <1>1 DEF Behind, StreetLeaves
<1>5. OneTurn'
  BY <1>1 DEF TurnInv, OneTurn, CanAct
<1>6. HandsApart'
  <2>1. ASSUME NEW i, Starting(inbox', i)
        PROVE  \A j : Requested(inbox', j) \/ Advancing(inbox', j) => j < i
    <3>1. CASE Starting(inbox, i)
      BY <1>2, <3>1 DEF TurnInv, HandsApart
    <3>2. CASE i = Len(inbox) + 1
      BY <1>2, <3>2
    <3>3. QED
      BY <1>2, <2>1, <3>1, <3>2
  <2>2. g.currentPlayer = -1 \/ \A i : ~Requested(inbox', i)
    BY <1>1, <1>2 DEF TurnInv, HandsApart
  <2>3. QED
    BY <1>1, <2>1, <2>2 DEF HandsApart
<1>7. SeatsDiffer(g)' /\ NobodyAside(g)'
  BY <1>1 DEF TurnInv
<1>8. QED
  BY <1>2, <1>3, <1>4, <1>5, <1>6, <1>7 DEF TurnInv

LEMMA TurnInvInit == Init => TurnInv
<1> SUFFICES ASSUME Init PROVE TurnInv
  OBVIOUS
<1>1. PICK e : e = [type |-> "startHand"]
  OBVIOUS
<1>2. /\ inbox = <<e>> /\ expiries = <<>> /\ autoStart = "off"
      /\ g.players = Seats /\ g.phase = "NEW_HAND_DEALING" /\ ~g.advanceTimer
      /\ g.turn = {} /\ g.timer = {} /\ e.type = "startHand"
  BY <1>1 DEF Init
<1>3. DOMAIN inbox = {1} /\ inbox[1] = e
  BY <1>2
<1>4. \A i : ~Requested(inbox, i) /\ ~Advancing(inbox, i)
  BY <1>2, <1>3 DEF Requested, Advancing
<1>5. NoTimebank
  BY <1>2, <1>3 DEF NoTimebank
<1>6. SeatsDiffer(g)
  BY <1>2, PlayersAssumption DEF SeatsDiffer
<1>7. g.phase \notin Streets
  BY <1>2 DEF Streets
<1>8. HandsApart
  BY <1>2, <1>4 DEF HandsApart
<1>9. NobodyAside(g) /\ InOrder /\ Behind /\ StreetLeaves /\ OneTurn
  BY <1>2, <1>4, <1>7 DEF NobodyAside, InOrder, Behind, StreetLeaves, OneTurn
<1>10. QED
  BY <1>5, <1>6, <1>8, <1>9 DEF TurnInv

(* With MaxExpiries = 0 no timebank fires.                                 *)
LEMMA NoExpiry ==
    ASSUME HandInv, TurnInv, MaxExpiries = 0
    PROVE  ~ForwardExpiry /\ \A p : ~TimebankFires(p)
<1>1. expiries = <<>> /\ Expiring = {}
  BY DEF TurnInv, NoTimebank, Expiring
<1>2. Len(expiries) = 0 /\ Cardinality(Expiring) = 0
  BY <1>1, EmptySeq, FS_EmptySet
<1>3. ~(Len(expiries) + Cardinality(Expiring) < MaxExpiries)
  BY <1>2
<1>4. QED
  BY <1>1, <1>3 DEF ForwardExpiry, TimebankFires

LEMMA TurnInvNext ==
    ASSUME MaxExpiries = 0, AdvanceFirst,
           HandInv, HandInv', DriveInv, TurnInv, [Next]_vars
    PROVE  TurnInv'
<1>1. CASE Machine
  <2>1. CASE \/ HandleFoldReq \/ HandleCheckReq \/ HandleCallReq \/ HandleBetReq
             \/ HandleTimebankExpired
    BY <2>1, HandleRequestTurns
  <2>2. CASE HandleAdvance
    BY <2>2, HandleAdvanceTurns
  <2>3. CASE HandleGotoShowdown
    BY <2>3, HandleGotoShowdownTurns
  <2>4. CASE HandleStartHand
    BY <2>4, HandleStartHandTurns
  <2>5. CASE HandlePrune
    BY <2>5, HandlePruneTurns
  <2>6. QED
    BY <1>1, <2>1, <2>2, <2>3, <2>4, <2>5 DEF Machine
<1>2. CASE Timers
  <2>1. CASE AdvanceTimerFires
    BY <2>1, AdvanceTimerTurns
  <2>2. CASE AutoStartFires \/ StartNewHand
    BY <2>2, NextHandTurns
  <2>3. QED
    BY <1>2, <2>1, <2>2, NoExpiry DEF Timers
<1>3. CASE \E p \in Player : ClientRequest(p)
  BY <1>3, ClientRequestTurns
<1>4. CASE UNCHANGED vars
  <2>1. g' = g /\ inbox' = inbox /\ expiries' = expiries /\ autoStart' = autoStart
    BY <1>4 DEF vars
  <2>2. QED
    BY <2>1 DEF TurnInv, NoTimebank, SeatsDiffer, NobodyAside, InOrder, Behind,
                StreetLeaves, Leaving, StreetClosed, OneTurn, CanAct, HandsApart
<1>5. QED
  BY <1>1, <1>2, <1>3, <1>4 DEF Next, Over

(* Without timebanks that expire (scheduleTimebank arms none when TimeBank *)
(* is 0) and with an auto-advance delay no longer than the auto-start      *)
(* delay, as by default, only the current player of a betting street has   *)
(* isTurn or a timebank, and only with a decision to make: a request whose *)
(* turn is over, an advance of this street or of one already left, and the *)
(* events of the next hand never start a second turn.                      *)
THEOREM TurnAlwaysDisciplined ==
    ASSUME MaxExpiries = 0, AdvanceFirst
    PROVE  Spec => []TurnDiscipline
<1>1. HandInv /\ DriveInv /\ TurnInv => TurnDiscipline
  BY DEF DriveInv, TurnsInGame, TurnInv, OneTurn, TurnDiscipline
<1>2. HandInv /\ HandInv' /\ DriveInv /\ TurnInv /\ [Next]_vars => TurnInv'
  BY TurnInvNext
<1>3. QED
  BY <1>1, <1>2, TurnInvInit, HandInvariant, DriveInvariant, PTL DEF Spec

=============================================================================
