-------------------------------- MODULE Hand --------------------------------
(***************************************************************************)
(* The Game state machine of pkg/poker/game.go with the per-hand player    *)
(* machines of pkg/poker/player.go: dealing in, betting, the closing of    *)
(* streets, auto-advance, timebanks, showdown and the start of the next    *)
(* hand.                                                                   *)
(*                                                                         *)
(* One goroutine runs the machine: it takes one event at a time from       *)
(* `inbox` and handles it to the end under g.mu, so each handler is one    *)
(* action.  Around it run the RPC handlers of Table (which look at the     *)
(* game, then enqueue), the timers, and the goroutine that forwards        *)
(* timebank expiries; they interleave with it freely.                      *)
(*                                                                         *)
(* Cards are abstracted to a rank per player chosen at showdown; the board *)
(* is a function of the phase.                                             *)
(***************************************************************************)
EXTENDS Integers, Sequences, FiniteSets, Pots

CONSTANTS
    Player,      \* every player who may sit in the game
    Seats,       \* g.players at the first hand: a sequence of players
    Stacks,      \* the chips each player brings
    SmallBlind, BigBlind,
    Requests,    \* the kinds of request the clients use
    BetAmounts,  \* bound: the amounts a client may ask to bet
    MaxPending,  \* bound: requests one player has in the inbox at a time
    MaxRounds,   \* bound: hands played
    MaxExpiries, \* bound: timebank expiries under way (0: no timebank)
    AdvanceFirst \* whether AutoAdvanceDelay <= AutoStartDelay, as by default

ASSUME PlayersAssumption ==
    /\ IsFiniteSet(Player)
    /\ Seats \in Seq(Player)
    /\ Len(Seats) >= 2
    /\ \A i, j \in DOMAIN Seats : Seats[i] = Seats[j] => i = j
    /\ Stacks \in [Player -> Nat \ {0}]
ASSUME BlindsAssumption == SmallBlind \in Nat \ {0} /\ BigBlind \in Nat \ {0}
ASSUME RequestsAssumption ==
    /\ Requests \subseteq {"fold", "check", "call", "bet"}
    /\ BetAmounts \subseteq Nat
    /\ MaxExpiries \in Nat
    /\ AdvanceFirst \in BOOLEAN

VARIABLES
    g,          \* the fields of Game and of its Players, guarded by g.mu
    inbox,      \* the machine's event queue
    expiries,   \* playerEventChan: timebank expiries not yet forwarded
    autoStart,  \* the next hand: "off", "armed", "pruning" or "ready"
    blocked     \* the machine waits for a reply that nobody will send

vars == <<g, inbox, expiries, autoStart, blocked>>

Streets == {"PRE_FLOP", "FLOP", "TURN", "RIVER"}
NextStreet == [PRE_FLOP |-> "FLOP", FLOP |-> "TURN", TURN |-> "RIVER"]

Game == [
    players       : Seq(Player),
    phase         : Streets \cup {"NEW_HAND_DEALING", "SHOWDOWN"},
    round         : Nat,
    dealer        : Nat \cup {-1},
    currentPlayer : Nat \cup {-1},
    currentBet    : Nat,
    lastRaise     : Nat,
    lastAggressor : Nat \cup {-1},
    autoAdvance   : BOOLEAN,          \* autoAdvanceEnabled
    advanceTimer  : BOOLEAN,          \* autoAdvanceTimer is set
    balance       : [Player -> Nat],
    starting      : [Player -> Nat],  \* startingBalance
    contrib       : [Player -> Nat],  \* potManager.totalBets
    bet           : [Player -> Nat],  \* Player.currentBet
    status        : [Player -> {"AT_TABLE", "IN_GAME", "ALL_IN", "FOLDED"}],
    turn          : SUBSET Player,    \* the players with isTurn
    timer         : SUBSET Player ]   \* the players with a timebankTimer

(* `fresh` is a history field: whether the turn the timebank was armed for *)
(* is still running.  No handler reads it.                                 *)
TimebankEvent == [type : {"timebank"}, id : Player, fresh : BOOLEAN]
Event ==
    [type : {"startHand", "advance", "prune"}]
        \cup [type : {"gotoShowdown"}, round : Nat]
        \cup [type : {"fold", "check", "call"}, id : Player]
        \cup [type : {"bet"}, id : Player, amount : Nat]
        \cup TimebankEvent

(***************************************************************************)
(* Reading the game.                                                       *)
(***************************************************************************)
Seated(h) == Range(h.players)
NumPlayers(h) == Len(h.players)
At(h, i) == h.players[i + 1]

\* currentPlayerID() == p
IsCurrent(h, p) ==
    /\ h.currentPlayer \in 0 .. NumPlayers(h) - 1
    /\ At(h, h.currentPlayer) = p

Alive(h) == {p \in Seated(h) : h.status[p] # "FOLDED"}
AllIn(h) == {p \in Seated(h) : h.status[p] = "ALL_IN"}
Actionable(h) == {p \in Seated(h) : h.status[p] = "IN_GAME"}

\* The index of the first player of S at `start` or after it, or -1.
FirstFrom(h, start, S) ==
    LET n == NumPlayers(h)
        hits == {k \in 0 .. n - 1 : At(h, (start + k) % n) \in S}
    IN  IF hits = {} THEN -1 ELSE (start + Min(hits)) % n

SmallBlindSeat(h) ==
    IF NumPlayers(h) = 2 THEN h.dealer ELSE (h.dealer + 1) % NumPlayers(h)
BigBlindSeat(h) ==
    (h.dealer + (IF NumPlayers(h) = 2 THEN 1 ELSE 2)) % NumPlayers(h)

\* computeStreetStarterIndex, and computeFirstActorIndex, which agrees with it.
StreetStarter(h) ==
    LET heads == NumPlayers(h) = 2
        start == IF h.phase # "PRE_FLOP" THEN h.dealer + 1
                 ELSE IF heads THEN h.dealer ELSE h.dealer + 3
    IN  FirstFrom(h, start, Actionable(h))

NextActionableAfter(h, i) == FirstFrom(h, i + 1, Actionable(h) \ {At(h, i)})

\* The table bet, capped by the largest bet of the all-in players.
EffectiveBet(h) ==
    LET maxAllInBet == Max({0} \cup {h.bet[p] : p \in AllIn(h)})
    IN  IF 0 < maxAllInBet /\ maxAllInBet < h.currentBet
        THEN maxAllInBet ELSE h.currentBet

Unmatched(h) == {p \in Actionable(h) : h.bet[p] < EffectiveBet(h)}

\* Nobody is left to bet against: everyone is all-in or folded, or one
\* player faces only all-ins and has matched them.
ShouldSkipTurnTimer(h) ==
    \/ Actionable(h) = {}
    \/ /\ Cardinality(Actionable(h)) = 1
       /\ AllIn(h) # {}
       /\ Unmatched(h) = {}

\* Mutant: a street without a bet has no closer.
ReturnedToAggressor(h) == h.currentPlayer = h.lastAggressor

ActionReturnedToCloser(h) ==
    LET closer == h.lastAggressor
    IN  IF closer < 0
        THEN StreetStarter(h) >= 0 /\ h.currentPlayer = StreetStarter(h)
        ELSE \/ closer >= NumPlayers(h)
             \/ At(h, closer) \notin Actionable(h)
             \/ h.currentPlayer = closer
             \/ /\ h.currentPlayer = NextActionableAfter(h, closer)
                /\ h.bet[At(h, closer)] >= EffectiveBet(h)

(***************************************************************************)
(* The steps handlers are made of: each maps a game to a game.             *)
(***************************************************************************)
StartTurn(h, p) ==
    [h EXCEPT !.turn = IF h.status[p] = "IN_GAME" THEN @ \cup {p} ELSE @,
              !.timer = @ \cup {p}]

\* Mutant: the timebank goes on.
EndTurnOnly(h, p) == [h EXCEPT !.turn = @ \ {p}]

EndTurn(h, p) == [h EXCEPT !.turn = @ \ {p}, !.timer = @ \ {p}]

\* Mutant: an all-in is not recorded in the pot.
PayUnrecorded(h, p, amount) ==
    [h EXCEPT !.balance[p] = @ - amount,
              !.bet[p] = @ + amount,
              !.contrib[p] = IF h.balance[p] = amount THEN @ ELSE @ + amount,
              !.status[p] = IF h.balance[p] = amount THEN "ALL_IN" ELSE @]

\* The chips leave the stack, through evBet, evCallDelta or evDeductBlind,
\* and enter the pot, through addBet.  An emptied stack is all-in.
Pay(h, p, amount) ==
    [h EXCEPT !.balance[p] = @ - amount,
              !.bet[p] = @ + amount,
              !.contrib[p] = @ + amount,
              !.status[p] = IF h.balance[p] = amount THEN "ALL_IN" ELSE @]

\* Mutant: folded players are not skipped.
AdvanceToNextSeat(h) ==
    LET next == FirstFrom(h, h.currentPlayer + 1, Seated(h) \ AllIn(h))
    IN  IF next = -1 THEN h
        ELSE StartTurn([h EXCEPT !.currentPlayer = next], At(h, next))

AdvanceToNextPlayer(h) ==
    LET next == FirstFrom(h, h.currentPlayer + 1, Actionable(h))
        moved == [h EXCEPT !.currentPlayer = next]
    IN  IF next = -1 THEN h
        ELSE IF ShouldSkipTurnTimer(moved) THEN moved
        ELSE StartTurn(moved, At(moved, next))

\* maybeCompleteBettingRound: what it decides ...
RoundOutcome(h) ==
    IF Cardinality(Alive(h)) <= 1 THEN "uncontested"
    ELSE IF ShouldSkipTurnTimer(h) THEN "autoAdvance"
    ELSE IF Unmatched(h) = {} /\ ActionReturnedToCloser(h) THEN "closed"
    ELSE "open"

\* ... what it does to the game ...
MaybeCompleteBettingRound(h) ==
    CASE RoundOutcome(h) = "autoAdvance" ->
            [h EXCEPT !.autoAdvance = TRUE, !.advanceTimer = TRUE]
      [] RoundOutcome(h) = "closed" ->
            [h EXCEPT !.turn = {}, !.timer = {}, !.lastAggressor = -1,
                      !.bet = [p \in Player |-> 0]]
      [] OTHER -> h

\* Mutant: the street closes without an event.
RoundEventsDropped(h) ==
    IF RoundOutcome(h) = "uncontested"
    THEN <<[type |-> "gotoShowdown", round |-> h.round]>> ELSE <<>>

\* ... and the events it sends to its own machine.
RoundEvents(h) ==
    CASE RoundOutcome(h) = "uncontested" ->
            <<[type |-> "gotoShowdown", round |-> h.round]>>
      [] RoundOutcome(h) = "closed" -> <<[type |-> "advance"]>>
      [] OTHER -> <<>>

ResetBettingRound(h) ==
    [h EXCEPT !.currentBet = 0, !.lastAggressor = -1, !.lastRaise = BigBlind]

(***************************************************************************)
(* Handling one event.  Ending a turn cancels its timebank: expiries of    *)
(* that turn still under way are no longer fresh.                          *)
(***************************************************************************)
Retire(queue, ended) ==
    [i \in DOMAIN queue |->
        IF queue[i].type = "timebank" /\ queue[i].id \in ended
        THEN [queue[i] EXCEPT !.fresh = FALSE] ELSE queue[i]]

Receive(type) == ~blocked /\ inbox # <<>> /\ Head(inbox).type = type

Handled(h, ended, sent) ==
    /\ g' = h
    /\ inbox' = Retire(Tail(inbox), ended) \o sent
    /\ expiries' = Retire(expiries, ended)
    /\ UNCHANGED blocked

\* The handler returns an error, or ignores the event.
Reject == Handled(g, {}, <<>>)

\* The handler sends to a player machine whose state has no case for the
\* event and waits for the reply, holding g.mu.
Block == blocked' = TRUE /\ UNCHANGED <<g, inbox, expiries>>

\* The end of every accepted action of p.
Proceed(h, p) ==
    LET moved == AdvanceToNextPlayer(EndTurn(h, p))
        ended == IF RoundOutcome(moved) = "closed" THEN Player ELSE {p}
    IN  Handled(MaybeCompleteBettingRound(moved), ended, RoundEvents(moved))

CanAct(p) == g.phase \in Streets /\ IsCurrent(g, p)

PlayerFold(p) ==
    LET folded == [g EXCEPT !.status[p] = "FOLDED"]
        showdown == [type |-> "gotoShowdown", round |-> g.round]
    IN  \/ /\ ~CanAct(p) \/ g.status[p] = "ALL_IN"
           /\ Reject
        \/ /\ CanAct(p) /\ g.status[p] = "FOLDED"
           /\ Block
        \/ /\ CanAct(p) /\ g.status[p] = "IN_GAME"
           /\ IF Cardinality(Alive(folded)) = 1
              THEN Handled(EndTurn(folded, p), {p}, <<showdown>>)
              ELSE Proceed(folded, p)

PlayerCheck(p) ==
    \/ /\ ~CanAct(p) \/ g.bet[p] < g.currentBet
       /\ Reject
    \/ /\ CanAct(p) /\ g.bet[p] >= g.currentBet
       /\ Proceed(g, p)

\* The bet to call: the table bet, or the largest bet when there is none.
TableBet == IF g.currentBet # 0 THEN g.currentBet
            ELSE Max({g.bet[p] : p \in Seated(g)})

PlayerCall(p) ==
    LET delta == Lesser(TableBet - g.bet[p], g.balance[p])
    IN  \/ /\ ~CanAct(p) \/ TableBet <= g.bet[p]
              \/ (delta > 0 /\ g.status[p] # "IN_GAME")
           /\ Reject
        \/ /\ CanAct(p) /\ TableBet > g.bet[p] /\ g.balance[p] = 0
           /\ Proceed(g, p)
        \/ /\ CanAct(p) /\ TableBet > g.bet[p] /\ g.balance[p] > 0
           /\ g.status[p] = "IN_GAME"
           /\ Proceed(Pay(g, p, delta), p)

\* A bet of `total` by p that puts in delta chips, after validation.
BetAccepted(p, total, delta) ==
    LET allIn == delta > 0 /\ delta = g.balance[p]
    IN  /\ total >= TableBet \/ allIn
        /\ TableBet = 0 => total >= g.lastRaise \/ allIn
        /\ TableBet > 0 /\ total > TableBet =>
               total - TableBet >= g.lastRaise \/ allIn

\* What a bet above the table bet does to the round.  An all-in below the
\* minimum raise does not make its player the closer.
RaiseTable(h, total, allIn) ==
    LET opening == h.currentBet = 0
        raise == total - h.currentBet
        full == ~opening /\ raise >= h.lastRaise
    IN  IF total <= h.currentBet THEN h
        ELSE [h EXCEPT
                !.currentBet = total,
                !.lastAggressor = IF opening \/ full THEN h.currentPlayer ELSE @,
                !.lastRaise = IF opening /\ ~allIn THEN total
                              ELSE IF full THEN raise ELSE @]

PlayerBet(p, amount) ==
    LET delta == Lesser(amount - g.bet[p], g.balance[p])
        total == g.bet[p] + delta
        valid == CanAct(p) /\ amount >= g.bet[p] /\ BetAccepted(p, total, delta)
    IN  \/ /\ ~valid \/ (delta > 0 /\ g.status[p] # "FOLDED" /\ p \notin g.turn)
           /\ Reject
        \/ /\ valid /\ delta > 0 /\ g.status[p] = "FOLDED"
           /\ Block
        \/ /\ valid /\ delta = 0
           /\ Proceed(g, p)
        \/ /\ valid /\ delta > 0 /\ g.status[p] # "FOLDED" /\ p \in g.turn
           /\ Proceed(RaiseTable(Pay(g, p, delta), total, delta = g.balance[p]), p)

HandleFoldReq ==
    Receive("fold") /\ PlayerFold(Head(inbox).id) /\ UNCHANGED autoStart
HandleCheckReq ==
    Receive("check") /\ PlayerCheck(Head(inbox).id) /\ UNCHANGED autoStart
HandleCallReq ==
    Receive("call") /\ PlayerCall(Head(inbox).id) /\ UNCHANGED autoStart
HandleBetReq ==
    /\ Receive("bet")
    /\ PlayerBet(Head(inbox).id, Head(inbox).amount)
    /\ UNCHANGED autoStart

\* evTimebankExpiredReq: check when there is nothing to call, fold otherwise.
HandleTimebankExpired ==
    /\ Receive("timebank")
    /\ UNCHANGED autoStart
    /\ LET p == Head(inbox).id
       IN  \/ ~CanAct(p) /\ Reject
           \/ CanAct(p) /\ g.currentBet <= g.bet[p] /\ PlayerCheck(p)
           \/ CanAct(p) /\ g.currentBet > g.bet[p] /\ PlayerFold(p)

(***************************************************************************)
(* Streets and showdown.                                                   *)
(***************************************************************************)
EnterStreet(h, street) ==
    LET reset == [ResetBettingRound(h) EXCEPT !.phase = street]
        running == h.autoAdvance /\ Cardinality(Actionable(h)) <= 1
        actor == IF running THEN -1 ELSE StreetStarter(reset)
        seated == [reset EXCEPT
                      !.currentPlayer = actor,
                      !.advanceTimer = @ \/ running,
                      !.autoAdvance = @ /\ ~(running /\ street = "RIVER")]
    IN  IF actor = -1 THEN seated ELSE StartTurn(seated, At(seated, actor))

\* Player.AddToBalance, skipped by its callers when there is nothing to pay.
Credit(balance, amount) ==
    IF amount \in Nat \ {0} THEN balance + amount ELSE balance

Forced(h) ==
    [p \in Seated(h) |-> CASE p = At(h, SmallBlindSeat(h)) -> SmallBlind
                           [] p = At(h, BigBlindSeat(h)) -> BigBlind
                           [] OTHER -> 0]

\* handleShowdown: refund the uncalled bet, rebuild the pots, pay them out,
\* then EndHandParticipation of every player.
Settle(h, rank) ==
    LET contrib == [p \in Seated(h) |-> h.contrib[p]]
        refund == UncalledBet(contrib, Forced(h))
        kept == [contrib EXCEPT ![refund.to] = @ - refund.amount]
        refunded == [h.balance EXCEPT ![refund.to] = Credit(@, refund.amount)]
        payouts == DistributePots(RebuildPots(kept, Alive(h)), h.players, rank)
    IN  [h EXCEPT
            !.phase = "SHOWDOWN",
            !.currentPlayer = -1,
            !.turn = {},
            !.timer = {},
            !.balance = [p \in Player |->
                IF p \in Seated(h) THEN Credit(refunded[p], payouts[p])
                ELSE refunded[p]],
            !.contrib = [p \in Player |-> IF p \in Seated(h) THEN kept[p] ELSE @[p]],
            !.bet = [p \in Player |-> 0],
            !.status = [p \in Player |-> "AT_TABLE"]]

WithChips(h) == {p \in Seated(h) : h.balance[p] > 0}

EnterShowdown ==
    \E rank \in [Seated(g) -> 1 .. NumPlayers(g)] :
        LET settled == Settle(g, rank)
        IN  /\ Handled(settled, Player, <<>>)
            /\ autoStart' = IF Cardinality(WithChips(settled)) <= 1
                            THEN autoStart ELSE "armed"

HandleAdvance ==
    /\ Receive("advance")
    /\ \/ /\ g.phase \in DOMAIN NextStreet
          /\ Handled(EnterStreet(g, NextStreet[g.phase]), {}, <<>>)
          /\ UNCHANGED autoStart
       \/ /\ g.phase = "RIVER"
          /\ EnterShowdown
       \/ /\ g.phase \notin Streets
          /\ Reject
          /\ UNCHANGED autoStart

\* Mutant: a showdown request is served whatever the phase and round.
HandleAnyShowdown == Receive("gotoShowdown") /\ EnterShowdown

HandleGotoShowdown ==
    /\ Receive("gotoShowdown")
    /\ \/ /\ Head(inbox).round = g.round /\ g.phase \in Streets
          /\ EnterShowdown
       \/ /\ Head(inbox).round # g.round \/ g.phase \notin Streets
          /\ Reject
          /\ UNCHANGED autoStart

(***************************************************************************)
(* The start of a hand: statePreDeal, stateDeal, stateBlinds and the entry *)
(* of statePreFlop, which run without taking an event.                     *)
(***************************************************************************)
\* Mutant: the pot of the last hand is kept.
ResetKeepingPot(h) ==
    LET deal(f, x) == [p \in Player |-> IF p \in Seated(h) THEN x[p] ELSE f[p]]
    IN  [ResetBettingRound(h) EXCEPT
            !.round = @ + 1,
            !.phase = "PRE_FLOP",
            !.dealer = (@ + 1) % NumPlayers(h),
            !.autoAdvance = FALSE,
            !.advanceTimer = FALSE,
            !.starting = deal(@, h.balance),
            !.bet = [p \in Player |-> 0],
            !.status = deal(@, [p \in Player |-> "IN_GAME"]),
            !.turn = {}]

ResetHand(h) ==
    LET dealer == IF h.dealer < 0 THEN 0 ELSE (h.dealer + 1) % NumPlayers(h)
        deal(f, x) == [p \in Player |-> IF p \in Seated(h) THEN x[p] ELSE f[p]]
    IN  [ResetBettingRound(h) EXCEPT
            !.round = @ + 1,
            !.phase = "PRE_FLOP",
            !.dealer = dealer,
            !.autoAdvance = FALSE,
            !.advanceTimer = FALSE,
            !.starting = deal(@, h.balance),
            !.contrib = [p \in Player |-> 0],
            !.bet = [p \in Player |-> 0],
            !.status = deal(@, [p \in Player |-> "IN_GAME"]),
            !.turn = {}]

\* Mutant: a short stack posts the whole blind.
PostWholeBlind(h, p, blind) ==
    [Pay(h, p, blind) EXCEPT !.currentBet = Greater(@, blind)]

PostBlind(h, p, blind) ==
    LET amount == Lesser(blind, h.balance[p])
    IN  IF amount = 0 THEN h
        ELSE [Pay(h, p, amount) EXCEPT !.currentBet = Greater(@, amount)]

PostBlinds(h) ==
    PostBlind(PostBlind(h, At(h, SmallBlindSeat(h)), SmallBlind),
              At(h, BigBlindSeat(h)), BigBlind)

\* stateBlinds: who acts first, and whether a turn starts at all.
FirstToAct(h) ==
    LET seat == IF NumPlayers(h) = 2 THEN SmallBlindSeat(h)
                ELSE (BigBlindSeat(h) + 1) % NumPlayers(h)
        placed == [h EXCEPT !.currentPlayer = seat]
    IN  IF h.status[At(h, seat)] = "ALL_IN" THEN AdvanceToNextPlayer(placed)
        ELSE IF ShouldSkipTurnTimer(placed) THEN placed
        ELSE StartTurn(placed, At(h, seat))

HandleStartHand ==
    /\ Receive("startHand")
    /\ \/ /\ g.phase \in {"NEW_HAND_DEALING", "SHOWDOWN"}
          /\ LET h == FirstToAct(PostBlinds(ResetHand(g)))
                 ended == IF RoundOutcome(h) = "closed" THEN Player ELSE {}
             IN  Handled(MaybeCompleteBettingRound(h), ended, RoundEvents(h))
          /\ autoStart' = "off"
       \/ /\ g.phase \in Streets
          /\ Reject
          /\ UNCHANGED autoStart

\* The seats of the players who still have chips, in their order.
Nth(S, k) == CHOOSE i \in S : Cardinality({j \in S : j <= i}) = k
Staying(h) ==
    LET seats == {i \in DOMAIN h.players : h.balance[h.players[i]] > 0}
    IN  [k \in 1 .. Cardinality(seats) |-> h.players[Nth(seats, k)]]

\* evPrunePlayersReq: eliminated players leave g.players; the dealer index
\* is not adjusted.  During a hand it fails, and Table starts no hand.
HandlePrune ==
    /\ Receive("prune")
    /\ \/ /\ g.phase \notin Streets
          /\ Handled([g EXCEPT !.players = Staying(g)], {}, <<>>)
          /\ autoStart' = "ready"
       \/ /\ g.phase \in Streets
          /\ Reject
          /\ autoStart' = "off"

(***************************************************************************)
(* What runs around the machine.                                           *)
(***************************************************************************)
Enqueue(event) == inbox' = Append(inbox, event)

Pending(p) == {i \in DOMAIN inbox :
                  inbox[i].type \in Requests /\ inbox[i].id = p}

\* Table.HandleFold, HandleCheck, HandleCall and MakeBet look at the phase
\* and the current player, then enqueue; only MakeBet looks at the status.
ClientRequest(p) ==
    /\ ~blocked
    /\ CanAct(p)
    /\ Cardinality(Pending(p)) < MaxPending
    /\ \/ \E type \in Requests \ {"bet"} : Enqueue([type |-> type, id |-> p])
       \/ /\ "bet" \in Requests
          /\ g.status[p] = "IN_GAME"
          /\ \E amount \in BetAmounts :
                 Enqueue([type |-> "bet", id |-> p, amount |-> amount])
    /\ UNCHANGED <<g, expiries, autoStart, blocked>>

Expiring == {i \in DOMAIN inbox : inbox[i].type = "timebank"}

\* The timebank timer of p fires before EndTurn cancels it.
TimebankFires(p) ==
    /\ ~blocked
    /\ p \in g.timer
    /\ Len(expiries) + Cardinality(Expiring) < MaxExpiries
    /\ g' = [g EXCEPT !.timer = @ \ {p}]
    /\ expiries' = Append(expiries,
                          [type |-> "timebank", id |-> p, fresh |-> TRUE])
    /\ UNCHANGED <<inbox, autoStart, blocked>>

\* The goroutine NewGame starts moves the expiry to the machine's inbox.
ForwardExpiry ==
    /\ ~blocked
    /\ expiries # <<>>
    /\ Enqueue(Head(expiries))
    /\ expiries' = Tail(expiries)
    /\ UNCHANGED <<g, autoStart, blocked>>

AdvanceTimerFires ==
    /\ ~blocked
    /\ g.advanceTimer
    /\ g' = [g EXCEPT !.advanceTimer = FALSE]
    /\ Enqueue([type |-> "advance"])
    /\ UNCHANGED <<expiries, autoStart, blocked>>

\* Mutant: the next hand is asked for before the eliminated players are pruned.
StartBeforePrune ==
    /\ ~blocked
    /\ autoStart = "armed"
    /\ inbox' = inbox \o <<[type |-> "startHand"], [type |-> "prune"]>>
    /\ autoStart' = "off"
    /\ UNCHANGED <<g, expiries, blocked>>

\* The auto-start timer, then Table.handleAutoStart: prune, wait for the
\* reply, start the hand.
AutoStartFires ==
    /\ ~blocked
    /\ autoStart = "armed"
    /\ AdvanceFirst => ~g.advanceTimer  \* armed earlier, for no longer
    /\ \/ /\ WithChips(g) # Seated(g)
          /\ Enqueue([type |-> "prune"])
          /\ autoStart' = "pruning"
       \/ /\ WithChips(g) = Seated(g)
          /\ autoStart' = "ready"
          /\ UNCHANGED inbox
    /\ UNCHANGED <<g, expiries, blocked>>

\* handleAutoStart counts the players with chips, then startNewHand.
StartNewHand ==
    /\ ~blocked
    /\ autoStart = "ready"
    /\ Cardinality(WithChips(g)) >= 2
    /\ g.round < MaxRounds
    /\ Enqueue([type |-> "startHand"])
    /\ autoStart' = "off"
    /\ UNCHANGED <<g, expiries, blocked>>

Init ==
    /\ g = [players |-> Seats, phase |-> "NEW_HAND_DEALING", round |-> 0,
            dealer |-> -1, currentPlayer |-> 0, currentBet |-> 0,
            lastRaise |-> BigBlind, lastAggressor |-> -1,
            autoAdvance |-> FALSE, advanceTimer |-> FALSE,
            balance |-> Stacks, starting |-> Stacks,
            contrib |-> [p \in Player |-> 0], bet |-> [p \in Player |-> 0],
            status |-> [p \in Player |-> "AT_TABLE"],
            turn |-> {}, timer |-> {}]
    /\ inbox = <<[type |-> "startHand"]>>
    /\ expiries = <<>>
    /\ autoStart = "off"
    /\ blocked = FALSE

Machine ==
    \/ HandleFoldReq \/ HandleCheckReq \/ HandleCallReq \/ HandleBetReq
    \/ HandleTimebankExpired \/ HandleAdvance \/ HandleGotoShowdown
    \/ HandleStartHand \/ HandlePrune

Timers ==
    \/ \E p \in Player : TimebankFires(p)
    \/ ForwardExpiry \/ AdvanceTimerFires \/ AutoStartFires \/ StartNewHand

\* The end of the bounded game: the machine waits for events that no longer
\* come (game over, or MaxRounds played).
Over ==
    /\ ~blocked
    /\ inbox = <<>> /\ expiries = <<>>
    /\ g.phase = "SHOWDOWN" /\ ~g.advanceTimer
    /\ autoStart = "off" \/ (autoStart = "ready" /\ g.round = MaxRounds)
    /\ UNCHANGED vars

Next == Machine \/ Timers \/ (\E p \in Player : ClientRequest(p)) \/ Over

Spec == Init /\ [][Next]_vars

\* WF_vars(Machine): the machine can handle an event whenever it has one and
\* is not blocked, and every handler changes inbox or blocked.
MachineRuns == []<>(inbox = <<>> \/ blocked) \/ []<><<Machine>>_vars

\* The machine's goroutine and the timers run; clients need not.
Fairness ==
    /\ MachineRuns
    /\ \A p \in Player : WF_vars(TimebankFires(p))
    /\ WF_vars(ForwardExpiry) /\ WF_vars(AdvanceTimerFires)
    /\ WF_vars(AutoStartFires) /\ WF_vars(StartNewHand)

FairSpec == Spec /\ Fairness

TypeOK ==
    /\ g \in Game
    /\ inbox \in Seq(Event)
    /\ expiries \in Seq(TimebankEvent)
    /\ autoStart \in {"off", "armed", "pruning", "ready"}
    /\ blocked \in BOOLEAN

(***************************************************************************)
(* Safety.                                                                 *)
(***************************************************************************)
\* While a hand is played every player's chips are in its stack or in its
\* contribution to the pot: blinds, capped calls and all-ins lose nothing
\* between the player machines (balance) and the pot manager (totalBets).
LedgerBalances ==
    g.phase \in Streets =>
        \A p \in Seated(g) : g.balance[p] + g.contrib[p] = g.starting[p]

\* No chip is ever created or lost, across streets, refunds, side pots,
\* settlement and the next hands: stacks and pot add up to the buy-ins.
InPot == IF g.phase \in Streets THEN SumFunction(g.contrib) ELSE 0
ChipsConserved == SumFunction(g.balance) + InPot = SumFunction(Stacks)

\* No chip is ever created, with any number of players.
NoChipsCreated == SumFunction(g.balance) + InPot <= SumFunction(Stacks)

\* At most one player has the turn or a running timebank: the current player
\* of a betting street.  A turn flag or timer left behind by a fold, an
\* all-in or a street change would let another player act or time out.
TurnDiscipline ==
    /\ \A p \in g.turn \cup g.timer : CanAct(p)
    /\ \A p \in g.turn : g.status[p] = "IN_GAME"

\* A hand in progress is never left with nobody to move it: a player has
\* the turn and the timebank of that turn running (or its expiry under way;
\* one left over from an earlier turn does not count), or the auto-advance
\* timer runs, or the event that leaves the street is queued.
HandIsDriven ==
    g.phase \in Streets /\ ~blocked =>
        \/ g.timer # {}
        \/ \E p \in g.turn : \E i \in DOMAIN (expiries \o inbox) :
               LET event == (expiries \o inbox)[i]
               IN  event.type = "timebank" /\ event.id = p /\ event.fresh
        \/ g.advanceTimer
        \/ \E i \in DOMAIN inbox : inbox[i].type \in {"advance", "gotoShowdown"}

\* The machine can only get stuck after the last decision of a hand: when
\* one player is left, or everyone left is all-in, and the current player
\* is one who already folded.
BlockedOnlyAfterLastDecision ==
    blocked =>
        /\ Cardinality(Alive(g)) = 1 \/ Actionable(g) = {}
        /\ \E p \in Player : IsCurrent(g, p) /\ g.status[p] = "FOLDED"

\* In a contested showdown a player takes from every other no more than it
\* has put in itself (side pots), and a folded player gets back at most what
\* it put in.
SettlesHand == g.phase \in Streets /\ g'.phase = "SHOWDOWN"
Gain(p) == g'.balance[p] - g.balance[p]
MatchedBy(p) ==
    SumFunction([q \in Seated(g) |-> Lesser(g.contrib[q], g.contrib[p])])
SidePotsCapWinnings ==
    [][SettlesHand /\ Cardinality(Alive(g)) > 1 =>
          \A p \in Seated(g) :
              Gain(p) <= IF p \in Alive(g) THEN MatchedBy(p) ELSE g.contrib[p]
      ]_vars

\* The next hand is asked for once, and only between hands: a prune request
\* is in the inbox only while Table waits for its reply, a start request only
\* when nothing else is pending for the next hand and two players are left.
\* Two starts, or a start overtaking the pruning, would reset a hand that is
\* being played or deal in an eliminated player.
NextHandEvents == {i \in DOMAIN inbox : inbox[i].type \in {"startHand", "prune"}}
NextHandOrdered ==
    /\ \A i, j \in NextHandEvents : i = j
    /\ \A i \in NextHandEvents :
           IF inbox[i].type = "prune" THEN autoStart = "pruning"
           ELSE autoStart = "off" /\ g.phase \notin Streets /\ NumPlayers(g) >= 2
    /\ autoStart # "off" => g.phase \notin Streets
    /\ g.phase \in Streets => NumPlayers(g) >= 2

\* A hand is dealt to players with chips only: whoever went broke in the last
\* one has left its seat when the next one is dealt.  Nothing in statePreDeal
\* checks this; it rests on the showdown, the pruning and the start request
\* following one another without another step changing the stacks.
Funded(h) == \A p \in Seated(h) : h.balance[p] > 0
OnlyFundedDealtIn == [][g'.round # g.round => Funded(g)]_vars

\* What makes it so: from the pruning to the deal every seated player has chips.
FundedForNextHand ==
    /\ autoStart = "ready" => Funded(g)
    /\ \A i \in NextHandEvents : inbox[i].type = "startHand" => Funded(g)

(***************************************************************************)
(* What comments of the code say, and the code does not do.                *)
(***************************************************************************)
\* "advance street only when the acting turn finished AND all actionable
\* players are matched": when an action closes the street, every player who
\* could still act has put in the table bet.
ClosesStreet == Len(inbox') = Len(inbox) /\ inbox' # inbox
                  /\ inbox'[Len(inbox')].type = "advance"
                  /\ inbox[Len(inbox)].type # "advance"
StreetBet(p) == g.bet[p] + g'.contrib[p] - g.contrib[p]
ActionClosesMatchedStreet ==
    [][ClosesStreet /\ g.phase \in Streets =>
          \A p \in Actionable(g') : StreetBet(p) >= g'.currentBet
      ]_vars

(***************************************************************************)
(* Liveness and refinement.                                                *)
(***************************************************************************)
\* Every hand reaches its showdown, whether or not the players answer:
\* timebanks act for them and auto-advance runs out the board (unless a
\* second action of a folded player has blocked the machine).
HandCompletes == g.phase = "PRE_FLOP" ~> g.phase = "SHOWDOWN" \/ blocked

\* The hand implements the chip ledger.
Ledger == INSTANCE ChipLedger
              WITH stack <- g.balance, pot <- InPot, open <- g.phase \in Streets
ImplementsLedger == Ledger!Spec
=============================================================================
