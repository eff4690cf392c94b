# Verification of the poker server

TLA+ modules of the Go server in this repository (`pkg/poker`, `pkg/server`,
`pkg/chainwatcher`, `pkg/statemachine`), TLC runs that check them on small
instances, and TLAPS proofs about them for every value of the constants.
`PROJECT.json` lists components, runs, mutants, theorems, findings, hazards and,
for every definition, the source lines it models.

## 1. Inventory

| component | state | operations | interacts with | hard part | what makes it correct |
|---|---|---|---|---|---|
| Pot manager (`poker/pot.go`) | bets of the hand, pots | addBet, rebuild, distribute, return uncalled | game | remainders, side pots, refund of a bet nobody called | the pot is paid exactly once, a short stack wins no more than it matched |
| Game machine (`poker/game.go`) | seats, phase, current player, bets, aggressor, timers | one handler per event | table, player machines, pot manager, timers | sends to itself, timers, stale events, synchronous calls to players | chips conserved, one player's turn, a hand always moves on |
| Player machines (`poker/player.go`) | presence; per-hand: active, all-in, folded; timebank | bet, call, fold, start and end turn | game | a reply that never comes, a timebank that fires late | acts only in turn, stack and pot agree |
| Generic machine (`statemachine`) | inbox, closed flag | Start, Send, TrySend, Stop | every machine | full inbox, send against stop | every event handled once, in order |
| Blind manager (`poker/blind_manager.go`) | level, start of the blinds, state, timer | start, timer, apply, info, snapshot, restore | game, table, checkpoints | its timer against the hand boundary, a snapshot guessed from what the game has cached | blinds never run ahead or go down, an increase is announced and applied |
| Table machine and users (`poker/table.go`, `user.go`) | users, seats, readiness, game, pending eliminations | join, leave, ready, start game, events of the game | game, lobby, referee | checks before and changes after an unlock, dropped events | a game starts with ready players, ends once, is settled |
| Referee (`server/referee.go`) | escrows, bindings, presignatures, pending settlements | open, bind, presign stream, finalize, reset | table, chain watcher, lobby | stream ends early, funding updates after a reset | one escrow per seat, no settlement without every signature on the current escrows |
| Chain watcher (`chainwatcher`) | subscribers, known outputs | subscribe, transaction seen, block seen | referee | goroutines that overlap, dropped updates, an error of the node taken for a spend | a deposit is noticed, and so is its spending |
| Event pipeline (`server/events.go`, `handlers.go`) | queue, three workers | publish, process, stop | table, streams, database | reordering, full queue, stop | a save of an earlier hand never replaces that of a later one; an ended match is removed |
| Drain, checkpoints, restart (`shutdown_coordinator.go`, `checkpoints.go`, `server.go`, `db.go`) | drain state, tables to wait for | begin drain, observe, checkpoint, restore | table, events, database | observation against drain start, restart between hands | drain ends; a match resumes with its chips |
| Game streams (`poker.go`, `notifications.go`, `watchers.go`) | a bucket of streams per table with a count, disconnected flag of a user | open, register, seed, broadcast, unregister | table, events, users | maps and a counter without a common lock, streams that replace each other | every stream gets every change until it ends; the flag follows the streams |
| Lobby (`lobby.go`, `default_tables.go`) | tables, lobby streams, removals | create, join, leave, ready | table, referee | removal against start | a match is left before it begins or played to its end |
| Authentication, database, configuration, client library, user interfaces | | | | | not modelled (section 8) |

## 2. Modules

| module | what it is |
|---|---|
| `Pots` | the pot manager as operators: contributions and fold flags to pots, pots to payouts, the refund of an uncalled bet |
| `Hand` | the game machine with the per-hand player machines, the timers and Table's request handlers and next-hand sequence around it |
| `ChipLedger` | the abstract specification of chips at a table: blinds open a hand, chips move from one stack at a time to the pot, one settlement returns the whole pot |
| `Referee` | one buy-in match from its seats to its settlement: the lobby and referee handlers that prepare it, and the settlement itself |
| `Funding` | one escrow: the deposits on the chain, the chain watcher, the subscription and its funding machine, the calls that bind the escrow and the settlement that spends it |
| `Match` | one table without buy-in from its first hand to its removal, across drains, crashes and loads: table machine, game events, event pipeline, checkpoints, shutdown coordinator |
| `Blinds` | rising blinds: the blind manager, what the game asks it and caches, what is saved of it and restored |
| `Streams` | the game streams of one table: the handlers of `StartGameStream`, their bucket, the updates under way and the users' disconnected flag |
| `MCHand`, `MCReferee`, `MCFunding`, `MCMatch`, `MCBlinds`, `MCStreams` | seats, stacks, escrows and deposits of the instances |
| `PotsProofs`, `HandProofs`, `TurnProofs`, `BlindsProofs`, `FundingProofs`, `RefereeProofs`, `MatchProofs`, `StreamsProofs` | lemmas and theorems; `TurnProofs` is about `Hand` too |

`Hand` EXTENDS `Pots` and INSTANCEs `ChipLedger` under a refinement mapping.
The other modules cut the system at the places where one part needs only the
result of another: `Match` takes a hand as one step that redistributes chips
and `Referee` a game as one step from its start to its winner, what happens in
between being `Hand`; `Referee` takes an escrow as funded, which `Funding`
explains; `Blinds` takes a hand as the moments at which it asks for its blinds;
`Streams` takes a table as a number of changes and leaves full queues to `Match`.
Each fairness assumption that stands for another module names the property of
that module it rests on.

### Hand

`g` is a record with the fields of `Game` and of its players that the handlers
read; names are those of the code (`balance`, `starting` is `startingBalance`,
`contrib` is `potManager.totalBets`, `bet` is `Player.currentBet`, `turn` and
`timer` are the players with `isTurn` and with an armed timebank).  Everything
under `g.mu` is in it.  `inbox` is the inbox of the machine, `expiries` the
channel `playerEventChan`, `autoStart` the progress of the next-hand sequence
(`off`, timer `armed`, `pruning` while Table waits for the reply, `ready`), and
`blocked` says that the machine waits for a reply that never comes.

A handler takes one event and runs to its end holding `g.mu`, so it is one
action: the validation, the chips, the fold, the advance to the next player,
the closing of the street and the events sent to the machine itself are one
step (`Proceed`).  Handlers are built from functions from a game to a game
(`StartTurn`, `Pay`, `AdvanceToNextPlayer`, `MaybeCompleteBettingRound`, ...),
each named for the method it stands for.  `statePreDeal`, `stateDeal`,
`stateBlinds` and the entry of `statePreFlop` run without reading an event, so
they are one action with the `evStartHand` that triggers them.  Calls to a
player machine are synchronous and are part of the handler; one whose state has
no case for the event never replies, which is `Block`.

Interleaved with the machine are: the RPC handlers of Table, which look at the
phase and the current player, then enqueue (`ClientRequest`); the timebank of
every player with a turn, whose expiry travels through `expiries` to `inbox`
(`TimebankFires`, `ForwardExpiry`); the auto-advance timer; and the auto-start
timer with Table's pruning and start request.

Cards are abstracted to a rank per player chosen at showdown (all rankings, ties
included); cards shown or hidden, deck and board are left out.

### Referee

The state is that of one match: `users` (the table's users with their flags),
`session` (a `refereeEscrowSession` per escrow), `referee` (the maps under
`s.referee.mu`: `match` is `matchEscrows`, `frozen` is `settlementEscrows`,
`presigns`, `gamma`, `complete`, `pending`), and the handlers in progress:
`streams` (the `SettlementStream` handlers, any of which may serve any escrow,
several of them the same one), `calls` (`BindEscrow` or
`LeaveTable` of each player), `starts` (goroutines about to call `StartGame`)
and `settlement` (`handleGameEnded` and `trySettlementBroadcast`).

A handler here is not atomic: it reads the table under one lock, the escrow
under another and the referee's maps under a third.  It is one action per
stretch between the points where what it has read may go stale.
`SettlementStream` is `StreamHello` (checks and binding), `StreamSnapshot` and
`StreamPrepare` (the two halves of `rebuildMatchEscrowsFromTable`, then freezing
and the drafts), `PresigMap` and `PresigStore` (the two critical sections of
`storePresigs`), `StreamEOF`, `StreamDone` or `StreamBroken`.  `LeaveTable` is
`LeaveTable` (its checks), `LeaveClear`, `LeaveRemove`, `LeaveReset`.
`BindEscrow` is `BindEscrow` or `BindRefused`, and `BindWrite`.
`SetPlayerReady` and `SetPlayerUnready` are one action each: what they find is
checked again by `StartGame`.

Data abstracted: escrows are numbers whose order is the order of their outputs,
which is what branches are counted in; a draft is the set of escrows it spends;
a signature is the draft it is over; every escrow holds the buy-in.  The seats
are given in another order than the outputs (`MCSeating`), so that seat and
branch differ.  The signatures for all branches are stored in one step; the
client closes its stream after the last acknowledgement, as
`pkg/client/referee.go` does.

### Funding

`chain` is what the node knows of each possible deposit, `known` is
`ChainWatcher.known` of the script, `subs` are the channels handed out by
`Subscribe`, with the updates in them and whether `trackEscrowFunding` has
started a machine for them, `escrow` is the session, `call` the `OpenEscrow` or
`BindEscrow` in progress, `settle` how far the settlement has come.

Every notification of the node has a goroutine of its own (`tasks`).
`ProcessTxAcceptedHash` is `TxFetch` and `TxRecord`, `ProcessBlockConnected` is
`BlockList`, one `ScanOutput` per output, and `Report`, which is
`broadcastUpdate` into bounded channels; `TxFetchFails` and `ScanFails` are a
node that does not answer.  One turn of `runStateLoop` is two steps: `Evaluate`,
which looks at the amount without the session's lock, and `ApplyDecision`, which
is `updateFundingState`.  `BindEscrow` is `BindFound` or `BindRestored`,
`BindCheck`, `BindFetch`, `BindStore` and `BindFinish`, between which the machine
may do anything, as `BindStore` may come between any of the machine's steps.
`SetPlayerReady` is `ReadyCompare` (the amount against the buy-in, `lobby.go:558`),
`ReadyLook` and `ReadyEnsure` (state and output, then the amount once more,
`ensureBoundFunding`).  The settlement is
`SettlementBroadcast`, `ResetDetach` and `ResetMark`; a restart of the server
loses everything but the chain.

History: `misled` says that the watcher's last word on the escrow was wrong and no
later block will correct it (the node did not answer, or the last update was
dropped); `late` that an update or a bind was under way when the settlement
ended the subscription; `judged` is the amount the state of the escrow was found
against, and `crossed` (of a readiness call) says that a bind has written another
amount since its first look.  Confirmations count to `Csv`, amounts
are the buy-in or another one.

### Match

`table` is the `Table` with its state function, users and flags, `game` the
`Game` between its hands, `loop` `gameEventLoop`, `starters` the goroutines
launched to start a game or resume a match, `gameEvents` and `tableEvents` the
two channels, `queue` that of the event processor, `saves` the goroutines of
`saveMatchCheckpointAsync` and the final save, `mutex` the table's save mutex,
`coord` the shutdown coordinator, `server` how far `Stop` has come, and `db` what
survives.

A send to the table's or a user's machine is handled when it is sent: the machine
runs no other code, and what a delay can change is a step of its own where it
matters (`Echo`, the late second question of a user's machine; `StartNewHand`,
which looks at the drain flag before it deals).  `FinishHand` is `stateShowdown`
with the events it sends; `HandleShowdownComplete`, `RecordPendingElimination`,
`HandleGameOver`, `HandleAutoStart` are the handlers of `gameEventLoop`;
`Forward` is `processTableEvents`; `Worker(k)` is a worker, which launches the
saves; `SaveBegin`, `SaveRead` and `SaveWrite` are the points at which
`saveMatchCheckpoint` looks at the phase, reads the game, and writes;
`RemovalTimer`, `FinalizeRemoval`, `CloseTable`, `DeleteRows` are the removal of
an ended table; `BeginDrain` and `Stop` are `Server.Stop`.  `Crash` loses
everything but `db`, `Load` is `loadTableFromDatabase` with
`RestorePausedMatch`.

History fields: `result` is the round and stacks after the last hand, `out` the
players eliminated; `astray` says that an event was dropped, a prune refused or
a hand resumed twice; `early` that the coordinator stopped waiting while a hand
was still to come; `overtaken` (of a save) that a hand began between its two
looks at the game.

### Blinds

`manager` is the `BlindManager` with the state function, inbox and timer of its
machine, `game` what `Game` caches (`liveBlindLevel`, `liveNextBlindMs`) and
whether its round is the first, `deal` how far `statePreDeal` has come with its
three sends and two answers, `save` and `checkpoint` a save and what it has
written.  `EnterActive` and `EnterPending` are what a state function does before
its loop; `HandleStart`, `HandleFired`, `HandleApply` and `HandleInfo` are its
cases.  `CloseManager` and `CloseGame` are the two ends of `Game.Close`, in
which a question that is asked in between is dropped; a stopped machine handles
what is in its inbox or, having changed its state, may look at its context first
(`Leave`).  `GetBlindSnapshot` guesses the manager's state from the cached time,
and `Restore` enters that state.  Time is counted in whole intervals since only
`elapsed / interval` is ever used.  `notifyPending` puts the notice of an increase
into the table's channel or drops it, as the channel may be full of the game's
other events; `TableWarns` is `gameEventLoop` coming to it.  `warning` keeps the
levels so named, waiting, told or lost, and `began` is the time of the first hand:
both are history fields but for the notices waiting.  A save begins after the
first hand only: `StartGame` holds the table's lock until that hand's blinds are
posted, and a save asks the table for its game.

### Streams

`streams` are the goroutines of `StartGameStream`, each with its player, how far
it has come (`at`) and the newest version it has been sent (`best`); `buckets`
and `current` are `Server.gameStreams`.  The operations on the two maps and the
counter are separate steps, as nothing holds them together: `GetBucket`
(`LoadOrStore`), `LoadOlder`, `CountStream`, `Register` (`Store` and
`SendReconnection`), and in the deferred function `CheckOwner`, `DeleteEntry`,
`ReleaseCount`, `EvictBucket`, `HandlePlayerDisconnect`.  A stream may end while
its client waits, or when its handler finds no table.  `version` counts the
changes of the table and stands for what a snapshot says; `emitted` are the
events in the table's channel, whose snapshot `ForwardTableEvent` takes later;
`events` is a set because three workers take from one queue and any event may
overtake any other.

History fields: `replaced` (of a stream), `raced`: a handler acted on what had
changed since it looked, and `crossed`: a player came back before the departure
was recorded.

## 3. Runs

(see PROJECT.json for the properties of each)

* `hand_3p`: safety with three players, stacks 5, 2 and 4, blinds 1 and 2, two
  hands, bets of 2, 3 and 4, one queued request per player.  Unequal stacks make
  short all-ins, side pots, capped calls and eliminations happen; two hands are
  needed for pruning and for stale events of the first hand; bets of 2, 3 and 4
  give calls, full raises, short raises and all-ins.
* `hand_2p`: two players, timebanks, fairness; liveness, exact conservation and
  the refinement of `ChipLedger`.  The auto-advance and auto-start timers fire in
  any order here, so an advance left over from one hand may be handled in the
  next; in `hand_3p` they have the default order.
* `referee`: two players, three escrows of which one player owns two, three
  handlers of settlement streams and three streams in all, one seat taken again
  after a departure.  Two streams are needed to sign a match; the third repeats
  one that broke, runs beside another of the same escrow, or tries the other
  escrow.  With three escrows a binding can be refused or replaced, and seats,
  outputs and owners are in different orders.  Handlers are alike, hence the
  symmetry.  1.7 million states.
* `funding`: two possible deposits, one of the buy-in and one of another amount,
  two subscriptions, two notifications handled at a time, and one mishap.  A
  usable escrow is backed by a confirmed output of its amount; a seat is made
  ready on the buy-in; a settled escrow stays spent; a deposit is noticed, and so
  is its spending.  930,000 states.
* `match`: three players with one chip each, two hands, one load, two workers,
  two ordinary saves and the final one, one mishap.  Two hands are the fewest in
  which a save or an event can belong to an earlier hand; three players allow an
  elimination that does not end the match.  260,000 states; three hands or two
  mishaps do not finish in minutes.
* `blinds`: three levels, so that one increase leads to a level that is not the
  last, and five intervals, so that increases are missed and caught up; any
  number of hands, saves, closings, crashes and loads, and notices dropped or read
  at any time.  350,000 states.  This run also checks for
  deadlock: the deal that waits for a stopped manager is left by `Crash` only.
* `streams`: one player and one spectator, two streams at a time and any number
  one after the other (identifiers are reused), one change, a removal.  Two
  streams are enough for one to replace the other, for one to be the last to
  leave while the other comes, and for a player and a bystander.  The run stops
  at states after a race (`Calm`), which every property excepts.
* `lost_pot`, `skipped_actor`, `leave_race`, `escrow_switch`,
  `revived_player`: each checks one sentence of the code's own comments or
  messages and finds it violated (section 6).

### Bounds

| constant | module | meaning |
|---|---|---|
| `MaxPending` | `Hand` | requests of one player in the inbox at a time; the code has no limit but the inbox |
| `BetAmounts` | `Hand` | amounts a client asks to bet |
| `MaxRounds` | `Hand` | hands played |
| `MaxExpiries` | `Hand` | expiries under way; 0 leaves timebanks out |
| `AdvanceFirst` | `Hand` | whether the auto-advance delay is at most the auto-start delay, as by default: assumed in `hand_3p`, left free in `hand_2p` |
| `MaxJoins`, `MaxStreams`, `MaxStarts` | `Referee` | seats taken again, streams opened in all, starts under way |
| `Handlers` | `Referee` | `SettlementStream` handlers at a time |
| `MayOverlap` | `Referee` | kinds of overlapping requests that are explored |
| `ChanCap` | `Funding` | capacity of a subscriber's channel: 1 instead of 8, so that it overflows |
| `MaxTasks`, `MaxSubs` | `Funding` | notifications handled at a time, subscriptions between two restarts |
| `MaxMishaps` | `Funding` | unanswered calls to the node, restarts, overlapping notifications, further subscriptions and deposits, together |
| `MaxHands` | `Match` | the match is decided in this hand at the latest |
| `Gainers`, `Fickle` | `Match` | players who win chips, players who have mishaps: one each, the others being alike |
| `MaxSaves`, `MaxStarters`, `MaxLoads` | `Match` | saves and start goroutines under way, restarts |
| `Workers` | `Match` | two instead of three: what matters is that events overtake each other |
| `MaxMishaps` | `Match` | crashes, dropped events, refused prunes, withdrawn readiness, second resumes, together |
| `MaxStreams`, `MaxVersion` | `Streams` | streams at a time, changes of the table |
| `Last`, `MaxNow` | `Blinds` | index of the last level; the time at which the clock stops |

Where a property excepts something (`astray`, `early`, `misled`, `late`, `Outrun`,
`judged`, `stuck`, `raced`, `crossed`), the exception is a state the code really reaches; each is
described in its module and listed as a hazard.  The property then says that
nothing else has the same effect.

`MayOverlap` deserves a word.  `referee` checks every interleaving of the
handlers except three: a departure that overlaps with a stream or with a start of
the game (`LeaveOverlaps`); a stream that binds a second escrow to a seat
already backed by another one while a roster is being prepared
(`SwitchOverlaps`); and a handler that has read the table before every seat was
backed and has not written what it read when another handler of the same seat has
gone on to sign (`StaleOverlaps`).  Each breaks a property.  `leave_race` and
`escrow_switch` explore the first two; the instance of `escrow_switch` with
`MayOverlap = {"stale"}` has TLC find `OnlyTheNodeRefuses` violated by the third
(section 6).  The passing run shows that nothing else does, and the theorems of
`RefereeProofs`, which assume `MayOverlap = {}`, that it does not whatever the
number of players, escrows, streams and handlers.  Departures when no stream is
open, also those after a roster has been frozen, changes of the escrow before
preparation begins, refused changes, two streams of one escrow, snapshots of
different seats that overtake each other, broken streams, readiness withdrawn and
given again are all part of both.

`CHECK_DEADLOCK FALSE` in the other runs: a table whose match or hands are over
stops, and the bounds stop the rest.

## 4. Fairness

`FairSpec` of `Hand` assumes that the goroutine of the machine handles an event
when it has one (`MachineRuns`; it is one goroutine in a receive loop,
`statemachine.go:37`), that armed timers fire (`time.AfterFunc`), that the
forwarding goroutine runs, and that Table's goroutine follows up on the next
hand.  Clients need not do anything: with timebanks on, a hand ends although
nobody acts.  `hand_2p` has `HandCompletes` under exactly these assumptions.

`Fairness` of `Funding`: blocks keep coming, the goroutines of notifications, the
trackers and the funding machines run, and the settlement finishes its reset.
Deposits, refunds, unanswered calls, restarts and the clients' calls need not
happen.

`Fairness` of `Match`: a hand ends and the auto-start timer fires (`GameStep`;
`HandIsDriven` and `HandCompletes` of `Hand`), `gameEventLoop`, the launched
goroutines, `processTableEvents`, a worker, the removal and its timer, the saves
and `Stop` go on when they can.  Weak fairness of one worker is enough, as any
of them takes any event.  Players, the operator, crashes and loads need not act,
so `MatchGoesOn`, `DrainEnds` and `EndedIsRemoved` rest on the server's own
goroutines only.

`Fairness` of `Blinds`: timers fire, the manager's machine handles what it has,
and hands follow one another.  The clock need not advance, no save need be made.

`FairSpec` of `Streams`: handlers, `processTableEvents` and a worker go on when they
can.  A client need not open or end a stream and the table need not change.

`Referee` states no liveness; `ReadyMatchIsStarting` says as an invariant that a
match that can start is being started, and `OnlyTheNodeRefuses` that nothing but
the node stands between the end of a game and its payment.

## 5. Proofs

TLAPS proves what follows for every value of the constants that satisfies the
named assumptions of the modules.  TLC evaluates these in every run of the MC
module.

| module | assumptions | theorems |
|---|---|---|
| `PotsProofs` | none (a finite set of players is a hypothesis) | `RefundWithinBet`, `PotsHoldBets`, `PayoutsAddUp`, `PayoutsCapped` |
| `HandProofs` | `PlayersAssumption`, `BlindsAssumption`, `RequestsAssumption` | `HandInvariant`, `TypeCorrect`, `LedgerAlwaysBalances`, `NextHandAlwaysOrdered`, `OnlyFundedAlwaysDealtIn`, `NoChipsEverCreated`, `SidePotsAlwaysCap`; with `EveryPotIsWon` as a hypothesis `ChipsLostOnlyWithPot`, `HandImplementsLedger` |
| `TurnProofs` | the same | `DriveInvariant`, `HandAlwaysDriven`, `OnlyBlockedAfterLastDecision`; with `MaxExpiries = 0` and `AdvanceFirst` as hypotheses `TurnAlwaysDisciplined` |
| `BlindsProofs` | `BlindsAssumption` of `Blinds` | `BlindsInvariant`, `BlindsTypeCorrect`, `BlindsNeverAhead`, `IncreaseAlwaysAnnounced` |
| `FundingProofs` | `FundingAssumption`: among others a finite set of possible outputs | `FundingInvariant`, `FundingTypeCorrect`, `UsableAlwaysBacked`, `SettledForGood`, `ReadySeatHasPaid` |
| `RefereeProofs` | `ConstantsAssumption`, `NoneAssumption`, and `MayOverlap = {}` as a hypothesis of each theorem | `RefereeInvariant`, `RefereeTypeCorrect`, `StartedMatchAlwaysSettles`, `SettlementAlwaysPaysWinner`, `ReadyMatchAlwaysStarts`, `OnlyTheNodeEverRefuses` |
| `MatchProofs` | `MatchAssumption`, `NoneAssumption` | `MatchInvariant`, `MatchTypes`, `CheckpointsGoForward`, `CheckpointsAreResults`, `DrainedIsSaved`, `BrokeNeverDealt` |
| `StreamsProofs` | `StreamsAssumption` | `StreamsInvariant`, `StreamsTypeCorrect`, `NobodyIsForgotten`, `AlwaysShownConnected` |

**Pots.**  The refund of an uncalled bet goes to a player of the hand and is at
most what that player put in.  It rests on lemmas about the largest and second
largest of a bag of naturals.

The pots hold all bets, a distribution pays all of them out or nothing, and no
winner gets more than everybody's bet up to its own.  These are sums over
players, over pots and over both.  The library defines a sum by recursion over a
set, and an induction theorem would need an operator as a parameter; instead
each fact about sums is proved on a smallest set for which it would fail
(`SmallestSubset`), where taking one element off (`SumStep`) gives the
contradiction.  A player's bet is the sum of its slices in the layers
(`SlicesTelescope`), and summing the table of slices by layers instead of by
players (`SumSwaps`) gives the pots.

**Hand, chips.**  `HandInv` is the conjunction of `TypeOK`, `LedgerBalances`,
`NextHandOrdered` and `FundedForNextHand`.  `LedgerBalances` (stack plus contribution
equals the stack the hand began with) is not inductive without the types: a
refund or a fold could otherwise break it through a negative bet.
`OnlyFundedDealtIn` needs to know in advance that those left after pruning have
chips while the next hand is only armed, queued or requested; `FundedForNextHand`
says so, and it needs `NextHandOrdered`, which rules out a start that overtakes
the pruning.

The argument has one lemma per operation on a game.  Most preserve a relation
`Keeps` between the game before and after (same seats, round and starting
stacks, each player's stack plus contribution unchanged, a hand in play if one
was), so that composing functions is composing `Keeps`; each handler then has a
`...Step` lemma with the goal `GoodStep`, and `HandInvNext` has one step per
action.  `GoodStep` also says where the chips go (`ChipsMove`): between stacks and
pot as `Keeps` has it, out of the pot by one settlement, into it by one deal, or
nowhere.

`NoChipsCreated` and `SidePotsCapWinnings` follow from `ChipsMove` and the theorems
about the pots: a settlement returns the refund and pays out the rest or nothing
(`SettledWith`).  `ChipsConserved` is not true of the code (run `lost_pot`), so it is
proved of the behaviours in which every pot with chips in it has somebody to win
it (`EveryPotIsWon`): nothing else in the code can lose a chip.  That these
include all games of two players within the bounds of `hand_2p` is what that run
checks.  Under the same condition the hand implements `ChipLedger`: the step lemma
`LedgerStep` maps a deal to `OpenHand`, a call, bet or raise to `Wager`, a settlement
to `Settle` and everything else to a stutter.  It needs to know that a step takes
chips from at most one stack, and a deal from the two blinds (`Payers`), and that
only seated players have chips in the pot (`UnseatedOut`).

**Hand, turns.**  `HandIsDriven` counts any running timebank and any queued event
as something that moves the hand; that is not inductive, because the timebank may
be that of a player who no longer has the turn and the event one that will be
rejected.  `DriveInv` asks for a driver that works (`Driven`): the current player
has the turn, with its timebank or a fresh expiry of it, or the auto-advance
timer runs, or an advance or this hand's showdown is queued.  What keeps it going:
when nobody can act and the river is not out, the run-out has been marked or the
showdown requested (`RunOutMarked`), so entering a street finds either a player to
act or a timer to arm; whoever has the turn is in the hand with chips
(`TurnsInGame`), so a fold by timebank is never refused; the dealer is on a seat
(`DealerSeated`), so the search for the first player of a street looks at every
seat (`FirstFromFinds`); and a current player who has folded is one after whom
nothing is left to decide (`CurrentPlays`), which is
`BlockedOnlyAfterLastDecision` one step ahead.  `RoundDrives` is the lemma all
accepted actions and the start of a hand go through.

**Hand, one turn.**  That only the current player has the turn (`OneTurn`) is not
inductive: an advance still queued when a player acts would start the turn of the
next street's first player beside the one the action has just started, and a late
request would move the turn of a street that is being left.  `TurnInv` says why this
does not happen.  Once a street is about to be left nobody has the turn
(`StreetLeaves`), and either the board is being run out with nobody else left to act
(`RunOut`), or an action has closed the street, its advance is the only one queued,
and the current player has no request before it (`StreetClosed`).  The order of the
queue does the rest: of two players' requests the first comes too late (`InOrder`),
since a client asks only on its turn; a request behind an advance is one of the
current player (`Behind`); and requests and advances of a hand are gone before the
next is dealt (`HandsApart`), which needs the auto-advance timer to have fired when
the auto-start timer does (`AdvanceFirst`).  `QueueShift` says what a handler leaves
in the inbox, place by place, and `RoundTurns` is the lemma all accepted actions and
the start of a hand go through.  Both hypotheses are needed: with timebanks, and with
an auto-start delay below the auto-advance delay, two players can have the turn (see
section 6).

**Blinds.**  That a restored manager is not ahead needs the checkpoint not to be
(`CheckpointOnTime`), which needs what a save has read not to be (`SaveOnTime`),
which rests on what the game has cached (`GameOnTime`): the start that
`GetBlindSnapshot` computes back from the time of the next increase must be the
one the match began with, or none.  And the game's level stays behind the
manager's only if the answer it is about to cache is still the manager's level,
which needs the queue to hold no second question (`OneQuestion`).  An increase is
announced first (`AnnounceInv`): a pending manager has come to `notifyPending` with
the next level at least, and whatever is ahead of a game, be it the manager or the
blinds of a checkpoint, got there by way of such a call.  The theorem says no more:
the notice may have been dropped, or be read after the hand (section 6).

**Funding.** A usable escrow is backed by the chain because nothing on its way
to it claims more than the chain has: `FundingInv` says of every notification
being handled, every update queued at a subscriber, the call in progress and the
session itself that the outputs they name exist and had the confirmations they
claim (`Sound...`), of what the machine has found and not yet written too; the
chain only grows (`Grows`: confirmations never fall, a spent output stays
spent), so all of them stay true while they wait. Settlement is final because
after it no subscription of the escrow is left and no bind begins
(`SettlementQuiet`), except what was under way (`late`). That a seat is ready on
a deposit of the buy-in needs the two amounts its call looks at to be the same,
hence `crossed`: an output that passes the second look has the amount of the
first.

**Referee.** The argument is about stakes, the escrows that back the seats. From
the first stream that prepares the match until the settlement, or until the next
departure, every seat is backed and the stakes do not change; so whatever any of
the handlers, several of one escrow included, has frozen, drafted, signed or
marked complete in between is about the same stakes (`Prepared`), and so are the
two rosters (`Rosters`). A departure may tear this apart (`Torn`), but not while
a match is playing or being settled; after it, completion marks and signatures
are gone. `UsersOK`, `CallsOK` and `StreamsOK` say that what a handler has
looked at is still so when it writes, and `PhaseOK` that a match that plays has
everything complete. `SettlementPaysWinner` then follows the winner through
seat, roster, draft and branch (`Index`).

**Streams.**  The count of a bucket is not the number of its entries: it is that
number plus the handlers between counting and entering and between leaving and
releasing (`CountsHolders`).  An entry belongs to a stream that has entered and
not left (`EntriesAreOwned`), and such a stream finds its entry in the current
bucket (`OwnersAreFound`), unless a race has been flagged.  So a bucket is dropped
only when nobody is in it or about to enter it, and every update under way
reaches whoever was there when it was taken.  `FlagFollows` relates the
disconnected flag to the streams of the players who have not crossed a departure.

**Match.**  The types of `Match` need a bound on the chips that a load can bring in:
every load may bring players back with a fresh stack, so `Types` counts the stacks
against `Limit(loads)`, and `Total` is its value after the last load.  `Core` says
that saves take turns (`Exclusive`), that the final save is the only one above
`MaxSaves`, that one goroutine at most is about to start a game and there is none
then (`OneStart`), and that what is being written is between the checkpoint and the
game (`Forwards`); `CheckpointGoesForward` follows, since only a save replaces a
checkpoint by another.  A save that looks finds the match between hands until a
hand overtakes it (`Settled`), which gives `CheckpointIsAResult`.  For
`DrainSavesLastHand` the reports on their way to the coordinator must not be newer
than the game, and one that says its hand is over must be right (`Channels`); so a
coordinator that is quiesced means that no hand is under way and that none can be
begun, except by the two ways that set `early` (`Draining`); from the final save on
the match stands still, and what that save and those after it write agrees with
the game (`LastSave`).

`BrokeIsNotDealt` has an invariant of its own, which holds while nothing went
astray (`Eliminations`): of the armed timer, the auto-start in the channel and the
next hand about to start there is never more than one, and the auto-start is the
last of the channel (`OneAutoStart`); whoever has no chips after a showdown is on the
table's list or named by an event ahead of the auto-start (`BrokeAreKnown`).  When
the loop takes the auto-start the channel is empty, so the list is complete and the
prune leaves only players with chips.

Model-checked only: liveness and ENABLED, which the prover cannot express (among
them `SpentIsNoticed` and `DepositIsNoticed` of `Funding` and the liveness of
`Match`).

## 6. Where the code and its own statements disagree

* `lost_pot`: with a short all-in small blind, the refund of an "uncalled" raise
  takes back a bet that a pot layer relies on; the layer then has no eligible
  player and the whole distribution fails (`pot.go:352`).  In the run the refund
  leaves stacks of 5, 0 and 2 of 10 chips: the layer of three chips is gone.
* `skipped_actor`: the bet a street must match is lowered by a short all-in, so
  a street closes over a player who owes chips (`game.go:2309`).
* `leave_race`: a departure that has passed its check wipes the signatures of the
  match that has been started meanwhile (`lobby.go:354`).
* `escrow_switch`: a seat changes its escrow while the other player has signed for
  the previous one; completion marks are kept and the game starts without a
  settlement everybody signed (`referee.go:850`).
* `revived_player`: an eliminated player is taken off the table in memory only; a
  restart seats everybody who ever sat there, and who is missing from the
  checkpoint gets fresh chips (`db.go:121`, `table.go:506`, `game.go:3129`),
  although seats are blocked "to prevent eliminated players (or new entrants)
  from rejoining mid-match" (`lobby.go:105`).

The modules reach more that a reader of the code should know of; the properties
except it and the hazards list it:

* a fold queued twice by the player whose fold ended the hand is sent to a player
  machine that never answers; the game machine waits with its lock held
  (`game.go:1500`), although "Even in SHOWDOWN, handle request events so callers
  receive replies" (`game.go:1114`);
* an advance sent by the auto-advance timer is not scoped to its street or hand
  (`game.go:2789`): with an auto-start delay below the auto-advance delay it opens
  the flop of the next hand over unmatched bets, although it is to "advance
  current betting/phase when conditions met" (`game.go:3316`);
* a timebank expiry already in the channel when its turn ends acts for the same
  player in a later turn (`player.go:1283`), which the comment at `player.go:1285`
  means to rule out; between two requests queued by one player it can act so that
  the second request is accepted before the "advance" that closes the street, and
  two players then have the turn (so `TurnDiscipline` is checked without
  timebanks only);
* `BindEscrow` may write an output without confirmations into an escrow that a late
  report on an earlier deposit has just made usable (`referee.go:674`; `Outrun` in
  `Funding`);
* the funding machine looks at the escrow's amount without its lock and writes
  the state it found later; a bind in between leaves `READY` with an amount that
  is not the bound output's (`referee.go:1090`, `judged`).  In the same way
  `SetPlayerReady` compares one amount with the buy-in and `ensureBoundFunding`
  another with the output (`lobby.go:558`, `referee.go:2203`): a bind of another
  deposit in between makes the seat ready on an output that is not the buy-in
  (`crossed`);
* nothing keeps an escrow to one settlement stream.  A handler that read the table
  before the other seat was backed may write its roster (`referee.go:1668` to
  `1681`) after newer streams have completed the presigning and the game has
  started; the live roster, meant to be that of "the authoritative table snapshot"
  (`referee.go:1662`), then lacks a seat and the settlement is refused before the
  node is asked (`StaleOverlaps`);
* a departure that overlaps with the start of the game can end with the player who
  left taking the match: the roster it clears is the one being settled
  (`lobby.go:304`, `referee.go:1893`);
* a save that looks at the phase before a hand and reads the game after its start
  is a checkpoint in the middle of a hand (`checkpoints.go:72`);
* the coordinator stops waiting on the event of an earlier hand, or before a hand
  that had already passed the drain check (`shutdown_coordinator.go:215`,
  `table.go:1062`);
* an ended table does not answer a user's machine that asks late, and whoever
  closes that table waits for ever (`table.go:805`);
* a refused prune is logged as "will retry on next trigger" (`table.go:364`), and
  nothing triggers again;
* the handler of a replaced stream may delete the newer entry between its look and
  its deletion (`poker.go:58`), although the look is there to prevent "a replaced
  (older) stream from deleting the newer mapping" (`poker.go:50`); the last stream to
  leave may drop the bucket a new one is about to enter, and two first streams of
  one player may both be counted.  The stream concerned gets no update any more;
* a player who reconnects while the end of the old stream is still being reported
  may stay marked disconnected (`poker.go:68`); and `handlePlayerDisconnect` takes
  its snapshot before it marks the player, although it is sent "so remaining
  players see the disconnect flag" (`poker.go:119`);
* the notice of higher blinds is dropped when the table's channel is full
  (`blind_manager.go:467`), and otherwise read by a loop that may itself be
  starting the hand with these blinds (`table.go:401`): the notification sent "so
  the Table can warn players" (`blind_manager.go:115`) may come after the hand it
  warns of, and then still says "Next hand" (`table.go:390`);
* the blinds announced for the next hand may be lower than those played, when a
  hand lasts longer than an interval (`blind_manager.go:364`), and the minimum
  raise of its first street is still the old big blind (`game.go:191`).

## 7. Plan

1. Proofs: that two players whose turns never overlap cannot lose a pot
   (`EveryPotIsWon`).
2. The generic machine with a bounded inbox: `Send` against `Stop`, and a handler
   that sends to its own full inbox.
3. Several tables drained together; the coordinator's map is one entry here.
4. Notifications: the stream of a player that is replaced (`lobby.go:751` deletes
   unconditionally), a slow receiver that holds a worker and the table's
   broadcast mutex.
5. The removal of a buy-in table whose seats were left after presigning.

## 8. Not modelled, and why

* Cards, deck and hand evaluation: pure data; a showdown is a ranking chosen
  freely, ties included.
* Authentication, database, configuration, metrics, client library, user
  interfaces and bot: request and response, files or presentation; the modules
  let a client send any request at any time.
* In `Streams`: what an update says, two goroutines that send to one stream at the
  same time, a receiver that does not read, users who leave their seat.
* In `Hand`: showing and hiding cards, a full inbox, a closing machine; the blinds
  are the same in every hand (`Blinds` has them rise, without bets).
* In `Referee`: the user machines' own echo of readiness and binding (`evReady`,
  `evEscrowBound`), which applies the same values again; a match of three or more
  whose players are eliminated on the way; a buy-in match restored after a
  restart; an escrow that is bound at another table; a server without adaptor
  secret.  A player waits for `BindEscrow` to return before leaving (`calls`).  A
  table whose game has ended does not answer (`tableStateEnded`), so handlers
  that need its answer have no action then.
* In `Funding`: one script; several tables and escrows of one owner, and two calls
  of one owner at the same time, are left out.
* In `Match`: joining, leaving and buy-ins (`Referee` has them); the dealer;
  disconnects; a `Stop` without drain, which only tests use; a `StartGame` that
  replaces a running game; one table.  `BrokeIsNotDealt` is about hands that
  follow a showdown: a checkpoint saved before the pruning lets a restarted
  match deal in the player who has nothing left.
* In `Blinds`: a table without increases (the disabled state), and reads of the
  schedule.
* Generated code: the `*.pb.go` files under `pkg/rpc` are about 24,000 of the
  55,000 lines of Go, in three copies of the same messages, and hold no logic;
  the user interface, the client library and the commands are most of the rest
  of what no definition maps to.
