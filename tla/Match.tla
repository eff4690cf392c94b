------------------------------- MODULE Match -------------------------------
(***************************************************************************)
(* One table from its first hand to its removal, across shutdowns and      *)
(* crashes of the server: the table machine and its loop of game events,   *)
(* the game between hands, the pipeline that carries the table's events to *)
(* three workers, the checkpoints they write, the coordinator that decides *)
(* when a draining server may stop, and the load of the table afterwards.  *)
(*                                                                         *)
(* A hand is one step that redistributes the chips (Hand.tla has its       *)
(* inside).  The table has no buy-in and its seats are taken; joining,     *)
(* leaving and escrows are in Referee.tla.  A send to a machine is handled *)
(* when it is sent, except where the order matters: game events, table     *)
(* events, the queue of the workers and the start of a hand are steps of   *)
(* their own.  Table events that change no state are left out.             *)
(***************************************************************************)
EXTENDS Integers, FiniteSets, Sequences, FiniteSetsExt, SequencesExt, Functions

CONSTANTS
  Players,         \* the players seated at the table, MaxPlayers of them
  MinPlayers, StartingChips,
  Workers,         \* workers of the event processor (3 in the code)
  None,
  MaxHands,        \* bound: the match is decided in this hand at the latest
  Gainers,         \* bound: the players who win chips
  MaxSaves,        \* bound: checkpoint saves launched at a time
  MaxStarters,     \* bound: goroutines launched to start a hand at a time
  MaxLoads,        \* bound: restarts of the server; the last is not stopped again
  Fickle,          \* bound: players who have mishaps
  MaxMishaps       \* bound: crashes, dropped events, refused prunes, players
                   \* who take back that they are ready, resumes asked for
                   \* twice, all counted together

ASSUME MatchAssumption ==
  /\ IsFiniteSet(Players) /\ Cardinality(Players) > 1
  /\ MinPlayers \in 2 .. Cardinality(Players)
  /\ StartingChips \in Nat \ {0} /\ Workers \in Nat \ {0}
  /\ MaxHands \in Nat \ {0} /\ MaxSaves \in Nat \ {0}
  /\ MaxStarters \in Nat \ {0} /\ MaxLoads \in Nat /\ MaxMishaps \in Nat
  /\ Gainers \subseteq Players /\ Gainers # {} /\ Fickle \subseteq Players

VARIABLES
  db,           \* what survives: the table's row, who is ready, the checkpoint
  table,        \* the Table in memory
  game,         \* its Game
  loop,         \* gameEventLoop: idle, or about to start a hand
  starters,     \* goroutines launched by maybeStartGameAfterPresign and load
  gameEvents,   \* Table.gameEventChan
  tableEvents,  \* the channel processTableEvents reads
  queue,        \* EventProcessor.queue
  saves,        \* saveMatchCheckpointAsync goroutines, and the final save
  mutex,        \* holder of the table's save mutex
  removal,      \* scheduleTableRemoval is waiting for its grace period
  server,       \* how far Stop has come
  coord,        \* shutdownCoordinator
  result,       \* round and chips of the last hand finished or restored
  out,          \* players the match has eliminated
  astray,       \* an event was dropped, a prune refused, or a resume started
                \* a hand later than the first after a load
  early,        \* the coordinator stopped waiting before the last hand
  mishaps, loads

memory == <<table, game, loop, starters, gameEvents, tableEvents, queue,
            saves, mutex, removal, coord>>
ghosts == <<out, astray, early>>
vars   == <<db, memory, server, result, ghosts, mishaps, loads>>

Phases     == {"none", "NEW_HAND_DEALING", "betting", "SHOWDOWN"}
TableState == {"WAITING_FOR_PLAYERS", "PLAYERS_READY", "GAME_ACTIVE", "GAME_ENDED"}
SaveIds    == 1 .. MaxSaves + 1   \* one more for saveAllMatchCheckpointsSync of Stop
StarterIds == 1 .. MaxStarters
ServerAt   == {"up", "flagged", "told", "waiting", "saving", "stopped", "down"}

\* Every load may bring players back with a fresh stack.
Total      == Cardinality(Players) * StartingChips * (MaxLoads + 1)
Stacks     == UNION {[R -> 0 .. Total] : R \in SUBSET Players}
Checkpoint == [round : 0 .. MaxHands, chips : Stacks]

ASSUME NoneAssumption == None \notin Checkpoint

NoGame     == [phase |-> "none", running |-> FALSE, chips |-> <<>>, round |-> 0,
               timer |-> FALSE]
NewSave(final) == [at |-> "asked", snap |-> None, overtaken |-> FALSE, final |-> final]

\* processTableEvents and the workers look the table up in the registry.
Gone == [open |-> FALSE, state |-> "WAITING_FOR_PLAYERS", users |-> {}, ready |-> {},
         echo |-> {}, stuck |-> FALSE, broke |-> {}, draining |-> FALSE, shown |-> 0]

IsDraining == server \notin {"up", "down"}
Running    == server # "down"
StacksOf(R) == [p \in R |-> StartingChips]
FirstOf(S) == {i \in S : \A j \in S : i <= j}
\* Crashes happen at any time, the other mishaps while the server is not
\* draining.
Trouble    == mishaps < MaxMishaps /\ mishaps' = mishaps + 1
Mishap     == server = "up" /\ Trouble

-----------------------------------------------------------------------------
(* The table machine: its four state functions, by the events they act on. *)

CheckAllPlayersReady(t) == Cardinality(t.users) >= MinPlayers /\ t.users \subseteq t.ready

OnReadiness(t) ==
  CASE t.state = "WAITING_FOR_PLAYERS" /\ CheckAllPlayersReady(t)
         -> [t EXCEPT !.state = "PLAYERS_READY"]
    [] t.state = "PLAYERS_READY" /\ ~CheckAllPlayersReady(t)
         -> [t EXCEPT !.state = "WAITING_FOR_PLAYERS"]
    [] OTHER -> t

OnStartGameReq(t) ==
  IF \/ t.state = "PLAYERS_READY"
     \/ t.state = "WAITING_FOR_PLAYERS" /\ CheckAllPlayersReady(t)
  THEN [t EXCEPT !.state = "GAME_ACTIVE"] ELSE t

OnGameEnded(t) ==
  IF t.state = "WAITING_FOR_PLAYERS" THEN t ELSE [t EXCEPT !.state = "GAME_ENDED"]

-----------------------------------------------------------------------------
(* Loading the table, at the first start and after every stop. *)

ActiveParticipants == Players     \* only LeaveTable unseats

RestorePausedMatch(c) ==
  [phase |-> "NEW_HAND_DEALING", running |-> TRUE, round |-> c.round, timer |-> FALSE,
   chips |-> [p \in ActiveParticipants |->
                IF p \in DOMAIN c.chips THEN c.chips[p] ELSE StartingChips]]

LoadedTable ==
  OnReadiness([Gone EXCEPT !.open = TRUE, !.users = ActiveParticipants,
                           !.ready = db.ready])

LoadedGame == IF db.checkpoint = None THEN NoGame ELSE RestorePausedMatch(db.checkpoint)

NoStarters == [i \in StarterIds |-> "none"]
Launch(kind) ==
  \E i \in FirstOf({j \in StarterIds : starters[j] = "none"}) :
    starters' = [starters EXCEPT ![i] = kind]

Init ==
  /\ db = [table |-> TRUE, ready |-> {}, checkpoint |-> None]
  /\ table = [Gone EXCEPT !.open = TRUE, !.users = Players]
  /\ game = NoGame /\ loop = "idle" /\ starters = NoStarters
  /\ gameEvents = <<>> /\ tableEvents = <<>> /\ queue = <<>>
  /\ saves = <<>> /\ mutex = "free" /\ removal = FALSE
  /\ server = "up" /\ coord = [at |-> "idle", pending |-> FALSE]
  /\ result = [round |-> 0, chips |-> StacksOf(Players)]
  /\ out = {} /\ astray = FALSE /\ early = FALSE
  /\ mishaps = 0 /\ loads = 0

ForgetMemory ==
  /\ table' = Gone /\ game' = NoGame /\ loop' = "idle" /\ starters' = NoStarters
  /\ gameEvents' = <<>> /\ tableEvents' = <<>> /\ queue' = <<>>
  /\ saves' = <<>> /\ mutex' = "free" /\ removal' = FALSE
  /\ coord' = [at |-> "idle", pending |-> FALSE]

\* The process dies between two steps.
Crash ==
  /\ Running /\ Trouble
  /\ ForgetMemory /\ server' = "down"
  /\ UNCHANGED <<db, result, ghosts, loads>>

\* loadTableFromDatabase: a match with a checkpoint goes on where it was saved.
Load ==
  /\ server = "down" /\ db.table /\ loads < MaxLoads
  /\ loads' = loads + 1 /\ server' = "up"
  /\ table' = LoadedTable /\ game' = LoadedGame
  /\ starters' = IF db.checkpoint # None /\ CheckAllPlayersReady(LoadedTable)
                 THEN [NoStarters EXCEPT ![1] = "next"] ELSE NoStarters
  /\ result' = IF db.checkpoint = None
               THEN [round |-> 0, chips |-> StacksOf(Players)]
               ELSE [round |-> LoadedGame.round, chips |-> LoadedGame.chips]
  /\ astray' = FALSE /\ early' = FALSE
  /\ UNCHANGED <<db, loop, gameEvents, tableEvents, queue, saves, mutex,
                 removal, coord, out, mishaps>>

-----------------------------------------------------------------------------
(* Before a hand: readiness, StartGame, and the resume of a loaded match. *)

\* What maybeStartGameAfterPresign launches.  StartGame runs under the
\* table's lock to the end, so a second one launched with it is left out.
MaybeStartGame(t) ==
  IF ~CheckAllPlayersReady(t) \/ game.phase \notin {"none", "NEW_HAND_DEALING"}
  THEN UNCHANGED starters
  ELSE IF game.phase = "NEW_HAND_DEALING" THEN Launch("next")
  ELSE IF \E i \in StarterIds : starters[i] = "game" THEN UNCHANGED starters
  ELSE Launch("game")

\* The user's machine handles evReady by asking the table once more: at once,
\* or, as a mishap, only later (echo).  An ended table does not answer.
SetPlayerReady(p) ==
  /\ server = "up" /\ table.open /\ p \in table.users /\ table.state # "GAME_ENDED"
  /\ LET t == OnReadiness([table EXCEPT !.ready = @ \cup {p}])
     IN \/ /\ \/ p \notin table.ready /\ UNCHANGED mishaps
              \/ /\ p \in table.ready /\ game.phase \in {"none", "NEW_HAND_DEALING"}
                 /\ IF starters = NoStarters THEN UNCHANGED mishaps ELSE p \in Fickle /\ Mishap
           /\ table' = t
        \/ p \in Fickle /\ Mishap /\ table' = [t EXCEPT !.echo = @ \cup {p}]
  /\ db' = [db EXCEPT !.ready = @ \cup {p}]
  /\ MaybeStartGame(table')
  /\ UNCHANGED <<game, loop, gameEvents, tableEvents, queue, saves, mutex,
                 removal, server, coord, result, ghosts, loads>>

SetPlayerUnready(p) ==
  /\ Running /\ table.open /\ p \in table.ready \cap Fickle /\ table.state # "GAME_ENDED" /\ Mishap
  /\ table' = OnReadiness([table EXCEPT !.ready = @ \ {p}])
  /\ db' = [db EXCEPT !.ready = @ \ {p}]
  /\ UNCHANGED <<game, loop, starters, gameEvents, tableEvents, queue, saves,
                 mutex, removal, server, coord, result, ghosts, loads>>

Echo(p) ==
  /\ p \in table.echo
  /\ table' = IF table.state = "GAME_ENDED"
              THEN [table EXCEPT !.echo = @ \ {p}, !.stuck = TRUE]
              ELSE OnReadiness([table EXCEPT !.echo = @ \ {p},
                                             !.ready = @ \cup ({p} \cap table.users)])
  /\ UNCHANGED <<db, game, loop, starters, gameEvents, tableEvents, queue, saves,
                 mutex, removal, server, coord, result, ghosts, mishaps, loads>>

MayStartGame ==
  /\ table.open /\ table.state # "GAME_ENDED" /\ ~table.draining
  /\ CheckAllPlayersReady(table) /\ Cardinality(table.users) >= Cardinality(Players)

StartGame(i) ==
  /\ starters[i] = "game"
  /\ starters' = [starters EXCEPT ![i] = "none"]
  /\ IF MayStartGame
     THEN /\ game' = [phase |-> "betting", running |-> TRUE, round |-> 1, timer |-> FALSE,
                      chips |-> StacksOf(table.users)]
          /\ table' = OnStartGameReq(table)
     ELSE UNCHANGED <<game, table>>
  /\ UNCHANGED <<db, loop, gameEvents, tableEvents, queue, saves, mutex,
                 removal, server, coord, result, ghosts, mishaps, loads>>

\* What startNewHand checks before it starts a hand without looking again.
MayStartNewHand ==
  ~table.draining /\ game.phase # "none" /\ Cardinality(table.users) >= MinPlayers

ResumeMatch(i) ==
  /\ starters[i] = "next"
  /\ starters' = [starters EXCEPT ![i] = IF MayStartNewHand THEN "starting" ELSE "none"]
  /\ UNCHANGED <<db, table, game, loop, gameEvents, tableEvents, queue, saves,
                 mutex, removal, server, coord, result, ghosts, mishaps, loads>>

\* evStartHand is taken between hands and ignored in any other phase, and by
\* a closed game.
TakesStartHand ==
  game.running /\ game.phase \in {"NEW_HAND_DEALING", "SHOWDOWN"} /\ game.round < MaxHands

StartNewHand ==
  /\ table' = OnStartGameReq([table EXCEPT !.shown = 0])
  /\ IF TakesStartHand
     THEN /\ game' = [game EXCEPT !.phase = "betting", !.round = @ + 1, !.timer = FALSE]
          /\ early' = (early \/ coord.at = "quiesced")
          /\ saves' = [i \in DOMAIN saves |->
                         [saves[i] EXCEPT !.overtaken = @ \/ saves[i].at = "looking"]]
     ELSE UNCHANGED <<game, early, saves>>

StarterDeals(i) ==
  /\ starters[i] = "starting" /\ table.open
  /\ starters' = [starters EXCEPT ![i] = "none"]
  /\ StartNewHand
  /\ astray' = (astray \/ (TakesStartHand /\ game.phase = "SHOWDOWN"))
  /\ UNCHANGED <<db, loop, gameEvents, tableEvents, queue, mutex, removal,
                 server, coord, result, out, mishaps, loads>>

\* By now the table has been closed: startNewHand sends to a machine that is nil.
StarterPanics(i) ==
  /\ starters[i] = "starting" /\ ~table.open
  /\ ForgetMemory /\ server' = "down"
  /\ UNCHANGED <<db, result, ghosts, mishaps, loads>>

LoopDeals ==
  /\ loop = "starting" /\ loop' = "idle"
  /\ StartNewHand
  /\ UNCHANGED <<db, starters, gameEvents, tableEvents, queue, mutex, removal,
                 server, coord, result, out, astray, mishaps, loads>>

-----------------------------------------------------------------------------
(* The end of a hand, and what the table makes of its events. *)

GameEvent == [type : {"ShowdownComplete", "PlayerLost", "GameOver", "AutoStartTriggered"},
              who : SUBSET Players]
Ev(type, who) == [type |-> type, who |-> who]

\* A send to a channel that is full is dropped: of several, the last.
Send(ch, ch2, evs) ==
  \/ ch2 = ch \o evs /\ UNCHANGED <<astray, mishaps>>
  \/ ch2 = ch \o Front(evs) /\ astray' = TRUE /\ Mishap

Outcomes ==
  {c \in [DOMAIN game.chips -> 0 .. SumFunction(game.chips)] :
     /\ SumFunction(c) = SumFunction(game.chips)
     /\ \A p \in DOMAIN c : c[p] > game.chips[p] => p \in Gainers /\ game.chips[p] > 0
     /\ game.round = MaxHands => \E p \in DOMAIN c : c[p] = SumFunction(c)}

\* The PlayerLost events of a hand, which follow each other, are one here.
ShowdownEvents(c) ==
  LET broke   == {p \in DOMAIN c : c[p] = 0}
      holders == DOMAIN c \ broke
  IN <<Ev("ShowdownComplete", {})>>
     \o (IF broke = {} THEN <<>> ELSE <<Ev("PlayerLost", broke)>>)
     \o (IF Cardinality(holders) <= 1 THEN <<Ev("GameOver", holders)>> ELSE <<>>)

\* stateShowdown; the auto-start is armed unless the match is decided.
FinishHand ==
  /\ game.phase = "betting" /\ game.running
  /\ \E c \in Outcomes :
       /\ game' = [game EXCEPT !.phase = "SHOWDOWN", !.chips = c,
                               !.timer = \E p, q \in DOMAIN c : p # q /\ c[p] > 0 /\ c[q] > 0]
       /\ result' = [round |-> game.round, chips |-> c]
       /\ Send(gameEvents, gameEvents', ShowdownEvents(c))
  /\ UNCHANGED <<db, table, loop, starters, tableEvents, queue, saves, mutex,
                 removal, server, coord, out, early, loads>>

\* The callback of the timer; one that BeginDrain or a new hand comes too late
\* to cancel is one whose event is already in the channel.
AutoStartFires ==
  /\ game.timer /\ game' = [game EXCEPT !.timer = FALSE]
  /\ Send(gameEvents, gameEvents', <<Ev("AutoStartTriggered", {})>>)
  /\ UNCHANGED <<db, table, loop, starters, tableEvents, queue, saves, mutex,
                 removal, server, coord, result, out, early, loads>>

\* gameEventLoop takes its next event.
Takes(type) ==
  /\ table.open /\ loop = "idle" /\ gameEvents # <<>>
  /\ Head(gameEvents).type = type /\ gameEvents' = Tail(gameEvents)
  /\ UNCHANGED <<db, starters, queue, saves, mutex, removal, server, coord,
                 result, early, loads>>

\* The guard against a second showdown of a round reads the round the game is
\* in now, not that of the result.
HandleShowdownComplete ==
  /\ Takes("ShowdownComplete")
  /\ IF table.shown = game.round
     THEN UNCHANGED <<table, tableEvents, astray, mishaps>>
     ELSE /\ table' = [table EXCEPT !.shown = game.round]
          /\ Send(tableEvents, tableEvents', <<"SHOWDOWN_RESULT">>)
  /\ UNCHANGED <<game, loop, out>>

RecordPendingElimination ==
  /\ Takes("PlayerLost")
  /\ LET t == [table EXCEPT !.broke = @ \cup Head(gameEvents).who]
     IN table' = IF t.state = "WAITING_FOR_PLAYERS" THEN OnReadiness(t) ELSE t
  /\ UNCHANGED <<game, loop, tableEvents, out, astray, mishaps>>

HandleGameOver ==
  /\ Takes("GameOver")
  /\ Send(tableEvents, tableEvents', <<"GAME_ENDED">>)
  /\ table' = OnGameEnded(table)
  /\ game' = [game EXCEPT !.running = FALSE, !.timer = FALSE]
  /\ UNCHANGED <<loop, out>>

\* evPrepareNextHand: the eliminated leave the game and the table.
Prune ==
  /\ game' = [game EXCEPT !.chips = Restrict(@, DOMAIN @ \ table.broke)]
  /\ table' = OnReadiness([table EXCEPT !.users = @ \ table.broke, !.broke = {}])
  /\ out' = out \cup table.broke

MayPrune == game.running /\ game.phase \in {"NEW_HAND_DEALING", "SHOWDOWN"}

\* Mutant: strictly more players than needed.
EnoughChipsStrict == Cardinality({p \in DOMAIN game'.chips : game'.chips[p] > 0}) > MinPlayers

EnoughChips == Cardinality({p \in DOMAIN game'.chips : game'.chips[p] > 0}) >= MinPlayers
MayGoOn     == EnoughChips /\ ~table.draining /\ Cardinality(table'.users) >= MinPlayers

\* Mutant: the next hand is started without preparing it.
HandleAutoStartUnprepared ==
  /\ Takes("AutoStartTriggered")
  /\ UNCHANGED <<table, game, out, tableEvents, astray, mishaps>>
  /\ loop' = IF MayGoOn THEN "starting" ELSE "idle"

HandleAutoStart ==
  /\ Takes("AutoStartTriggered")
  /\ IF table.broke = {}
     THEN UNCHANGED <<game, table, out>> ELSE MayPrune /\ Prune
  /\ loop' = IF MayGoOn THEN "starting" ELSE "idle"
  /\ UNCHANGED <<tableEvents, astray, mishaps>>

\* The prune is refused: the game's inbox is full, or a hand is under way or
\* the game closed.  Nothing tries again.
AutoStartRefused ==
  /\ Takes("AutoStartTriggered")
  /\ table.broke # {}
  /\ IF MayPrune THEN Mishap ELSE UNCHANGED mishaps
  /\ astray' = TRUE
  /\ UNCHANGED <<table, game, loop, tableEvents, out>>

-----------------------------------------------------------------------------
(* The table's events: forwarded to the event processor in order, taken by *)
(* its workers, each of them at work on one of the oldest events.          *)

\* processTableEvents: the event carries a snapshot of the table made now.
Forward ==
  /\ tableEvents # <<>> /\ tableEvents' = Tail(tableEvents)
  /\ IF table.open /\ server \notin {"stopped", "down"}
     THEN Send(queue, queue', <<[type  |-> Head(tableEvents), round |-> game.round,
                                 live  |-> game.phase = "betting"]>>)
     ELSE UNCHANGED <<queue, astray, mishaps>>
  /\ UNCHANGED <<db, table, game, loop, starters, gameEvents, saves, mutex, removal,
                 server, coord, result, out, early, loads>>

InWorker(k, type) ==
  /\ k \in DOMAIN queue /\ k <= Workers /\ server \notin {"stopped", "down"}
  /\ queue[k].type = type /\ queue' = RemoveAt(queue, k)
  /\ UNCHANGED <<db, table, game, loop, starters, gameEvents, tableEvents, server,
                 result, out, astray, mishaps, loads>>

\* The coordinator forgets the table it waits for.
Quiesce(c) == IF c.at = "draining" THEN [at |-> "quiesced", pending |-> FALSE] ELSE c

\* Mutant: the snapshot that came with the event is not looked at.
ObserveBlindly(e) ==
  /\ coord' = IF IsDraining THEN Quiesce(coord) ELSE coord
  /\ early' = (early \/ (coord' # coord /\ e.round # game.round))

\* observeShutdownEvent believes the snapshot that came with the event.
Observe(e) ==
  /\ coord' = IF IsDraining /\ ~e.live THEN Quiesce(coord) ELSE coord
  /\ early' = (early \/ (coord' # coord /\ e.round # game.round))

\* Both events of a hand that has ended ask for a checkpoint; the end of the
\* match also schedules the removal of the table, unless stopChan is closed.
Handle(k, type) ==
  /\ InWorker(k, type) /\ UNCHANGED mutex
  /\ IF ~table.open
     THEN UNCHANGED <<saves, removal, coord, early>>
     ELSE /\ Len(saves) < MaxSaves /\ saves' = Append(saves, NewSave(FALSE))
          /\ removal' = (removal \/ (type = "GAME_ENDED" /\ server \in {"up", "flagged"}))
          /\ Observe(queue[k])

HandleShowdownResult(k) == Handle(k, "SHOWDOWN_RESULT")
HandleGameEnded(k)      == Handle(k, "GAME_ENDED")

RemovalTimer ==
  /\ removal /\ removal' = FALSE
  /\ Send(queue, queue', <<[type |-> "TABLE_REMOVED", round |-> game.round, live |-> FALSE]>>)
  /\ UNCHANGED <<db, table, game, loop, starters, gameEvents, tableEvents, saves,
                 mutex, server, coord, result, out, early, loads>>

\* Mutant: it gives up when a save holds the mutex.
FinalizeRemovalTry(k) ==
  /\ InWorker(k, "TABLE_REMOVED")
  /\ mutex' = IF mutex = "free" THEN "removing" ELSE mutex
  /\ UNCHANGED <<saves, removal, coord, early>>

\* finalizeTableRemoval waits for the save under way, closes the table once
\* its loop has returned, and deletes the row: the checkpoint goes with it.
FinalizeRemoval(k) ==
  /\ InWorker(k, "TABLE_REMOVED") /\ mutex = "free" /\ mutex' = "removing"
  /\ UNCHANGED <<saves, removal, coord, early>>

CloseTable ==
  /\ mutex = "removing" /\ table.open /\ loop = "idle" /\ ~table.stuck
  /\ table' = Gone /\ game' = NoGame /\ gameEvents' = <<>>
  /\ UNCHANGED <<db, loop, starters, tableEvents, queue, saves, mutex, removal,
                 server, coord, result, ghosts, mishaps, loads>>

\* Mutant: the checkpoint is left behind.
DeleteRowsOnly ==
  /\ mutex = "removing" /\ ~table.open /\ mutex' = "free"
  /\ db' = [db EXCEPT !.table = FALSE]
  /\ coord' = IF IsDraining THEN Quiesce(coord) ELSE coord
  /\ UNCHANGED <<table, game, loop, starters, gameEvents, tableEvents, queue, saves,
                 removal, server, result, ghosts, mishaps, loads>>

DeleteRows ==
  /\ mutex = "removing" /\ ~table.open /\ mutex' = "free"
  /\ db' = [db EXCEPT !.table = FALSE, !.checkpoint = None]
  /\ coord' = IF IsDraining THEN Quiesce(coord) ELSE coord
  /\ UNCHANGED <<table, game, loop, starters, gameEvents, tableEvents, queue, saves,
                 removal, server, result, ghosts, mishaps, loads>>

-----------------------------------------------------------------------------
(* Checkpoints: the phase is looked at first, the game is read later.      *)

\* Mutant: the phase is not looked at.
TableIsOpen == table.open /\ game.phase # "none"

BetweenHands == table.open /\ game.phase \in {"SHOWDOWN", "NEW_HAND_DEALING"}

SaveStep ==
  UNCHANGED <<table, game, loop, starters, gameEvents, tableEvents, queue, removal,
              server, coord, result, ghosts, mishaps, loads>>

\* Mutant: saves do not exclude each other.
SaveBeginUnlocked(i) ==
  /\ i \in DOMAIN saves /\ saves[i].at = "asked"
  /\ IF BetweenHands
     THEN saves' = [saves EXCEPT ![i].at = "looking"] /\ mutex' = "save"
     ELSE saves' = RemoveAt(saves, i) /\ UNCHANGED mutex
  /\ SaveStep /\ UNCHANGED db

\* Mutant: an early return keeps the mutex.
SaveBeginKeepsMutex(i) ==
  /\ i \in DOMAIN saves /\ saves[i].at = "asked" /\ mutex = "free" /\ mutex' = "save"
  /\ saves' = IF BetweenHands THEN [saves EXCEPT ![i].at = "looking"]
              ELSE RemoveAt(saves, i)
  /\ SaveStep /\ UNCHANGED db

SaveBegin(i) ==
  /\ i \in DOMAIN saves /\ saves[i].at = "asked" /\ mutex = "free"
  /\ IF BetweenHands
     THEN saves' = [saves EXCEPT ![i].at = "looking"] /\ mutex' = "save"
     ELSE saves' = RemoveAt(saves, i) /\ UNCHANGED mutex
  /\ SaveStep /\ UNCHANGED db

\* The stacks of a hand under way are what is left of them.
Readable ==
  IF game.phase # "betting" THEN {game.chips}
  ELSE {c \in [DOMAIN game.chips -> 0 .. Total] :
          \A p \in DOMAIN c : c[p] <= game.chips[p]}

SaveRead(i) ==
  /\ i \in DOMAIN saves /\ saves[i].at = "looking"
  /\ \E c \in Readable :
       saves' = [saves EXCEPT ![i].at = "writing",
                              ![i].snap = [round |-> game.round, chips |-> c]]
  /\ SaveStep /\ UNCHANGED <<db, mutex>>

\* The checkpoint's foreign key refuses a table that is gone.
SaveWrite(i) ==
  /\ i \in DOMAIN saves /\ saves[i].at = "writing"
  /\ saves' = RemoveAt(saves, i) /\ mutex' = "free"
  /\ db' = IF db.table THEN [db EXCEPT !.checkpoint = saves[i].snap] ELSE db
  /\ SaveStep

-----------------------------------------------------------------------------
(* Stop: drain, save, stop the workers, wait for the saves, close.         *)

StopStep(from, to) ==
  /\ server = from /\ server' = to
  /\ UNCHANGED <<db, loop, starters, gameEvents, tableEvents, queue, mutex, result,
                 ghosts, mishaps, loads>>

\* The flag is set, then the tables are listed.
BeginDrain ==
  /\ loads < MaxLoads
  /\ StopStep("up", "flagged") /\ coord' = [coord EXCEPT !.pending = table.open]
  /\ UNCHANGED <<table, game, saves, removal>>

\* The coordinator learns of the tables; stopChan is closed.
TellCoordinator ==
  /\ StopStep("flagged", "told")
  /\ coord' = [coord EXCEPT !.at = IF coord.pending THEN "draining" ELSE "quiesced"]
  /\ removal' = FALSE
  /\ UNCHANGED <<table, game, saves>>

HasActiveHand == game.phase = "betting"

\* Table.BeginDrain and, with the answer of HasActiveHand, NotifyDrainStarted.
HoldTable ==
  /\ StopStep("told", "waiting")
  /\ table' = [table EXCEPT !.draining = table.open]
  /\ game' = [game EXCEPT !.timer = FALSE]
  /\ coord' = IF HasActiveHand THEN coord ELSE Quiesce(coord)
  /\ UNCHANGED <<saves, removal>>

WaitForQuiescence ==
  /\ coord.at = "quiesced" /\ StopStep("waiting", "saving")
  /\ saves' = Append(saves, NewSave(TRUE))
  /\ UNCHANGED <<table, game, removal, coord>>

\* After the final save; it waits for the workers.
StopEventProcessor ==
  /\ (\A i \in DOMAIN saves : ~saves[i].final) /\ mutex # "removing" /\ StopStep("saving", "stopped")
  /\ UNCHANGED <<table, game, saves, removal, coord>>

CloseTables ==
  /\ server = "stopped" /\ saves = <<>>
  /\ loop = "idle" /\ ~table.stuck
  /\ ForgetMemory /\ server' = "down"
  /\ UNCHANGED <<db, result, ghosts, mishaps, loads>>

-----------------------------------------------------------------------------
GameStep == FinishHand \/ AutoStartFires

LoopStep ==
  \/ HandleShowdownComplete
  \/ RecordPendingElimination
  \/ HandleGameOver
  \/ HandleAutoStart
  \/ AutoStartRefused
  \/ LoopDeals

Starter(i) ==
  \/ StartGame(i)
  \/ ResumeMatch(i)
  \/ StarterDeals(i)
  \/ StarterPanics(i)

Worker(k) ==
  \/ HandleShowdownResult(k)
  \/ HandleGameEnded(k)
  \/ FinalizeRemoval(k)

Removal == CloseTable \/ DeleteRows

Save(i) ==
  \/ SaveBegin(i)
  \/ SaveRead(i)
  \/ SaveWrite(i)

Stop ==
  \/ TellCoordinator
  \/ HoldTable
  \/ WaitForQuiescence
  \/ StopEventProcessor
  \/ CloseTables

Next ==
  \/ \E p \in Players : SetPlayerReady(p)
  \/ \E p \in Players : SetPlayerUnready(p)
  \/ \E p \in Players : Echo(p)
  \/ \E i \in StarterIds : Starter(i)
  \/ GameStep
  \/ LoopStep
  \/ Forward
  \/ \E k \in 1 .. Workers : Worker(k)
  \/ RemovalTimer
  \/ Removal
  \/ \E i \in SaveIds : Save(i)
  \/ BeginDrain
  \/ Stop
  \/ Crash
  \/ Load

\* Goroutines run and a hand ends (HandIsDriven of Hand.tla).  Players, the
\* operator who stops the server, and crashes need not act.
Fairness ==
  /\ WF_vars(GameStep) /\ WF_vars(LoopStep)
  /\ \A i \in StarterIds : WF_vars(Starter(i))
  /\ WF_vars(Forward) /\ WF_vars(Worker(1)) /\ WF_vars(RemovalTimer) /\ WF_vars(Removal)
  /\ WF_vars(\E i \in SaveIds : Save(i))
  /\ WF_vars(Stop)

Spec == Init /\ [][Next]_vars /\ Fairness

-----------------------------------------------------------------------------
QueuedEvent == [type : {"SHOWDOWN_RESULT", "GAME_ENDED", "TABLE_REMOVED"},
                round : 0 .. MaxHands, live : BOOLEAN]

\* Every variable has its type, and a checkpoint belongs to a table that exists.
TypeOK ==
  /\ db.table \in BOOLEAN /\ db.ready \subseteq Players
  /\ db.checkpoint \in Checkpoint \cup {None} /\ (~db.table => db.checkpoint = None)
  /\ table.state \in TableState /\ table.shown \in 0 .. MaxHands
  /\ UNION {table.users, table.ready, table.echo, table.broke, out} \subseteq Players
  /\ game.phase \in Phases /\ game.chips \in Stacks /\ game.round \in 0 .. MaxHands
  /\ (game.timer => game.running) /\ (game.phase = "none" => game = NoGame)
  /\ loop \in {"idle", "starting"}
  /\ \A i \in StarterIds : starters[i] \in {"none", "game", "next", "starting"}
  /\ \A k \in DOMAIN gameEvents : gameEvents[k] \in GameEvent
  /\ \A k \in DOMAIN queue : queue[k] \in QueuedEvent
  /\ Len(saves) <= MaxSaves + 1
  /\ \A i \in DOMAIN saves : saves[i].at \in {"asked", "looking", "writing"}
  /\ mutex \in {"free", "save", "removing"} /\ server \in ServerAt
  /\ coord.at \in {"idle", "draining", "quiesced"}

\* A checkpoint is the state of the match after a hand: a save that found the
\* match between hands reads the round and the stacks the last hand left,
\* unless a new hand has overtaken it between its two looks at the game
\* (checkpoints.go: shouldCheckpointTable, then GetStateSnapshot).
CheckpointIsAResult ==
  [][\A i \in DOMAIN saves \cap DOMAIN saves' :
       saves[i].at = "looking" /\ saves'[i].at = "writing" /\ ~saves[i].overtaken
       => /\ saves'[i].snap.round = result.round
          /\ \A p \in DOMAIN saves'[i].snap.chips :
               saves'[i].snap.chips[p] = result.chips[p]]_vars

\* Saves of a table never overwrite a later hand with an earlier one, however
\* many of them are under way, and neither does a match that was loaded again
\* (saveMatchCheckpointSync and its mutex).
CheckpointGoesForward ==
  [][db.checkpoint # None /\ db'.checkpoint # None
     => db'.checkpoint.round >= db.checkpoint.round]_vars

\* A server that has drained and saved has saved the last hand: no hand is
\* under way and the checkpoint has the round and the stacks of the game.
\* Excepted are a hand dealt by a goroutine that had passed its check before
\* the table was told to drain (startNewHand), and a late event of an earlier
\* hand taken for the end of this one (observeShutdownEvent).
DrainSavesLastHand ==
  server = "stopped" /\ game.phase # "none" /\ ~early
  => /\ game.phase # "betting"
     /\ db.checkpoint # None
     /\ db.checkpoint.round = game.round
     /\ \A p \in DOMAIN game.chips : db.checkpoint.chips[p] = game.chips[p]

\* Nobody without chips is dealt into the next hand of the match: the table
\* has heard of every elimination and pruned it before the hand starts
\* (stateShowdown sends PlayerLost ahead of the auto-start, handleAutoStart
\* prepares the next hand first).
BrokeIsNotDealt ==
  [][game.phase = "SHOWDOWN" /\ game'.phase = "betting" /\ ~astray'
     => \A p \in DOMAIN game'.chips : game'.chips[p] > 0]_vars

\* The match goes on: after a showdown, and after a load with everybody
\* ready, the next hand is dealt, or the match is over, or the server stops.
MatchGoesOn ==
  (game.running /\ game.round < MaxHands
   /\ \/ game.phase = "SHOWDOWN"
      \/ game.phase = "NEW_HAND_DEALING" /\ CheckAllPlayersReady(table))
  ~> (game.phase = "betting" \/ ~game.running \/ server # "up" \/ astray)

\* Stop returns: a server that starts to drain is down in the end, unless an
\* event was lost or a closing table waits for a user's machine for ever.
DrainEnds == (server = "flagged") ~> (server = "down" \/ astray \/ table.stuck)

\* A match that is over is removed, in memory and in the database.
EndedIsRemoved ==
  (server = "up" /\ game.phase = "SHOWDOWN" /\ ~game.running)
  ~> (~db.table \/ server # "up" \/ astray \/ table.stuck)

\* Who has lost the chips is out of the match, a restart included, and never
\* holds chips of it again (JoinTable keeps eliminated players from coming
\* back, applyPrepareNextHand takes them off the table).
EliminatedStayOut == \A p \in out \cap DOMAIN game.chips : game.chips[p] = 0
=============================================================================
