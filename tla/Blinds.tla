------------------------------- MODULE Blinds -------------------------------
(***************************************************************************)
(* Rising blinds: the blind manager, a machine of its own with a timer and *)
(* an inbox, the game that asks it for the blinds of each hand and caches  *)
(* the answer, the checkpoint made of what the game has cached, and the    *)
(* manager and game restored from it.  What the manager tells the table of *)
(* an increase goes through the channel of all the game's events, which    *)
(* the table's goroutine empties when it gets to it.                       *)
(*                                                                         *)
(* Time is counted in intervals between two increases, whole intervals     *)
(* since the start being all that computeTarget looks at.  A hand is what  *)
(* statePreDeal does before its blinds are posted; the rest of it is in    *)
(* Hand.tla, and which hands are played and saved is in Match.tla.         *)
(* A table without increases asks nobody, and has no state here.           *)
(***************************************************************************)
EXTENDS Integers, Sequences

CONSTANTS
  Last,     \* index of the last level of the schedule
  MaxNow,   \* bound: the time at which the clock stops
  None, Looking  \* no save or checkpoint; a save that has found the phase

ASSUME BlindsAssumption == Last \in Nat \ {0} /\ MaxNow \in Nat \ {0}

VARIABLES
  now,         \* the clock; 0 stands for the zero time
  manager,     \* the BlindManager and its machine
  game,        \* what Game keeps of the blinds, and its round
  deal,        \* how far statePreDeal has come
  save,        \* saveMatchCheckpoint in progress
  checkpoint,  \* the blinds of the match's checkpoint
  server,      \* up, closing the game, or down
  began,       \* time of the first hand of the match
  warning      \* the levels named by GameEventBlindsPending: still in the
               \* table's channel, told to the players, and dropped

clocks == <<now, began, warning>>
vars   == <<clocks, manager, game, deal, save, checkpoint, server>>

Levels == 0 .. Last
Times  == 0 .. MaxNow
NextTimes == 0 .. MaxNow + Last + 1
Smaller(i, j) == IF i < j THEN i ELSE j
Larger(i, j)  == IF i > j THEN i ELSE j

BlindState   == {"waiting", "active", "pending", "max"}
BlindEvent   == {"start", "fired", "apply", "info"}
BlindManager == [at : BlindState, level : Levels, start : Times, timer : BOOLEAN,
                 open : BOOLEAN, inbox : Seq(BlindEvent)]
\* answer: the level evBlindApply was answered with
GameBlinds == [round : {"none", "first", "later"}, level : Levels, next : NextTimes,
               answer : Levels]
Cached     == [round : {"none", "first", "later"}, level : Levels, next : NextTimes]
BlindSnapshot == [level : Levels, at : BlindState, start : Int]
Checkpoint    == [game : Cached, blind : BlindSnapshot]
Warning       == [sent : SUBSET Levels, told : SUBSET Levels, lost : SUBSET Levels]
NoWarning     == [sent |-> {}, told |-> {}, lost |-> {}]
Dealing       == {"start", "apply", "applying", "info", "asking"}

NewBlindManager == [at |-> "waiting", level |-> 0, start |-> 0, timer |-> FALSE,
                    open |-> TRUE, inbox |-> <<>>]
NewGame == [round |-> "none", level |-> 0, next |-> 0, answer |-> 0]

Init ==
  /\ now = 1 /\ began = 0 /\ warning = NoWarning
  /\ manager = NewBlindManager /\ game = NewGame /\ deal = "between"
  /\ save = None /\ checkpoint = None /\ server = "up"

Tick ==
  /\ now < MaxNow /\ now' = now + 1
  /\ UNCHANGED <<manager, game, deal, save, checkpoint, server, began, warning>>

-----------------------------------------------------------------------------
(* The manager's machine *)

\* Mutant: the schedule has no end.
computeTargetUncapped(m) == IF m.start = 0 THEN 0 ELSE now - m.start

computeTarget(m) == IF m.start = 0 THEN 0 ELSE Smaller(now - m.start, Last)

nextIncrease(m) == m.start + m.level + 1

\* notifyPending does not wait for room in the channel of the table, which
\* the game's other events may have filled.
notifyPending(level) ==
  \/ warning' = [warning EXCEPT !.sent = @ \cup {level}]
  \/ warning' = [warning EXCEPT !.lost = @ \cup {level}]

\* blindPending tells the table of the level it expects now.
EnterPending(m) ==
  /\ manager' = [m EXCEPT !.at = "pending"]
  /\ notifyPending(Smaller(Larger(computeTarget(m), m.level + 1), Last))

\* Mutant: the timer is armed once.
EnterActiveOnce(m) ==
  IF now >= nextIncrease(m) THEN EnterPending(m)
  ELSE manager' = [m EXCEPT !.at = "active", !.timer = m.level = 0] /\ UNCHANGED warning

\* blindActive arms its timer, unless the next level is due already.
EnterActive(m) ==
  IF now >= nextIncrease(m) THEN EnterPending(m)
  ELSE manager' = [m EXCEPT !.at = "active", !.timer = TRUE] /\ UNCHANGED warning

\* The callback; it sends nothing to a machine that is stopped.
TimerFires ==
  /\ manager.timer /\ now >= nextIncrease(manager)
  /\ manager' = [manager EXCEPT !.timer = FALSE,
                   !.inbox = IF manager.open THEN Append(@, "fired") ELSE @]
  /\ UNCHANGED <<clocks, game, deal, save, checkpoint, server>>

\* The next event, and the manager without it.  A machine that is stopped
\* handles what it has, but when it changes its state it may look at its
\* context first and leave the rest.
Takes(event) == server # "down" /\ manager.inbox # <<>> /\ Head(manager.inbox) = event
Taken  == [manager EXCEPT !.inbox = Tail(@), !.timer = FALSE]
Leave  == {Taken} \cup (IF manager.open THEN {} ELSE {[Taken EXCEPT !.inbox = <<>>]})

HandleStart ==
  /\ Takes("start")
  /\ IF manager.at = "waiting"
     THEN /\ \E m \in Leave : EnterActive([m EXCEPT !.start = now])
          /\ began' = now
     ELSE manager' = [manager EXCEPT !.inbox = Tail(@)] /\ UNCHANGED <<began, warning>>
  /\ UNCHANGED <<now, game, deal, save, checkpoint, server>>

HandleFired ==
  /\ Takes("fired")
  /\ IF manager.at = "active" THEN \E m \in Leave : EnterPending(m)
     ELSE manager' = [manager EXCEPT !.inbox = Tail(@)] /\ UNCHANGED warning
  /\ UNCHANGED <<now, began, game, deal, save, checkpoint, server>>

\* Mutant: the level is raised as soon as it is due.
HandleApplyAtOnce ==
  /\ Takes("apply") /\ deal' = "info"
  /\ LET level == Larger(computeTarget(manager), manager.level)
     IN /\ game' = [game EXCEPT !.answer = level]
        /\ manager' = [manager EXCEPT !.inbox = Tail(@), !.level = level]
        /\ UNCHANGED warning
  /\ UNCHANGED <<now, began, save, checkpoint, server>>

\* Mutant: the last level has no case for it.
HandleApplyUnlessMax ==
  /\ Takes("apply") /\ manager.at = "max"
  /\ manager' = [manager EXCEPT !.inbox = Tail(@)] /\ UNCHANGED <<warning, deal, game>>
  /\ UNCHANGED <<now, began, save, checkpoint, server>>

\* Only a pending increase is applied; it goes to the level of the moment.
HandleApply ==
  /\ Takes("apply") /\ deal' = "info"
  /\ IF manager.at = "pending"
     THEN LET level == Larger(computeTarget(manager), manager.level)
          IN /\ game' = [game EXCEPT !.answer = level]
             /\ \E m \in Leave :
                  IF level >= Last
                  THEN manager' = [m EXCEPT !.level = level, !.at = "max"] /\ UNCHANGED warning
                  ELSE EnterActive([m EXCEPT !.level = level])
     ELSE /\ game' = [game EXCEPT !.answer = manager.level]
          /\ manager' = [manager EXCEPT !.inbox = Tail(@)] /\ UNCHANGED warning
  /\ UNCHANGED <<now, began, save, checkpoint, server>>

Increasing(m) == m.at \in {"active", "pending"}

\* The answer to the second question ends the waiting: the game caches both.
HandleInfo ==
  /\ Takes("info") /\ deal' = "betting"
  /\ manager' = [manager EXCEPT !.inbox = Tail(@)]
  /\ game' = [game EXCEPT !.level = game.answer,
                !.next = IF Increasing(manager) THEN nextIncrease(manager) ELSE 0]
  /\ UNCHANGED <<now, began, warning, save, checkpoint, server>>

\* The table's gameEventLoop comes to the notice and tells the players.  When
\* it is itself starting the hand it does so after, but that wait times out.
TableWarns ==
  /\ server # "down"
  /\ \E level \in warning.sent :
       warning' = [warning EXCEPT !.sent = @ \ {level}, !.told = @ \cup {level}]
  /\ UNCHANGED <<now, began, manager, game, deal, save, checkpoint, server>>

-----------------------------------------------------------------------------
(* The game *)

\* statePreDeal begins; from here on the phase is PRE_FLOP.
StartHand ==
  /\ server = "up" /\ deal = "between"
  /\ game' = [game EXCEPT !.round = IF @ = "none" THEN "first" ELSE "later"]
  /\ deal' = IF game.round = "none" THEN "start" ELSE "apply"
  /\ UNCHANGED <<clocks, manager, save, checkpoint, server>>

\* It sends without the game's lock and waits for each answer.  What is sent
\* to a machine that is stopped is dropped, and the answer never comes.
Asks(from, event, to) ==
  /\ server # "down" /\ deal = from /\ deal' = to
  /\ manager' = IF manager.open THEN [manager EXCEPT !.inbox = Append(@, event)]
                ELSE manager
  /\ UNCHANGED <<clocks, game, save, checkpoint, server>>

SendStart == Asks("start", "start", "apply")
SendApply == Asks("apply", "apply", "applying")
SendInfo  == Asks("info", "info", "asking")

FinishHand ==
  /\ server = "up" /\ deal = "betting" /\ deal' = "between"
  /\ UNCHANGED <<clocks, manager, game, save, checkpoint, server>>

-----------------------------------------------------------------------------
(* The checkpoint.  Phase, game and blinds are looked at one after the     *)
(* other, while the game may go on.                                        *)

\* StartGame holds the table's lock until the blinds of the first hand are
\* posted: until then a save finds no game.
SaveBegin ==
  /\ server = "up" /\ save = None
  /\ deal = "between" /\ game.round # "none" /\ save' = Looking
  /\ UNCHANGED <<clocks, manager, game, deal, checkpoint, server>>

SaveRead ==
  /\ save = Looking
  /\ save' = [round |-> game.round, level |-> game.level, next |-> game.next]
  /\ UNCHANGED <<clocks, manager, game, deal, checkpoint, server>>

\* Mutant: the start is taken to be a whole level earlier.
EarlierBlindSnapshot ==
  [level |-> game.level,
   at    |-> IF game.round = "none" THEN "waiting"
             ELSE IF game.next = 0 THEN "max"
             ELSE IF now >= game.next THEN "pending" ELSE "active",
   start |-> IF game.next = 0 THEN 0 ELSE game.next - (game.level + 2)]

\* GetBlindSnapshot guesses the manager's state from the time of the next
\* increase that the game has cached.
GetBlindSnapshot ==
  [level |-> game.level,
   at    |-> IF game.round = "none" THEN "waiting"
             ELSE IF game.next = 0 THEN "max"
             ELSE IF now >= game.next THEN "pending" ELSE "active",
   start |-> IF game.next = 0 THEN 0 ELSE game.next - (game.level + 1)]

SaveWrite ==
  /\ save \notin {None, Looking} /\ save' = None
  /\ checkpoint' = [game |-> save, blind |-> GetBlindSnapshot]
  /\ UNCHANGED <<clocks, manager, game, deal, server>>

-----------------------------------------------------------------------------
(* The end of the game, and what is restored of it *)

Forget == /\ manager' = [NewBlindManager EXCEPT !.open = FALSE] /\ game' = NewGame
          /\ warning' = [warning EXCEPT !.sent = {}, !.lost = @ \cup warning.sent]
          /\ deal' = "between" /\ save' = None

\* Close stops the manager before the game's own machine: when the server
\* stops, when the match is over, or when another StartGame replaces the game.
CloseManager ==
  /\ server = "up" /\ save = None /\ server' = "closing"
  /\ manager' = [manager EXCEPT !.open = FALSE]
  /\ UNCHANGED <<clocks, game, deal, save, checkpoint>>

\* It waits for the goroutine of the game's machine, for ever if that waits
\* for an answer of the manager.
CloseGame ==
  /\ server = "closing" /\ deal \in {"between", "betting"} /\ server' = "down"
  /\ Forget /\ UNCHANGED <<now, began, checkpoint>>

Crash ==
  /\ server # "down" /\ server' = "down"
  /\ Forget /\ UNCHANGED <<now, began, checkpoint>>

NothingStarted == checkpoint = None \/ checkpoint.blind.at = "waiting"

\* Restore makes a manager of the snapshot; its machine enters the state.
Restore(blind) ==
  LET m == [NewBlindManager EXCEPT !.level = blind.level, !.start = blind.start]
  IN CASE blind.at = "active"  -> EnterActive(m)
       [] blind.at = "pending" -> EnterPending(m)
       [] OTHER -> manager' = [m EXCEPT !.at = blind.at] /\ UNCHANGED warning

\* Without a checkpoint, or with one of blinds that wait, they begin anew.
Load ==
  /\ server = "down" /\ server' = "up" /\ deal' = "between" /\ save' = None
  /\ IF checkpoint = None
     THEN manager' = NewBlindManager /\ game' = NewGame /\ warning' = NoWarning
     ELSE /\ Restore(checkpoint.blind)
          /\ game' = [round |-> checkpoint.game.round, level |-> checkpoint.game.level,
                      next  |-> checkpoint.game.next,  answer |-> 0]
  /\ began' = IF NothingStarted THEN 0 ELSE began
  /\ UNCHANGED <<now, checkpoint>>

-----------------------------------------------------------------------------
Manager == HandleStart \/ HandleFired \/ HandleApply \/ HandleInfo
Deal    == StartHand \/ SendStart \/ SendApply \/ SendInfo \/ FinishHand
Save    == SaveBegin \/ SaveRead \/ SaveWrite

Next ==
  \/ Tick
  \/ TimerFires
  \/ Manager
  \/ TableWarns
  \/ Deal
  \/ Save
  \/ CloseManager
  \/ CloseGame
  \/ Crash
  \/ Load

\* Machines run, timers fire, and hand follows upon hand (HandIsDriven of
\* Hand.tla, MatchGoesOn of Match.tla).
Fairness == WF_vars(TimerFires) /\ WF_vars(Manager) /\ WF_vars(Deal)

Spec == Init /\ [][Next]_vars /\ Fairness

-----------------------------------------------------------------------------
\* Every variable has its type.
TypeOK ==
  /\ now \in Times /\ now > 0 /\ began \in 0 .. now
  /\ warning \in Warning
  /\ manager \in BlindManager /\ game \in GameBlinds
  /\ deal \in {"between", "betting"} \cup Dealing
  /\ save \in Cached \cup {None, Looking}
  /\ checkpoint \in Checkpoint \cup {None}
  /\ server \in {"up", "closing", "down"}

\* Nobody plays at blinds that are not due: a hand's level is at most the
\* manager's, and that at most the intervals gone by since the first hand of
\* the match, whatever was saved and restored in between (Apply,
\* computeTarget, GetBlindSnapshot, Restore).
NeverAhead ==
  server = "up" => /\ game.level <= manager.level
                   /\ manager.level <= IF began = 0 THEN 0 ELSE now - began

\* An increase is announced before it is played: a notice of a level above
\* that of the hand before has been given to the table, or was dropped because
\* the channel was full or the server stopped.  The level it names may be below
\* the one that is then applied, and the table may not have come to it
\* (blindPending, notifyPending).
Notices(w) == w.sent \cup w.told \cup w.lost
Announced(w, level) == \E l \in Notices(w) : l > level
Increased == deal = "asking" /\ deal' = "betting" /\ game'.level > game.level
IncreaseIsAnnounced == [][Increased => Announced(warning, game.level)]_vars

\* An increase that is due comes into force in a later hand, however its
\* timer, the hands, a save and a restore fall together (blindActive,
\* blindPending, evBlindApply).
Behind == server = "up" /\ began # 0 /\ game.level < Smaller(now - began, Last)
DueIsApplied == Behind ~> ~Behind

\* A hand that has begun is dealt: whatever the manager is doing, it answers
\* both questions, unless the game is being closed (statePreDeal, Apply,
\* GetInfo).
DealIsAnswered == (deal \in Dealing) ~> (deal \notin Dealing \/ server # "up")
=============================================================================
