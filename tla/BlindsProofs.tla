---------------------------- MODULE BlindsProofs ----------------------------
(* Nobody plays at blinds that are not due, and the manager has announced  *)
(* an increase before it is played, for every schedule and every number of *)
(* saves, crashes and restores.                                            *)
EXTENDS Blinds, TLAPS

\* A level that may be in force by now.
Due(level) == level <= IF began = 0 THEN 0 ELSE now - began

\* What the game has cached belongs to the match that began.
OfTheMatch(c) ==
  /\ c.next # 0 => began # 0 /\ c.next = began + c.level + 1
  /\ c.round = "none" => c.next = 0 /\ c.level = 0

ManagerOnTime ==
  /\ Due(manager.level)
  /\ manager.start \in {0, began}
  /\ Increasing(manager) => manager.start = began /\ began # 0
  /\ server # "down" /\ manager.at = "waiting" => began = 0

GameOnTime ==
  /\ OfTheMatch(game)
  /\ game.level <= manager.level
  /\ deal \in {"info", "asking"} => game.answer = manager.level
  /\ deal # "between" => game.round # "none"

\* The game asks one question at a time.
OneQuestion ==
  /\ \A i \in DOMAIN manager.inbox :
       /\ manager.inbox[i] = "apply" => deal = "applying"
       /\ manager.inbox[i] = "info" => deal = "asking"
  /\ \A i, j \in DOMAIN manager.inbox :
       manager.inbox[i] \in {"apply", "info"} /\ manager.inbox[j] = manager.inbox[i] => i = j

SaveOnTime ==
  save \notin {None, Looking} =>
    /\ OfTheMatch(save)
    /\ save.level <= game.level
    /\ game.round = "none" => save.round = "none"

CheckpointOnTime ==
  checkpoint # None =>
    LET blind == checkpoint.blind
    IN /\ OfTheMatch(checkpoint.game)
       /\ Due(blind.level) /\ checkpoint.game.level <= blind.level
       /\ blind.start \in {0, began}
       /\ Increasing(blind) => blind.start = began /\ began # 0
       /\ blind.at = "waiting"
          => blind.level = 0 /\ blind.start = 0 /\ checkpoint.game.next = 0

BlindsInv ==
  /\ TypeOK /\ ManagerOnTime /\ GameOnTime /\ OneQuestion
  /\ SaveOnTime /\ CheckpointOnTime

-----------------------------------------------------------------------------
\* No notice is forgotten.
Kept == Notices(warning) \subseteq Notices(warning')

(* A notice goes to the table or is dropped.                                *)
LEMMA NotifyKeeps ==
  ASSUME TypeOK, NEW level \in Levels, notifyPending(level)
  PROVE  warning' \in Warning /\ Kept /\ level \in Notices(warning')
BY DEF TypeOK, notifyPending, Warning, Kept, Notices

(* Entering a state keeps everything of the manager but the state and its   *)
(* timer.                                                                   *)
LEMMA EnterPendingFields ==
  ASSUME TypeOK, NEW m \in BlindManager, EnterPending(m)
  PROVE  /\ manager' \in BlindManager /\ warning' \in Warning
         /\ manager'.at = "pending"
         /\ manager'.level = m.level /\ manager'.start = m.start
         /\ manager'.inbox = m.inbox
<1>1. m.level \in 0 .. Last /\ m.start \in 0 .. MaxNow /\ now \in 0 .. MaxNow
  BY DEF TypeOK, BlindManager, Levels, Times
<1>2. computeTarget(m) <= Last /\ computeTarget(m) \in Int
  BY <1>1, BlindsAssumption DEF computeTarget, Smaller
<1>3. Smaller(Larger(computeTarget(m), m.level + 1), Last) \in Levels
  BY <1>1, <1>2, BlindsAssumption DEF Smaller, Larger, Levels
<1>4. warning' \in Warning
  BY <1>3, NotifyKeeps DEF EnterPending
<1>5. QED
  BY <1>4 DEF EnterPending, BlindManager, BlindState

LEMMA EnterActiveFields ==
  ASSUME TypeOK, NEW m \in BlindManager, EnterActive(m)
  PROVE  /\ manager' \in BlindManager /\ warning' \in Warning
         /\ manager'.at \in {"active", "pending"}
         /\ manager'.level = m.level /\ manager'.start = m.start
         /\ manager'.inbox = m.inbox
<1>1. CASE now >= nextIncrease(m)
  BY <1>1, EnterPendingFields DEF EnterActive
<1>2. CASE ~(now >= nextIncrease(m))
  BY <1>2 DEF EnterActive, TypeOK, BlindManager, BlindState
<1>3. QED
  BY <1>1, <1>2

(* A manager that has taken its next event keeps the rest of the queue, or *)
(* nothing of it.                                                           *)
LEMMA TakenFields ==
  ASSUME TypeOK, manager.inbox # <<>>, NEW m \in Leave \cup {[manager EXCEPT !.inbox = Tail(@)]}
  PROVE  /\ m \in BlindManager
         /\ m.at = manager.at /\ m.level = manager.level /\ m.start = manager.start
         /\ m.inbox = Tail(manager.inbox) \/ m.inbox = <<>>
<1>1. manager \in BlindManager /\ manager.inbox \in Seq(BlindEvent)
  BY DEF TypeOK, BlindManager
<1>2. Tail(manager.inbox) \in Seq(BlindEvent) /\ <<>> \in Seq(BlindEvent)
  BY <1>1
<1>3. QED
  BY <1>1, <1>2 DEF Leave, Taken, BlindManager

(* What is left of the queue asks nothing that was not asked before.        *)
LEMMA RestOfQueue ==
  ASSUME TypeOK, OneQuestion, manager.inbox # <<>>,
         NEW q, q = Tail(manager.inbox) \/ q = <<>>
  PROVE  /\ \A i \in DOMAIN q :
              /\ q[i] = "apply" => deal = "applying" /\ Head(manager.inbox) # "apply"
              /\ q[i] = "info" => deal = "asking" /\ Head(manager.inbox) # "info"
         /\ \A i, j \in DOMAIN q : q[i] \in {"apply", "info"} /\ q[j] = q[i] => i = j
<1> DEFINE inbox == manager.inbox
<1>1. inbox \in Seq(BlindEvent) /\ Len(inbox) \in Nat /\ Len(inbox) > 0
      /\ DOMAIN inbox = 1 .. Len(inbox)
  BY DEF TypeOK, BlindManager
<1>2. CASE q = <<>>
  BY <1>2
<1>3. CASE q = Tail(inbox)
  <2>1. DOMAIN q = 1 .. Len(inbox) - 1 /\ \A i \in DOMAIN q : q[i] = inbox[i + 1]
    BY <1>1, <1>3
  <2>2. Head(inbox) = inbox[1]
    BY <1>1
  <2>3. \A i \in DOMAIN q : i + 1 \in DOMAIN inbox /\ i + 1 # 1 /\ 1 \in DOMAIN inbox
    BY <1>1, <2>1
  <2>4. ASSUME NEW i \in DOMAIN q
        PROVE  /\ q[i] = "apply" => deal = "applying" /\ Head(inbox) # "apply"
               /\ q[i] = "info" => deal = "asking" /\ Head(inbox) # "info"
    BY <2>1, <2>2, <2>3 DEF OneQuestion
  <2>5. ASSUME NEW i \in DOMAIN q, NEW j \in DOMAIN q,
               q[i] \in {"apply", "info"}, q[j] = q[i]
        PROVE  i = j
    <3>1. i + 1 = j + 1
      BY <2>1, <2>3, <2>5 DEF OneQuestion
    <3>2. QED
      BY <3>1, <1>1, <2>1
  <2>6. QED
    BY <2>4, <2>5
<1>4. QED
  BY <1>2, <1>3

(* The timer's event joins the questions in the queue.                      *)
LEMMA FiredQueue ==
  ASSUME TypeOK, OneQuestion, NEW q, q = Append(manager.inbox, "fired")
  PROVE  /\ q \in Seq(BlindEvent)
         /\ \A i \in DOMAIN q :
              (q[i] = "apply" => deal = "applying") /\ (q[i] = "info" => deal = "asking")
         /\ \A i, j \in DOMAIN q : q[i] \in {"apply", "info"} /\ q[j] = q[i] => i = j
<1> DEFINE inbox == manager.inbox
<1>1. /\ inbox \in Seq(BlindEvent) /\ "fired" \in BlindEvent
      /\ Len(inbox) \in Nat /\ DOMAIN inbox = 1 .. Len(inbox)
  BY DEF TypeOK, BlindManager, BlindEvent
<1>2. /\ q \in Seq(BlindEvent) /\ DOMAIN q = 1 .. Len(inbox) + 1
      /\ \A i \in 1 .. Len(inbox) : q[i] = inbox[i]
      /\ q[Len(inbox) + 1] = "fired"
  BY <1>1
<1>3. \A i \in DOMAIN q : q[i] \in {"apply", "info"} => i \in DOMAIN inbox /\ q[i] = inbox[i]
  BY <1>1, <1>2
<1>4. QED
  BY <1>2, <1>3 DEF OneQuestion

-----------------------------------------------------------------------------
LEMMA InitBlindsInv == Init => BlindsInv
<1> SUFFICES ASSUME Init PROVE BlindsInv
  OBVIOUS
<1>1. TypeOK
  BY BlindsAssumption
  DEF Init, TypeOK, Times, Levels, NewBlindManager, BlindManager, BlindState, NewGame,
      GameBlinds, NextTimes, Warning, NoWarning
<1>2. ManagerOnTime /\ GameOnTime /\ OneQuestion
  BY DEF Init, ManagerOnTime, GameOnTime, OneQuestion, Due, OfTheMatch, Increasing,
         NewBlindManager, NewGame
<1>3. SaveOnTime /\ CheckpointOnTime
  BY DEF Init, SaveOnTime, CheckpointOnTime
<1>4. QED
  BY <1>1, <1>2, <1>3 DEF BlindsInv

(* The clock only makes more levels due.                                    *)
LEMMA TickStep == ASSUME BlindsInv, Tick PROVE BlindsInv'
<1>1. TypeOK'
  BY BlindsAssumption DEF BlindsInv, Tick, TypeOK, Times
<1>2. \A level \in Int : Due(level) => Due(level)'
  BY DEF BlindsInv, TypeOK, Times, Tick, Due
<1>3. ManagerOnTime' /\ GameOnTime' /\ OneQuestion'
  <2>1. manager.level \in Int
    BY DEF BlindsInv, TypeOK, BlindManager, Levels
  <2>2. QED
    BY <1>2, <2>1
    DEF BlindsInv, Tick, ManagerOnTime, GameOnTime, OneQuestion, OfTheMatch, Increasing
<1>4. SaveOnTime'
  BY DEF BlindsInv, Tick, SaveOnTime, OfTheMatch
<1>5. CheckpointOnTime'
  <2>1. checkpoint # None => checkpoint.blind.level \in Int
    BY DEF BlindsInv, TypeOK, Checkpoint, BlindSnapshot, Levels
  <2>2. QED
    BY <1>2, <2>1 DEF BlindsInv, Tick, CheckpointOnTime, OfTheMatch, Increasing
<1>6. QED
  BY <1>1, <1>3, <1>4, <1>5 DEF BlindsInv

(* A step that leaves clock, save and checkpoint alone, and the game unless *)
(* it only learns an answer, concerns the manager only.                      *)
LEMMA SavedUnchanged ==
  ASSUME BlindsInv, UNCHANGED <<now, began, save, checkpoint>>,
         game'.level = game.level, game'.next = game.next, game'.round = game.round
  PROVE  SaveOnTime' /\ CheckpointOnTime' /\ OfTheMatch(game)'
<1>1. SaveOnTime'
  BY DEF BlindsInv, SaveOnTime, OfTheMatch
<1>2. CheckpointOnTime'
  BY DEF BlindsInv, CheckpointOnTime, OfTheMatch, Increasing, Due
<1>3. QED
  BY <1>1, <1>2 DEF BlindsInv, GameOnTime, OfTheMatch

LEMMA TimerFiresStep == ASSUME BlindsInv, TimerFires PROVE BlindsInv'
<1>1. /\ manager' \in BlindManager
      /\ manager'.at = manager.at /\ manager'.level = manager.level
      /\ manager'.start = manager.start
      /\ manager'.inbox \in {manager.inbox, Append(manager.inbox, "fired")}
  <2>1. manager \in BlindManager /\ manager.inbox \in Seq(BlindEvent)
    BY DEF BlindsInv, TypeOK, BlindManager
  <2>2. Append(manager.inbox, "fired") \in Seq(BlindEvent)
    BY <2>1 DEF BlindEvent
  <2>3. QED
    BY <2>1, <2>2 DEF TimerFires, BlindManager
<1>2. UNCHANGED <<clocks, game, deal, save, checkpoint, server>>
  BY DEF TimerFires
<1>3. TypeOK'
  BY <1>1, <1>2 DEF BlindsInv, TypeOK, clocks
<1>4. ManagerOnTime' /\ GameOnTime'
  BY <1>1, <1>2
  DEF BlindsInv, ManagerOnTime, GameOnTime, clocks, Due, Increasing, OfTheMatch
<1>5. OneQuestion'
  <2>1. CASE manager'.inbox = manager.inbox
    BY <2>1, <1>2 DEF BlindsInv, OneQuestion
  <2>2. CASE manager'.inbox = Append(manager.inbox, "fired")
    BY <2>2, <1>2, FiredQueue DEF BlindsInv, OneQuestion
  <2>3. QED
    BY <1>1, <2>1, <2>2
<1>6. SaveOnTime' /\ CheckpointOnTime'
  BY <1>2, SavedUnchanged DEF clocks
<1>7. QED
  BY <1>3, <1>4, <1>5, <1>6 DEF BlindsInv

-----------------------------------------------------------------------------
(* The manager handles an event: its queue shrinks, and the question it      *)
(* answers, if it is one, is asked no more.                                  *)
LEMMA QuestionsAfter ==
  ASSUME BlindsInv, NEW event, Takes(event),
         manager'.inbox = Tail(manager.inbox) \/ manager'.inbox = <<>>,
         \/ event \in {"start", "fired"} /\ deal' = deal
         \/ event \in {"apply", "info"}
  PROVE  OneQuestion' /\ (event = "apply" => deal = "applying")
                      /\ (event = "info" => deal = "asking")
<1>1. manager.inbox # <<>> /\ Head(manager.inbox) = event
  BY DEF Takes
<1>2. manager.inbox \in Seq(BlindEvent)
  BY DEF BlindsInv, TypeOK, BlindManager
<1>3. 1 \in DOMAIN manager.inbox /\ manager.inbox[1] = event
  BY <1>1, <1>2
<1>4. (event = "apply" => deal = "applying") /\ (event = "info" => deal = "asking")
  BY <1>3 DEF BlindsInv, OneQuestion
<1>5. /\ \A i \in DOMAIN manager'.inbox :
           /\ manager'.inbox[i] = "apply" => deal = "applying" /\ event # "apply"
           /\ manager'.inbox[i] = "info" => deal = "asking" /\ event # "info"
      /\ \A i, j \in DOMAIN manager'.inbox :
           manager'.inbox[i] \in {"apply", "info"} /\ manager'.inbox[j] = manager'.inbox[i]
           => i = j
  BY <1>1, RestOfQueue DEF BlindsInv
<1>6. \A i \in DOMAIN manager'.inbox :
        event \in {"apply", "info"} => manager'.inbox[i] \notin {"apply", "info"}
  BY <1>4, <1>5
<1>7. OneQuestion'
  BY <1>5, <1>6 DEF OneQuestion
<1>8. QED
  BY <1>4, <1>7

(* The table tells the players: nothing else changes.                        *)
LEMMA TableWarnsStep ==
  ASSUME BlindsInv, TableWarns
  PROVE  BlindsInv' /\ Kept
<1>1. UNCHANGED <<now, began, manager, game, deal, save, checkpoint, server>>
  BY DEF TableWarns
<1>2. PICK level \in warning.sent :
        warning' = [warning EXCEPT !.sent = @ \ {level}, !.told = @ \cup {level}]
  BY DEF TableWarns
<1>3. warning' \in Warning /\ Kept
  BY <1>2 DEF BlindsInv, TypeOK, Warning, Kept, Notices
<1>4. TypeOK'
  BY <1>1, <1>3 DEF BlindsInv, TypeOK
<1>5. ManagerOnTime' /\ GameOnTime' /\ OneQuestion'
  BY <1>1
  DEF BlindsInv, ManagerOnTime, GameOnTime, OneQuestion, Due, Increasing, OfTheMatch
<1>6. SaveOnTime' /\ CheckpointOnTime'
  BY <1>1, SavedUnchanged
<1>7. QED
  BY <1>3, <1>4, <1>5, <1>6 DEF BlindsInv

LEMMA HandleStartStep == ASSUME BlindsInv, HandleStart PROVE BlindsInv'
<1>1. /\ Takes("start") /\ manager.inbox # <<>> /\ server # "down"
      /\ UNCHANGED <<now, game, deal, save, checkpoint, server>>
  BY DEF HandleStart, Takes
<1>2. CASE manager.at = "waiting"
  <2>1. PICK m \in Leave : EnterActive([m EXCEPT !.start = now])
    BY <1>2 DEF HandleStart
  <2>2. began' = now /\ began = 0
    BY <1>1, <1>2 DEF HandleStart, BlindsInv, ManagerOnTime
  <2>3. /\ m \in BlindManager /\ m.level = manager.level
        /\ m.inbox = Tail(manager.inbox) \/ m.inbox = <<>>
    BY <2>1, <1>1, TakenFields DEF BlindsInv
  <2>4. now \in Times /\ now > 0
    BY DEF BlindsInv, TypeOK
  <2>5. [m EXCEPT !.start = now] \in BlindManager
    BY <2>3, <2>4 DEF BlindManager
  <2>6. /\ manager' \in BlindManager /\ warning' \in Warning
        /\ manager'.at \in {"active", "pending"}
        /\ manager'.level = manager.level /\ manager'.start = now
        /\ manager'.inbox = Tail(manager.inbox) \/ manager'.inbox = <<>>
    BY <2>1, <2>3, <2>5, EnterActiveFields DEF BlindsInv, BlindManager
  <2>7. manager.level \in Nat /\ manager.level <= 0 /\ game.level \in Nat /\ game.next = 0
    BY <2>2 DEF BlindsInv, TypeOK, BlindManager, GameBlinds, Levels, ManagerOnTime,
                GameOnTime, OfTheMatch, Due
  <2>8. TypeOK'
    BY <1>1, <2>2, <2>4, <2>6 DEF BlindsInv, TypeOK, Times
  <2>9. ManagerOnTime' /\ GameOnTime'
    BY <1>1, <2>2, <2>4, <2>6, <2>7
    DEF BlindsInv, ManagerOnTime, GameOnTime, OfTheMatch, Due, Increasing, Times
  <2>10. OneQuestion'
    BY <1>1, <2>6, QuestionsAfter
  <2>11. SaveOnTime'
    BY <1>1, <2>2 DEF BlindsInv, SaveOnTime, OfTheMatch
  <2>12. CheckpointOnTime'
    <3>1. checkpoint # None => checkpoint.blind.level \in Nat /\ checkpoint.blind.start \in Int
      BY DEF BlindsInv, TypeOK, Checkpoint, BlindSnapshot, Levels
    <3>2. QED
      BY <1>1, <2>2, <2>4, <3>1
      DEF BlindsInv, CheckpointOnTime, OfTheMatch, Due, Increasing, Times
  <2>13. QED
    BY <2>8, <2>9, <2>10, <2>11, <2>12 DEF BlindsInv
<1>3. CASE manager.at # "waiting"
  <2>1. /\ manager' = [manager EXCEPT !.inbox = Tail(@)]
        /\ UNCHANGED <<began, warning>>
    BY <1>3 DEF HandleStart
  <2>2. /\ manager' \in BlindManager /\ manager'.at = manager.at
        /\ manager'.level = manager.level /\ manager'.start = manager.start
        /\ manager'.inbox = Tail(manager.inbox) \/ manager'.inbox = <<>>
    BY <1>1, <2>1, TakenFields DEF BlindsInv
  <2>3. TypeOK'
    BY <1>1, <2>1, <2>2 DEF BlindsInv, TypeOK
  <2>4. ManagerOnTime' /\ GameOnTime'
    BY <1>1, <2>1, <2>2
    DEF BlindsInv, ManagerOnTime, GameOnTime, OfTheMatch, Due, Increasing
  <2>5. OneQuestion'
    BY <1>1, <2>2, QuestionsAfter
  <2>6. SaveOnTime' /\ CheckpointOnTime'
    BY <1>1, <2>1, SavedUnchanged
  <2>7. QED
    BY <2>3, <2>4, <2>5, <2>6 DEF BlindsInv
<1>4. QED
  BY <1>2, <1>3

LEMMA HandleFiredStep == ASSUME BlindsInv, HandleFired PROVE BlindsInv'
<1>1. /\ Takes("fired") /\ manager.inbox # <<>> /\ server # "down"
      /\ UNCHANGED <<now, began, game, deal, save, checkpoint, server>>
  BY DEF HandleFired, Takes
<1>2. /\ manager' \in BlindManager /\ warning' \in Warning
      /\ manager'.level = manager.level /\ manager'.start = manager.start
      /\ manager'.inbox = Tail(manager.inbox) \/ manager'.inbox = <<>>
      /\ \/ manager'.at = manager.at
         \/ manager.at = "active" /\ manager'.at = "pending"
  <2>1. CASE manager.at = "active"
    <3>1. PICK m \in Leave : EnterPending(m)
      BY <2>1 DEF HandleFired
    <3>2. m \in BlindManager /\ m.level = manager.level /\ m.start = manager.start
          /\ (m.inbox = Tail(manager.inbox) \/ m.inbox = <<>>)
      BY <3>1, <1>1, TakenFields DEF BlindsInv
    <3>3. QED
      BY <2>1, <3>1, <3>2, EnterPendingFields DEF BlindsInv
  <2>2. CASE manager.at # "active"
    <3>1. manager' = [manager EXCEPT !.inbox = Tail(@)] /\ warning' = warning
      BY <2>2 DEF HandleFired
    <3>2. QED
      BY <1>1, <3>1, TakenFields DEF BlindsInv, TypeOK
  <2>3. QED
    BY <2>1, <2>2
<1>3. TypeOK'
  BY <1>1, <1>2 DEF BlindsInv, TypeOK
<1>4. ManagerOnTime' /\ GameOnTime'
  BY <1>1, <1>2
  DEF BlindsInv, ManagerOnTime, GameOnTime, OfTheMatch, Due, Increasing
<1>5. OneQuestion'
  BY <1>1, <1>2, QuestionsAfter
<1>6. SaveOnTime' /\ CheckpointOnTime'
  BY <1>1, SavedUnchanged
<1>7. QED
  BY <1>3, <1>4, <1>5, <1>6 DEF BlindsInv

LEMMA HandleApplyStep == ASSUME BlindsInv, HandleApply PROVE BlindsInv'
<1> DEFINE level == Larger(computeTarget(manager), manager.level)
<1>1. /\ Takes("apply") /\ manager.inbox # <<>> /\ server # "down" /\ deal' = "info"
      /\ UNCHANGED <<now, began, save, checkpoint, server>>
  BY DEF HandleApply, Takes
<1>2. /\ now \in Nat /\ began \in 0 .. now /\ manager.level \in Levels
      /\ manager.start \in Times /\ game.level \in Levels
  BY DEF BlindsInv, TypeOK, BlindManager, GameBlinds, Times
<1>3. ASSUME manager.at = "pending"
      PROVE  level \in Levels /\ level >= manager.level /\ Due(level)
  <2>1. manager.start = began /\ began # 0
    BY <1>3 DEF BlindsInv, ManagerOnTime, Increasing
  <2>2. manager.level <= now - began
    BY <2>1 DEF BlindsInv, ManagerOnTime, Due
  <2>3. QED
    BY <1>2, <2>1, <2>2, BlindsAssumption
    DEF Larger, Smaller, computeTarget, Levels, Due
<1>4. /\ manager' \in BlindManager /\ warning' \in Warning
      /\ manager'.level \in Levels /\ manager'.level >= manager.level
      /\ Due(manager'.level) /\ manager'.start = manager.start
      /\ manager'.inbox = Tail(manager.inbox) \/ manager'.inbox = <<>>
      /\ \/ manager'.at = manager.at
         \/ manager.at = "pending" /\ manager'.at # "waiting"
      /\ game' = [game EXCEPT !.answer = manager'.level]
  <2>1. CASE manager.at = "pending"
    <3>1. game' = [game EXCEPT !.answer = level]
      BY <2>1 DEF HandleApply
    <3>2. CASE level >= Last
      <4>1. PICK m \in Leave : manager' = [m EXCEPT !.level = level, !.at = "max"]
                               /\ warning' = warning
        BY <2>1, <3>2 DEF HandleApply
      <4>2. /\ m \in BlindManager /\ m.start = manager.start
            /\ m.inbox = Tail(manager.inbox) \/ m.inbox = <<>>
        BY <4>1, <1>1, TakenFields DEF BlindsInv
      <4>3. warning' \in Warning
        BY <4>1 DEF BlindsInv, TypeOK
      <4>4. QED
        BY <2>1, <1>3, <3>1, <4>1, <4>2, <4>3 DEF BlindManager, BlindState
    <3>3. CASE ~(level >= Last)
      <4>1. PICK m \in Leave : EnterActive([m EXCEPT !.level = level])
        BY <2>1, <3>3 DEF HandleApply
      <4>2. /\ m \in BlindManager /\ m.start = manager.start
            /\ m.inbox = Tail(manager.inbox) \/ m.inbox = <<>>
        BY <4>1, <1>1, TakenFields DEF BlindsInv
      <4>3. [m EXCEPT !.level = level] \in BlindManager
        BY <4>2, <2>1, <1>3 DEF BlindManager
      <4>4. /\ manager' \in BlindManager /\ warning' \in Warning
            /\ manager'.at \in {"active", "pending"}
            /\ manager'.level = level /\ manager'.start = m.start
            /\ manager'.inbox = m.inbox
        BY <4>1, <4>2, <4>3, EnterActiveFields DEF BlindsInv, BlindManager
      <4>5. QED
        BY <2>1, <1>3, <3>1, <4>2, <4>4
    <3>4. QED
      BY <3>2, <3>3
  <2>2. CASE manager.at # "pending"
    <3>1. /\ game' = [game EXCEPT !.answer = manager.level]
          /\ manager' = [manager EXCEPT !.inbox = Tail(@)] /\ warning' = warning
      BY <2>2 DEF HandleApply
    <3>2. Due(manager.level) /\ warning \in Warning /\ manager.level >= manager.level
      BY <1>2 DEF BlindsInv, ManagerOnTime, TypeOK, Levels
    <3>3. QED
      BY <1>1, <1>2, <3>1, <3>2, TakenFields DEF BlindsInv
  <2>3. QED
    BY <2>1, <2>2
<1>5. /\ game' \in GameBlinds /\ game'.level = game.level /\ game'.next = game.next
      /\ game'.round = game.round /\ game'.answer = manager'.level
  BY <1>4 DEF BlindsInv, TypeOK, GameBlinds
<1>6. TypeOK'
  BY <1>1, <1>4, <1>5 DEF BlindsInv, TypeOK, Dealing
<1>7. SaveOnTime' /\ CheckpointOnTime' /\ OfTheMatch(game)'
  BY <1>1, <1>5, SavedUnchanged
<1>8. ManagerOnTime'
  BY <1>1, <1>4 DEF BlindsInv, ManagerOnTime, Due, Increasing
<1>9. OneQuestion' /\ deal = "applying"
  BY <1>1, <1>4, QuestionsAfter
<1>10. GameOnTime'
  BY <1>2, <1>4, <1>5, <1>7, <1>9 DEF BlindsInv, GameOnTime, Levels
<1>11. QED
  BY <1>6, <1>7, <1>8, <1>9, <1>10 DEF BlindsInv

LEMMA HandleInfoStep == ASSUME BlindsInv, HandleInfo PROVE BlindsInv'
<1>1. /\ Takes("info") /\ manager.inbox # <<>> /\ server # "down" /\ deal' = "betting"
      /\ manager' = [manager EXCEPT !.inbox = Tail(@)]
      /\ UNCHANGED <<now, began, warning, save, checkpoint, server>>
      /\ game' = [game EXCEPT !.level = game.answer,
                    !.next = IF Increasing(manager) THEN nextIncrease(manager) ELSE 0]
  BY DEF HandleInfo, Takes
<1>2. /\ manager' \in BlindManager /\ manager'.at = manager.at
      /\ manager'.level = manager.level /\ manager'.start = manager.start
      /\ manager'.inbox = Tail(manager.inbox) \/ manager'.inbox = <<>>
  BY <1>1, TakenFields DEF BlindsInv
<1>3. OneQuestion' /\ deal = "asking"
  BY <1>1, <1>2, QuestionsAfter
<1>4. game.answer = manager.level /\ manager.level \in Levels /\ manager.start \in Times
  BY <1>3 DEF BlindsInv, GameOnTime, TypeOK, BlindManager
<1>5. /\ game' \in GameBlinds /\ game'.level = manager.level /\ game'.round = game.round
      /\ game'.next = IF Increasing(manager) THEN nextIncrease(manager) ELSE 0
  <2>1. nextIncrease(manager) \in NextTimes
    BY <1>4, BlindsAssumption DEF nextIncrease, Levels, Times, NextTimes
  <2>2. 0 \in NextTimes
    BY BlindsAssumption DEF NextTimes
  <2>3. QED
    BY <1>1, <1>4, <2>1, <2>2 DEF BlindsInv, TypeOK, GameBlinds
<1>6. TypeOK'
  BY <1>1, <1>2, <1>4, <1>5 DEF BlindsInv, TypeOK
<1>7. ManagerOnTime'
  BY <1>1, <1>2 DEF BlindsInv, ManagerOnTime, Due, Increasing
<1>8. GameOnTime'
  BY <1>1, <1>2, <1>3, <1>4, <1>5
  DEF BlindsInv, ManagerOnTime, GameOnTime, OfTheMatch, nextIncrease, Levels
<1>9. SaveOnTime'
  <2>1. game.level <= manager.level /\ game.level \in Int
    BY DEF BlindsInv, GameOnTime, TypeOK, GameBlinds, Levels
  <2>2. save \notin {None, Looking} => save.level \in Int
    BY DEF BlindsInv, TypeOK, Cached, Levels
  <2>3. QED
    BY <1>1, <1>4, <1>5, <2>1, <2>2 DEF BlindsInv, SaveOnTime, OfTheMatch, Levels
<1>10. CheckpointOnTime'
  BY <1>1 DEF BlindsInv, CheckpointOnTime, OfTheMatch, Increasing, Due
<1>11. QED
  BY <1>3, <1>6, <1>7, <1>8, <1>9, <1>10 DEF BlindsInv

-----------------------------------------------------------------------------
(* The game begins and ends hands and asks its questions.                    *)
LEMMA StartHandStep == ASSUME BlindsInv, StartHand PROVE BlindsInv'
<1>1. /\ deal = "between" /\ deal' \in {"start", "apply"}
      /\ game' = [game EXCEPT !.round = IF @ = "none" THEN "first" ELSE "later"]
      /\ UNCHANGED <<clocks, manager, save, checkpoint, server>>
  BY DEF StartHand
<1>2. /\ game' \in GameBlinds /\ game'.level = game.level /\ game'.next = game.next
      /\ game'.answer = game.answer /\ game'.round # "none"
  BY <1>1 DEF BlindsInv, TypeOK, GameBlinds
<1>3. TypeOK'
  BY <1>1, <1>2 DEF BlindsInv, TypeOK, clocks, Dealing
<1>4. ManagerOnTime'
  BY <1>1 DEF BlindsInv, ManagerOnTime, clocks, Due, Increasing
<1>5. GameOnTime'
  BY <1>1, <1>2 DEF BlindsInv, GameOnTime, OfTheMatch, clocks
<1>6. OneQuestion'
  BY <1>1 DEF BlindsInv, OneQuestion
<1>7. SaveOnTime'
  BY <1>1, <1>2 DEF BlindsInv, SaveOnTime, OfTheMatch, clocks
<1>8. CheckpointOnTime'
  BY <1>1 DEF BlindsInv, CheckpointOnTime, OfTheMatch, Increasing, Due, clocks
<1>9. QED
  BY <1>3, <1>4, <1>5, <1>6, <1>7, <1>8 DEF BlindsInv

LEMMA AsksStep ==
  ASSUME BlindsInv, SendStart \/ SendApply \/ SendInfo
  PROVE  BlindsInv'
<1>1. PICK event \in {"start", "apply", "info"} :
        /\ \/ event = "start" /\ deal = "start" /\ deal' = "apply"
           \/ event = "apply" /\ deal = "apply" /\ deal' = "applying"
           \/ event = "info" /\ deal = "info" /\ deal' = "asking"
        /\ manager' = IF manager.open THEN [manager EXCEPT !.inbox = Append(@, event)]
                      ELSE manager
        /\ UNCHANGED <<clocks, game, save, checkpoint, server>>
  BY DEF SendStart, SendApply, SendInfo, Asks
<1>2. manager \in BlindManager /\ manager.inbox \in Seq(BlindEvent) /\ event \in BlindEvent
  BY <1>1 DEF BlindsInv, TypeOK, BlindManager, BlindEvent
<1>3. /\ manager' \in BlindManager /\ manager'.at = manager.at
      /\ manager'.level = manager.level /\ manager'.start = manager.start
      /\ manager'.inbox \in {manager.inbox, Append(manager.inbox, event)}
  <2>1. Append(manager.inbox, event) \in Seq(BlindEvent)
    BY <1>2
  <2>2. CASE manager.open
    BY <2>1, <2>2, <1>1, <1>2 DEF BlindManager
  <2>3. CASE ~manager.open
    BY <2>3, <1>1, <1>2
  <2>4. QED
    BY <2>2, <2>3
<1>4. TypeOK'
  BY <1>1, <1>3 DEF BlindsInv, TypeOK, clocks, Dealing
<1>5. ManagerOnTime' /\ GameOnTime'
  BY <1>1, <1>3
  DEF BlindsInv, ManagerOnTime, GameOnTime, clocks, Due, Increasing, OfTheMatch
<1>6. OneQuestion'
  <2>1. \A i \in DOMAIN manager.inbox : manager.inbox[i] \notin {"apply", "info"}
    BY <1>1 DEF BlindsInv, OneQuestion
  <2>2. CASE manager'.inbox = manager.inbox
    BY <2>1, <2>2 DEF OneQuestion
  <2>3. CASE manager'.inbox = Append(manager.inbox, event)
    <3>1. /\ Len(manager.inbox) \in Nat
          /\ DOMAIN manager.inbox = 1 .. Len(manager.inbox)
          /\ DOMAIN manager'.inbox = 1 .. Len(manager.inbox) + 1
          /\ \A i \in 1 .. Len(manager.inbox) : manager'.inbox[i] = manager.inbox[i]
          /\ manager'.inbox[Len(manager.inbox) + 1] = event
      BY <1>2, <2>3
    <3>2. \A i \in DOMAIN manager'.inbox :
            manager'.inbox[i] \in {"apply", "info"} => i = Len(manager.inbox) + 1
      BY <2>1, <3>1
    <3>3. QED
      BY <1>1, <3>1, <3>2 DEF OneQuestion
  <2>4. QED
    BY <1>3, <2>2, <2>3
<1>7. SaveOnTime' /\ CheckpointOnTime'
  BY <1>1, SavedUnchanged DEF clocks
<1>8. QED
  BY <1>4, <1>5, <1>6, <1>7 DEF BlindsInv

LEMMA FinishHandStep == ASSUME BlindsInv, FinishHand PROVE BlindsInv'
<1>1. /\ deal = "betting" /\ deal' = "between"
      /\ UNCHANGED <<clocks, manager, game, save, checkpoint, server>>
  BY DEF FinishHand
<1>2. TypeOK'
  BY <1>1 DEF BlindsInv, TypeOK, clocks
<1>3. ManagerOnTime' /\ GameOnTime'
  BY <1>1 DEF BlindsInv, ManagerOnTime, GameOnTime, clocks, Due, Increasing, OfTheMatch
<1>4. OneQuestion'
  BY <1>1 DEF BlindsInv, OneQuestion
<1>5. SaveOnTime' /\ CheckpointOnTime'
  BY <1>1, SavedUnchanged DEF clocks
<1>6. QED
  BY <1>2, <1>3, <1>4, <1>5 DEF BlindsInv

-----------------------------------------------------------------------------
(* The saves read what the game has cached.                                  *)
LEMMA SaveBeginStep == ASSUME BlindsInv, SaveBegin PROVE BlindsInv'
<1>1. /\ save' = Looking
      /\ UNCHANGED <<clocks, manager, game, deal, checkpoint, server>>
  BY DEF SaveBegin
<1>2. TypeOK'
  BY <1>1 DEF BlindsInv, TypeOK, clocks
<1>3. ManagerOnTime' /\ GameOnTime' /\ OneQuestion'
  BY <1>1
  DEF BlindsInv, ManagerOnTime, GameOnTime, OneQuestion, clocks, Due, Increasing, OfTheMatch
<1>4. SaveOnTime' /\ CheckpointOnTime'
  BY <1>1
  DEF BlindsInv, SaveOnTime, CheckpointOnTime, clocks, Due, Increasing, OfTheMatch
<1>5. QED
  BY <1>2, <1>3, <1>4 DEF BlindsInv

LEMMA SaveReadStep == ASSUME BlindsInv, SaveRead PROVE BlindsInv'
<1>1. /\ save' = [round |-> game.round, level |-> game.level, next |-> game.next]
      /\ UNCHANGED <<clocks, manager, game, deal, checkpoint, server>>
  BY DEF SaveRead
<1>2. save' \in Cached /\ game.level \in Int
  BY <1>1 DEF BlindsInv, TypeOK, GameBlinds, Cached, Levels
<1>3. TypeOK'
  BY <1>1, <1>2 DEF BlindsInv, TypeOK, clocks
<1>4. ManagerOnTime' /\ GameOnTime' /\ OneQuestion'
  BY <1>1
  DEF BlindsInv, ManagerOnTime, GameOnTime, OneQuestion, clocks, Due, Increasing, OfTheMatch
<1>5. SaveOnTime'
  BY <1>1, <1>2 DEF BlindsInv, GameOnTime, SaveOnTime, OfTheMatch, clocks
<1>6. CheckpointOnTime'
  BY <1>1 DEF BlindsInv, CheckpointOnTime, clocks, Due, Increasing, OfTheMatch
<1>7. QED
  BY <1>3, <1>4, <1>5, <1>6 DEF BlindsInv

(* What GetBlindSnapshot makes of the game.                                  *)
LEMMA SnapshotFields ==
  ASSUME game.level \in Levels, game.next \in NextTimes
  PROVE  /\ GetBlindSnapshot \in BlindSnapshot
         /\ GetBlindSnapshot.level = game.level
         /\ GetBlindSnapshot.start
              = IF game.next = 0 THEN 0 ELSE game.next - (game.level + 1)
         /\ Increasing(GetBlindSnapshot) => game.next # 0
         /\ GetBlindSnapshot.at = "waiting" => game.round = "none"
<1> DEFINE at == IF game.round = "none" THEN "waiting"
                 ELSE IF game.next = 0 THEN "max"
                 ELSE IF now >= game.next THEN "pending" ELSE "active"
           start == IF game.next = 0 THEN 0 ELSE game.next - (game.level + 1)
<1>1. /\ at \in BlindState
      /\ at \in {"active", "pending"} => game.next # 0
      /\ at = "waiting" => game.round = "none"
  BY DEF BlindState
<1>2. start \in Int
  BY DEF Levels, NextTimes
<1>3. GetBlindSnapshot = [level |-> game.level, at |-> at, start |-> start]
  BY DEF GetBlindSnapshot
<1> HIDE DEF at, start
<1>4. QED
  BY <1>1, <1>2, <1>3 DEF BlindSnapshot, Increasing, start

LEMMA SaveWriteStep == ASSUME BlindsInv, SaveWrite PROVE BlindsInv'
<1> DEFINE blind == GetBlindSnapshot
<1>1. /\ save \notin {None, Looking} /\ save' = None
      /\ checkpoint' = [game |-> save, blind |-> blind]
      /\ UNCHANGED <<clocks, manager, game, deal, server>>
  BY DEF SaveWrite
<1>2. /\ save \in Cached /\ game.level \in Levels /\ game.next \in NextTimes
      /\ save.level \in Int /\ game.level \in Int /\ manager.level \in Int
      /\ now \in Int /\ began \in Int
  BY <1>1 DEF BlindsInv, TypeOK, GameBlinds, BlindManager, Cached, Levels, Times
<1>3. /\ blind \in BlindSnapshot
      /\ blind.level = game.level
      /\ blind.start = IF game.next = 0 THEN 0 ELSE game.next - (game.level + 1)
      /\ Increasing(blind) => game.next # 0
      /\ blind.at = "waiting" => game.round = "none"
  BY <1>2, SnapshotFields
<1>4. TypeOK'
  <2>1. checkpoint' \in Checkpoint
    BY <1>1, <1>2, <1>3 DEF Checkpoint
  <2>2. QED
    BY <1>1, <2>1 DEF BlindsInv, TypeOK, clocks
<1>5. ManagerOnTime' /\ GameOnTime' /\ OneQuestion'
  BY <1>1
  DEF BlindsInv, ManagerOnTime, GameOnTime, OneQuestion, clocks, Due, Increasing, OfTheMatch
<1>6. SaveOnTime'
  BY <1>1 DEF SaveOnTime
<1>7. CheckpointOnTime'
  <2>1. OfTheMatch(save) /\ save.level <= game.level /\ OfTheMatch(game)
        /\ (game.round = "none" => save.round = "none")
    BY <1>1 DEF BlindsInv, SaveOnTime, GameOnTime
  <2>2. Due(game.level)
    BY <1>2 DEF BlindsInv, ManagerOnTime, GameOnTime, Due
  <2>3. blind.start \in {0, began} /\ (Increasing(blind) => blind.start = began /\ began # 0)
    BY <1>2, <1>3, <2>1 DEF OfTheMatch
  <2>4. blind.at = "waiting" => blind.level = 0 /\ blind.start = 0 /\ save.next = 0
    BY <1>3, <2>1 DEF OfTheMatch
  <2>5. checkpoint'.game = save /\ checkpoint'.blind = blind
    BY <1>1
  <2>6. now' = now /\ began' = began
    BY <1>1 DEF clocks
  <2> HIDE DEF blind
  <2>7. QED
    BY <1>3, <2>1, <2>2, <2>3, <2>4, <2>5, <2>6
    DEF CheckpointOnTime, OfTheMatch, Due, Increasing
<1>8. QED
  BY <1>4, <1>5, <1>6, <1>7 DEF BlindsInv

-----------------------------------------------------------------------------
(* The game ends, and comes back.                                            *)
LEMMA NewFields ==
  /\ NewBlindManager \in BlindManager /\ NewBlindManager.at = "waiting"
  /\ NewBlindManager.level = 0 /\ NewBlindManager.start = 0 /\ NewBlindManager.inbox = <<>>
  /\ NewGame \in GameBlinds /\ NewGame.round = "none"
  /\ NewGame.level = 0 /\ NewGame.next = 0
<1>1. 0 \in Levels /\ 0 \in Times /\ 0 \in NextTimes /\ "waiting" \in BlindState
  BY BlindsAssumption DEF Levels, Times, NextTimes, BlindState
<1>2. <<>> \in Seq(BlindEvent)
  OBVIOUS
<1>3. QED
  BY <1>1, <1>2 DEF NewBlindManager, BlindManager, NewGame, GameBlinds

LEMMA CloseManagerStep == ASSUME BlindsInv, CloseManager PROVE BlindsInv'
<1>1. /\ server = "up" /\ server' = "closing"
      /\ manager' = [manager EXCEPT !.open = FALSE]
      /\ UNCHANGED <<clocks, game, deal, save, checkpoint>>
  BY DEF CloseManager
<1>2. /\ manager' \in BlindManager /\ manager'.at = manager.at
      /\ manager'.level = manager.level /\ manager'.start = manager.start
      /\ manager'.inbox = manager.inbox
  BY <1>1 DEF BlindsInv, TypeOK, BlindManager
<1>3. TypeOK'
  BY <1>1, <1>2 DEF BlindsInv, TypeOK, clocks
<1>4. ManagerOnTime' /\ GameOnTime' /\ OneQuestion'
  BY <1>1, <1>2
  DEF BlindsInv, ManagerOnTime, GameOnTime, OneQuestion, clocks, Due, Increasing, OfTheMatch
<1>5. SaveOnTime' /\ CheckpointOnTime'
  BY <1>1, SavedUnchanged DEF clocks
<1>6. QED
  BY <1>3, <1>4, <1>5 DEF BlindsInv

LEMMA ForgetStep == ASSUME BlindsInv, CloseGame \/ Crash PROVE BlindsInv'
<1>1. /\ server' = "down" /\ UNCHANGED <<now, began, checkpoint>>
      /\ warning' = [warning EXCEPT !.sent = {}, !.lost = @ \cup warning.sent]
      /\ manager' = [NewBlindManager EXCEPT !.open = FALSE] /\ game' = NewGame
      /\ deal' = "between" /\ save' = None
  BY DEF CloseGame, Crash, Forget
<1>2. /\ manager' \in BlindManager /\ manager'.at = "waiting" /\ manager'.level = 0
      /\ manager'.start = 0 /\ manager'.inbox = <<>>
      /\ game' \in GameBlinds /\ game'.round = "none"
      /\ game'.level = 0 /\ game'.next = 0
  BY <1>1, NewFields DEF BlindManager
<1>3. TypeOK'
  BY <1>1, <1>2 DEF BlindsInv, TypeOK, Warning
<1>4. ManagerOnTime'
  <2>1. now \in Int /\ began \in 0 .. now
    BY DEF BlindsInv, TypeOK, Times
  <2>2. QED
    BY <1>1, <1>2, <2>1 DEF ManagerOnTime, Due, Increasing
<1>5. GameOnTime' /\ OneQuestion' /\ SaveOnTime'
  BY <1>1, <1>2 DEF GameOnTime, OneQuestion, SaveOnTime, OfTheMatch
<1>6. CheckpointOnTime'
  BY <1>1 DEF BlindsInv, CheckpointOnTime, Due, Increasing, OfTheMatch
<1>7. QED
  BY <1>3, <1>4, <1>5, <1>6 DEF BlindsInv

(* The restored manager is the saved one in a state of the snapshot; its     *)
(* blinds are due already.                                                   *)
LEMMA RestoreFields ==
  ASSUME TypeOK, checkpoint # None, Restore(checkpoint.blind),
         checkpoint.blind.start \in Times
  PROVE  /\ manager' \in BlindManager /\ warning' \in Warning
         /\ manager'.level = checkpoint.blind.level
         /\ manager'.start = checkpoint.blind.start
         /\ manager'.inbox = <<>>
         /\ manager'.at = "waiting" => checkpoint.blind.at = "waiting"
         /\ Increasing(manager)' => Increasing(checkpoint.blind)
<1> DEFINE blind == checkpoint.blind
           m == [NewBlindManager EXCEPT !.level = blind.level, !.start = blind.start]
<1>1. blind.level \in Levels /\ blind.at \in BlindState /\ warning \in Warning
  BY DEF TypeOK, Checkpoint, BlindSnapshot
<1>2. /\ m \in BlindManager /\ m.level = blind.level /\ m.start = blind.start
      /\ m.inbox = <<>>
  BY <1>1, NewFields DEF BlindManager
<1>3. /\ blind.at = "active" => EnterActive(m)
      /\ blind.at = "pending" => EnterPending(m)
      /\ blind.at \notin {"active", "pending"}
         => manager' = [m EXCEPT !.at = blind.at] /\ warning' = warning
  BY DEF Restore
<1> HIDE DEF m
<1>4. CASE blind.at = "active"
  BY <1>2, <1>3, <1>4, EnterActiveFields DEF Increasing
<1>5. CASE blind.at = "pending"
  BY <1>2, <1>3, <1>5, EnterPendingFields DEF Increasing
<1>6. CASE blind.at \notin {"active", "pending"}
  BY <1>1, <1>2, <1>3, <1>6 DEF Increasing, BlindManager
<1>7. QED
  BY <1>4, <1>5, <1>6

LEMMA LoadStep == ASSUME BlindsInv, Load PROVE BlindsInv'
<1>1. /\ server' = "up" /\ deal' = "between" /\ save' = None
      /\ UNCHANGED <<now, checkpoint>>
      /\ began' = IF NothingStarted THEN 0 ELSE began
  BY DEF Load
<1>2. /\ now \in Times /\ now > 0 /\ began \in 0 .. now /\ 0 \in Levels
      /\ began' \in 0 .. now
  BY <1>1, BlindsAssumption DEF BlindsInv, TypeOK, Times, Levels
<1>3. CASE checkpoint = None
  <2>1. /\ manager' = NewBlindManager /\ game' = NewGame /\ warning' = NoWarning
        /\ began' = 0
    BY <1>1, <1>3 DEF Load, NothingStarted
  <2>2. TypeOK'
    BY <1>1, <1>2, <2>1, NewFields DEF BlindsInv, TypeOK, Warning, NoWarning
  <2>3. ManagerOnTime' /\ GameOnTime' /\ OneQuestion'
    BY <1>1, <2>1, NewFields
    DEF ManagerOnTime, GameOnTime, OneQuestion, Due, OfTheMatch, Increasing
  <2>4. SaveOnTime' /\ CheckpointOnTime'
    BY <1>1, <1>3 DEF SaveOnTime, CheckpointOnTime
  <2>5. QED
    BY <2>2, <2>3, <2>4 DEF BlindsInv
<1>4. CASE checkpoint # None
  <2> DEFINE blind == checkpoint.blind
             saved == checkpoint.game
  <2>1. /\ Restore(blind)
        /\ game' = [round |-> saved.round, level |-> saved.level,
                    next  |-> saved.next,  answer |-> 0]
    BY <1>4 DEF Load
  <2>2. /\ saved \in Cached /\ blind \in BlindSnapshot
        /\ saved.level \in Int /\ blind.level \in Int
    BY <1>4 DEF BlindsInv, TypeOK, Checkpoint, Cached, BlindSnapshot, Levels
  <2>3. /\ OfTheMatch(saved) /\ Due(blind.level) /\ saved.level <= blind.level
        /\ blind.start \in {0, began}
        /\ Increasing(blind) => blind.start = began /\ began # 0
        /\ blind.at = "waiting" => blind.level = 0 /\ blind.start = 0 /\ saved.next = 0
    BY <1>4 DEF BlindsInv, CheckpointOnTime
  <2>4. blind.start \in Times
    BY <1>2, <2>3, BlindsAssumption DEF Times
  <2>5. /\ manager' \in BlindManager /\ warning' \in Warning
        /\ manager'.level = blind.level /\ manager'.start = blind.start
        /\ manager'.inbox = <<>>
        /\ manager'.at = "waiting" => blind.at = "waiting"
        /\ Increasing(manager)' => Increasing(blind)
    BY <1>4, <2>1, <2>4, RestoreFields DEF BlindsInv
  <2>6. /\ game' \in GameBlinds /\ game'.level = saved.level /\ game'.next = saved.next
        /\ game'.round = saved.round
    BY <1>2, <2>1, <2>2 DEF GameBlinds, Cached
  <2>7. TypeOK'
    BY <1>1, <1>2, <2>5, <2>6 DEF BlindsInv, TypeOK
  <2>8. OneQuestion' /\ SaveOnTime'
    BY <1>1, <2>5 DEF OneQuestion, SaveOnTime
  <2>9. /\ OfTheMatch(saved)' /\ Due(blind.level)' /\ blind.start \in {0, began'}
        /\ Increasing(blind) => blind.start = began' /\ began' # 0
        /\ blind.at = "waiting" => began' = 0
    <3>1. CASE blind.at = "waiting"
      <4>1. began' = 0 /\ checkpoint' = checkpoint
        BY <1>1, <3>1 DEF NothingStarted
      <4>2. QED
        BY <3>1, <4>1, <2>3 DEF OfTheMatch, Due, Increasing
    <3>2. CASE blind.at # "waiting"
      <4>1. began' = began /\ now' = now /\ checkpoint' = checkpoint
        BY <1>1, <1>4, <3>2 DEF NothingStarted
      <4>2. QED
        BY <3>2, <4>1, <2>3 DEF OfTheMatch, Due, Increasing
    <3>3. QED
      BY <3>1, <3>2
  <2>10. checkpoint' = checkpoint
    BY <1>1
  <2>11. ManagerOnTime' /\ GameOnTime'
    BY <1>1, <2>3, <2>5, <2>6, <2>9, <2>10
    DEF ManagerOnTime, GameOnTime, OfTheMatch, Due
  <2>12. CheckpointOnTime'
    BY <1>4, <2>3, <2>9, <2>10 DEF CheckpointOnTime, OfTheMatch, Due, Increasing
  <2>13. QED
    BY <2>7, <2>8, <2>11, <2>12 DEF BlindsInv
<1>5. QED
  BY <1>3, <1>4

-----------------------------------------------------------------------------
LEMMA BlindsInvNext == BlindsInv /\ [Next]_vars => BlindsInv'
<1> SUFFICES ASSUME BlindsInv, [Next]_vars PROVE BlindsInv'
  OBVIOUS
<1>1. CASE Tick
  BY <1>1, TickStep
<1>2. CASE TimerFires
  BY <1>2, TimerFiresStep
<1>3. CASE Manager
  BY <1>3, HandleStartStep, HandleFiredStep, HandleApplyStep, HandleInfoStep DEF Manager
<1>4. CASE Deal
  BY <1>4, StartHandStep, AsksStep, FinishHandStep DEF Deal
<1>5. CASE Save
  BY <1>5, SaveBeginStep, SaveReadStep, SaveWriteStep DEF Save
<1>6. CASE CloseManager
  BY <1>6, CloseManagerStep
<1>7. CASE CloseGame \/ Crash
  BY <1>7, ForgetStep
<1>8. CASE Load
  BY <1>8, LoadStep
<1>9. CASE TableWarns
  BY <1>9, TableWarnsStep
<1>10. CASE UNCHANGED vars
  <2>1. UNCHANGED <<now, began, warning, manager, game, deal, save, checkpoint,
                    server>>
    BY <1>10 DEF vars, clocks
  <2>2. TypeOK'
    BY <2>1 DEF BlindsInv, TypeOK
  <2>3. ManagerOnTime' /\ GameOnTime' /\ OneQuestion'
    BY <2>1
    DEF BlindsInv, ManagerOnTime, GameOnTime, OneQuestion, Due, Increasing, OfTheMatch
  <2>4. SaveOnTime' /\ CheckpointOnTime'
    BY <2>1 DEF BlindsInv, SaveOnTime, CheckpointOnTime, Due, Increasing, OfTheMatch
  <2>5. QED
    BY <2>2, <2>3, <2>4 DEF BlindsInv
<1>11. QED
  BY <1>1, <1>2, <1>3, <1>4, <1>5, <1>6, <1>7, <1>8, <1>9, <1>10 DEF Next

\* The invariant holds for every schedule, clock and number of saves, crashes
\* and restores: what the manager, the game, a save in progress and the
\* checkpoint say of the blinds always belongs to one match and one start, and
\* the manager's queue never holds an answered question (blind_manager.go,
\* GetBlindSnapshot, Restore).
THEOREM BlindsInvariant == Spec => []BlindsInv
<1>1. Init => BlindsInv
  BY InitBlindsInv
<1>2. BlindsInv /\ [Next]_vars => BlindsInv'
  BY BlindsInvNext
<1>3. QED
  BY <1>1, <1>2, PTL DEF Spec

\* Every variable has its type; above all, a level restored or computed is a
\* level of the schedule, and what is in the manager's queue is an event.
THEOREM BlindsTypeCorrect == Spec => []TypeOK
<1>1. BlindsInv => TypeOK
  BY DEF BlindsInv
<1>2. QED
  BY <1>1, BlindsInvariant, PTL

\* Nobody plays at blinds that are not due: a hand's level is at most the
\* manager's, and that at most the intervals gone by since the first hand,
\* whatever was saved and restored in between (Apply, computeTarget,
\* GetBlindSnapshot, Restore).
THEOREM BlindsNeverAhead == Spec => []NeverAhead
<1>1. BlindsInv => NeverAhead
  BY DEF BlindsInv, ManagerOnTime, GameOnTime, Due, NeverAhead
<1>2. QED
  BY <1>1, BlindsInvariant, PTL
-----------------------------------------------------------------------------
(* The manager announces an increase before it is played.                   *)

\* A next increase is one to a level of the schedule.
Upward(c) == c.next # 0 => c.level < Last

\* Whoever is pending has announced the next level at least, and so has a
\* manager that is ahead of the game.
ManagerAnnounces ==
  /\ Increasing(manager) => manager.level < Last
  /\ manager.at = "pending" => Announced(warning, manager.level)
  /\ game.level < manager.level => Announced(warning, game.level)
  /\ Upward(game)

\* A save may be of the hand before, and the blinds of its checkpoint ahead
\* of its game.
SaveAnnounced ==
  save \notin {None, Looking} =>
    Upward(save) /\ (save.level < game.level => Announced(warning, save.level))

CheckpointAnnounced ==
  checkpoint # None =>
    /\ Upward(checkpoint.game)
    /\ Increasing(checkpoint.blind) => checkpoint.blind.level < Last
    /\ checkpoint.game.level < checkpoint.blind.level
       => Announced(warning, checkpoint.game.level)
    /\ server # "down" => checkpoint.blind.level <= manager.level

AnnounceInv == ManagerAnnounces /\ SaveAnnounced /\ CheckpointAnnounced

(* The levels are numbers.                                                  *)
LEMMA LevelNumbers ==
  ASSUME TypeOK
  PROVE  /\ Last \in Nat /\ Last > 0 /\ manager \in BlindManager /\ game \in GameBlinds
         /\ manager.level \in Nat /\ manager.level <= Last
         /\ game.level \in Nat
         /\ save \notin {None, Looking} => save.level \in Nat
         /\ checkpoint # None => /\ checkpoint.game.level \in Nat
                                 /\ checkpoint.blind.level \in Nat
BY BlindsAssumption
DEF TypeOK, BlindManager, GameBlinds, Cached, Checkpoint, BlindSnapshot, Levels

(* What is announced stays so, and so is every level below.                 *)
LEMMA StillAnnounced ==
  ASSUME TypeOK, TypeOK', Kept, NEW a \in Nat, Announced(warning, a), NEW b \in Nat, b <= a
  PROVE  Announced(warning', b)
<1>1. PICK l \in Notices(warning) : l > a
  BY DEF Announced
<1>2. l \in Nat /\ l \in Notices(warning')
  BY <1>1 DEF TypeOK, Warning, Notices, Levels, Kept
<1>3. QED
  BY <1>1, <1>2 DEF Announced

(* Who becomes pending announces the next level at least.                   *)
LEMMA PendingAnnounces ==
  ASSUME TypeOK, NEW m \in BlindManager, m.level < Last, EnterPending(m)
  PROVE  Kept /\ Announced(warning', m.level)
<1>1. m.level \in 0 .. Last /\ m.start \in 0 .. MaxNow /\ now \in 0 .. MaxNow
  BY DEF TypeOK, BlindManager, Levels, Times
<1>2. computeTarget(m) \in Int
  BY <1>1, BlindsAssumption DEF computeTarget, Smaller
<1>3. Larger(computeTarget(m), m.level + 1) \in Int
      /\ Larger(computeTarget(m), m.level + 1) >= m.level + 1
  BY <1>1, <1>2 DEF Larger
<1>4. PICK l : l = Smaller(Larger(computeTarget(m), m.level + 1), Last)
  OBVIOUS
<1>5. computeTarget(m) <= Last
  BY <1>1, BlindsAssumption DEF computeTarget, Smaller
<1>6. l \in Levels /\ l > m.level
  BY <1>1, <1>2, <1>3, <1>4, BlindsAssumption DEF Smaller, Levels
<1>7. Kept /\ l \in Notices(warning')
  BY <1>4, <1>6, NotifyKeeps DEF EnterPending
<1>8. QED
  BY <1>6, <1>7 DEF Announced

LEMMA ActiveAnnounces ==
  ASSUME TypeOK, NEW m \in BlindManager, m.level < Last, EnterActive(m)
  PROVE  /\ Kept
         /\ manager'.at = "pending" => Announced(warning', m.level)
<1>1. CASE now >= nextIncrease(m)
  BY <1>1, PendingAnnounces DEF EnterActive
<1>2. CASE ~(now >= nextIncrease(m))
  <2>1. manager' = [m EXCEPT !.at = "active", !.timer = TRUE] /\ warning' = warning
    BY <1>2 DEF EnterActive
  <2>2. manager'.at = "active"
    BY <2>1 DEF BlindManager
  <2>3. QED
    BY <2>1, <2>2 DEF Kept
<1>3. QED
  BY <1>1, <1>2

\* The manager goes up, having announced it, and announces the next level if
\* it waits for a hand.
Announces ==
  /\ Increasing(manager') => manager'.level < Last
  /\ manager'.at = "pending" => Announced(warning', manager'.level)
  /\ manager'.level >= manager.level
  /\ manager'.level > manager.level => Announced(warning, manager.level)
  /\ Kept

(* Such a step of the manager keeps what is announced.                      *)
LEMMA AnnouncesKeeps ==
  ASSUME BlindsInv, TypeOK', AnnounceInv, Announces,
         UNCHANGED <<save, checkpoint, server>>,
         game'.level = game.level, game'.next = game.next
  PROVE  AnnounceInv'
<1>1. /\ manager.level \in Nat /\ manager'.level \in Nat /\ game.level \in Nat
      /\ save \notin {None, Looking} => save.level \in Nat
      /\ checkpoint # None => /\ checkpoint.game.level \in Nat
                              /\ checkpoint.blind.level \in Nat
  <2>1. manager'.level \in Nat
    BY DEF TypeOK, BlindManager, Levels
  <2>2. QED
    BY <2>1, LevelNumbers DEF BlindsInv
<1>2. TypeOK /\ Kept /\ game.level <= manager.level
  BY DEF BlindsInv, GameOnTime, Announces
<1>3. ManagerAnnounces'
  <2>1. ASSUME game.level < manager'.level
        PROVE  Announced(warning', game.level)
    <3>1. CASE game.level < manager.level
      <4>1. Announced(warning, game.level)
        BY <3>1 DEF AnnounceInv, ManagerAnnounces
      <4>2. QED
        BY <1>1, <1>2, <4>1, StillAnnounced
    <3>2. CASE game.level = manager.level
      <4>1. Announced(warning, manager.level)
        BY <2>1, <3>2 DEF Announces
      <4>2. QED
        BY <1>1, <1>2, <3>2, <4>1, StillAnnounced
    <3>3. QED
      BY <1>1, <1>2, <3>1, <3>2
  <2>2. QED
    BY <2>1 DEF AnnounceInv, ManagerAnnounces, Announces, Upward, Increasing
<1>4. SaveAnnounced'
  <2>1. ASSUME save \notin {None, Looking}, save.level < game.level
        PROVE  Announced(warning', save.level)
    <3>1. Announced(warning, save.level)
      BY <2>1 DEF AnnounceInv, SaveAnnounced
    <3>2. QED
      BY <1>1, <1>2, <2>1, <3>1, StillAnnounced
  <2>2. QED
    BY <2>1 DEF AnnounceInv, SaveAnnounced, Upward
<1>5. CheckpointAnnounced'
  <2>1. ASSUME checkpoint # None
        PROVE  /\ checkpoint.game.level < checkpoint.blind.level
                  => Announced(warning', checkpoint.game.level)
               /\ server # "down" => checkpoint.blind.level <= manager'.level
    <3>1. checkpoint.game.level < checkpoint.blind.level
          => Announced(warning, checkpoint.game.level)
      BY <2>1 DEF AnnounceInv, CheckpointAnnounced
    <3>2. checkpoint.game.level < checkpoint.blind.level
          => Announced(warning', checkpoint.game.level)
      BY <1>1, <1>2, <2>1, <3>1, StillAnnounced
    <3>3. server # "down" => checkpoint.blind.level <= manager.level
      BY <2>1 DEF AnnounceInv, CheckpointAnnounced
    <3>4. QED
      BY <1>1, <2>1, <3>2, <3>3 DEF Announces
  <2>2. QED
    BY <2>1 DEF AnnounceInv, CheckpointAnnounced, Upward, Increasing
<1>6. QED
  BY <1>3, <1>4, <1>5 DEF AnnounceInv

LEMMA HandleStartAnnounces ==
  ASSUME BlindsInv, AnnounceInv, HandleStart
  PROVE  Announces
<1>1. /\ Takes("start") /\ manager.inbox # <<>> /\ server # "down"
      /\ manager.level \in Nat /\ TypeOK /\ now \in Times
  BY LevelNumbers DEF HandleStart, Takes, BlindsInv, TypeOK
<1>2. CASE manager.at = "waiting"
  <2>1. PICK m \in Leave : EnterActive([m EXCEPT !.start = now])
    BY <1>2 DEF HandleStart
  <2>2. m \in BlindManager /\ m.level = manager.level
    BY <1>1, <2>1, TakenFields
  <2>3. manager.level <= 0
    BY <1>1, <1>2 DEF BlindsInv, ManagerOnTime, Due
  <2>4. PICK n : n = [m EXCEPT !.start = now]
    OBVIOUS
  <2>5. n \in BlindManager /\ n.level = manager.level /\ n.level < Last /\ EnterActive(n)
    <3>1. n \in BlindManager /\ n.level = m.level
      BY <1>1, <2>2, <2>4 DEF BlindManager
    <3>2. EnterActive(n)
      BY <2>1, <2>4
    <3>3. manager.level < Last
      BY <1>1, <2>3, BlindsAssumption
    <3>4. QED
      BY <2>2, <3>1, <3>2, <3>3
  <2>6. /\ Kept
        /\ manager'.at = "pending" => Announced(warning', n.level)
        /\ manager'.level = n.level
    BY <1>1, <2>5, ActiveAnnounces, EnterActiveFields
  <2>7. QED
    BY <1>1, <2>5, <2>6 DEF Announces
<1>3. CASE manager.at # "waiting"
  <2>1. manager' = [manager EXCEPT !.inbox = Tail(@)] /\ warning' = warning
    BY <1>3 DEF HandleStart
  <2>2. manager'.at = manager.at /\ manager'.level = manager.level
    BY <1>1, <2>1, TakenFields
  <2>3. QED
    BY <1>1, <2>1, <2>2 DEF Announces, Kept, AnnounceInv, ManagerAnnounces, Increasing
<1>4. QED
  BY <1>2, <1>3

LEMMA HandleFiredAnnounces ==
  ASSUME BlindsInv, AnnounceInv, HandleFired
  PROVE  Announces
<1>1. /\ Takes("fired") /\ manager.inbox # <<>> /\ server # "down"
      /\ manager.level \in Nat /\ TypeOK
  BY LevelNumbers DEF HandleFired, Takes, BlindsInv
<1>2. CASE manager.at = "active"
  <2>1. PICK m \in Leave : EnterPending(m)
    BY <1>2 DEF HandleFired
  <2>2. m \in BlindManager /\ m.level = manager.level /\ m.level < Last
    BY <1>1, <1>2, <2>1, TakenFields DEF AnnounceInv, ManagerAnnounces, Increasing
  <2>3. Kept /\ Announced(warning', m.level) /\ manager'.level = m.level
    BY <1>1, <2>1, <2>2, PendingAnnounces, EnterPendingFields
  <2>4. QED
    BY <1>1, <2>2, <2>3 DEF Announces
<1>3. CASE manager.at # "active"
  <2>1. manager' = [manager EXCEPT !.inbox = Tail(@)] /\ warning' = warning
    BY <1>3 DEF HandleFired
  <2>2. manager'.at = manager.at /\ manager'.level = manager.level
    BY <1>1, <2>1, TakenFields
  <2>3. QED
    BY <1>1, <2>1, <2>2 DEF Announces, Kept, AnnounceInv, ManagerAnnounces, Increasing
<1>4. QED
  BY <1>2, <1>3

LEMMA HandleApplyAnnounces ==
  ASSUME BlindsInv, AnnounceInv, HandleApply
  PROVE  Announces /\ game'.level = game.level /\ game'.next = game.next
<1>1. /\ Takes("apply") /\ manager.inbox # <<>> /\ server # "down"
      /\ manager.level \in Nat /\ TypeOK /\ game \in GameBlinds
  BY LevelNumbers DEF HandleApply, Takes, BlindsInv
<1>2. PICK level : level = Larger(computeTarget(manager), manager.level)
  OBVIOUS
<1>3. level \in Levels /\ level >= manager.level
  <2>1. manager.level \in Levels /\ manager.start \in Times /\ now \in Times /\ 0 \in Levels
    BY <1>1, BlindsAssumption DEF TypeOK, BlindManager, Levels
  <2>2. computeTarget(manager) \in Int /\ computeTarget(manager) <= Last
    BY <2>1, BlindsAssumption DEF computeTarget, Smaller, Times
  <2>3. QED
    BY <1>2, <2>1, <2>2 DEF Larger, Levels
<1>4. CASE manager.at = "pending"
  <2>1. Announced(warning, manager.level) /\ game' = [game EXCEPT !.answer = level]
    BY <1>2, <1>4 DEF AnnounceInv, ManagerAnnounces, HandleApply
  <2>2. game'.level = game.level /\ game'.next = game.next
    BY <1>1, <2>1 DEF GameBlinds
  <2>3. CASE level >= Last
    <3>1. PICK m \in Leave : manager' = [m EXCEPT !.level = level, !.at = "max"]
                             /\ warning' = warning
      BY <1>2, <1>4, <2>3 DEF HandleApply
    <3>2. m \in BlindManager
      BY <1>1, <3>1, TakenFields
    <3>3. manager'.level = level /\ manager'.at = "max"
      BY <3>1, <3>2 DEF BlindManager
    <3>4. QED
      BY <1>3, <2>1, <2>2, <3>1, <3>3 DEF Announces, Kept, Increasing
  <2>4. CASE ~(level >= Last)
    <3>1. PICK m \in Leave : EnterActive([m EXCEPT !.level = level])
      BY <1>2, <1>4, <2>4 DEF HandleApply
    <3>2. m \in BlindManager
      BY <1>1, <3>1, TakenFields
    <3>3. PICK n : n = [m EXCEPT !.level = level]
      OBVIOUS
    <3>4. n \in BlindManager /\ n.level = level /\ EnterActive(n)
      BY <1>3, <3>1, <3>2, <3>3 DEF BlindManager
    <3>5. n.level < Last
      BY <1>3, <2>4, <3>4, BlindsAssumption DEF Levels
    <3>6. /\ Kept
          /\ manager'.at = "pending" => Announced(warning', n.level)
          /\ manager'.level = n.level
      BY <1>1, <3>4, <3>5, ActiveAnnounces, EnterActiveFields
    <3>7. QED
      BY <1>1, <1>3, <2>1, <2>2, <3>4, <3>5, <3>6 DEF Announces
  <2>5. QED
    BY <2>3, <2>4
<1>5. CASE manager.at # "pending"
  <2>1. /\ manager' = [manager EXCEPT !.inbox = Tail(@)] /\ warning' = warning
        /\ game' = [game EXCEPT !.answer = manager.level]
    BY <1>5 DEF HandleApply
  <2>2. manager'.at = manager.at /\ manager'.level = manager.level
    BY <1>1, <2>1, TakenFields
  <2>3. game'.level = game.level /\ game'.next = game.next
    BY <1>1, <2>1 DEF GameBlinds
  <2>4. QED
    BY <1>1, <2>1, <2>2, <2>3 DEF Announces, Kept, AnnounceInv, ManagerAnnounces, Increasing
<1>6. QED
  BY <1>4, <1>5

(* The game takes the level of the manager.                                 *)
LEMMA InfoTakesLevel ==
  ASSUME BlindsInv, HandleInfo
  PROVE  /\ deal = "asking" /\ warning' = warning /\ UNCHANGED <<save, checkpoint, server>>
         /\ manager'.at = manager.at /\ manager'.level = manager.level
         /\ game'.level = manager.level
         /\ game'.next # 0 => Increasing(manager)
<1>1. /\ Takes("info") /\ manager.inbox # <<>> /\ deal' = "betting"
      /\ manager' = [manager EXCEPT !.inbox = Tail(@)]
      /\ UNCHANGED <<warning, save, checkpoint, server>>
      /\ game' = [game EXCEPT !.level = game.answer,
                    !.next = IF Increasing(manager) THEN nextIncrease(manager) ELSE 0]
  BY DEF HandleInfo, Takes
<1>2. /\ manager'.at = manager.at /\ manager'.level = manager.level
      /\ manager'.inbox = Tail(manager.inbox) \/ manager'.inbox = <<>>
  BY <1>1, TakenFields DEF BlindsInv
<1>3. deal = "asking"
  BY <1>1, <1>2, QuestionsAfter
<1>4. game.answer = manager.level /\ game \in GameBlinds
  BY <1>3 DEF BlindsInv, GameOnTime, TypeOK
<1>5. game'.level = manager.level /\ (game'.next # 0 => Increasing(manager))
  BY <1>1, <1>4 DEF GameBlinds
<1>6. QED
  BY <1>1, <1>2, <1>3, <1>5

LEMMA HandleInfoAnnounces ==
  ASSUME BlindsInv, AnnounceInv, HandleInfo
  PROVE  AnnounceInv'
<1>1. /\ warning' = warning /\ UNCHANGED <<save, checkpoint, server>>
      /\ manager'.at = manager.at /\ manager'.level = manager.level
      /\ game'.level = manager.level
      /\ game'.next # 0 => Increasing(manager)
  BY InfoTakesLevel
<1>2. /\ manager.level \in Nat /\ game.level \in Nat
      /\ save \notin {None, Looking} => save.level \in Nat
  BY LevelNumbers DEF BlindsInv
<1>3. ManagerAnnounces'
  BY <1>1, <1>2 DEF AnnounceInv, ManagerAnnounces, Increasing, Upward
<1>4. SaveAnnounced'
  <2>1. ASSUME save \notin {None, Looking}, save.level < manager.level
        PROVE  Announced(warning, save.level)
    <3>1. save.level <= game.level
      BY <2>1 DEF BlindsInv, SaveOnTime
    <3>2. CASE save.level < game.level
      BY <2>1, <3>2 DEF AnnounceInv, SaveAnnounced
    <3>3. CASE save.level = game.level
      BY <2>1, <3>3 DEF AnnounceInv, ManagerAnnounces
    <3>4. QED
      BY <1>2, <2>1, <3>1, <3>2, <3>3
  <2>2. QED
    BY <1>1, <2>1 DEF AnnounceInv, SaveAnnounced, Upward
<1>5. CheckpointAnnounced'
  BY <1>1 DEF AnnounceInv, CheckpointAnnounced, Upward, Increasing
<1>6. QED
  BY <1>3, <1>4, <1>5 DEF AnnounceInv

(* Steps that leave the manager's state and level alone, and the game's.    *)
LEMMA SameAnnounced ==
  ASSUME AnnounceInv, manager'.at = manager.at, manager'.level = manager.level,
         game'.level = game.level, game'.next = game.next,
         Kept, UNCHANGED <<save, checkpoint>>, server' # "down" => server # "down"
  PROVE  AnnounceInv'
<1>1. \A level : Announced(warning, level) => Announced(warning', level)
  BY DEF Announced, Kept
<1>2. ManagerAnnounces' /\ SaveAnnounced' /\ CheckpointAnnounced'
  BY <1>1
  DEF AnnounceInv, ManagerAnnounces, SaveAnnounced, CheckpointAnnounced, Upward, Increasing
<1>3. QED
  BY <1>2 DEF AnnounceInv

LEMMA SaveAnnounces ==
  ASSUME BlindsInv, AnnounceInv, Save
  PROVE  AnnounceInv'
<1>1. CASE SaveBegin
  <2>1. save' = Looking /\ UNCHANGED <<warning, manager, game, checkpoint, server>>
    BY <1>1 DEF SaveBegin, clocks
  <2>2. QED
    BY <2>1 DEF AnnounceInv, ManagerAnnounces, SaveAnnounced, CheckpointAnnounced, Upward,
                Increasing
<1>2. CASE SaveRead
  <2>1. /\ save' = [round |-> game.round, level |-> game.level, next |-> game.next]
        /\ UNCHANGED <<warning, manager, game, checkpoint, server>>
    BY <1>2 DEF SaveRead, clocks
  <2>2. save'.level = game.level /\ save'.next = game.next /\ game.level \in Nat
    BY <2>1, LevelNumbers DEF BlindsInv
  <2>3. ManagerAnnounces' /\ CheckpointAnnounced'
    BY <2>1 DEF AnnounceInv, ManagerAnnounces, CheckpointAnnounced, Upward, Increasing
  <2>4. SaveAnnounced'
    BY <2>1, <2>2 DEF AnnounceInv, ManagerAnnounces, SaveAnnounced, Upward
  <2>5. QED
    BY <2>3, <2>4 DEF AnnounceInv
<1>3. CASE SaveWrite
  <2>1. PICK blind : blind = GetBlindSnapshot
    OBVIOUS
  <2>2. /\ save \notin {None, Looking} /\ save' = None
        /\ checkpoint' = [game |-> save, blind |-> blind]
        /\ UNCHANGED <<warning, manager, game, server>>
    BY <1>3, <2>1 DEF SaveWrite, clocks
  <2>3. blind.level = game.level /\ (Increasing(blind) => game.next # 0)
    BY <2>1, SnapshotFields DEF BlindsInv, TypeOK, GameBlinds
  <2>4. checkpoint'.game = save /\ checkpoint'.blind = blind
    BY <2>2
  <2>5. game.level <= manager.level
    BY DEF BlindsInv, GameOnTime
  <2>6. CheckpointAnnounced'
    BY <2>2, <2>3, <2>4, <2>5
    DEF AnnounceInv, ManagerAnnounces, SaveAnnounced, CheckpointAnnounced, Upward
  <2>7. ManagerAnnounces' /\ SaveAnnounced'
    BY <2>2 DEF AnnounceInv, ManagerAnnounces, SaveAnnounced, Upward, Increasing
  <2>8. QED
    BY <2>6, <2>7 DEF AnnounceInv
<1>4. QED
  BY <1>1, <1>2, <1>3 DEF Save

LEMMA ForgetAnnounces ==
  ASSUME BlindsInv, AnnounceInv, CloseGame \/ Crash
  PROVE  AnnounceInv'
<1>1. /\ server' = "down" /\ checkpoint' = checkpoint
      /\ warning' = [warning EXCEPT !.sent = {}, !.lost = @ \cup warning.sent]
      /\ manager' = [NewBlindManager EXCEPT !.open = FALSE] /\ game' = NewGame
      /\ save' = None
  BY DEF CloseGame, Crash, Forget
<1>2. /\ manager'.at = "waiting" /\ manager'.level = 0
      /\ game'.level = 0 /\ game'.next = 0
  BY <1>1, NewFields DEF BlindManager
<1>3. ManagerAnnounces' /\ SaveAnnounced'
  BY <1>1, <1>2 DEF ManagerAnnounces, SaveAnnounced, Upward, Increasing
<1>4. CheckpointAnnounced'
  <2>1. \A level : Announced(warning, level) => Announced(warning', level)
    BY <1>1 DEF BlindsInv, TypeOK, Warning, Announced, Notices
  <2>2. QED
    BY <1>1, <2>1 DEF AnnounceInv, CheckpointAnnounced, Upward, Increasing
<1>5. QED
  BY <1>3, <1>4 DEF AnnounceInv

(* The restored manager has announced what it is pending for.               *)
LEMMA RestoreAnnounces ==
  ASSUME TypeOK, checkpoint # None, Restore(checkpoint.blind),
         checkpoint.blind.start \in Times,
         Increasing(checkpoint.blind) => checkpoint.blind.level < Last
  PROVE  /\ manager'.level = checkpoint.blind.level
         /\ manager'.at = "pending" => Announced(warning', checkpoint.blind.level)
         /\ Kept
         /\ Increasing(manager') => checkpoint.blind.level < Last
<1>1. PICK b : b = checkpoint.blind
  OBVIOUS
<1>2. b.level \in Levels /\ b.at \in BlindState /\ b.start \in Times
  BY <1>1 DEF TypeOK, Checkpoint, BlindSnapshot
<1>3. PICK m : m = [NewBlindManager EXCEPT !.level = b.level, !.start = b.start]
  OBVIOUS
<1>4. m \in BlindManager /\ m.level = b.level
  BY <1>2, <1>3, NewFields DEF BlindManager
<1>5. /\ b.at = "active" => EnterActive(m)
      /\ b.at = "pending" => EnterPending(m)
      /\ b.at \notin {"active", "pending"}
         => manager' = [m EXCEPT !.at = b.at] /\ warning' = warning
  BY <1>1, <1>3 DEF Restore
<1>6. Increasing(b) => m.level < Last
  BY <1>1, <1>4
<1>7. CASE b.at = "active"
  <2>1. m.level < Last /\ EnterActive(m)
    BY <1>5, <1>6, <1>7 DEF Increasing
  <2>2. /\ manager'.level = m.level /\ (Kept)
        /\ manager'.at = "pending" => Announced(warning', m.level)
    BY <1>4, <2>1, ActiveAnnounces, EnterActiveFields
  <2>3. QED
    BY <1>1, <1>4, <2>1, <2>2
<1>8. CASE b.at = "pending"
  <2>1. m.level < Last /\ EnterPending(m)
    BY <1>5, <1>6, <1>8 DEF Increasing
  <2>2. manager'.level = m.level /\ Kept /\ Announced(warning', m.level)
    BY <1>4, <2>1, PendingAnnounces, EnterPendingFields
  <2>3. QED
    BY <1>1, <1>4, <2>1, <2>2
<1>9. CASE b.at \notin {"active", "pending"}
  <2>1. manager' = [m EXCEPT !.at = b.at] /\ warning' = warning
    BY <1>5, <1>9
  <2>2. manager'.at = b.at /\ manager'.level = m.level
    BY <1>4, <2>1 DEF BlindManager
  <2>3. QED
    BY <1>1, <1>4, <1>9, <2>1, <2>2 DEF Increasing, Kept
<1>10. QED
  BY <1>7, <1>8, <1>9

LEMMA LoadAnnounces ==
  ASSUME BlindsInv, AnnounceInv, Load
  PROVE  AnnounceInv'
<1>1. server' = "up" /\ save' = None /\ checkpoint' = checkpoint
  BY DEF Load
<1>2. CASE checkpoint = None
  <2>1. manager' = NewBlindManager /\ game' = NewGame
    BY <1>2 DEF Load
  <2>2. ManagerAnnounces'
    BY <2>1, NewFields DEF ManagerAnnounces, Upward, Increasing
  <2>3. SaveAnnounced' /\ CheckpointAnnounced'
    BY <1>1, <1>2 DEF SaveAnnounced, CheckpointAnnounced
  <2>4. QED
    BY <2>2, <2>3 DEF AnnounceInv
<1>3. CASE checkpoint # None
  <2>1. PICK b, g : b = checkpoint.blind /\ g = checkpoint.game
    OBVIOUS
  <2>2. Restore(checkpoint.blind) /\ game'.level = g.level /\ game'.next = g.next
    BY <1>3, <2>1 DEF Load
  <2>3. /\ Upward(g) /\ (Increasing(b) => b.level < Last)
        /\ g.level < b.level => Announced(warning, g.level)
    BY <1>3, <2>1 DEF AnnounceInv, CheckpointAnnounced
  <2>4. /\ checkpoint.blind.start \in Times /\ g.level \in Nat /\ b.level \in Nat
        /\ TypeOK /\ TypeOK'
    <3>1. now \in Times /\ began \in 0 .. now
      BY DEF BlindsInv, TypeOK
    <3>2. checkpoint.blind.start \in {0, began}
      BY <1>3 DEF BlindsInv, CheckpointOnTime
    <3>3. QED
      BY <1>3, <2>1, <3>1, <3>2, LevelNumbers, LoadStep, BlindsAssumption
      DEF BlindsInv, Times
  <2>5. /\ manager'.level = b.level
        /\ manager'.at = "pending" => Announced(warning', b.level)
        /\ Kept
        /\ Increasing(manager') => b.level < Last
    BY <1>3, <2>1, <2>2, <2>3, <2>4, RestoreAnnounces
  <2>6. g.level < b.level => Announced(warning', g.level)
    BY <2>3, <2>4, <2>5, StillAnnounced
  <2>7. ManagerAnnounces'
    <3>1. Increasing(manager') => manager'.level < Last
      BY <2>5
    <3>2. manager'.at = "pending" => Announced(warning', manager'.level)
      BY <2>5
    <3>3. game'.level < manager'.level => Announced(warning', game'.level)
      BY <2>2, <2>5, <2>6
    <3>4. game'.next # 0 => game'.level < Last
      BY <2>2, <2>3 DEF Upward
    <3>5. QED
      BY <3>1, <3>2, <3>3, <3>4 DEF ManagerAnnounces, Upward, Increasing
  <2>8. SaveAnnounced'
    BY <1>1 DEF SaveAnnounced
  <2>9. CheckpointAnnounced'
    <3>1. b.level <= manager'.level /\ checkpoint'.game = g /\ checkpoint'.blind = b
      BY <1>1, <2>1, <2>4, <2>5
    <3>2. QED
      BY <2>3, <2>6, <3>1 DEF CheckpointAnnounced, Upward, Increasing
  <2>10. QED
    BY <2>7, <2>8, <2>9 DEF AnnounceInv
<1>4. QED
  BY <1>2, <1>3

LEMMA AnnounceStep ==
  ASSUME BlindsInv, AnnounceInv, [Next]_vars
  PROVE  AnnounceInv'
<1>1. BlindsInv' /\ TypeOK'
  BY BlindsInvNext DEF BlindsInv
<1>2. CASE HandleStart \/ HandleFired \/ HandleApply
  <2>1. Announces /\ game'.level = game.level /\ game'.next = game.next
    BY <1>2, HandleStartAnnounces, HandleFiredAnnounces, HandleApplyAnnounces
    DEF HandleStart, HandleFired
  <2>2. UNCHANGED <<save, checkpoint, server>>
    BY <1>2 DEF HandleStart, HandleFired, HandleApply
  <2>3. QED
    BY <1>1, <2>1, <2>2, AnnouncesKeeps
<1>3. CASE HandleInfo
  BY <1>3, HandleInfoAnnounces
<1>4. CASE Tick \/ TimerFires \/ TableWarns \/ Deal \/ CloseManager
  <2>1. manager \in BlindManager /\ game \in GameBlinds
    BY DEF BlindsInv, TypeOK
  <2>2. /\ manager'.at = manager.at /\ manager'.level = manager.level
        /\ game'.level = game.level /\ game'.next = game.next
        /\ Kept /\ UNCHANGED <<save, checkpoint>>
    <3>1. CASE Tick
      BY <3>1 DEF Tick, Kept
    <3>2. CASE TimerFires
      BY <2>1, <3>2 DEF TimerFires, BlindManager, clocks, Kept
    <3>3. CASE Deal
      BY <2>1, <3>3
      DEF Deal, StartHand, SendStart, SendApply, SendInfo, Asks, FinishHand, BlindManager,
          GameBlinds, clocks, Kept
    <3>4. CASE CloseManager
      BY <2>1, <3>4 DEF CloseManager, BlindManager, clocks, Kept
    <3>5. CASE TableWarns
      BY <3>5, TableWarnsStep DEF TableWarns
    <3>6. QED
      BY <1>4, <3>1, <3>2, <3>3, <3>4, <3>5
  <2>3. server' # "down" => server # "down"
    BY <1>4
    DEF Tick, TimerFires, TableWarns, Deal, StartHand, SendStart, SendApply, SendInfo, Asks,
        FinishHand, CloseManager
  <2>4. QED
    BY <2>2, <2>3, SameAnnounced
<1>5. CASE Save
  BY <1>5, SaveAnnounces
<1>6. CASE CloseGame \/ Crash
  BY <1>6, ForgetAnnounces
<1>7. CASE Load
  BY <1>7, LoadAnnounces
<1>8. CASE UNCHANGED vars
  BY <1>8, SameAnnounced DEF vars, clocks, Kept
<1>9. QED
  BY <1>2, <1>3, <1>4, <1>5, <1>6, <1>7, <1>8 DEF Next, Manager

\* An increase is announced before it is played, whatever was saved and
\* restored in between: a manager ahead of its game has come to notifyPending,
\* and so has one made of a checkpoint whose save fell between two hands.  The
\* notice may be waiting in the table's channel still, or have been dropped
\* (blindPending, notifyPending).
THEOREM IncreaseAlwaysAnnounced == Spec => IncreaseIsAnnounced
<1>1. Init => AnnounceInv
  BY NewFields
  DEF Init, AnnounceInv, ManagerAnnounces, SaveAnnounced, CheckpointAnnounced, Upward,
      Increasing
<1>2. BlindsInv /\ AnnounceInv /\ [Next]_vars => AnnounceInv'
  BY AnnounceStep
<1>3. BlindsInv /\ AnnounceInv /\ [Next]_vars
      => [Increased => Announced(warning, game.level)]_vars
  <2>1. SUFFICES ASSUME BlindsInv, AnnounceInv, Next,
                        deal = "asking", deal' = "betting", game'.level > game.level
                 PROVE  Announced(warning, game.level)
    BY DEF Increased
  <2>2. HandleInfo
    BY <2>1
    DEF Next, Tick, TimerFires, TableWarns, Manager, HandleStart, HandleFired, HandleApply, Deal,
        StartHand, SendStart, SendApply, SendInfo, Asks, FinishHand, Save, SaveBegin,
        SaveRead, SaveWrite, CloseManager, CloseGame, Crash, Forget, Load
  <2>3. game'.level = manager.level /\ manager.level \in Nat /\ game.level \in Nat
    BY <2>1, <2>2, InfoTakesLevel, LevelNumbers DEF BlindsInv
  <2>4. QED
    BY <2>1, <2>3 DEF AnnounceInv, ManagerAnnounces
<1>4. QED
  BY <1>1, <1>2, <1>3, BlindsInvariant, PTL DEF Spec, IncreaseIsAnnounced
=============================================================================
