------------------------------ MODULE Streams ------------------------------
(***************************************************************************)
(* The game streams of one table and the updates they get: the handlers of *)
(* StartGameStream, one goroutine per stream, the bucket in which they     *)
(* register, the events under way to the streams, and the "disconnected"   *)
(* flag of the users.                                                      *)
(*                                                                         *)
(* Registering and unregistering are sequences of single operations on     *)
(* maps and a counter that no lock holds together, so handlers of the same *)
(* player, or of the first and the last stream of a bucket, meet between   *)
(* any two of them.                                                        *)
(*                                                                         *)
(* A snapshot of the table is its version: the number of changes in it.    *)
(* Three workers take events from one queue, so any event may overtake any *)
(* other: the events under way are a set, and what a full queue drops is   *)
(* left to Match.  A user's machine handles its messages in order, and     *)
(* only its own flag depends on them: a message is handled when it is      *)
(* sent.  Users stay seated, and spectators watch, while the match goes    *)
(* on.  Sending to one stream is one step; notifications are not modelled. *)
(***************************************************************************)
EXTENDS Integers, FiniteSets, FiniteSetsExt

CONSTANTS
  Seated, Spectators,
  MaxStreams,     \* bound: streams opened
  MaxVersion      \* bound: changes of the table

ASSUME StreamsAssumption ==
  /\ Seated \cap Spectators = {} /\ Seated \cup Spectators # {}
  /\ MaxStreams \in Nat \ {0} /\ MaxVersion \in Nat

VARIABLES
  open,       \* the table is in the server's registry
  version,    \* changes of the table so far
  emitted,    \* changes whose event is still in the table's channel
  events,     \* snapshots in the queue or with a worker
  current,    \* the bucket registered for the table, 0 if none
  buckets,    \* the buckets, registered or not
  streams,    \* the streams with their handlers
  presence,   \* whether a user is IsDisconnected, or had no stream yet
  raced,      \* a handler acted on what had changed since it looked
  crossed     \* users who came back before their departure was recorded

tableVars  == <<open, version, emitted>>
bucketVars == <<current, buckets>>
userVars   == <<presence, crossed>>
vars == <<tableVars, events, bucketVars, streams, userVars, raced>>

Viewers   == Seated \cup Spectators
StreamIds == 1 .. MaxStreams
BucketIds == 1 .. MaxStreams
Versions  == 0 .. MaxVersion

Bucket   == [entry : [Viewers -> StreamIds \cup {0}], count : Int]
NoBucket == [entry |-> [p \in Viewers |-> 0], count |-> 0]

Opening    == {"checked", "loading", "counting", "storing"}
Registered == {"registered", "collected", "waiting"}
Closing    == {"deleting", "releasing", "evicting", "leaving"}

\* loaded: there was an older stream of the player; best: the newest version
\* that was sent; replaced: the player has registered a newer stream
Stream   == [who : Viewers, at : Opening \cup Registered \cup Closing
                                   \cup {"none"},
             bucket : BucketIds \cup {0}, loaded : BOOLEAN,
             snapshot : Versions, best : Versions \cup {-1},
             replaced : BOOLEAN]
NoStream == [who |-> CHOOSE p \in Viewers : TRUE, at |-> "none",
             bucket |-> 0, loaded |-> FALSE, snapshot |-> 0, best |-> -1,
             replaced |-> FALSE]

TypeOK ==
  /\ open \in BOOLEAN
  /\ version \in Versions /\ emitted \in 0 .. version
  /\ events \subseteq Versions
  /\ current \in BucketIds \cup {0}
  /\ buckets \in [BucketIds -> Bucket]
  /\ streams \in [StreamIds -> Stream]
  /\ presence \in [Seated -> {"new", "online", "offline"}]
  /\ crossed \subseteq Seated
  /\ raced \in BOOLEAN

Init ==
  /\ open = TRUE /\ version = 0 /\ emitted = 0
  /\ events = {}
  /\ current = 0 /\ buckets = [b \in BucketIds |-> NoBucket]
  /\ streams = [s \in StreamIds |-> NoStream]
  /\ presence = [p \in Seated |-> "new"] /\ crossed = {} /\ raced = FALSE

-----------------------------------------------------------------------------
(* The table, its event channel and the events.                            *)

publishTableSnapshotEvent(v) == events' = events \cup {v}

\* the game or its seats change, and the table emits an event; GAME_ENDED,
\* which sends no update, follows a change and is none
Change ==
  /\ open /\ version < MaxVersion
  /\ version' = version + 1
  /\ emitted' = emitted + 1
  /\ UNCHANGED <<open, events, bucketVars, streams, userVars, raced>>

\* processTableEvents takes the snapshot when it gets to the event, not when
\* the event was emitted
ForwardTableEvent ==
  /\ emitted > 0
  /\ emitted' = emitted - 1
  /\ IF open THEN publishTableSnapshotEvent(version) ELSE UNCHANGED events
  /\ UNCHANGED <<open, version, bucketVars, streams, userVars, raced>>

Newest(a, b) == IF a < b THEN b ELSE a

Sent(stream, v) == [stream EXCEPT !.best = Newest(@, v)]

\* Mutant: a stream whose handler is about to send to it itself is left out.
SendGameStateUpdatesToSeeded(v) ==
  /\ events' = events \ {v}
  /\ streams' = [s \in StreamIds |->
       IF /\ streams[s].at = "waiting"
          /\ open /\ current # 0 /\ buckets[current].entry[streams[s].who] = s
       THEN Sent(streams[s], v) ELSE streams[s]]
  /\ UNCHANGED <<tableVars, bucketVars, userVars, raced>>

\* sendGameStateUpdates, under the table's broadcast mutex: every stream in
\* the registered bucket; events of a removed table are dropped
SendGameStateUpdates(v) ==
  /\ events' = events \ {v}
  /\ streams' = [s \in StreamIds |->
       IF open /\ current # 0 /\ buckets[current].entry[streams[s].who] = s
       THEN Sent(streams[s], v) ELSE streams[s]]
  /\ UNCHANGED <<tableVars, bucketVars, userVars, raced>>

\* the worker that has taken TABLE_REMOVED; events still under way find no
\* bucket
FinalizeTableRemoval ==
  /\ open
  /\ open' = FALSE /\ current' = 0
  /\ UNCHANGED <<version, emitted, events, buckets, streams, userVars, raced>>

-----------------------------------------------------------------------------
(* The handler of one stream, StartGameStream.                             *)

Same(s) == {t \in StreamIds \ {s} : streams[t].who = streams[s].who}

InBucket(s, at) == {t \in StreamIds : /\ streams[t].at = at
                                      /\ streams[t].bucket = streams[s].bucket}

EntryOf(s)   == buckets[streams[s].bucket].entry[streams[s].who]
Goes(s, at)  == streams' = [streams EXCEPT ![s].at = at]
IsSeated(s)  == streams[s].who \in Seated

\* SendReconnection, SendDisconnect: only users have a flag
\* Mutant: a spectator gets one too.
MarkAnyone(s, flag) ==
  presence' = [p \in Seated \cup {streams[s].who} |->
                 IF p = streams[s].who THEN flag ELSE presence[p]]
Mark(s, flag) ==
  presence' = [p \in Seated |-> IF p = streams[s].who THEN flag
                                                      ELSE presence[p]]

\* a client opens a stream: the table must exist, the player sit or watch
StartGameStream(p) ==
  LET unused == {s \in StreamIds : streams[s].at = "none"}
  IN /\ unused # {}
     /\ open
     /\ streams' = [streams EXCEPT ![Min(unused)] =
                      [NoStream EXCEPT !.who = p, !.at = "checked"]]
     /\ UNCHANGED <<tableVars, events, bucketVars, userVars, raced>>

FreshBucket ==
  Min({b \in BucketIds : \A s \in StreamIds : streams[s].bucket # b})

\* gameStreams.LoadOrStore
GetBucket(s) ==
  /\ streams[s].at = "checked"
  /\ LET b == IF current = 0 THEN FreshBucket ELSE current
     IN /\ streams' = [streams EXCEPT ![s].at = "loading", ![s].bucket = b]
        /\ current' = b
        /\ buckets' = IF current = 0 THEN [buckets EXCEPT ![b] = NoBucket]
                                     ELSE buckets
  /\ UNCHANGED <<tableVars, events, userVars, raced>>

\* streams.Load: is there an older stream of the player?
LoadOlder(s) ==
  /\ streams[s].at = "loading"
  /\ streams' = [streams EXCEPT
                   ![s].loaded = EntryOf(s) # 0,
                   ![s].at = IF EntryOf(s) # 0 THEN "storing" ELSE "counting"]
  /\ UNCHANGED <<tableVars, events, bucketVars, userVars, raced>>

\* count.Add(1); too late for a handler that has counted the bucket empty
CountStream(s) ==
  /\ streams[s].at = "counting"
  /\ buckets' = [buckets EXCEPT ![streams[s].bucket].count = @ + 1]
  /\ raced' = (raced \/ InBucket(s, "evicting") # {})
  /\ Goes(s, "storing")
  /\ UNCHANGED <<tableVars, events, current, userVars>>

\* since the handler looked, its bucket has been dropped, the older stream has
\* gone or come, or is about to delete whatever entry there is
Overtaken(s) ==
  \/ open /\ current # streams[s].bucket
  \/ streams[s].loaded # (EntryOf(s) # 0)
  \/ \E t \in Same(s) : t \in InBucket(s, "deleting")

\* the disconnection of an older stream is still to be reported
Unreported(s) ==
  \E t \in Same(s) : streams[t].at \in {"releasing", "evicting", "leaving"}

\* streams.Store, then SendReconnection
Register(s) ==
  /\ streams[s].at = "storing"
  /\ buckets' = [buckets EXCEPT
                   ![streams[s].bucket].entry[streams[s].who] = s]
  /\ streams' = [t \in StreamIds |->
       IF t = s THEN [streams[s] EXCEPT !.at = "registered", !.loaded = FALSE]
       ELSE IF t = EntryOf(s) THEN [streams[t] EXCEPT !.replaced = TRUE]
       ELSE streams[t]]
  /\ raced' = (raced \/ Overtaken(s))
  /\ Mark(s, "online")
  /\ crossed' = IF IsSeated(s) /\ Unreported(s)
                THEN crossed \cup {streams[s].who}
                ELSE crossed \ {streams[s].who}
  /\ UNCHANGED <<tableVars, events, current>>

\* collectTableSnapshot
CollectSnapshot(s) ==
  /\ streams[s].at = "registered" /\ open
  /\ streams' = [streams EXCEPT ![s].at = "collected", ![s].snapshot = version]
  /\ UNCHANGED <<tableVars, events, bucketVars, userVars, raced>>

\* the others are told, the new stream gets its first update
SeedStream(s) ==
  /\ streams[s].at = "collected"
  /\ IF IsSeated(s) THEN publishTableSnapshotEvent(streams[s].snapshot)
                    ELSE UNCHANGED events
  /\ streams' = [streams EXCEPT ![s] =
       [Sent(streams[s], streams[s].snapshot) EXCEPT !.at = "waiting",
                                                     !.snapshot = 0]]
  /\ UNCHANGED <<tableVars, bucketVars, userVars, raced>>

-----------------------------------------------------------------------------
(* The end of the handler: its deferred function.                          *)

\* the client has cancelled, reconnected elsewhere or been lost, or there is no
\* table to take a snapshot of
StreamEnds(s) == \/ streams[s].at = "waiting"
                 \/ streams[s].at = "registered" /\ ~open

\* Mutant: without the question whose entry it is.
CheckNothing(s) ==
  /\ StreamEnds(s)
  /\ Goes(s, "deleting")
  /\ UNCHANGED <<tableVars, events, bucketVars, userVars, raced>>

\* Mutant: a replaced stream reports the disconnection of its player.
ReportAlways(s) ==
  /\ StreamEnds(s)
  /\ Goes(s, IF EntryOf(s) = s THEN "deleting" ELSE "leaving")
  /\ UNCHANGED <<tableVars, events, bucketVars, userVars, raced>>

\* streams.Load: does the handler still own the entry?
CheckOwner(s) ==
  /\ StreamEnds(s)
  /\ streams' = [streams EXCEPT
       ![s] = IF EntryOf(s) = s
              THEN [NoStream EXCEPT !.at = "deleting",
                                    !.who = streams[s].who,
                                    !.bucket = streams[s].bucket]
              ELSE NoStream]
  /\ UNCHANGED <<tableVars, events, bucketVars, userVars, raced>>

\* streams.Delete: whatever is there now
DeleteEntry(s) ==
  /\ streams[s].at = "deleting"
  /\ buckets' = [buckets EXCEPT
                   ![streams[s].bucket].entry[streams[s].who] = 0]
  /\ Goes(s, "releasing")
  /\ UNCHANGED <<tableVars, events, current, userVars, raced>>

\* count.Add(-1)
ReleaseCount(s) ==
  LET n == buckets[streams[s].bucket].count - 1
  IN /\ streams[s].at = "releasing"
     /\ buckets' = [buckets EXCEPT ![streams[s].bucket].count = n]
     /\ Goes(s, IF n = 0 THEN "evicting" ELSE "leaving")
     /\ UNCHANGED <<tableVars, events, current, userVars, raced>>

\* gameStreams.CompareAndDelete
EvictBucket(s) ==
  /\ streams[s].at = "evicting"
  /\ current' = IF current = streams[s].bucket THEN 0 ELSE current
  /\ Goes(s, "leaving")
  /\ UNCHANGED <<tableVars, events, buckets, userVars, raced>>

\* handlePlayerDisconnect: the snapshot is published before the user hears of
\* it
HandlePlayerDisconnect(s) ==
  /\ streams[s].at = "leaving"
  /\ streams' = [streams EXCEPT ![s] = NoStream]
  /\ IF IsSeated(s) /\ open
     THEN publishTableSnapshotEvent(version) /\ Mark(s, "offline")
     ELSE UNCHANGED <<events, presence>>
  /\ UNCHANGED <<tableVars, bucketVars, crossed, raced>>

-----------------------------------------------------------------------------
Handler(s) ==
  \/ GetBucket(s) \/ LoadOlder(s) \/ CountStream(s) \/ Register(s)
  \/ CollectSnapshot(s) \/ SeedStream(s)
  \/ DeleteEntry(s) \/ ReleaseCount(s) \/ EvictBucket(s)
  \/ HandlePlayerDisconnect(s)

Next ==
  \/ Change \/ ForwardTableEvent \/ FinalizeTableRemoval
  \/ \E v \in events : SendGameStateUpdates(v)
  \/ \E p \in Viewers : StartGameStream(p)
  \/ \E s \in StreamIds : Handler(s) \/ CheckOwner(s)

Spec == Init /\ [][Next]_vars

\* clients and the table need not do anything; the server's
\* goroutines run
FairSpec ==
  /\ Spec
  /\ WF_vars(ForwardTableEvent)
  /\ WF_vars(\E v \in events : SendGameStateUpdates(v))
  /\ \A s \in StreamIds : WF_vars(Handler(s))

-----------------------------------------------------------------------------
(* Properties.                                                             *)

\* A stream that has registered and whose player has not registered a newer
\* one is found by the broadcasts until its own handler ends, whatever other
\* streams come and go: neither an older stream of the same player nor the
\* last stream to leave the bucket takes it away (poker.go:33-69).  The
\* operations on the maps and the counter are single steps; what happens when
\* another handler comes between looking and acting is excepted (raced).
NobodyForgotten ==
  open /\ ~raced =>
    \A s \in StreamIds :
      streams[s].at \in Registered /\ ~streams[s].replaced =>
        current = streams[s].bucket /\ EntryOf(s) = s

\* A player with a registered stream is not marked disconnected, and a player
\* all of whose streams have ended is (poker.go:66-74, :108-132).  A player who
\* comes back while the departure is still being reported is excepted (crossed).
ShownConnected ==
  open /\ ~raced =>
    \A p \in Seated \ crossed :
      LET own == {s \in StreamIds : /\ streams[s].who = p
                                    /\ streams[s].at # "none"}
      IN /\ (\E s \in own : /\ streams[s].at \in Registered
                            /\ ~streams[s].replaced) => presence[p] = "online"
         /\ own = {} => presence[p] # "online"

\* Every change of the table reaches every stream that waits for updates,
\* those that were being opened when it happened too: a handler registers
\* before it looks at the table (poker.go:38-97, notifications.go:189-217).
\* Excepted: streams that end, are replaced or have been forgotten (raced).
Behind(s) ==
  /\ open /\ ~raced
  /\ streams[s].at = "waiting" /\ ~streams[s].replaced
  /\ streams[s].best < version
UpdatesArrive == \A s \in StreamIds : Behind(s) ~> ~Behind(s)
=============================================================================
