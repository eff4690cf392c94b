---------------------------- MODULE StreamsProofs ----------------------------
(* No stream is forgotten and the disconnected flag follows the streams,   *)
(* for every number of players, spectators and streams.                    *)
EXTENDS Streams, FiniteSetTheorems, PotsProofs, TLAPS

\* A handler has a bucket from the moment it has looked for one.
HasBucket ==
  \A s \in StreamIds :
    streams[s].at \in {"none", "checked"} <=> streams[s].bucket = 0

\* The streams that own the entry of their player, or think so.
Owning(s) == /\ streams[s].at \in Registered \cup {"deleting"}
             /\ ~streams[s].replaced

EntriesAreOwned ==
  \A b \in BucketIds, p \in Viewers, t \in StreamIds :
    buckets[b].entry[p] = t
    => Owning(t) /\ streams[t].who = p /\ streams[t].bucket = b

OwnersAreFound ==
  \A s \in StreamIds :
    /\ Owning(s) => current = streams[s].bucket /\ EntryOf(s) = s
    /\ streams[s].replaced => streams[s].at \in Registered

\* Those a bucket counts: owners, and streams between counting and entering or
\* between leaving and releasing.
Holds(s) == \/ Owning(s)
            \/ streams[s].at = "storing" /\ ~streams[s].loaded
            \/ streams[s].at = "releasing"
Holders(b) == {s \in StreamIds : streams[s].bucket = b /\ Holds(s)}

CountsHolders ==
  /\ \A b \in BucketIds :
       /\ buckets[b].count = Cardinality(Holders(b))
       /\ \A s \in StreamIds :
            streams[s].at = "evicting" /\ streams[s].bucket = b => Holders(b) = {}
  /\ \A s \in StreamIds : streams[s].loaded => streams[s].at = "storing"

\* The flag of the players whose departure and return did not cross.
FlagFollows ==
  \A p \in Seated \ crossed :
    /\ \A s, t \in StreamIds :
         streams[s].who = p /\ streams[t].who = p /\ Owning(s)
         => streams[t].at \notin {"releasing", "evicting", "leaving"}
    /\ \A s \in StreamIds :
         streams[s].who = p /\ Owning(s) => presence[p] = "online"
    /\ presence[p] = "online" =>
         \E s \in StreamIds :
           streams[s].who = p /\ (Owning(s) \/ streams[s].at \in Closing)

InOrder == EntriesAreOwned /\ OwnersAreFound /\ CountsHolders /\ FlagFollows

StreamsInv == /\ TypeOK /\ HasBucket
              /\ open /\ ~raced => InOrder

-----------------------------------------------------------------------------
(* Buckets and streams that are free.                                      *)
LEMMA FiniteIds ==
  /\ StreamIds \in SUBSET Nat /\ BucketIds \in SUBSET Nat /\ 0 \notin StreamIds
  /\ 0 \notin BucketIds
  /\ IsFiniteSet(StreamIds) /\ Cardinality(StreamIds) = MaxStreams
  /\ IsFiniteSet(BucketIds) /\ Cardinality(BucketIds) = MaxStreams
  /\ MaxStreams \in Nat
<1>1. MaxStreams \in Nat /\ MaxStreams > 0 /\ 1 \in Int /\ MaxStreams \in Int
  BY StreamsAssumption
<1>2. IsFiniteSet(1 .. MaxStreams) /\ Cardinality(1 .. MaxStreams) = MaxStreams
  BY <1>1, FS_Interval
<1>3. QED
  BY <1>1, <1>2 DEF StreamIds, BucketIds

(* There are as many buckets as streams: a stream that has none yet finds  *)
(* one that no other stream is in.                                         *)
LEMMA FreshBucketIsFree ==
  ASSUME TypeOK, NEW s \in StreamIds, streams[s].bucket = 0
  PROVE  /\ FreshBucket \in BucketIds
         /\ \A t \in StreamIds : streams[t].bucket # FreshBucket
<1> DEFINE free == {b \in BucketIds : \A t \in StreamIds : streams[t].bucket # b}
           others == StreamIds \ {s}
           user == [b \in BucketIds |-> CHOOSE t \in others : streams[t].bucket = b]
<1>1. free # {}
  <2> SUFFICES ASSUME free = {} PROVE FALSE
    OBVIOUS
  <2>1. \A b \in BucketIds : \E t \in others : streams[t].bucket = b
    BY FiniteIds
  <2>2. \A b \in BucketIds : user[b] \in others /\ streams[user[b]].bucket = b
    BY <2>1
  <2>3. user \in Injection(BucketIds, others)
    BY <2>2 DEF Injection, IsInjective
  <2>4. IsFiniteSet(others) /\ Cardinality(others) = MaxStreams - 1
    BY FiniteIds, FS_RemoveElement
  <2> HIDE DEF user, others
  <2>5. Cardinality(BucketIds) <= Cardinality(others)
    BY <2>3, <2>4, FS_Injection
  <2>6. QED
    BY <2>4, <2>5, FiniteIds
<1>2. free \in SUBSET Nat
  BY FiniteIds
<1> HIDE DEF free
<1>3. Min(free) \in free
  BY <1>1, <1>2, MinOfNats
<1>4. QED
  BY <1>3 DEF FreshBucket, free

LEMMA FirstUnused ==
  ASSUME NEW U \in SUBSET StreamIds, U # {}
  PROVE  Min(U) \in U
<1>1. U \in SUBSET Nat
  BY FiniteIds
<1>2. QED
  BY <1>1, MinOfNats

-----------------------------------------------------------------------------
(* Types.                                                                  *)
LEMMA NoStreamType ==
  /\ NoStream \in Stream
  /\ NoStream.at = "none" /\ NoStream.bucket = 0 /\ ~NoStream.loaded
  /\ ~NoStream.replaced
<1>1. (CHOOSE p \in Viewers : TRUE) \in Viewers
  BY StreamsAssumption DEF Viewers
<1>2. 0 \in Versions
  BY StreamsAssumption DEF Versions
<1>3. QED
  BY <1>1, <1>2 DEF NoStream, Stream

(* What a handler that has a bucket may look up.                           *)
LEMMA OfBucket ==
  ASSUME TypeOK, HasBucket, NEW s \in StreamIds,
         streams[s].at \notin {"none", "checked"}
  PROVE  /\ streams[s].bucket \in BucketIds
         /\ streams[s].who \in Viewers
         /\ buckets[streams[s].bucket] \in Bucket
         /\ EntryOf(s) \in StreamIds \cup {0}
<1>1. streams[s] \in Stream
  BY DEF TypeOK
<1>2. streams[s].bucket \in BucketIds /\ streams[s].who \in Viewers
  BY <1>1 DEF Stream, HasBucket
<1>3. buckets[streams[s].bucket] \in Bucket
  BY <1>2 DEF TypeOK
<1>4. QED
  BY <1>2, <1>3 DEF Bucket, EntryOf

Typed == TypeOK /\ HasBucket

LEMMA InitTyped == Init => Typed
<1> SUFFICES ASSUME Init PROVE Typed
  OBVIOUS
<1>1. NoBucket \in Bucket
  BY DEF NoBucket, Bucket
<1>2. 0 \in Versions /\ 0 \in 0 .. 0
  BY StreamsAssumption DEF Versions
<1>3. QED
  BY <1>1, <1>2, NoStreamType DEF Init, Typed, TypeOK, HasBucket

(* A step of one handler changes one stream: it is enough to look there.   *)
LEMMA OneStreamTyped ==
  ASSUME TypeOK, HasBucket, NEW s \in StreamIds, NEW r \in Stream,
         streams' = [streams EXCEPT ![s] = r],
         r.at \in {"none", "checked"} <=> r.bucket = 0
  PROVE  streams' \in [StreamIds -> Stream] /\ HasBucket'
  BY DEF TypeOK, HasBucket

LEMMA TableTyped ==
  ASSUME Typed, Change \/ ForwardTableEvent \/ FinalizeTableRemoval
  PROVE  Typed'
<1>1. version \in Nat /\ MaxVersion \in Nat /\ version <= MaxVersion
      /\ emitted \in Nat /\ emitted <= version /\ version \in Versions
  BY StreamsAssumption DEF Typed, TypeOK, Versions
<1>2. CASE Change
  <2>1. version' \in Versions /\ emitted' \in 0 .. version'
    BY <1>1, <1>2 DEF Change, Versions
  <2>2. QED
    BY <1>2, <2>1
    DEF Change, Typed, TypeOK, HasBucket, bucketVars, userVars
<1>3. CASE ForwardTableEvent
  <2>1. emitted' = emitted - 1 /\ emitted > 0 /\ version' = version
    BY <1>3 DEF ForwardTableEvent
  <2>2. emitted' \in 0 .. version'
    BY <1>1, <2>1
  <2>3. events' \subseteq Versions
    BY <1>1, <1>3 DEF ForwardTableEvent, publishTableSnapshotEvent, Typed, TypeOK
  <2>4. QED
    BY <1>3, <2>2, <2>3
    DEF ForwardTableEvent, Typed, TypeOK, HasBucket, bucketVars, userVars
<1>4. CASE FinalizeTableRemoval
  BY <1>4 DEF FinalizeTableRemoval, Typed, TypeOK, HasBucket, userVars
<1>5. QED
  BY <1>2, <1>3, <1>4

LEMMA SentType ==
  ASSUME NEW r \in Stream, NEW v \in Versions
  PROVE  /\ Sent(r, v) \in Stream
         /\ Sent(r, v).at = r.at /\ Sent(r, v).bucket = r.bucket
         /\ Sent(r, v).who = r.who /\ Sent(r, v).replaced = r.replaced
         /\ Sent(r, v).loaded = r.loaded
  BY DEF Sent, Stream, Newest

LEMMA SendTyped ==
  ASSUME Typed, NEW v \in events, SendGameStateUpdates(v)
  PROVE  /\ Typed'
         /\ \A s \in StreamIds :
              /\ streams'[s].at = streams[s].at /\ streams'[s].who = streams[s].who
              /\ streams'[s].bucket = streams[s].bucket
              /\ streams'[s].replaced = streams[s].replaced
              /\ streams'[s].loaded = streams[s].loaded
<1>1. v \in Versions /\ \A s \in StreamIds : streams[s] \in Stream
  BY DEF Typed, TypeOK
<1>2. /\ \A s \in StreamIds : streams'[s] \in {streams[s], Sent(streams[s], v)}
      /\ streams' = [x \in StreamIds |-> streams'[x]]
  BY DEF SendGameStateUpdates
<1>3. \A s \in StreamIds :
        /\ streams'[s] \in Stream
        /\ streams'[s].at = streams[s].at /\ streams'[s].who = streams[s].who
        /\ streams'[s].bucket = streams[s].bucket
        /\ streams'[s].replaced = streams[s].replaced
        /\ streams'[s].loaded = streams[s].loaded
  BY <1>1, <1>2, SentType
<1>4. streams' \in [StreamIds -> Stream]
  BY <1>2, <1>3
<1>5. HasBucket'
  BY <1>3 DEF Typed, HasBucket
<1>6. QED
  BY <1>3, <1>4, <1>5
  DEF SendGameStateUpdates, Typed, TypeOK, tableVars, bucketVars, userVars

LEMMA OpeningTyped ==
  ASSUME Typed, NEW s \in StreamIds,
         GetBucket(s) \/ LoadOlder(s) \/ CountStream(s)
  PROVE  Typed'
<1>1. streams[s] \in Stream /\ TypeOK /\ HasBucket
  BY DEF Typed, TypeOK
<1>2. CASE GetBucket(s)
  <2> DEFINE b == IF current = 0 THEN FreshBucket ELSE current
  <2>1. b \in BucketIds
    BY <1>1, <1>2, FreshBucketIsFree DEF GetBucket, HasBucket, TypeOK
  <2>2. streams' = [streams EXCEPT ![s] = [streams[s] EXCEPT !.at = "loading", !.bucket = b]]
    BY <1>1, <1>2 DEF GetBucket
  <2>3. streams' \in [StreamIds -> Stream] /\ HasBucket'
    BY <1>1, <2>1, <2>2, OneStreamTyped, FiniteIds DEF Stream, Opening
  <2>4. buckets' \in [BucketIds -> Bucket] /\ current' \in BucketIds
    BY <1>1, <1>2, <2>1 DEF GetBucket, TypeOK, NoBucket, Bucket
  <2>5. QED
    BY <1>1, <1>2, <2>3, <2>4 DEF GetBucket, Typed, TypeOK, tableVars, userVars
<1>3. CASE LoadOlder(s)
  <2> DEFINE older == EntryOf(s) # 0
             at == IF older THEN "storing" ELSE "counting"
             r == [streams[s] EXCEPT !.loaded = older, !.at = at]
  <2>1. streams' = [streams EXCEPT ![s] = r]
    BY <1>1, <1>3 DEF LoadOlder
  <2>2. older \in BOOLEAN /\ at \in Opening /\ at \notin {"none", "checked"}
    BY DEF Opening
  <2>3. r \in Stream /\ r.at = at /\ r.bucket = streams[s].bucket
    <3> HIDE DEF older, at
    <3>1. QED
      BY <1>1, <2>2 DEF Stream
  <2>4. streams[s].bucket # 0
    BY <1>1, <1>3, OfBucket, FiniteIds DEF LoadOlder
  <2>5. streams' \in [StreamIds -> Stream] /\ HasBucket'
    <3> HIDE DEF r, at
    <3>1. QED
      BY <1>1, <2>1, <2>2, <2>3, <2>4, OneStreamTyped
  <2>6. QED
    BY <1>1, <1>3, <2>5 DEF LoadOlder, Typed, TypeOK, tableVars, bucketVars, userVars
<1>4. CASE CountStream(s)
  <2>1. streams' = [streams EXCEPT ![s] = [streams[s] EXCEPT !.at = "storing"]]
    BY <1>1, <1>4 DEF CountStream, Goes
  <2>2. streams' \in [StreamIds -> Stream] /\ HasBucket'
    BY <1>1, <1>4, <2>1, OneStreamTyped, OfBucket, FiniteIds DEF Stream, Opening, CountStream
  <2>3. buckets' \in [BucketIds -> Bucket]
    BY <1>1, <1>4, OfBucket DEF CountStream, TypeOK, Bucket
  <2>4. QED
    BY <1>1, <1>4, <2>2, <2>3 DEF CountStream, Typed, TypeOK, tableVars, userVars
<1>5. QED
  BY <1>2, <1>3, <1>4

LEMMA StartTyped ==
  ASSUME Typed, NEW p \in Viewers, StartGameStream(p)
  PROVE  Typed'
<1> DEFINE unused == {s \in StreamIds : streams[s].at = "none"}
           r == [NoStream EXCEPT !.who = p, !.at = "checked"]
<1>1. Min(unused) \in StreamIds
  BY FirstUnused DEF StartGameStream
<1>2. r \in Stream /\ r.at = "checked" /\ r.bucket = 0
  BY NoStreamType DEF Stream, Opening, NoStream
<1>3. streams' = [streams EXCEPT ![Min(unused)] = r]
  BY DEF StartGameStream
<1>4. streams' \in [StreamIds -> Stream] /\ HasBucket'
  <2> HIDE DEF unused, r
  <2>1. QED
    BY <1>1, <1>2, <1>3, OneStreamTyped DEF Typed
<1>5. QED
  BY <1>4 DEF StartGameStream, Typed, TypeOK, tableVars, bucketVars, userVars

LEMMA MarkTyped ==
  ASSUME Typed, NEW s, NEW flag \in {"new", "online", "offline"}, Mark(s, flag)
  PROVE  presence' \in [Seated -> {"new", "online", "offline"}]
  BY DEF Typed, TypeOK, Mark

LEMMA RegisterTyped ==
  ASSUME Typed, NEW s \in StreamIds, Register(s)
  PROVE  Typed'
<1>1. /\ TypeOK /\ HasBucket /\ streams[s].at = "storing"
      /\ \A t \in StreamIds : streams[t] \in Stream
  BY DEF Typed, TypeOK, Register
<1>2. \A t \in StreamIds :
        /\ streams'[t] \in Stream
        /\ streams'[t].bucket = streams[t].bucket
        /\ streams'[t].at = IF t = s THEN "registered" ELSE streams[t].at
  <2>1. TAKE t \in StreamIds
  <2>2. PICK r \in Stream : r = streams[t]
    BY <1>1
  <2>3. \/ t = s /\ streams'[t] = [r EXCEPT !.at = "registered", !.loaded = FALSE]
        \/ t # s /\ streams'[t] = [r EXCEPT !.replaced = TRUE]
        \/ t # s /\ streams'[t] = r
    BY <2>2 DEF Register
  <2>4. QED
    BY <2>2, <2>3 DEF Stream, Registered
<1>3. streams' = [t \in StreamIds |-> streams'[t]]
  BY DEF Register
<1>4. streams' \in [StreamIds -> Stream]
  BY <1>2, <1>3
<1>5. HasBucket'
  BY <1>1, <1>2 DEF HasBucket
<1>6. buckets' \in [BucketIds -> Bucket]
  BY <1>1, OfBucket DEF Register, TypeOK, Bucket
<1>7. presence' \in [Seated -> {"new", "online", "offline"}]
  BY MarkTyped DEF Register
<1>8. crossed' \subseteq Seated
  BY <1>1 DEF Register, IsSeated, TypeOK
<1>9. raced' \in BOOLEAN
  BY <1>1 DEF Register, Overtaken, TypeOK
<1>10. QED
  BY <1>1, <1>4, <1>5, <1>6, <1>7, <1>8, <1>9 DEF Register, Typed, TypeOK, tableVars

LEMMA SeedTyped ==
  ASSUME Typed, NEW s \in StreamIds, CollectSnapshot(s) \/ SeedStream(s)
  PROVE  Typed'
<1>1. /\ TypeOK /\ HasBucket /\ streams[s] \in Stream
      /\ streams[s].snapshot \in Versions /\ version \in Versions
  BY DEF Typed, TypeOK, Stream
<1>2. 0 \in Versions
  BY StreamsAssumption DEF Versions
<1>3. streams[s].at \in {"registered", "collected"} /\ streams[s].bucket # 0
  BY <1>1, OfBucket, FiniteIds DEF CollectSnapshot, SeedStream
<1>4. CASE CollectSnapshot(s)
  <2> DEFINE r == [streams[s] EXCEPT !.at = "collected", !.snapshot = version]
  <2>1. streams' = [streams EXCEPT ![s] = r]
    BY <1>1, <1>4 DEF CollectSnapshot
  <2>2. r \in Stream /\ r.at = "collected" /\ r.bucket = streams[s].bucket
    BY <1>1 DEF Stream, Registered
  <2>3. streams' \in [StreamIds -> Stream] /\ HasBucket'
    <3> HIDE DEF r
    <3>1. QED
      BY <1>1, <1>3, <2>1, <2>2, OneStreamTyped
  <2>4. QED
    BY <1>1, <1>4, <2>3 DEF CollectSnapshot, Typed, TypeOK, tableVars, bucketVars, userVars
<1>5. CASE SeedStream(s)
  <2> DEFINE sent == Sent(streams[s], streams[s].snapshot)
             r == [sent EXCEPT !.at = "waiting", !.snapshot = 0]
  <2>1. sent \in Stream /\ sent.bucket = streams[s].bucket
    BY <1>1, SentType
  <2>2. streams' = [streams EXCEPT ![s] = r]
    BY <1>5 DEF SeedStream
  <2>3. r \in Stream /\ r.at = "waiting" /\ r.bucket = streams[s].bucket
    <3> HIDE DEF sent
    <3>1. QED
      BY <1>2, <2>1 DEF Stream, Registered
  <2>4. streams' \in [StreamIds -> Stream] /\ HasBucket'
    <3> HIDE DEF r
    <3>1. QED
      BY <1>1, <1>3, <2>2, <2>3, OneStreamTyped
  <2>5. events' \subseteq Versions
    BY <1>1, <1>5 DEF SeedStream, publishTableSnapshotEvent, TypeOK
  <2>6. QED
    BY <1>1, <1>5, <2>4, <2>5 DEF SeedStream, Typed, TypeOK, tableVars, bucketVars, userVars
<1>6. QED
  BY <1>4, <1>5

(* A handler that only goes on to another point.                           *)
LEMMA GoesTyped ==
  ASSUME Typed, NEW s \in StreamIds,
         NEW at \in Opening \cup Registered \cup Closing, at # "checked",
         streams[s].at \notin {"none", "checked"}, Goes(s, at)
  PROVE  /\ streams' \in [StreamIds -> Stream] /\ HasBucket'
         /\ streams' = [streams EXCEPT ![s] = [streams[s] EXCEPT !.at = at]]
<1> DEFINE r == [streams[s] EXCEPT !.at = at]
<1>1. TypeOK /\ HasBucket /\ streams[s] \in Stream /\ streams[s].bucket # 0
  BY OfBucket, FiniteIds DEF Typed, TypeOK
<1>2. streams' = [streams EXCEPT ![s] = r]
  BY <1>1 DEF Goes
<1>3. r \in Stream /\ r.at = at /\ r.bucket = streams[s].bucket /\ at # "none"
  BY <1>1 DEF Stream, Opening, Registered, Closing
<1>4. streams' \in [StreamIds -> Stream] /\ HasBucket'
  <2> HIDE DEF r
  <2>1. QED
    BY <1>1, <1>2, <1>3, OneStreamTyped
<1>5. QED
  BY <1>2, <1>4

LEMMA CheckTyped ==
  ASSUME Typed, NEW s \in StreamIds, CheckOwner(s)
  PROVE  Typed'
<1> DEFINE d == [NoStream EXCEPT !.at = "deleting", !.who = streams[s].who,
                                !.bucket = streams[s].bucket]
<1>1. /\ TypeOK /\ HasBucket /\ streams[s] \in Stream
      /\ streams[s].at \in {"waiting", "registered"}
  BY DEF CheckOwner, StreamEnds, Typed, TypeOK
<1>2. streams[s].bucket \in BucketIds /\ streams[s].who \in Viewers
  BY <1>1, OfBucket
<1>3. d \in Stream /\ d.at = "deleting" /\ d.bucket # 0
  BY <1>2, NoStreamType, FiniteIds DEF Stream, Closing
<1>4. \E r \in {d, NoStream} : streams' = [streams EXCEPT ![s] = r]
  BY DEF CheckOwner
<1>5. streams' \in [StreamIds -> Stream] /\ HasBucket'
  <2> HIDE DEF d
  <2>1. PICK r \in {d, NoStream} : streams' = [streams EXCEPT ![s] = r]
    BY <1>4
  <2>2. r \in Stream /\ (r.at \in {"none", "checked"} <=> r.bucket = 0)
    BY <1>3, NoStreamType
  <2>3. QED
    BY <1>1, <2>1, <2>2, OneStreamTyped
<1>6. QED
  BY <1>1, <1>5 DEF CheckOwner, Typed, TypeOK, tableVars, bucketVars, userVars

LEMMA EndTyped ==
  ASSUME Typed, NEW s \in StreamIds,
         DeleteEntry(s) \/ ReleaseCount(s) \/ EvictBucket(s)
  PROVE  Typed'
<1>1. /\ TypeOK /\ HasBucket
      /\ streams[s].at \in {"deleting", "releasing", "evicting"}
  BY DEF DeleteEntry, ReleaseCount, EvictBucket, Typed
<1>2. \E at \in Closing : Goes(s, at)
  BY DEF DeleteEntry, ReleaseCount, EvictBucket, Closing
<1>3. streams' \in [StreamIds -> Stream] /\ HasBucket'
  <2>1. PICK at \in Closing : Goes(s, at)
    BY <1>2
  <2>2. at # "checked"
    BY DEF Closing
  <2>3. QED
    BY <1>1, <2>1, <2>2, GoesTyped
<1>4. buckets[streams[s].bucket] \in Bucket /\ streams[s].bucket \in BucketIds
      /\ streams[s].who \in Viewers
  BY <1>1, OfBucket
<1>5. CASE DeleteEntry(s)
  <2>1. buckets' \in [BucketIds -> Bucket]
    BY <1>1, <1>4, <1>5 DEF DeleteEntry, TypeOK, Bucket
  <2>2. QED
    BY <1>1, <1>3, <1>5, <2>1 DEF DeleteEntry, Typed, TypeOK, tableVars, userVars
<1>6. CASE ReleaseCount(s)
  <2>1. buckets' \in [BucketIds -> Bucket]
    BY <1>1, <1>4, <1>6 DEF ReleaseCount, TypeOK, Bucket
  <2>2. QED
    BY <1>1, <1>3, <1>6, <2>1 DEF ReleaseCount, Typed, TypeOK, tableVars, userVars
<1>7. CASE EvictBucket(s)
  BY <1>1, <1>3, <1>7 DEF EvictBucket, Typed, TypeOK, tableVars, userVars
<1>8. QED
  BY <1>5, <1>6, <1>7

LEMMA DisconnectTyped ==
  ASSUME Typed, NEW s \in StreamIds, HandlePlayerDisconnect(s)
  PROVE  Typed'
<1>1. TypeOK /\ HasBucket /\ version \in Versions
  BY DEF Typed, TypeOK
<1>2. streams' \in [StreamIds -> Stream] /\ HasBucket'
  BY <1>1, NoStreamType, OneStreamTyped DEF HandlePlayerDisconnect
<1>3. presence' \in [Seated -> {"new", "online", "offline"}]
      /\ events' \subseteq Versions
  BY <1>1, MarkTyped
  DEF HandlePlayerDisconnect, publishTableSnapshotEvent, TypeOK
<1>4. QED
  BY <1>1, <1>2, <1>3
  DEF HandlePlayerDisconnect, Typed, TypeOK, tableVars, bucketVars

LEMMA NextTyped ==
  ASSUME Typed, [Next]_vars
  PROVE  Typed'
<1>1. CASE Change \/ ForwardTableEvent \/ FinalizeTableRemoval
  BY <1>1, TableTyped
<1>2. ASSUME NEW v \in events, SendGameStateUpdates(v) PROVE Typed'
  BY <1>2, SendTyped
<1>3. ASSUME NEW p \in Viewers, StartGameStream(p) PROVE Typed'
  BY <1>3, StartTyped
<1>4. ASSUME NEW s \in StreamIds, Handler(s) \/ CheckOwner(s) PROVE Typed'
  BY <1>4, OpeningTyped, RegisterTyped, SeedTyped, CheckTyped, EndTyped, DisconnectTyped
  DEF Handler
<1>5. CASE UNCHANGED vars
  BY <1>5 DEF Typed, TypeOK, HasBucket, vars, tableVars, bucketVars, userVars
<1>6. QED
  BY <1>1, <1>2, <1>3, <1>4, <1>5 DEF Next

-----------------------------------------------------------------------------
(* The order is kept, one action at a time.                                *)
Ordered == Typed /\ InOrder /\ open /\ ~raced

(* At most one stream of a player owns an entry, and nobody else's.        *)
LEMMA OwnerIsUnique ==
  ASSUME Ordered, NEW s \in StreamIds, NEW t \in StreamIds,
         streams[s].who = streams[t].who, Owning(s), Owning(t)
  PROVE  s = t
  BY DEF Ordered, InOrder, OwnersAreFound, EntryOf

(* Steps between points at which a handler owns its entry or does not care.  *)
LEMMA SameShape ==
  ASSUME Ordered, UNCHANGED <<current, buckets, presence, crossed>>,
         \A s \in StreamIds :
           /\ streams'[s].who = streams[s].who
           /\ streams'[s].bucket = streams[s].bucket
           /\ streams'[s].loaded = streams[s].loaded
           /\ streams'[s].replaced = streams[s].replaced
           /\ \/ streams'[s].at = streams[s].at
              \/ /\ {streams[s].at, streams'[s].at} \subseteq Registered \cup {"deleting"}
                 /\ streams'[s].replaced => streams'[s].at \in Registered
  PROVE  InOrder'
<1>1. /\ \A s \in StreamIds : (Owning(s)' <=> Owning(s)) /\ (Holds(s)' <=> Holds(s))
      /\ \A s \in StreamIds : EntryOf(s)' = EntryOf(s)
  BY DEF Owning, Holds, EntryOf, Registered
<1>2. \A b : Holders(b)' = Holders(b)
  BY <1>1 DEF Holders
<1>3. EntriesAreOwned'
  <2>1. \A b \in BucketIds, p \in Viewers :
          buckets[b].entry[p] \in StreamIds \cup {0}
    BY DEF Ordered, Typed, TypeOK, Bucket
  <2>2. QED
    BY <1>1, <2>1 DEF Ordered, InOrder, EntriesAreOwned
<1>4. OwnersAreFound'
  BY <1>1 DEF Ordered, InOrder, OwnersAreFound
<1>5. CountsHolders'
  BY <1>2 DEF Ordered, InOrder, CountsHolders, Registered
<1>6. FlagFollows'
  <2>1. \A s \in StreamIds :
          /\ Owning(s) \/ streams[s].at \in Closing
             => Owning(s)' \/ streams'[s].at \in Closing
          /\ streams'[s].at \in {"releasing", "evicting", "leaving"}
             <=> streams[s].at \in {"releasing", "evicting", "leaving"}
    BY DEF Ordered, InOrder, OwnersAreFound, Registered, Closing, Owning
  <2>2. FlagFollows
    BY DEF Ordered, InOrder
  <2>3. QED
    BY <1>1, <2>1, <2>2 DEF FlagFollows
<1>7. QED
  BY <1>3, <1>4, <1>5, <1>6 DEF InOrder

(* Steps of a stream that no bucket counts and nobody looks for.           *)
LEMMA QuietStep ==
  ASSUME Ordered, UNCHANGED <<current, buckets, presence, crossed>>,
         NEW s \in StreamIds,
         \A t \in StreamIds \ {s} : streams'[t] = streams[t],
         ~Holds(s), streams[s].at \notin Closing,
         ~Holds(s)', streams'[s].at \notin Closing \cup Registered,
         ~streams'[s].replaced,
         streams'[s].loaded => streams'[s].at = "storing"
  PROVE  InOrder'
<1>1. \A t \in StreamIds : (Owning(t)' <=> Owning(t)) /\ (Holds(t)' <=> Holds(t))
  BY DEF Owning, Holds
<1>2. ~Owning(s)
  BY DEF Holds
<1>3. \A b : Holders(b)' = Holders(b)
  BY <1>1 DEF Holders
<1>4. EntriesAreOwned'
  <2>1. \A b \in BucketIds, p \in Viewers :
          buckets[b].entry[p] \in StreamIds \cup {0}
    BY DEF Ordered, Typed, TypeOK, Bucket
  <2>2. QED
    BY <1>1, <1>2, <2>1 DEF Ordered, InOrder, EntriesAreOwned
<1>5. OwnersAreFound'
  BY <1>1, <1>2 DEF Ordered, InOrder, OwnersAreFound, EntryOf
<1>6. CountsHolders'
  BY <1>3 DEF Ordered, InOrder, CountsHolders, Closing
<1>7. FlagFollows'
  BY <1>1, <1>2 DEF Ordered, InOrder, FlagFollows, Closing
<1>8. QED
  BY <1>4, <1>5, <1>6, <1>7 DEF InOrder

LEMMA SendInOrder ==
  ASSUME Ordered, NEW v \in events, SendGameStateUpdates(v)
  PROVE  InOrder'
<1>1. UNCHANGED <<current, buckets, presence, crossed>>
  BY DEF SendGameStateUpdates, bucketVars, userVars
<1>2. QED
  BY <1>1, SendTyped, SameShape DEF Ordered

LEMMA SeedInOrder ==
  ASSUME Ordered, NEW s \in StreamIds, CollectSnapshot(s) \/ SeedStream(s)
  PROVE  InOrder'
<1>1. UNCHANGED <<current, buckets, presence, crossed>>
  BY DEF CollectSnapshot, SeedStream, bucketVars, userVars
<1>2. streams[s] \in Stream /\ streams[s].at \in Registered
  BY DEF Ordered, Typed, TypeOK, CollectSnapshot, SeedStream, Registered
<1>3. \A t \in StreamIds \ {s} : streams'[t] = streams[t]
  BY DEF Ordered, Typed, TypeOK, CollectSnapshot, SeedStream
<1>4. /\ streams'[s].who = streams[s].who
      /\ streams'[s].bucket = streams[s].bucket
      /\ streams'[s].loaded = streams[s].loaded
      /\ streams'[s].replaced = streams[s].replaced
      /\ streams'[s].at \in Registered
  <2>1. CASE CollectSnapshot(s)
    BY <1>2, <2>1 DEF Ordered, Typed, TypeOK, CollectSnapshot, Registered, Stream
  <2>2. CASE SeedStream(s)
    BY <1>2, <2>2 DEF Ordered, Typed, TypeOK, SeedStream, Registered, Stream, Sent
  <2>3. QED
    BY <2>1, <2>2
<1>5. QED
  BY <1>1, <1>2, <1>3, <1>4, SameShape

LEMMA StartInOrder ==
  ASSUME Ordered, NEW p \in Viewers, StartGameStream(p)
  PROVE  InOrder'
<1> DEFINE unused == {s \in StreamIds : streams[s].at = "none"}
           r == [NoStream EXCEPT !.who = p, !.at = "checked"]
<1>1. PICK s \in unused : s = Min(unused)
  BY FirstUnused DEF StartGameStream
<1>2. streams' = [streams EXCEPT ![s] = r]
  BY <1>1 DEF StartGameStream
<1>3. r.at = "checked" /\ ~r.loaded /\ ~r.replaced
  BY NoStreamType DEF NoStream
<1> HIDE DEF r
<1>4. streams'[s] = r /\ \A t \in StreamIds \ {s} : streams'[t] = streams[t]
  BY <1>1, <1>2 DEF Ordered, Typed, TypeOK
<1>5. ~Holds(s) /\ ~Holds(s)'
  BY <1>1, <1>3, <1>4 DEF Holds, Owning, Registered
<1>6. UNCHANGED <<current, buckets, presence, crossed>>
  BY DEF StartGameStream, bucketVars, userVars
<1>7. QED
  BY <1>1, <1>3, <1>4, <1>5, <1>6, QuietStep DEF Closing, Registered

LEMMA LoadInOrder ==
  ASSUME Ordered, NEW s \in StreamIds, LoadOlder(s)
  PROVE  InOrder'
<1>1. /\ streams[s] \in Stream /\ streams[s].at = "loading"
      /\ \A t \in StreamIds \ {s} : streams'[t] = streams[t]
  BY DEF Ordered, Typed, TypeOK, LoadOlder
<1>2. /\ streams'[s].replaced = streams[s].replaced
      /\ streams'[s].loaded = (EntryOf(s) # 0)
      /\ streams'[s].at = IF EntryOf(s) # 0 THEN "storing" ELSE "counting"
  BY <1>1 DEF Ordered, Typed, TypeOK, LoadOlder, Stream
<1>3. ~streams[s].replaced
  BY <1>1 DEF Ordered, InOrder, OwnersAreFound, Registered
<1>4. ~Holds(s) /\ ~Holds(s)'
  BY <1>1, <1>2 DEF Holds, Owning, Registered
<1>5. UNCHANGED <<current, buckets, presence, crossed>>
  BY DEF LoadOlder, bucketVars, userVars
<1>6. QED
  BY <1>1, <1>2, <1>3, <1>4, <1>5, QuietStep DEF Closing, Registered

(* A bucket made because none was registered is empty.                     *)
LEMMA GetInOrder ==
  ASSUME Ordered, NEW s \in StreamIds, GetBucket(s)
  PROVE  InOrder'
<1>1. /\ streams[s].at = "checked" /\ streams[s].bucket = 0 /\ ~streams[s].replaced
      /\ ~streams[s].loaded /\ streams[s] \in Stream
      /\ TypeOK /\ HasBucket
  BY DEF GetBucket, Ordered, Typed, TypeOK, HasBucket, InOrder, OwnersAreFound,
         CountsHolders, Registered
<1>2. PICK f \in BucketIds :
        /\ f = FreshBucket
        /\ \A t \in StreamIds : streams[t].bucket # f
  BY <1>1, FreshBucketIsFree
<1>3. \E b \in {f, current} :
        streams' = [streams EXCEPT ![s] = [streams[s] EXCEPT !.at = "loading", !.bucket = b]]
  BY <1>1, <1>2 DEF GetBucket, TypeOK
<1>4. /\ streams'[s].at = "loading" /\ ~streams'[s].replaced /\ ~streams'[s].loaded
      /\ \A t \in StreamIds \ {s} : streams'[t] = streams[t]
  BY <1>1, <1>3 DEF TypeOK, Stream
<1>5. ~Holds(s) /\ ~Holds(s)' /\ ~Owning(s) /\ ~Owning(s)'
  BY <1>1, <1>4 DEF Holds, Owning, Registered
<1>6. UNCHANGED <<presence, crossed>>
  BY DEF GetBucket, userVars
<1>7. CASE current # 0
  <2>1. UNCHANGED <<current, buckets>>
    BY <1>7 DEF GetBucket
  <2>2. QED
    BY <1>1, <1>4, <1>5, <1>6, <2>1, QuietStep DEF Closing, Registered
<1>8. CASE current = 0
  <2>1. current' = f /\ buckets' = [buckets EXCEPT ![f] = NoBucket]
    BY <1>2, <1>8 DEF GetBucket
  <2>2. \A t \in StreamIds : ~Owning(t) /\ ~Owning(t)'
    <3>1. \A t \in StreamIds : Owning(t) => streams[t].bucket = 0
      BY <1>8 DEF Ordered, InOrder, OwnersAreFound
    <3>2. \A t \in StreamIds : ~Owning(t)
      BY <1>1, <3>1 DEF HasBucket, Owning, Registered
    <3>3. QED
      BY <1>4, <1>5, <3>2 DEF Owning
  <2>3. \A t \in StreamIds \ {s} : Holds(t)' <=> Holds(t)
    BY <1>4 DEF Holds, Owning
  <2>4. Holders(f)' = {} /\ \A b \in BucketIds \ {f} : Holders(b)' = Holders(b)
    BY <1>2, <1>4, <1>5, <2>3 DEF Holders
  <2>5. EntriesAreOwned'
    <3>1. \A b \in BucketIds, p \in Viewers : buckets[b].entry[p] = 0
      <4>1. \A b \in BucketIds, p \in Viewers :
              buckets[b].entry[p] \in StreamIds \cup {0}
        BY <1>1 DEF TypeOK, Bucket
      <4>2. QED
        BY <2>2, <4>1 DEF Ordered, InOrder, EntriesAreOwned
    <3>2. \A b \in BucketIds, p \in Viewers : buckets'[b].entry[p] = 0
      BY <1>1, <2>1, <3>1 DEF TypeOK, NoBucket
    <3>3. QED
      BY <3>2, FiniteIds DEF EntriesAreOwned
  <2>6. OwnersAreFound'
    BY <1>4, <2>2 DEF Ordered, InOrder, OwnersAreFound
  <2>7. CountsHolders'
    <3>1. ASSUME NEW b \in BucketIds
          PROVE  /\ buckets'[b].count = Cardinality(Holders(b)')
                 /\ \A t \in StreamIds :
                      streams'[t].at = "evicting" /\ streams'[t].bucket = b
                      => Holders(b)' = {}
      <4>1. CASE b = f
        BY <1>1, <2>1, <2>4, <4>1, FS_EmptySet DEF TypeOK, NoBucket
      <4>2. CASE b # f
        BY <1>1, <1>4, <2>1, <2>4, <4>2 DEF TypeOK, Ordered, InOrder, CountsHolders
      <4>3. QED
        BY <4>1, <4>2
    <3>2. \A t \in StreamIds : streams'[t].loaded => streams'[t].at = "storing"
      BY <1>4 DEF Ordered, InOrder, CountsHolders
    <3>3. QED
      BY <3>1, <3>2 DEF CountsHolders
  <2>8. FlagFollows'
    BY <1>1, <1>4, <1>6, <2>2 DEF Ordered, InOrder, FlagFollows, Closing
  <2>9. QED
    BY <2>5, <2>6, <2>7, <2>8 DEF InOrder
<1>9. QED
  BY <1>7, <1>8

(* An older stream of the player that does not own the entry has been replaced. *)
LEMMA CheckInOrder ==
  ASSUME Ordered, NEW s \in StreamIds, CheckOwner(s)
  PROVE  InOrder'
<1>1. /\ streams[s].at \in {"waiting", "registered"} /\ streams[s] \in Stream
      /\ ~streams[s].loaded
      /\ \A t \in StreamIds \ {s} : streams'[t] = streams[t]
  BY DEF CheckOwner, StreamEnds, Ordered, Typed, TypeOK, InOrder, CountsHolders
<1>2. UNCHANGED <<current, buckets, presence, crossed>>
  BY DEF CheckOwner, bucketVars, userVars
<1>3. CASE EntryOf(s) = s
  <2>1. Owning(s)
    <3>1. s # 0 /\ streams[s].bucket \in BucketIds /\ streams[s].who \in Viewers
      BY <1>1, OfBucket, FiniteIds DEF Ordered, Typed
    <3>2. QED
      BY <1>3, <3>1 DEF Ordered, InOrder, EntriesAreOwned, EntryOf
  <2>2. streams' = [streams EXCEPT ![s] =
                     [NoStream EXCEPT !.at = "deleting", !.who = streams[s].who,
                                      !.bucket = streams[s].bucket]]
    BY <1>3 DEF CheckOwner
  <2>3. /\ streams'[s].at = "deleting" /\ ~streams'[s].replaced /\ ~streams'[s].loaded
        /\ streams'[s].who = streams[s].who /\ streams'[s].bucket = streams[s].bucket
    BY <2>2, NoStreamType DEF Ordered, Typed, TypeOK, NoStream
  <2>4. streams'[s].replaced = streams[s].replaced /\ streams'[s].loaded = streams[s].loaded
    <3>1. streams[s].replaced = FALSE /\ streams[s].loaded = FALSE
      BY <1>1, <2>1 DEF Owning, Stream
    <3>2. streams'[s].replaced = FALSE /\ streams'[s].loaded = FALSE
      BY <2>2 DEF Ordered, Typed, TypeOK, NoStream
    <3>3. QED
      BY <3>1, <3>2
  <2>5. QED
    BY <1>1, <1>2, <2>3, <2>4, SameShape DEF Registered
<1>4. CASE EntryOf(s) # s
  <2>1. ~Owning(s) /\ ~Holds(s)
    BY <1>1, <1>4 DEF Ordered, InOrder, OwnersAreFound, Holds
  <2>2. streams'[s] = NoStream
    BY <1>4 DEF CheckOwner, Ordered, Typed, TypeOK
  <2>3. ~Holds(s)'
    BY <2>2, NoStreamType DEF Holds, Owning, Registered
  <2>4. QED
    BY <1>1, <1>2, <2>1, <2>2, <2>3, QuietStep, NoStreamType DEF Closing, Registered
<1>5. QED
  BY <1>3, <1>4

(* The stream is counted before it has an entry; a bucket that is being    *)
(* dropped would be a race.                                                *)
LEMMA CountInOrder ==
  ASSUME Ordered, NEW s \in StreamIds, CountStream(s), ~raced'
  PROVE  InOrder'
<1>1. /\ TypeOK /\ streams[s] \in Stream /\ streams[s].at = "counting"
      /\ ~streams[s].loaded
      /\ \A t \in StreamIds \ {s} : streams'[t] = streams[t]
  BY DEF CountStream, Goes, Ordered, Typed, TypeOK, InOrder, CountsHolders
<1>2. /\ streams'[s].at = "storing" /\ ~streams'[s].loaded
      /\ streams'[s].replaced = streams[s].replaced
      /\ streams'[s].bucket = streams[s].bucket /\ streams'[s].who = streams[s].who
  BY <1>1 DEF CountStream, Goes, TypeOK, Stream
<1>3. PICK b \in BucketIds : b = streams[s].bucket
  BY <1>1, OfBucket DEF Ordered, Typed
<1>4. /\ buckets' = [buckets EXCEPT ![b].count = @ + 1]
      /\ UNCHANGED <<current, presence, crossed>>
      /\ \A t \in StreamIds : ~(streams[t].at = "evicting" /\ streams[t].bucket = b)
  BY <1>3 DEF CountStream, userVars, InBucket
<1>5. ~Holds(s) /\ Holds(s)' /\ ~Owning(s) /\ ~Owning(s)'
  BY <1>1, <1>2 DEF Holds, Owning, Registered
<1>6. \A t \in StreamIds \ {s} :
        (Owning(t)' <=> Owning(t)) /\ (Holds(t)' <=> Holds(t))
  BY <1>1 DEF Owning, Holds
<1>7. \A c \in BucketIds, p \in Viewers :
        /\ buckets[c].entry[p] \in StreamIds \cup {0}
        /\ buckets'[c].entry[p] = buckets[c].entry[p]
  BY <1>1, <1>4 DEF TypeOK, Bucket
<1>8. EntriesAreOwned'
  BY <1>1, <1>5, <1>6, <1>7 DEF Ordered, InOrder, EntriesAreOwned
<1>9. OwnersAreFound'
  <2>1. \A t \in StreamIds : Owning(t) => EntryOf(t)' = EntryOf(t)
    <3>1. TAKE t \in StreamIds
    <3>2. HAVE Owning(t)
    <3>3. streams[t].bucket \in BucketIds /\ streams[t].who \in Viewers
      BY <3>2, OfBucket DEF Owning, Ordered, Typed, Registered
    <3>4. streams'[t] = streams[t]
      BY <1>1, <1>5, <3>2
    <3>5. QED
      BY <1>7, <3>3, <3>4 DEF EntryOf
  <2>2. QED
    BY <1>1, <1>2, <1>4, <1>5, <1>6, <2>1
    DEF Ordered, InOrder, OwnersAreFound, Registered
<1>10. CountsHolders'
  <2>1. /\ Holders(b)' = Holders(b) \cup {s} /\ s \notin Holders(b)
        /\ \A c \in BucketIds \ {b} : Holders(c)' = Holders(c)
    BY <1>1, <1>2, <1>3, <1>5, <1>6 DEF Holders
  <2>2. Cardinality(Holders(b) \cup {s}) = Cardinality(Holders(b)) + 1
    <3>1. Holders(b) \in SUBSET StreamIds
      BY DEF Holders
    <3>2. QED
      BY <2>1, <3>1, FiniteIds, FS_Subset, FS_AddElement
  <2>3. ASSUME NEW c \in BucketIds
        PROVE  /\ buckets'[c].count = Cardinality(Holders(c)')
               /\ \A t \in StreamIds :
                    streams'[t].at = "evicting" /\ streams'[t].bucket = c
                    => Holders(c)' = {}
    <3>1. CASE c = b
      <4>1. buckets'[b].count = buckets[b].count + 1
        BY <1>1, <1>4 DEF TypeOK, Bucket
      <4>2. QED
        BY <1>1, <1>2, <1>4, <2>1, <2>2, <3>1, <4>1 DEF Ordered, InOrder, CountsHolders
    <3>2. CASE c # b
      BY <1>1, <1>2, <1>4, <2>1, <3>2 DEF TypeOK, Ordered, InOrder, CountsHolders
    <3>3. QED
      BY <3>1, <3>2
  <2>4. QED
    BY <1>1, <1>2, <2>3 DEF Ordered, InOrder, CountsHolders
<1>11. FlagFollows'
  BY <1>1, <1>2, <1>4, <1>5, <1>6 DEF Ordered, InOrder, FlagFollows, Closing
<1>12. QED
  BY <1>8, <1>9, <1>10, <1>11 DEF InOrder

(* The entry a handler deletes is its own.                                 *)
LEMMA DeleteInOrder ==
  ASSUME Ordered, NEW s \in StreamIds, DeleteEntry(s)
  PROVE  InOrder'
<1>1. /\ TypeOK /\ streams[s] \in Stream /\ streams[s].at = "deleting"
      /\ \A t \in StreamIds \ {s} : streams'[t] = streams[t]
  BY DEF DeleteEntry, Goes, Ordered, Typed, TypeOK
<1>2. /\ streams'[s].at = "releasing" /\ streams'[s].loaded = streams[s].loaded
      /\ streams'[s].replaced = streams[s].replaced
      /\ streams'[s].bucket = streams[s].bucket /\ streams'[s].who = streams[s].who
  BY <1>1 DEF DeleteEntry, Goes, TypeOK, Stream
<1>3. Owning(s) /\ ~Owning(s)' /\ Holds(s) /\ Holds(s)'
  BY <1>1, <1>2 DEF Ordered, InOrder, OwnersAreFound, Owning, Holds, Registered
<1>4. PICK b \in BucketIds, p \in Viewers : b = streams[s].bucket /\ p = streams[s].who
  BY <1>1, OfBucket DEF Ordered, Typed
<1>5. /\ buckets' = [buckets EXCEPT ![b].entry[p] = 0]
      /\ UNCHANGED <<current, presence, crossed>>
      /\ buckets[b].entry[p] = s
  BY <1>3, <1>4 DEF DeleteEntry, userVars, Ordered, InOrder, OwnersAreFound, EntryOf
<1>6. \A t \in StreamIds \ {s} :
        (Owning(t)' <=> Owning(t)) /\ (Holds(t)' <=> Holds(t))
  BY <1>1 DEF Owning, Holds
<1>7. \A c \in BucketIds, q \in Viewers :
        /\ buckets[c].entry[q] \in StreamIds \cup {0}
        /\ buckets'[c].entry[q] = IF c = b /\ q = p THEN 0 ELSE buckets[c].entry[q]
        /\ buckets'[c].count = buckets[c].count
  BY <1>1, <1>5 DEF TypeOK, Bucket
<1>8. EntriesAreOwned'
  <2>1. \A c \in BucketIds, q \in Viewers :
          buckets'[c].entry[q] # 0 => buckets'[c].entry[q] # s
    BY <1>4, <1>7, FiniteIds DEF Ordered, InOrder, EntriesAreOwned
  <2>2. QED
    BY <1>1, <1>6, <1>7, <2>1, FiniteIds DEF Ordered, InOrder, EntriesAreOwned
<1>9. OwnersAreFound'
  <2>1. \A t \in StreamIds \ {s} : Owning(t) => EntryOf(t)' = EntryOf(t)
    <3>1. TAKE t \in StreamIds \ {s}
    <3>2. HAVE Owning(t)
    <3>3. streams[t].bucket \in BucketIds /\ streams[t].who \in Viewers
      BY <3>2, OfBucket DEF Owning, Ordered, Typed, Registered
    <3>4. streams[t].who # p
      BY <1>3, <1>4, <3>2, OwnerIsUnique
    <3>5. PICK c \in BucketIds, q \in Viewers : c = streams[t].bucket /\ q = streams[t].who
      BY <3>3
    <3>6. buckets'[c].entry[q] = buckets[c].entry[q]
      BY <1>7, <3>4, <3>5
    <3>7. QED
      BY <1>1, <3>5, <3>6 DEF EntryOf
  <2>2. OwnersAreFound
    BY DEF Ordered, InOrder
  <2>3. ASSUME NEW t \in StreamIds \ {s}
        PROVE  /\ Owning(t)' => current' = streams'[t].bucket /\ EntryOf(t)' = t
               /\ streams'[t].replaced => streams'[t].at \in Registered
    <3>1. streams'[t] = streams[t] /\ (Owning(t)' => Owning(t)) /\ current' = current
      BY <1>1, <1>5, <1>6
    <3>2. QED
      BY <2>1, <2>2, <3>1 DEF OwnersAreFound
  <2>4. ~Owning(s)' /\ ~streams'[s].replaced
    <3>1. streams[s].at \notin Registered
      BY <1>1 DEF Registered
    <3>2. QED
      BY <1>2, <1>3, <2>2, <3>1 DEF OwnersAreFound
  <2>5. QED
    BY <2>3, <2>4 DEF OwnersAreFound
<1>10. CountsHolders'
  <2>1. \A c : Holders(c)' = Holders(c)
    BY <1>1, <1>2, <1>3, <1>6 DEF Holders
  <2>2. QED
    BY <1>1, <1>2, <1>7, <2>1, StreamsAssumption DEF Ordered, InOrder, CountsHolders
<1>11. FlagFollows'
  <2>1. \A q \in Seated, t, u \in StreamIds :
          /\ q \notin crossed' /\ streams'[t].who = q /\ streams'[u].who = q /\ Owning(t)'
          => /\ streams'[u].at \notin {"releasing", "evicting", "leaving"}
             /\ presence'[q] = "online"
    <3>1. TAKE q \in Seated, t, u \in StreamIds
    <3>2. HAVE /\ q \notin crossed' /\ streams'[t].who = q /\ streams'[u].who = q
               /\ Owning(t)'
    <3>3. t # s /\ Owning(t) /\ streams[t].who = q /\ streams[u].who = q
      BY <1>1, <1>2, <1>3, <1>6, <3>2
    <3>4. u # s
      BY <1>3, <3>3, OwnerIsUnique
    <3>5. QED
      BY <1>1, <1>5, <3>2, <3>3, <3>4 DEF Ordered, InOrder, FlagFollows
  <2>2. \A t \in StreamIds :
          Owning(t) \/ streams[t].at \in Closing
          => /\ Owning(t)' \/ streams'[t].at \in Closing
             /\ streams'[t].who = streams[t].who
    BY <1>1, <1>2, <1>6 DEF Closing
  <2>3. QED
    BY <1>5, <2>1, <2>2 DEF Ordered, InOrder, FlagFollows
<1>12. QED
  BY <1>8, <1>9, <1>10, <1>11 DEF InOrder

(* A stream that gives up its count is one the bucket counts; with the last *)
(* of them the bucket is empty.                                            *)
LEMMA ReleaseInOrder ==
  ASSUME Ordered, NEW s \in StreamIds, ReleaseCount(s)
  PROVE  InOrder'
<1>1. /\ TypeOK /\ streams[s] \in Stream /\ streams[s].at = "releasing"
      /\ \A t \in StreamIds \ {s} : streams'[t] = streams[t]
  BY DEF ReleaseCount, Goes, Ordered, Typed, TypeOK
<1>2. PICK b \in BucketIds : b = streams[s].bucket
  BY <1>1, OfBucket DEF Ordered, Typed
<1>3. /\ buckets' = [buckets EXCEPT ![b].count = @ - 1]
      /\ UNCHANGED <<current, presence, crossed>>
      /\ Goes(s, IF buckets[b].count - 1 = 0 THEN "evicting" ELSE "leaving")
  BY <1>1, <1>2 DEF ReleaseCount, userVars, TypeOK
<1>4. /\ streams'[s].at = IF buckets[b].count - 1 = 0 THEN "evicting" ELSE "leaving"
      /\ streams'[s].loaded = streams[s].loaded
      /\ streams'[s].replaced = streams[s].replaced
      /\ streams'[s].bucket = streams[s].bucket /\ streams'[s].who = streams[s].who
  BY <1>1, <1>3 DEF Goes, TypeOK, Stream
<1>5. Holds(s) /\ ~Holds(s)' /\ ~Owning(s) /\ ~Owning(s)'
      /\ ~streams[s].replaced /\ ~streams[s].loaded
  BY <1>1, <1>4
  DEF Holds, Owning, Registered, Ordered, InOrder, OwnersAreFound, CountsHolders
<1>6. \A t \in StreamIds \ {s} :
        (Owning(t)' <=> Owning(t)) /\ (Holds(t)' <=> Holds(t))
  BY <1>1 DEF Owning, Holds
<1>7. \A c \in BucketIds, p \in Viewers :
        /\ buckets[c].entry[p] \in StreamIds \cup {0}
        /\ buckets'[c].entry[p] = buckets[c].entry[p]
  BY <1>1, <1>3 DEF TypeOK, Bucket
<1>8. EntriesAreOwned'
  BY <1>1, <1>5, <1>6, <1>7 DEF Ordered, InOrder, EntriesAreOwned
<1>9. OwnersAreFound'
  <2>1. \A t \in StreamIds : Owning(t) => EntryOf(t)' = EntryOf(t)
    <3>1. TAKE t \in StreamIds
    <3>2. HAVE Owning(t)
    <3>3. streams[t].bucket \in BucketIds /\ streams[t].who \in Viewers
      BY <3>2, OfBucket DEF Owning, Ordered, Typed, Registered
    <3>4. streams'[t] = streams[t]
      BY <1>1, <1>5, <3>2
    <3>5. QED
      BY <1>7, <3>3, <3>4 DEF EntryOf
  <2>2. QED
    BY <1>1, <1>3, <1>4, <1>5, <1>6, <2>1 DEF Ordered, InOrder, OwnersAreFound
<1>10. CountsHolders'
  <2>1. /\ Holders(b)' = Holders(b) \ {s} /\ s \in Holders(b)
        /\ \A c \in BucketIds \ {b} : Holders(c)' = Holders(c)
    BY <1>1, <1>2, <1>4, <1>5, <1>6 DEF Holders
  <2>2. /\ IsFiniteSet(Holders(b)) /\ Cardinality(Holders(b)) \in Nat
        /\ Cardinality(Holders(b) \ {s}) = Cardinality(Holders(b)) - 1
    <3>1. Holders(b) \in SUBSET StreamIds
      BY DEF Holders
    <3>2. QED
      BY <2>1, <3>1, FiniteIds, FS_Subset, FS_RemoveElement, FS_CardinalityType
  <2>3. ASSUME NEW c \in BucketIds
        PROVE  /\ buckets'[c].count = Cardinality(Holders(c)')
               /\ \A t \in StreamIds :
                    streams'[t].at = "evicting" /\ streams'[t].bucket = c
                    => Holders(c)' = {}
    <3>1. CASE c = b
      <4>1. /\ buckets'[b].count = buckets[b].count - 1
            /\ buckets[b].count = Cardinality(Holders(b))
        BY <1>1, <1>3 DEF TypeOK, Bucket, Ordered, InOrder, CountsHolders
      <4>2. \A t \in StreamIds : ~(streams[t].at = "evicting" /\ streams[t].bucket = b)
        BY <2>1 DEF Ordered, InOrder, CountsHolders
      <4>3. \A t \in StreamIds :
              streams'[t].at = "evicting" /\ streams'[t].bucket = b
              => Cardinality(Holders(b) \ {s}) = 0
        BY <1>1, <1>4, <2>2, <4>1, <4>2
      <4>4. Cardinality(Holders(b) \ {s}) = 0 => Holders(b) \ {s} = {}
        BY <2>2, FS_EmptySet, FS_RemoveElement
      <4>5. QED
        BY <2>1, <2>2, <3>1, <4>1, <4>3, <4>4
    <3>2. CASE c # b
      BY <1>1, <1>2, <1>3, <1>4, <2>1, <3>2 DEF TypeOK, Ordered, InOrder, CountsHolders
    <3>3. QED
      BY <3>1, <3>2
  <2>4. QED
    BY <1>1, <1>4, <1>5, <2>3 DEF Ordered, InOrder, CountsHolders
<1>11. FlagFollows'
  <2>1. FlagFollows
    BY DEF Ordered, InOrder
  <2>2. \A t \in StreamIds :
          /\ (Owning(t)' <=> Owning(t)) /\ streams'[t].who = streams[t].who
          /\ streams[t].at \in Closing => streams'[t].at \in Closing
          /\ streams'[t].at \in {"releasing", "evicting", "leaving"}
             => streams[t].at \in {"releasing", "evicting", "leaving"}
    BY <1>1, <1>4, <1>5, <1>6 DEF Closing
  <2>3. QED
    BY <1>3, <2>1, <2>2 DEF FlagFollows
<1>12. QED
  BY <1>8, <1>9, <1>10, <1>11 DEF InOrder

(* The bucket that is dropped has no stream anybody looks for.             *)
LEMMA EvictInOrder ==
  ASSUME Ordered, NEW s \in StreamIds, EvictBucket(s)
  PROVE  InOrder'
<1>1. /\ TypeOK /\ streams[s] \in Stream /\ streams[s].at = "evicting"
      /\ \A t \in StreamIds \ {s} : streams'[t] = streams[t]
      /\ UNCHANGED <<buckets, presence, crossed>>
      /\ current' = IF current = streams[s].bucket THEN 0 ELSE current
  BY DEF EvictBucket, Goes, Ordered, Typed, TypeOK, userVars
<1>2. /\ streams'[s].at = "leaving" /\ streams'[s].loaded = streams[s].loaded
      /\ streams'[s].replaced = streams[s].replaced
      /\ streams'[s].bucket = streams[s].bucket /\ streams'[s].who = streams[s].who
  BY <1>1 DEF EvictBucket, Goes, TypeOK, Stream
<1>3. ~Holds(s) /\ ~Holds(s)' /\ ~Owning(s) /\ ~Owning(s)'
      /\ ~streams[s].replaced /\ ~streams[s].loaded
  BY <1>1, <1>2
  DEF Holds, Owning, Registered, Ordered, InOrder, OwnersAreFound, CountsHolders
<1>4. \A t \in StreamIds :
        /\ (Owning(t)' <=> Owning(t)) /\ (Holds(t)' <=> Holds(t))
        /\ streams'[t].who = streams[t].who /\ streams'[t].bucket = streams[t].bucket
        /\ streams'[t].loaded = streams[t].loaded
        /\ streams'[t].replaced = streams[t].replaced
        /\ streams'[t].at = IF t = s THEN "leaving" ELSE streams[t].at
  BY <1>1, <1>2, <1>3 DEF Owning, Holds
<1>5. EntriesAreOwned'
  <2>1. \A c \in BucketIds, p \in Viewers :
          buckets[c].entry[p] \in StreamIds \cup {0}
    BY <1>1 DEF TypeOK, Bucket
  <2>2. QED
    BY <1>1, <1>4, <2>1 DEF Ordered, InOrder, EntriesAreOwned
<1>6. OwnersAreFound'
  <2>1. streams[s].bucket \in BucketIds
    BY <1>1, OfBucket DEF Ordered, Typed
  <2>2. \A t \in StreamIds : Owning(t) => streams[t].bucket # streams[s].bucket
    BY <1>1, <2>1 DEF Ordered, InOrder, CountsHolders, Holders, Holds
  <2>3. QED
    BY <1>1, <1>3, <1>4, <2>2 DEF Ordered, InOrder, OwnersAreFound, EntryOf
<1>7. CountsHolders'
  <2>1. \A c : Holders(c)' = Holders(c)
    BY <1>4 DEF Holders
  <2>2. QED
    BY <1>1, <1>3, <1>4, <2>1 DEF Ordered, InOrder, CountsHolders
<1>8. FlagFollows'
  <2>1. FlagFollows
    BY DEF Ordered, InOrder
  <2>2. \A t \in StreamIds :
          /\ streams[t].at \in Closing => streams'[t].at \in Closing
          /\ streams'[t].at \in {"releasing", "evicting", "leaving"}
             => streams[t].at \in {"releasing", "evicting", "leaving"}
    BY <1>1, <1>4 DEF Closing
  <2>3. QED
    BY <1>1, <1>4, <2>1, <2>2 DEF FlagFollows
<1>9. QED
  BY <1>5, <1>6, <1>7, <1>8 DEF InOrder

(* The player hears of the departure when no stream of theirs is registered. *)
LEMMA DisconnectInOrder ==
  ASSUME Ordered, NEW s \in StreamIds, HandlePlayerDisconnect(s)
  PROVE  InOrder'
<1>1. /\ TypeOK /\ streams[s] \in Stream /\ streams[s].at = "leaving"
      /\ streams'[s] = NoStream
      /\ \A t \in StreamIds \ {s} : streams'[t] = streams[t]
      /\ UNCHANGED <<current, buckets, crossed>>
  BY DEF HandlePlayerDisconnect, Ordered, Typed, TypeOK, bucketVars
<1>2. ~Holds(s) /\ ~Holds(s)' /\ ~Owning(s) /\ ~Owning(s)'
  BY <1>1, NoStreamType DEF Holds, Owning, Registered
<1>3. \A t \in StreamIds : (Owning(t)' <=> Owning(t)) /\ (Holds(t)' <=> Holds(t))
  BY <1>1, <1>2 DEF Owning, Holds
<1>4. EntriesAreOwned'
  <2>1. \A c \in BucketIds, p \in Viewers :
          buckets[c].entry[p] \in StreamIds \cup {0}
    BY <1>1 DEF TypeOK, Bucket
  <2>2. QED
    BY <1>1, <1>2, <1>3, <2>1 DEF Ordered, InOrder, EntriesAreOwned
<1>5. OwnersAreFound'
  BY <1>1, <1>2, <1>3, NoStreamType DEF Ordered, InOrder, OwnersAreFound, EntryOf
<1>6. CountsHolders'
  <2>1. \A c : Holders(c)' = Holders(c)
    BY <1>1, <1>2, <1>3 DEF Holders
  <2>2. QED
    BY <1>1, <2>1, NoStreamType DEF Ordered, InOrder, CountsHolders
<1>7. FlagFollows'
  <2>1. FlagFollows /\ open
    BY DEF Ordered, InOrder
  <2>2. \A p \in Seated :
          presence'[p] = IF p = streams[s].who THEN "offline" ELSE presence[p]
    BY <1>1, <2>1 DEF HandlePlayerDisconnect, IsSeated, Mark
  <2>3. \A p \in Seated \ crossed, t \in StreamIds :
          p = streams[s].who /\ streams[t].who = p => ~Owning(t)
    BY <1>1, <2>1 DEF FlagFollows
  <2>4. streams'[s].at = "none"
    BY <1>1, NoStreamType
  <2>5. QED
    BY <1>1, <1>2, <1>3, <2>1, <2>2, <2>3, <2>4 DEF FlagFollows
<1>8. QED
  BY <1>4, <1>5, <1>6, <1>7 DEF InOrder

(* A registration takes over the entry, and with it the count, of the older *)
(* stream that the handler has seen.                                       *)
LEMMA RegisterInOrder ==
  ASSUME Ordered, NEW s \in StreamIds, Register(s), ~raced'
  PROVE  InOrder'
<1> DEFINE e == EntryOf(s)
<1>1. /\ TypeOK /\ streams[s] \in Stream /\ streams[s].at = "storing"
      /\ ~streams[s].replaced
      /\ ~Overtaken(s)
  BY DEF Register, Ordered, Typed, TypeOK, InOrder, OwnersAreFound, Registered
<1>2. PICK b \in BucketIds, p \in Viewers : b = streams[s].bucket /\ p = streams[s].who
  BY <1>1, OfBucket DEF Ordered, Typed
<1>3. PICK e0 \in StreamIds \cup {0} : e0 = e /\ e0 = buckets[b].entry[p]
  BY <1>1, <1>2, OfBucket DEF EntryOf, Ordered, Typed
<1> HIDE DEF e
<1>4. /\ current = b /\ (streams[s].loaded <=> e0 # 0)
      /\ \A t \in StreamIds \ {s} :
           streams[t].who = p => ~(streams[t].at = "deleting" /\ streams[t].bucket = b)
  BY <1>1, <1>2, <1>3 DEF Overtaken, Ordered, Same, InBucket, e
<1>5. /\ e0 # s
      /\ e0 # 0 => /\ e0 \in StreamIds /\ Owning(e0) /\ streams[e0].who = p
                   /\ streams[e0].bucket = b /\ streams[e0].at \in Registered
  <2>1. ~Owning(s) /\ s # 0
    BY <1>1, FiniteIds DEF Owning, Registered
  <2>2. e0 # 0 => Owning(e0) /\ streams[e0].who = p /\ streams[e0].bucket = b
    BY <1>3 DEF Ordered, InOrder, EntriesAreOwned
  <2>3. QED
    BY <1>4, <2>1, <2>2 DEF Owning
<1>6. /\ streams'[s].at = "registered" /\ ~streams'[s].loaded /\ ~streams'[s].replaced
      /\ streams'[s].who = p /\ streams'[s].bucket = b
      /\ \A t \in StreamIds \ {s} :
           /\ streams'[t].at = streams[t].at /\ streams'[t].who = streams[t].who
           /\ streams'[t].bucket = streams[t].bucket
           /\ streams'[t].loaded = streams[t].loaded
           /\ t = e0 => streams'[t].replaced
           /\ t # e0 => streams'[t].replaced = streams[t].replaced
  <2>1. streams' = [t \in StreamIds |->
          IF t = s THEN [streams[s] EXCEPT !.at = "registered", !.loaded = FALSE]
          ELSE IF t = e0 THEN [streams[t] EXCEPT !.replaced = TRUE] ELSE streams[t]]
    BY <1>3 DEF Register, e
  <2>2. \A t \in StreamIds : streams[t] \in Stream
    BY <1>1 DEF TypeOK
  <2>3. QED
    BY <1>1, <1>2, <2>1, <2>2 DEF Stream
<1>7. /\ UNCHANGED current
      /\ \A c \in BucketIds, q \in Viewers :
           /\ buckets[c].entry[q] \in StreamIds \cup {0}
           /\ buckets'[c].entry[q] = IF c = b /\ q = p THEN s ELSE buckets[c].entry[q]
           /\ buckets'[c].count = buckets[c].count
  <2>1. buckets' = [buckets EXCEPT ![b].entry[p] = s] /\ UNCHANGED current
    BY <1>2 DEF Register
  <2>2. QED
    BY <1>1, <2>1 DEF TypeOK, Bucket
<1>8. /\ ~Owning(s) /\ Owning(s)' /\ Holds(s)' /\ (Holds(s) <=> e0 = 0)
      /\ \A t \in StreamIds \ {s, e0} :
           (Owning(t)' <=> Owning(t)) /\ (Holds(t)' <=> Holds(t))
      /\ e0 # 0 => ~Owning(e0)' /\ ~Holds(e0)' /\ Holds(e0)
  BY <1>1, <1>4, <1>5, <1>6 DEF Owning, Holds, Registered
<1>9. EntriesAreOwned'
  <2>1. ASSUME NEW c \in BucketIds, NEW q \in Viewers, NEW t \in StreamIds,
               buckets'[c].entry[q] = t
        PROVE  Owning(t)' /\ streams'[t].who = q /\ streams'[t].bucket = c
    <3>1. CASE c = b /\ q = p
      <4>1. t = s
        BY <1>7, <2>1, <3>1
      <4>2. QED
        BY <1>6, <1>8, <3>1, <4>1
    <3>2. CASE ~(c = b /\ q = p)
      <4>1. t = buckets[c].entry[q]
        BY <1>7, <2>1, <3>2
      <4>2. Owning(t) /\ streams[t].who = q /\ streams[t].bucket = c
        BY <4>1 DEF Ordered, InOrder, EntriesAreOwned
      <4>3. t # s /\ t # e0
        BY <1>5, <1>8, <3>2, <4>2, FiniteIds
      <4>4. QED
        BY <1>6, <1>8, <4>2, <4>3
    <3>3. QED
      BY <3>1, <3>2
  <2>2. QED
    BY <2>1 DEF EntriesAreOwned
<1>10. OwnersAreFound'
  <2>1. ASSUME NEW t \in StreamIds, Owning(t)'
        PROVE  current' = streams'[t].bucket /\ EntryOf(t)' = t
    <3>1. CASE t = s
      BY <1>4, <1>6, <1>7, <3>1 DEF EntryOf
    <3>2. CASE t # s
      <4>1. t # e0 /\ Owning(t) /\ EntryOf(t) = t /\ current = streams[t].bucket
        BY <1>5, <1>8, <2>1, <3>2, FiniteIds DEF Ordered, InOrder, OwnersAreFound
      <4>2. streams[t].bucket \in BucketIds /\ streams[t].who \in Viewers
        BY <4>1, OfBucket DEF Owning, Ordered, Typed, Registered
      <4>3. ~(streams[t].bucket = b /\ streams[t].who = p)
        BY <1>3, <4>1 DEF EntryOf
      <4>4. QED
        BY <1>6, <1>7, <3>2, <4>1, <4>2, <4>3 DEF EntryOf
    <3>3. QED
      BY <3>1, <3>2
  <2>2. \A t \in StreamIds : streams'[t].replaced => streams'[t].at \in Registered
    BY <1>5, <1>6, FiniteIds DEF Ordered, InOrder, OwnersAreFound
  <2>3. QED
    BY <2>1, <2>2 DEF OwnersAreFound
<1>11. CountsHolders'
  <2>1. ASSUME NEW c \in BucketIds \ {b} PROVE Holders(c)' = Holders(c)
    <3>1. \A t \in StreamIds :
            streams'[t].bucket = c /\ Holds(t)' <=> streams[t].bucket = c /\ Holds(t)
      BY <1>2, <1>5, <1>6, <1>8, FiniteIds
    <3>2. QED
      BY <3>1 DEF Holders
  <2>2. IsFiniteSet(Holders(b))
    <3>1. Holders(b) \in SUBSET StreamIds
      BY DEF Holders
    <3>2. QED
      BY <3>1, FiniteIds, FS_Subset
  <2>3. Holders(b) # {} /\ Cardinality(Holders(b)') = Cardinality(Holders(b))
    <3>1. CASE e0 = 0
      <4>1. Holders(b)' = Holders(b) /\ s \in Holders(b)
        <5>1. \A t \in StreamIds :
                streams'[t].bucket = b /\ Holds(t)' <=> streams[t].bucket = b /\ Holds(t)
          BY <1>2, <1>6, <1>8, <3>1, FiniteIds
        <5>2. QED
          BY <1>2, <1>8, <3>1, <5>1 DEF Holders
      <4>2. QED
        BY <4>1
    <3>2. CASE e0 # 0
      <4>1. /\ Holders(b)' = (Holders(b) \ {e0}) \cup {s}
            /\ e0 \in Holders(b) /\ s \notin Holders(b) \ {e0}
        BY <1>2, <1>5, <1>6, <1>8, <3>2 DEF Holders
      <4>2. /\ IsFiniteSet(Holders(b) \ {e0})
            /\ Cardinality(Holders(b) \ {e0}) = Cardinality(Holders(b)) - 1
            /\ Cardinality(Holders(b)) \in Nat
        BY <2>2, <4>1, FS_RemoveElement, FS_CardinalityType
      <4>3. Cardinality((Holders(b) \ {e0}) \cup {s})
            = Cardinality(Holders(b) \ {e0}) + 1
        BY <4>1, <4>2, FS_AddElement
      <4>4. QED
        BY <4>1, <4>2, <4>3
    <3>3. QED
      BY <3>1, <3>2
  <2>4. \A t \in StreamIds :
          /\ streams'[t].at = "evicting"
             => /\ streams[t].at = "evicting" /\ streams'[t].bucket = streams[t].bucket
                /\ streams[t].bucket # b
          /\ streams'[t].loaded => streams'[t].at = "storing"
    BY <1>6, <2>3 DEF Ordered, InOrder, CountsHolders
  <2>5. ASSUME NEW c \in BucketIds
        PROVE  /\ buckets'[c].count = Cardinality(Holders(c)')
               /\ \A t \in StreamIds :
                    streams'[t].at = "evicting" /\ streams'[t].bucket = c
                    => Holders(c)' = {}
    <3>1. buckets'[c].count = buckets[c].count
      BY <1>7, StreamsAssumption DEF Viewers
    <3>2. QED
      BY <2>1, <2>3, <2>4, <3>1 DEF Ordered, InOrder, CountsHolders
  <2>6. QED
    BY <2>4, <2>5 DEF CountsHolders
<1>12. FlagFollows'
  <2>1. FlagFollows
    BY DEF Ordered, InOrder
  <2>2. \A q \in Seated : presence'[q] = IF q = p THEN "online" ELSE presence[q]
    BY <1>2 DEF Register, Mark
  <2>3. \A q \in Seated \ {p} : q \in crossed' <=> q \in crossed
    BY <1>2 DEF Register
  <2>4. p \in Seated \ crossed' =>
          \A t \in StreamIds \ {s} :
            streams[t].who = p => streams[t].at \notin {"releasing", "evicting", "leaving"}
    BY <1>2 DEF Register, IsSeated, Unreported, Same
  <2>5. ASSUME NEW q \in Seated \ crossed'
        PROVE  /\ \A t, u \in StreamIds :
                    streams'[t].who = q /\ streams'[u].who = q /\ Owning(t)'
                    => streams'[u].at \notin {"releasing", "evicting", "leaving"}
               /\ \A t \in StreamIds :
                    streams'[t].who = q /\ Owning(t)' => presence'[q] = "online"
               /\ presence'[q] = "online" =>
                    \E t \in StreamIds :
                      streams'[t].who = q /\ (Owning(t)' \/ streams'[t].at \in Closing)
    <3>1. CASE q = p
      BY <1>6, <1>8, <2>2, <2>4, <3>1
    <3>2. CASE q # p
      <4>1. q \in Seated \ crossed /\ presence'[q] = presence[q]
        BY <2>2, <2>3, <3>2
      <4>2. \A t \in StreamIds :
              streams'[t].who = q
              => /\ streams[t].who = q /\ streams'[t].at = streams[t].at
                 /\ (Owning(t)' <=> Owning(t))
        BY <1>5, <1>6, <1>8, <3>2, FiniteIds
      <4>3. \A t \in StreamIds :
              streams[t].who = q
              => /\ streams'[t].who = q /\ streams'[t].at = streams[t].at
                 /\ (Owning(t)' <=> Owning(t))
        BY <1>2, <1>5, <1>6, <1>8, <3>2, FiniteIds
      <4>4. QED
        BY <2>1, <4>1, <4>2, <4>3 DEF FlagFollows
    <3>3. QED
      BY <3>1, <3>2
  <2>6. QED
    BY <2>5 DEF FlagFollows
<1>13. QED
  BY <1>9, <1>10, <1>11, <1>12 DEF InOrder

-----------------------------------------------------------------------------
(* The theorems.                                                           *)
LEMMA InitInv == Init => StreamsInv
<1> SUFFICES ASSUME Init PROVE StreamsInv
  OBVIOUS
<1>1. Typed
  BY InitTyped
<1>2. /\ \A s \in StreamIds : streams[s] = NoStream /\ ~Owning(s) /\ ~Holds(s)
      /\ \A b \in BucketIds : buckets[b] = NoBucket
      /\ \A p \in Seated : presence[p] = "new"
  BY NoStreamType DEF Init, Owning, Holds, Registered
<1>3. \A b : Holders(b) = {}
  BY <1>2 DEF Holders
<1>4. EntriesAreOwned /\ OwnersAreFound
  <2>1. \A b \in BucketIds, p \in Viewers : buckets[b].entry[p] = 0
    BY <1>2 DEF NoBucket
  <2>2. \A s \in StreamIds : ~Owning(s) /\ ~streams[s].replaced
    BY <1>2, NoStreamType
  <2>3. EntriesAreOwned
    BY <2>1, FiniteIds DEF EntriesAreOwned
  <2>4. OwnersAreFound
    BY <2>2 DEF OwnersAreFound
  <2>5. QED
    BY <2>3, <2>4
<1>5. CountsHolders
  <2>1. \A b \in BucketIds : buckets[b].count = 0
    BY <1>2 DEF NoBucket
  <2>2. \A b \in BucketIds : buckets[b].count = Cardinality(Holders(b))
    BY <1>3, <2>1, FS_EmptySet
  <2>3. \A s \in StreamIds : ~streams[s].loaded
    BY <1>2, NoStreamType
  <2>4. QED
    BY <1>3, <2>2, <2>3 DEF CountsHolders
<1>6. FlagFollows
  BY <1>2 DEF FlagFollows
<1>7. QED
  BY <1>1, <1>4, <1>5, <1>6 DEF StreamsInv, InOrder, Typed

LEMMA StreamsInvNext ==
  ASSUME StreamsInv, [Next]_vars
  PROVE  StreamsInv'
<1>1. Typed /\ Typed'
  BY NextTyped DEF StreamsInv, Typed
<1>2. SUFFICES ASSUME open', ~raced' PROVE InOrder'
  BY <1>1 DEF StreamsInv, Typed
<1>3. (open' => open) /\ (raced => raced')
  <2>1. ASSUME NEW s \in StreamIds, Handler(s) \/ CheckOwner(s)
        PROVE  (open' => open) /\ (raced => raced')
    <3>1. CASE CountStream(s) \/ Register(s)
      <4>1. raced \in BOOLEAN /\ raced' \in BOOLEAN
        BY <1>1 DEF Typed, TypeOK
      <4>2. open' = open /\ \E x \in BOOLEAN : raced' = (raced \/ x)
        <5>1. CASE CountStream(s)
          BY <5>1 DEF CountStream, tableVars
        <5>2. CASE Register(s)
          BY <5>2 DEF Register, tableVars
        <5>3. QED
          BY <3>1, <5>1, <5>2
      <4>3. QED
        BY <4>1, <4>2
    <3>2. CASE GetBucket(s) \/ LoadOlder(s) \/ CollectSnapshot(s) \/ SeedStream(s)
      BY <3>2 DEF GetBucket, LoadOlder, CollectSnapshot, SeedStream, tableVars
    <3>3. CASE CheckOwner(s) \/ DeleteEntry(s) \/ ReleaseCount(s) \/ EvictBucket(s)
               \/ HandlePlayerDisconnect(s)
      BY <3>3
      DEF CheckOwner, DeleteEntry, ReleaseCount, EvictBucket, HandlePlayerDisconnect,
          tableVars
    <3>4. QED
      BY <2>1, <3>1, <3>2, <3>3 DEF Handler
  <2>2. ASSUME NEW v \in events, SendGameStateUpdates(v)
        PROVE  (open' => open) /\ (raced => raced')
    BY <2>2 DEF SendGameStateUpdates, tableVars
  <2>3. ASSUME NEW p \in Viewers, StartGameStream(p)
        PROVE  (open' => open) /\ (raced => raced')
    BY <2>3 DEF StartGameStream, tableVars
  <2>4. CASE Change \/ ForwardTableEvent \/ FinalizeTableRemoval \/ UNCHANGED vars
    BY <2>4 DEF Change, ForwardTableEvent, FinalizeTableRemoval, vars, tableVars
  <2>5. QED
    BY <2>1, <2>2, <2>3, <2>4 DEF Next
<1>4. Ordered
  BY <1>1, <1>2, <1>3 DEF StreamsInv, Ordered
<1>5. CASE Change \/ ForwardTableEvent \/ FinalizeTableRemoval \/ UNCHANGED vars
  <2>1. UNCHANGED <<streams, current, buckets, presence, crossed>>
    BY <1>2, <1>5
    DEF Change, ForwardTableEvent, FinalizeTableRemoval, vars, bucketVars, userVars
  <2>2. QED
    BY <1>4, <2>1, SameShape
<1>6. ASSUME NEW v \in events, SendGameStateUpdates(v) PROVE InOrder'
  BY <1>4, <1>6, SendInOrder
<1>7. ASSUME NEW p \in Viewers, StartGameStream(p) PROVE InOrder'
  BY <1>4, <1>7, StartInOrder
<1>8. ASSUME NEW s \in StreamIds, Handler(s) \/ CheckOwner(s) PROVE InOrder'
  <2>1. CASE GetBucket(s) \/ LoadOlder(s)
    BY <1>4, <2>1, GetInOrder, LoadInOrder
  <2>2. CASE CountStream(s) \/ Register(s)
    BY <1>2, <1>4, <2>2, CountInOrder, RegisterInOrder
  <2>3. CASE CollectSnapshot(s) \/ SeedStream(s) \/ CheckOwner(s)
    BY <1>4, <2>3, SeedInOrder, CheckInOrder
  <2>4. CASE DeleteEntry(s) \/ ReleaseCount(s) \/ EvictBucket(s)
    BY <1>4, <2>4, DeleteInOrder, ReleaseInOrder, EvictInOrder
  <2>5. CASE HandlePlayerDisconnect(s)
    BY <1>4, <2>5, DisconnectInOrder
  <2>6. QED
    BY <1>8, <2>1, <2>2, <2>3, <2>4, <2>5 DEF Handler
<1>9. QED
  BY <1>5, <1>6, <1>7, <1>8 DEF Next

(* While the table is registered and no handler has acted on what changed  *)
(* under it, the maps and the counter of every bucket describe the streams *)
(* (StartGameStream, poker.go:33-74), whatever handlers run at once.       *)
THEOREM StreamsInvariant == Spec => []StreamsInv
<1>1. Init => StreamsInv
  BY InitInv
<1>2. StreamsInv /\ [Next]_vars => StreamsInv'
  BY StreamsInvNext
<1>3. QED
  BY <1>1, <1>2, PTL DEF Spec

(* The variables keep their types: handlers find their buckets and events  *)
(* carry versions the table has had.                                       *)
THEOREM StreamsTypeCorrect == Spec => []TypeOK
<1>1. StreamsInv => TypeOK
  BY DEF StreamsInv
<1>2. QED
  BY <1>1, StreamsInvariant, PTL

(* A registered stream whose player has opened no newer one is found by    *)
(* every broadcast (poker.go:33-69): neither an older stream of the player *)
(* nor the last stream of the bucket takes it away when it ends.           *)
THEOREM NobodyIsForgotten == Spec => []NobodyForgotten
<1>1. StreamsInv => NobodyForgotten
  BY DEF StreamsInv, NobodyForgotten, InOrder, OwnersAreFound, Owning
<1>2. QED
  BY <1>1, StreamsInvariant, PTL

(* The disconnected flag of a player follows the streams (poker.go:66-74,  *)
(* :108-132), however departures and returns of other streams interleave.  *)
THEOREM AlwaysShownConnected == Spec => []ShownConnected
<1>1. StreamsInv => ShownConnected
  <2> SUFFICES ASSUME StreamsInv, open, ~raced, NEW p \in Seated \ crossed
               PROVE  /\ \A s \in StreamIds :
                           /\ streams[s].who = p /\ streams[s].at # "none"
                           /\ streams[s].at \in Registered /\ ~streams[s].replaced
                           => presence[p] = "online"
                      /\ (\A s \in StreamIds :
                            ~(streams[s].who = p /\ streams[s].at # "none"))
                         => presence[p] # "online"
    BY DEF ShownConnected
  <2>1. FlagFollows
    BY DEF StreamsInv, InOrder
  <2>2. QED
    BY <2>1 DEF FlagFollows, Owning, Registered, Closing
<1>2. QED
  BY <1>1, StreamsInvariant, PTL
=============================================================================
