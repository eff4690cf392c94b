------------------------------ MODULE MatchProofs ------------------------------
(***************************************************************************)
(* Theorems about the life of a table across shutdowns and crashes: its    *)
(* checkpoints, and what a server that stops has saved, for any number of  *)
(* players, workers, saves and restarts.                                   *)
(***************************************************************************)
EXTENDS Match, PotsProofs, SequenceTheorems, TLAPS

(***************************************************************************)
(* Sequences.                                                              *)
(***************************************************************************)
(* What is left when one element is taken out.                             *)
LEMMA RemoveAtKeeps ==
    ASSUME NEW X, NEW s \in Seq(X), NEW i \in DOMAIN s
    PROVE  /\ RemoveAt(s, i) \in Seq(X)
           /\ Len(s) \in Nat /\ DOMAIN s = 1 .. Len(s)
           /\ Len(RemoveAt(s, i)) = Len(s) - 1
           /\ DOMAIN RemoveAt(s, i) = 1 .. Len(s) - 1
           /\ \A j \in DOMAIN RemoveAt(s, i) :
                  /\ (IF j < i THEN j ELSE j + 1) \in DOMAIN s \ {i}
                  /\ RemoveAt(s, i)[j] = s[IF j < i THEN j ELSE j + 1]
<1>1. Len(s) \in Nat /\ DOMAIN s = 1 .. Len(s) /\ i \in 1 .. Len(s)
  BY LenProperties
<1>2. PICK n : n = Len(s)
  OBVIOUS
<1>3. n \in Nat /\ i \in 1 .. n /\ \A j \in 1 .. n : s[j] \in X
  BY <1>1, <1>2, LenProperties
<1>4. PICK a, b : a = SubSeq(s, 1, i - 1) /\ b = SubSeq(s, i + 1, n)
  OBVIOUS
<1>5. /\ a \in Seq(X) /\ Len(a) = i - 1
      /\ \A j \in 1 .. i - 1 : a[j] = s[j]
  <2>1. /\ 1 \in Int /\ i - 1 \in Int /\ \A j \in 1 .. i - 1 : s[j] \in X
        /\ (IF 1 <= i - 1 THEN (i - 1) - 1 + 1 ELSE 0) = i - 1
        /\ \A j \in 1 .. i - 1 : 1 + j - 1 = j /\ j \in 1 .. (i - 1) - 1 + 1
    BY <1>3
  <2>2. /\ SubSeq(s, 1, i - 1) \in Seq(X)
        /\ Len(SubSeq(s, 1, i - 1)) = IF 1 <= i - 1 THEN (i - 1) - 1 + 1 ELSE 0
        /\ \A j \in 1 .. (i - 1) - 1 + 1 : SubSeq(s, 1, i - 1)[j] = s[1 + j - 1]
    BY <2>1, SubSeqProperties
  <2>3. QED
    BY <1>4, <2>1, <2>2
<1>6. /\ b \in Seq(X) /\ Len(b) = n - i
      /\ \A j \in 1 .. n - i : b[j] = s[i + j]
  <2>1. /\ i + 1 \in Int /\ n \in Int /\ \A j \in i + 1 .. n : s[j] \in X
        /\ (IF i + 1 <= n THEN n - (i + 1) + 1 ELSE 0) = n - i
        /\ \A j \in 1 .. n - i : (i + 1) + j - 1 = i + j /\ j \in 1 .. n - (i + 1) + 1
    BY <1>3
  <2>2. /\ SubSeq(s, i + 1, n) \in Seq(X)
        /\ Len(SubSeq(s, i + 1, n)) = IF i + 1 <= n THEN n - (i + 1) + 1 ELSE 0
        /\ \A j \in 1 .. n - (i + 1) + 1 : SubSeq(s, i + 1, n)[j] = s[(i + 1) + j - 1]
    BY <2>1, SubSeqProperties
  <2>3. QED
    BY <1>4, <2>1, <2>2
<1>7. PICK r : r = RemoveAt(s, i)
  OBVIOUS
<1>8. r = a \o b
  BY <1>2, <1>4, <1>7 DEF RemoveAt
<1>9. /\ r \in Seq(X) /\ Len(r) = Len(a) + Len(b)
      /\ \A j \in 1 .. Len(a) + Len(b) : r[j] = IF j <= Len(a) THEN a[j] ELSE b[j - Len(a)]
  BY <1>5, <1>6, <1>8, ConcatProperties
<1>10. Len(r) = n - 1 /\ DOMAIN r = 1 .. n - 1
  BY <1>3, <1>5, <1>6, <1>9, LenProperties
<1>11. ASSUME NEW j \in 1 .. n - 1
       PROVE  /\ (IF j < i THEN j ELSE j + 1) \in 1 .. n
              /\ (IF j < i THEN j ELSE j + 1) # i
              /\ r[j] = s[IF j < i THEN j ELSE j + 1]
  <2>1. r[j] = IF j <= i - 1 THEN a[j] ELSE b[j - (i - 1)]
    <3>1. Len(a) = i - 1 /\ Len(a) + Len(b) = n - 1
      BY <1>3, <1>5, <1>6
    <3>2. j \in 1 .. Len(a) + Len(b)
      BY <3>1
    <3>3. r[j] = IF j <= Len(a) THEN a[j] ELSE b[j - Len(a)]
      BY <1>9, <3>2
    <3>4. QED
      BY <3>1, <3>3
  <2>2. CASE j < i
    BY <1>3, <1>5, <2>1, <2>2
  <2>3. CASE ~(j < i)
    <3>1. j - (i - 1) \in 1 .. n - i /\ i + (j - (i - 1)) = j + 1
      BY <1>3, <2>3
    <3>2. b[j - (i - 1)] = s[j + 1]
      BY <1>6, <3>1
    <3>3. QED
      BY <1>3, <2>1, <2>3, <3>2
  <2>4. QED
    BY <2>2, <2>3
<1>12. QED
  BY <1>1, <1>2, <1>7, <1>9, <1>10, <1>11

(* What a send leaves in a channel, whether or not its last event is       *)
(* dropped.                                                                *)
LEMMA SendKeeps ==
    ASSUME NEW X, NEW ch \in Seq(X), NEW evs \in Seq(X), evs # <<>>,
           NEW ch2, Send(ch, ch2, evs)
    PROVE  ch2 \in Seq(X)
<1>1. ch \o evs \in Seq(X)
  BY ConcatProperties
<1>2. Front(evs) \in Seq(X)
  <2>1. PICK n : n = Len(evs) - 1
    OBVIOUS
  <2>2. n \in Nat /\ \A j \in 1 .. n : evs[j] \in X
    BY <2>1, EmptySeq, LenProperties
  <2>3. 1 \in Int /\ n \in Int /\ \A j \in 1 .. n : evs[j] \in X
    BY <2>2
  <2>4. SubSeq(evs, 1, n) \in Seq(X)
    BY <2>3, SubSeqProperties
  <2>5. QED
    BY <2>1, <2>4 DEF Front
<1>3. ch \o Front(evs) \in Seq(X)
  BY <1>2, ConcatProperties
<1>4. QED
  BY <1>1, <1>3 DEF Send

(* A channel of one event less.                                            *)
LEMMA OneEvent ==
    ASSUME NEW X, NEW x \in X
    PROVE  <<x>> \in Seq(X) /\ <<x>> # <<>>
OBVIOUS

(***************************************************************************)
(* Types.  A purse is the chips a match can hold after n loads.            *)
(***************************************************************************)
Limit(n)    == Cardinality(Players) * StartingChips * (n + 1)
Purse(n)    == {c \in Stacks : SumFunction(c) <= Limit(n)}
Snapshot(n) == [round : 0 .. MaxHands, chips : Purse(n)]

DbType(n) == [
    table : BOOLEAN, ready : SUBSET Players, checkpoint : Snapshot(n) \cup {None} ]
TableType == [
    open : BOOLEAN, state : TableState, users : SUBSET Players,
    ready : SUBSET Players, echo : SUBSET Players, stuck : BOOLEAN,
    broke : SUBSET Players, draining : BOOLEAN, shown : 0 .. MaxHands ]
GameType(n) == [
    phase : Phases, running : BOOLEAN, chips : Purse(n),
    round : 0 .. MaxHands, timer : BOOLEAN ]
SaveType(n) == [
    at : {"asked", "looking", "writing"}, snap : Snapshot(n) \cup {None},
    overtaken : BOOLEAN, final : BOOLEAN ]
CoordType == [at : {"idle", "draining", "quiesced"}, pending : BOOLEAN]
StarterType == [StarterIds -> {"none", "game", "next", "starting"}]
TableEvent == {"SHOWDOWN_RESULT", "GAME_ENDED"}

Types ==
    /\ db \in DbType(loads)
    /\ table \in TableType
    /\ game \in GameType(loads)
    /\ loop \in {"idle", "starting"}
    /\ starters \in StarterType
    /\ gameEvents \in Seq(GameEvent)
    /\ tableEvents \in Seq(TableEvent)
    /\ queue \in Seq(QueuedEvent)
    /\ saves \in Seq(SaveType(loads))
    /\ mutex \in {"free", "save", "removing"}
    /\ removal \in BOOLEAN
    /\ server \in ServerAt
    /\ coord \in CoordType
    /\ result \in Snapshot(loads)
    /\ out \in SUBSET Players /\ astray \in BOOLEAN /\ early \in BOOLEAN
    /\ mishaps \in 0 .. MaxMishaps /\ loads \in 0 .. MaxLoads

(* The limit is a number, grows, and allows for a stack per player.        *)
LEMMA LimitGrows ==
    /\ \A n \in Nat : Limit(n) \in Nat
    /\ \A n \in Nat : Limit(n + 1) = Limit(n) + Cardinality(Players) * StartingChips
    /\ Limit(MaxLoads) = Total
    /\ \A n \in 0 .. MaxLoads : Limit(n) <= Total
<1>1. PICK k : k = Cardinality(Players) * StartingChips
  OBVIOUS
<1>2. k \in Nat
  <2>1. Cardinality(Players) \in Nat /\ StartingChips \in Nat
    BY MatchAssumption, FS_CardinalityType
  <2>2. \A i, j \in Nat : i * j \in Nat
    OBVIOUS
  <2>3. QED
    BY <1>1, <2>1, <2>2, Zenon
<1>3. \A n : Limit(n) = k * (n + 1)
  BY <1>1 DEF Limit
<1>4. \A n \in Nat : k * (n + 1) \in Nat /\ k * (n + 1 + 1) = k * (n + 1) + k
  BY <1>2
<1>5. \A m, n \in Nat : m <= n => k * (m + 1) <= k * (n + 1)
  BY <1>2
<1>6. MaxLoads \in Nat /\ \A n \in 0 .. MaxLoads : n \in Nat /\ n <= MaxLoads
  BY MatchAssumption
<1>7. Total = k * (MaxLoads + 1)
  BY <1>1 DEF Total
<1>8. QED
  BY <1>1, <1>3, <1>4, <1>5, <1>6, <1>7

(* Amounts of players of the table that sum up to no more.                 *)
LEMMA InPurse ==
    ASSUME NEW n \in 0 .. MaxLoads, NEW R \in SUBSET Players, NEW c \in [R -> Nat],
           SumFunctionOnSet(c, R) <= Limit(n)
    PROVE  c \in Purse(n)
<1>1. IsFiniteSet(R) /\ DOMAIN c = R
  BY MatchAssumption, FS_Subset
<1>2. SumFunctionOnSet(c, R) \in Nat
  BY <1>1, SumIsNat
<1>3. n \in Nat /\ Limit(n) <= Total /\ Limit(n) \in Nat
  <2>1. n \in Nat
    BY MatchAssumption
  <2>2. QED
    BY <2>1, LimitGrows
<1>4. Total \in Nat
  BY LimitGrows, MatchAssumption
<1>5. ASSUME NEW p \in R PROVE c[p] \in 0 .. Total
  <2>1. c[p] <= SumFunctionOnSet(c, R)
    BY <1>1, SumCovers
  <2>2. QED
    BY <1>2, <1>3, <1>4, <2>1
<1>6. c \in [R -> 0 .. Total]
  BY <1>5
<1>7. c \in Stacks
  BY <1>6 DEF Stacks
<1>8. QED
  BY <1>1, <1>7, SumFunctionIs DEF Purse

(* What is in a purse.                                                     *)
LEMMA PurseHolds ==
    ASSUME NEW n \in 0 .. MaxLoads, NEW c \in Purse(n)
    PROVE  /\ DOMAIN c \in SUBSET Players /\ IsFiniteSet(DOMAIN c)
           /\ c \in [DOMAIN c -> Nat]
           /\ SumFunction(c) = SumFunctionOnSet(c, DOMAIN c)
           /\ SumFunction(c) \in Nat /\ Limit(n) \in Nat
           /\ SumFunction(c) <= Limit(n)
<1>1. PICK R \in SUBSET Players : c \in [R -> 0 .. Total]
  BY DEF Purse, Stacks
<1>2. DOMAIN c = R /\ IsFiniteSet(R)
  BY <1>1, MatchAssumption, FS_Subset
<1>3. \A p \in R : c[p] \in Nat
  BY <1>1
<1>4. SumFunction(c) = SumFunctionOnSet(c, R)
  BY <1>2, SumFunctionIs
<1>5. SumFunctionOnSet(c, R) \in Nat
  BY <1>2, <1>3, SumIsNat
<1>6. Limit(n) \in Nat
  <2>1. n \in Nat
    BY MatchAssumption
  <2>2. QED
    BY <2>1, LimitGrows
<1>7. c \in [R -> Nat]
  BY <1>1, <1>3
<1>8. SumFunction(c) <= Limit(n)
  BY DEF Purse
<1>9. QED
  BY <1>1, <1>2, <1>4, <1>5, <1>6, <1>7, <1>8

(* A fresh stack for each of some players, or for nobody.                  *)
LEMMA FreshPurse ==
    ASSUME NEW n \in 0 .. MaxLoads, NEW R \in SUBSET Players
    PROVE  StacksOf(R) \in Purse(n) /\ <<>> \in Purse(n)
<1>1. IsFiniteSet(R) /\ IsFiniteSet(Players) /\ StartingChips \in Nat
  BY MatchAssumption, FS_Subset
<1>2. ASSUME NEW c, c = StacksOf(R) PROVE c \in Purse(n)
  <2>1. c \in [R -> Nat] /\ \A p \in R : c[p] = StartingChips
    BY <1>1, <1>2 DEF StacksOf
  <2>2. SumFunctionOnSet(c, R) = Cardinality(R) * StartingChips
    BY <1>1, <2>1, SumOfEquals
  <2>3. /\ Cardinality(R) \in Nat /\ Cardinality(Players) \in Nat
        /\ Cardinality(R) <= Cardinality(Players)
    BY <1>1, FS_Subset, FS_CardinalityType
  <2>4. \A i, j, k \in Nat : i <= j => i * k <= j * k /\ j * k \in Nat
    OBVIOUS
  <2>5. PICK r, s : r = Cardinality(R) * StartingChips /\ s = Cardinality(Players) * StartingChips
    OBVIOUS
  <2>6. r <= s /\ s \in Nat
    BY <1>1, <2>3, <2>4, <2>5, Zenon
  <2>7. Limit(n) = s * (n + 1)
    BY <2>5 DEF Limit
  <2>8. n \in Nat
    BY MatchAssumption
  <2>9. \A i, j \in Nat : i <= i * (j + 1)
    OBVIOUS
  <2>10. s <= s * (n + 1)
    BY <2>6, <2>8, <2>9, Zenon
  <2>11. r \in Nat /\ s * (n + 1) \in Nat
    <3>1. \A i, j \in Nat : i * j \in Nat /\ j + 1 \in Nat
      OBVIOUS
    <3>2. QED
      BY <1>1, <2>3, <2>5, <2>6, <2>8, <3>1, Zenon
  <2>12. r <= s * (n + 1)
    <3>1. \A x, y, z \in Nat : x <= y /\ y <= z => x <= z
      OBVIOUS
    <3>2. QED
      BY <2>6, <2>10, <2>11, <3>1, Zenon
  <2>13. SumFunctionOnSet(c, R) <= Limit(n)
    BY <2>2, <2>5, <2>7, <2>12, Zenon
  <2>14. QED
    BY <2>1, <2>13, InPurse
<1>3. <<>> \in Purse(n)
  <2>1. <<>> \in [{} -> Nat] /\ {} \in SUBSET Players
    OBVIOUS
  <2>2. SumFunctionOnSet(<<>>, {}) = 0
    BY SumEmpty
  <2>3. 0 <= Limit(n)
    BY MatchAssumption, LimitGrows
  <2>4. QED
    BY <2>1, <2>2, <2>3, InPurse
<1>4. QED
  BY <1>2, <1>3

(* Fewer players with no more chips each.                                  *)
LEMMA SmallerPurse ==
    ASSUME NEW n \in 0 .. MaxLoads, NEW c \in Purse(n),
           NEW R \in SUBSET DOMAIN c, NEW d \in [R -> Nat], \A p \in R : d[p] <= c[p]
    PROVE  d \in Purse(n)
<1>1. /\ DOMAIN c \in SUBSET Players /\ IsFiniteSet(DOMAIN c) /\ c \in [DOMAIN c -> Nat]
      /\ SumFunctionOnSet(c, DOMAIN c) \in Nat /\ Limit(n) \in Nat
      /\ SumFunctionOnSet(c, DOMAIN c) <= Limit(n)
  BY PurseHolds
<1>2. IsFiniteSet(R) /\ R \in SUBSET Players /\ \A p \in R : c[p] \in Nat /\ d[p] \in Nat
  BY <1>1, FS_Subset
<1>3. \A p \in R : d[p] \in Int /\ c[p] \in Int /\ d[p] <= c[p]
  BY <1>2
<1>4. SumFunctionOnSet(d, R) <= SumFunctionOnSet(c, R)
  BY <1>2, <1>3, SumMonotone
<1>5. \A p \in DOMAIN c : c[p] \in Nat
  BY <1>1
<1>6. SumFunctionOnSet(c, R) <= SumFunctionOnSet(c, DOMAIN c)
  BY <1>1, <1>5, SumOfPart
<1>7. SumFunctionOnSet(d, R) \in Nat /\ SumFunctionOnSet(c, R) \in Nat
  BY <1>2, SumIsNat
<1>8. SumFunctionOnSet(d, R) <= Limit(n)
  BY <1>1, <1>4, <1>6, <1>7
<1>9. QED
  BY <1>2, <1>8, InPurse

(* The same chips in other hands.                                          *)
LEMMA SharedPurse ==
    ASSUME NEW n \in 0 .. MaxLoads, NEW c \in Purse(n),
           NEW d \in [DOMAIN c -> Nat], SumFunction(d) = SumFunction(c)
    PROVE  d \in Purse(n)
<1>1. DOMAIN c \in SUBSET Players /\ SumFunction(c) <= Limit(n)
  BY PurseHolds
<1>2. SumFunctionOnSet(d, DOMAIN c) = SumFunction(c)
  BY SumFunctionIs
<1>3. QED
  BY <1>1, <1>2, InPurse

(* One more load, which brings no more than a fresh stack per player.      *)
LEMMA LoadedPurse ==
    ASSUME NEW n \in 0 .. MaxLoads, n + 1 \in 0 .. MaxLoads, NEW c \in Purse(n)
    PROVE  /\ c \in Purse(n + 1)
           /\ [p \in Players |-> IF p \in DOMAIN c THEN c[p] ELSE StartingChips]
                \in Purse(n + 1)
<1>1. /\ DOMAIN c \in SUBSET Players /\ IsFiniteSet(DOMAIN c) /\ c \in [DOMAIN c -> Nat]
      /\ SumFunctionOnSet(c, DOMAIN c) \in Nat /\ Limit(n) \in Nat
      /\ SumFunctionOnSet(c, DOMAIN c) <= Limit(n)
  BY PurseHolds
<1>2. /\ n \in Nat /\ Cardinality(Players) \in Nat /\ StartingChips \in Nat
      /\ IsFiniteSet(Players)
  BY MatchAssumption, FS_CardinalityType
<1>3. PICK k : k = Cardinality(Players) * StartingChips
  OBVIOUS
<1>4. k \in Nat /\ Limit(n + 1) = Limit(n) + k
  <2>1. \A i, j \in Nat : i * j \in Nat
    OBVIOUS
  <2>2. k \in Nat
    BY <1>2, <1>3, <2>1, Zenon
  <2>3. QED
    BY <1>2, <1>3, <2>2, LimitGrows
<1>5. c \in Purse(n + 1)
  <2>1. SumFunctionOnSet(c, DOMAIN c) <= Limit(n + 1)
    BY <1>1, <1>4
  <2>2. QED
    BY <1>1, <2>1, InPurse
<1>6. PICK d : d = [p \in Players |-> IF p \in DOMAIN c THEN c[p] ELSE StartingChips]
  OBVIOUS
<1>7. d \in [Players -> Nat]
  BY <1>1, <1>2, <1>6
<1>8. PICK R : R = DOMAIN c
  OBVIOUS
<1>9. PICK O : O = Players \ R
  OBVIOUS
<1>10. SumFunctionOnSet(d, Players) = SumFunctionOnSet(d, R) + SumFunctionOnSet(d, O)
  <2>1. \A p \in Players : d[p] \in Int
    BY <1>7
  <2>2. QED
    BY <1>1, <1>2, <1>8, <1>9, <2>1, SumSplits
<1>11. SumFunctionOnSet(d, R) = SumFunctionOnSet(c, R)
  <2>1. \A p \in R : d[p] \in Int /\ d[p] = c[p]
    BY <1>1, <1>6, <1>8
  <2>2. IsFiniteSet(R)
    BY <1>1, <1>8
  <2>3. QED
    BY <2>1, <2>2, SumSame
<1>12. SumFunctionOnSet(d, O) = Cardinality(O) * StartingChips /\ Cardinality(O) \in Nat
       /\ Cardinality(O) <= Cardinality(Players)
  <2>1. IsFiniteSet(O) /\ O \in SUBSET Players /\ \A p \in O : d[p] = StartingChips
    BY <1>2, <1>6, <1>8, <1>9, FS_Subset
  <2>2. Cardinality(O) \in Nat /\ Cardinality(O) <= Cardinality(Players)
    BY <1>2, <2>1, FS_Subset, FS_CardinalityType
  <2>3. QED
    BY <1>2, <2>1, <2>2, SumOfEquals
<1>13. Cardinality(O) * StartingChips \in Nat /\ Cardinality(O) * StartingChips <= k
  <2>1. \A i, j, l \in Nat : i <= j => i * l <= j * l /\ i * l \in Nat
    OBVIOUS
  <2>2. QED
    BY <1>2, <1>3, <1>12, <2>1, Zenon
<1>14. SumFunctionOnSet(d, Players) <= Limit(n + 1)
  BY <1>1, <1>4, <1>8, <1>10, <1>11, <1>12, <1>13
<1>15. d \in Purse(n + 1)
  BY <1>7, <1>14, InPurse
<1>16. QED
  BY <1>5, <1>6, <1>15

(***************************************************************************)
(* The table machine.                                                      *)
(***************************************************************************)
\* The table moves on, and nothing but its state changes.
OnlyMoves(t, u) ==
    /\ t \in TableType /\ u \in TableType
    /\ u.open = t.open /\ u.users = t.users /\ u.ready = t.ready
    /\ u.echo = t.echo /\ u.stuck = t.stuck /\ u.broke = t.broke
    /\ u.draining = t.draining /\ u.shown = t.shown

LEMMA TableMoves ==
    ASSUME NEW t \in TableType
    PROVE  /\ OnlyMoves(t, OnReadiness(t))
           /\ OnlyMoves(t, OnStartGameReq(t))
           /\ OnlyMoves(t, OnGameEnded(t))
<1>1. \A s \in TableState : OnlyMoves(t, [t EXCEPT !.state = s])
  BY DEF OnlyMoves, TableType
<1>2. OnlyMoves(t, t)
  BY DEF OnlyMoves
<1>3. /\ "WAITING_FOR_PLAYERS" \in TableState /\ "PLAYERS_READY" \in TableState
      /\ "GAME_ACTIVE" \in TableState /\ "GAME_ENDED" \in TableState
  BY DEF TableState
<1>4. OnlyMoves(t, OnReadiness(t))
  BY <1>1, <1>2, <1>3 DEF OnReadiness
<1>5. OnlyMoves(t, OnStartGameReq(t))
  BY <1>1, <1>2, <1>3 DEF OnStartGameReq
<1>6. OnlyMoves(t, OnGameEnded(t))
  BY <1>1, <1>2, <1>3 DEF OnGameEnded
<1>7. QED
  BY <1>4, <1>5, <1>6

LEMMA StaticTypes ==
    /\ Gone \in TableType
    /\ \A n \in 0 .. MaxLoads : NoGame \in GameType(n)
    /\ NoStarters \in StarterType
    /\ \A n : NewSave(TRUE) \in SaveType(n) /\ NewSave(FALSE) \in SaveType(n)
<1>1. 0 \in 0 .. MaxHands
  BY MatchAssumption
<1>2. Gone \in TableType
  BY <1>1 DEF Gone, TableType, TableState
<1>3. ASSUME NEW n \in 0 .. MaxLoads PROVE NoGame \in GameType(n)
  <2>1. <<>> \in Purse(n)
    BY FreshPurse
  <2>2. QED
    BY <1>1, <2>1 DEF NoGame, GameType, Phases
<1>4. NoStarters \in StarterType
  BY DEF NoStarters, StarterType
<1>5. \A n : NewSave(TRUE) \in SaveType(n) /\ NewSave(FALSE) \in SaveType(n)
  BY DEF NewSave, SaveType
<1>6. QED
  BY <1>2, <1>3, <1>4, <1>5

(* What a starter becomes.                                                 *)
LEMMA StarterKinds ==
    ASSUME starters \in StarterType,
           NEW kind \in {"none", "game", "next", "starting"}
    PROVE  /\ \A i \in StarterIds : [starters EXCEPT ![i] = kind] \in StarterType
           /\ Launch(kind) => starters' \in StarterType
BY DEF StarterType, Launch

(***************************************************************************)
(* Every step keeps the types.                                             *)
(***************************************************************************)
LEMMA TypesInit == Init => Types
<1>1. SUFFICES ASSUME Init PROVE Types
  OBVIOUS
<1>2. 0 \in 0 .. MaxLoads /\ 0 \in 0 .. MaxMishaps /\ 0 \in 0 .. MaxHands
  BY MatchAssumption
<1>3. loads = 0 /\ mishaps = 0
  BY <1>1 DEF Init
<1>4. db \in DbType(loads)
  BY <1>1 DEF Init, DbType
<1>5. table \in TableType
  BY <1>1, StaticTypes DEF Init, TableType
<1>6. game \in GameType(loads) /\ starters \in StarterType
  BY <1>1, <1>2, <1>3, StaticTypes DEF Init
<1>7. result \in Snapshot(loads)
  <2>1. StacksOf(Players) \in Purse(0)
    BY <1>2, FreshPurse
  <2>2. QED
    BY <1>1, <1>2, <1>3, <2>1 DEF Init, Snapshot
<1>8. /\ gameEvents \in Seq(GameEvent) /\ tableEvents \in Seq(TableEvent)
      /\ queue \in Seq(QueuedEvent) /\ saves \in Seq(SaveType(loads))
  BY <1>1, EmptySeq DEF Init
<1>9. coord \in CoordType /\ server \in ServerAt
  BY <1>1 DEF Init, CoordType, ServerAt
<1>10. QED
  BY <1>1, <1>2, <1>3, <1>4, <1>5, <1>6, <1>7, <1>8, <1>9 DEF Init, Types

(* Forgetting everything but the database.                                 *)
LEMMA ForgetTypes ==
    ASSUME Types, ForgetMemory, server' \in ServerAt, loads' = loads,
           UNCHANGED <<db, result, ghosts>>, mishaps' \in 0 .. MaxMishaps
    PROVE  Types'
<1>1. table' \in TableType /\ game' \in GameType(loads') /\ starters' \in StarterType
  <2>1. loads' \in 0 .. MaxLoads
    BY DEF Types
  <2>2. QED
    BY <2>1, StaticTypes DEF ForgetMemory
<1>2. /\ gameEvents' \in Seq(GameEvent) /\ tableEvents' \in Seq(TableEvent)
      /\ queue' \in Seq(QueuedEvent) /\ saves' \in Seq(SaveType(loads'))
  BY EmptySeq DEF ForgetMemory
<1>3. coord' \in CoordType
  BY DEF ForgetMemory, CoordType
<1>4. QED
  BY <1>1, <1>2, <1>3 DEF ForgetMemory, Types, ghosts

(* A mishap is counted.                                                    *)
LEMMA TroubleTypes ==
    ASSUME mishaps \in 0 .. MaxMishaps, Trouble
    PROVE  mishaps' \in 0 .. MaxMishaps
BY MatchAssumption DEF Trouble

LEMMA SendTypes ==
    ASSUME NEW ch, NEW evs, NEW ch2, Types, Send(ch, ch2, evs)
    PROVE  astray' \in BOOLEAN /\ mishaps' \in 0 .. MaxMishaps
BY TroubleTypes DEF Send, Types, Mishap

LEMMA PlayerTypes ==
    ASSUME Types, NEW p \in Players,
           SetPlayerReady(p) \/ SetPlayerUnready(p) \/ Echo(p)
    PROVE  Types'
<1>1. /\ db \in DbType(loads) /\ table \in TableType /\ starters \in StarterType
      /\ mishaps \in 0 .. MaxMishaps
  BY DEF Types
<1>2. CASE SetPlayerReady(p)
  <2>1. PICK t : t = OnReadiness([table EXCEPT !.ready = @ \cup {p}])
    OBVIOUS
  <2>2. t \in TableType
    <3>1. [table EXCEPT !.ready = @ \cup {p}] \in TableType
      BY <1>1 DEF TableType
    <3>2. QED
      BY <2>1, <3>1, TableMoves DEF OnlyMoves
  <2>3. table' \in TableType
    <3>1. table' = t \/ table' = [t EXCEPT !.echo = @ \cup {p}]
      BY <1>2, <2>1, Zenon DEF SetPlayerReady
    <3>2. QED
      BY <2>2, <3>1 DEF TableType
  <2>4. db' \in DbType(loads)
    BY <1>1, <1>2 DEF SetPlayerReady, DbType
  <2>5. mishaps' \in 0 .. MaxMishaps
    BY <1>1, <1>2, TroubleTypes DEF SetPlayerReady, Mishap
  <2>6. starters' \in StarterType
    BY <1>1, <1>2, StarterKinds DEF SetPlayerReady, MaybeStartGame
  <2>7. QED
    BY <1>2, <2>3, <2>4, <2>5, <2>6 DEF SetPlayerReady, Types, ghosts
<1>3. CASE SetPlayerUnready(p)
  <2>1. table' \in TableType
    <3>1. [table EXCEPT !.ready = @ \ {p}] \in TableType
      BY <1>1 DEF TableType
    <3>2. QED
      BY <1>3, <3>1, TableMoves DEF OnlyMoves, SetPlayerUnready
  <2>2. db' \in DbType(loads)
    BY <1>1, <1>3 DEF SetPlayerUnready, DbType
  <2>3. mishaps' \in 0 .. MaxMishaps
    BY <1>1, <1>3, TroubleTypes DEF SetPlayerUnready, Mishap
  <2>4. QED
    BY <1>3, <2>1, <2>2, <2>3 DEF SetPlayerUnready, Types, ghosts
<1>4. CASE Echo(p)
  <2>1. table' \in TableType
    <3>1. /\ [table EXCEPT !.echo = @ \ {p}, !.stuck = TRUE] \in TableType
          /\ [table EXCEPT !.echo = @ \ {p}, !.ready = @ \cup ({p} \cap table.users)]
               \in TableType
      BY <1>1 DEF TableType
    <3>2. QED
      BY <1>4, <3>1, TableMoves DEF OnlyMoves, Echo
  <2>2. QED
    BY <1>4, <2>1 DEF Echo, Types, ghosts
<1>5. QED
  BY <1>2, <1>3, <1>4

LEMMA StartTypes ==
    ASSUME Types, StartNewHand, UNCHANGED loads
    PROVE  /\ table' \in TableType /\ game' \in GameType(loads')
           /\ saves' \in Seq(SaveType(loads')) /\ early' \in BOOLEAN
<1>1. /\ table \in TableType /\ game \in GameType(loads) /\ saves \in Seq(SaveType(loads))
      /\ early \in BOOLEAN
  BY DEF Types
<1>2. table' \in TableType
  <2>1. 0 \in 0 .. MaxHands
    BY MatchAssumption
  <2>2. [table EXCEPT !.shown = 0] \in TableType
    BY <1>1, <2>1 DEF TableType
  <2>3. QED
    BY <2>2, TableMoves DEF OnlyMoves, StartNewHand
<1>3. game' \in GameType(loads')
  <2>1. TakesStartHand => game.round + 1 \in 0 .. MaxHands
    BY <1>1, MatchAssumption DEF TakesStartHand, GameType
  <2>2. QED
    BY <1>1, <2>1 DEF StartNewHand, GameType, Phases
<1>4. saves' \in Seq(SaveType(loads'))
  <2>1. PICK n : n = Len(saves)
    OBVIOUS
  <2>2. n \in Nat /\ DOMAIN saves = 1 .. n /\ \A i \in 1 .. n : saves[i] \in SaveType(loads)
    BY <1>1, <2>1, LenProperties
  <2>3. PICK o : o = [i \in DOMAIN saves |->
                        [saves[i] EXCEPT !.overtaken = @ \/ saves[i].at = "looking"]]
    OBVIOUS
  <2>4. ASSUME NEW i \in 1 .. n PROVE o[i] \in SaveType(loads)
    BY <2>2, <2>3 DEF SaveType
  <2>5. o \in Seq(SaveType(loads))
    BY <2>2, <2>3, <2>4, IsASeq
  <2>6. QED
    BY <1>1, <2>3, <2>5 DEF StartNewHand
<1>5. early' \in BOOLEAN
  BY <1>1 DEF StartNewHand
<1>6. QED
  BY <1>2, <1>3, <1>4, <1>5

LEMMA StarterTypes ==
    ASSUME Types, NEW i \in StarterIds, Starter(i)
    PROVE  Types'
<1>1. /\ table \in TableType /\ game \in GameType(loads) /\ starters \in StarterType
      /\ loads \in 0 .. MaxLoads
  BY DEF Types
<1>2. CASE StartGame(i)
  <2>1. starters' \in StarterType
    BY <1>1, <1>2, StarterKinds DEF StartGame
  <2>2. table' \in TableType
    BY <1>1, <1>2, TableMoves DEF StartGame, OnlyMoves
  <2>3. game' \in GameType(loads)
    <3>1. 1 \in 0 .. MaxHands /\ table.users \in SUBSET Players
      BY <1>1, MatchAssumption DEF TableType
    <3>2. StacksOf(table.users) \in Purse(loads)
      BY <1>1, <3>1, FreshPurse
    <3>3. PICK c : c = StacksOf(table.users)
      OBVIOUS
    <3>4. [phase |-> "betting", running |-> TRUE, round |-> 1, timer |-> FALSE, chips |-> c]
            \in GameType(loads)
      BY <3>1, <3>2, <3>3 DEF GameType, Phases
    <3>5. QED
      BY <1>1, <1>2, <3>3, <3>4 DEF StartGame
  <2>4. QED
    BY <1>2, <2>1, <2>2, <2>3 DEF StartGame, Types, ghosts
<1>3. CASE ResumeMatch(i)
  <2>1. starters' \in StarterType
    BY <1>1, <1>3, StarterKinds DEF ResumeMatch
  <2>2. QED
    BY <1>3, <2>1 DEF ResumeMatch, Types, ghosts
<1>4. CASE StarterDeals(i)
  <2>1. starters' \in StarterType
    BY <1>1, <1>4, StarterKinds DEF StarterDeals
  <2>2. /\ table' \in TableType /\ game' \in GameType(loads')
        /\ saves' \in Seq(SaveType(loads')) /\ early' \in BOOLEAN
    <3>1. StartNewHand /\ UNCHANGED loads
      BY <1>4 DEF StarterDeals
    <3>2. QED
      BY <3>1, StartTypes
  <2>3. QED
    BY <1>4, <2>1, <2>2 DEF StarterDeals, Types
<1>5. CASE StarterPanics(i)
  <2>1. /\ ForgetMemory /\ server' = "down" /\ loads' = loads
        /\ UNCHANGED <<db, result, ghosts>> /\ mishaps' = mishaps
    BY <1>5 DEF StarterPanics
  <2>2. server' \in ServerAt /\ mishaps' \in 0 .. MaxMishaps
    BY <2>1 DEF ServerAt, Types
  <2>3. QED
    BY <2>1, <2>2, ForgetTypes
<1>6. QED
  BY <1>2, <1>3, <1>4, <1>5 DEF Starter

(* The events of a showdown, and that there are some.                      *)
LEMMA ShowdownEventTypes ==
    ASSUME NEW c, DOMAIN c \in SUBSET Players
    PROVE  ShowdownEvents(c) \in Seq(GameEvent) /\ ShowdownEvents(c) # <<>>
<1> DEFINE broke == {p \in DOMAIN c : c[p] = 0}
           holders == DOMAIN c \ broke
<1>1. PICK x, y, z : /\ x = <<Ev("ShowdownComplete", {})>>
                     /\ y = (IF broke = {} THEN <<>> ELSE <<Ev("PlayerLost", broke)>>)
                     /\ z = (IF Cardinality(holders) <= 1
                                THEN <<Ev("GameOver", holders)>> ELSE <<>>)
  OBVIOUS
<1>2. ShowdownEvents(c) = x \o y \o z
  BY <1>1 DEF ShowdownEvents
<1>3. broke \in SUBSET Players /\ holders \in SUBSET Players
  OBVIOUS
<1> HIDE DEF broke, holders
<1>4. /\ Ev("ShowdownComplete", {}) \in GameEvent /\ Ev("PlayerLost", broke) \in GameEvent
      /\ Ev("GameOver", holders) \in GameEvent
  BY <1>3 DEF Ev, GameEvent
<1>5. x \in Seq(GameEvent) /\ y \in Seq(GameEvent) /\ z \in Seq(GameEvent) /\ Len(x) = 1
  <2>1. PICK e, f, g : /\ e = Ev("ShowdownComplete", {}) /\ f = Ev("PlayerLost", broke)
                       /\ g = Ev("GameOver", holders)
    OBVIOUS
  <2>2. e \in GameEvent /\ f \in GameEvent /\ g \in GameEvent
    BY <1>4, <2>1
  <2>3. x = <<e>> /\ y \in {<<>>, <<f>>} /\ z \in {<<>>, <<g>>}
    <3>1. x = <<e>>
      BY <1>1, <2>1
    <3>2. y \in {<<>>, <<f>>}
      BY <1>1, <2>1
    <3>3. z \in {<<>>, <<g>>}
      BY <1>1, <2>1
    <3>4. QED
      BY <3>1, <3>2, <3>3
  <2>4. <<>> \in Seq(GameEvent)
    BY EmptySeq
  <2>5. <<e>> \in Seq(GameEvent) /\ <<f>> \in Seq(GameEvent) /\ <<g>> \in Seq(GameEvent)
    BY <2>2, OneEvent
  <2>6. Len(<<e>>) = 1
    OBVIOUS
  <2>7. QED
    BY <2>3, <2>4, <2>5, <2>6, Zenon
<1>6. PICK w : w = x \o y
  OBVIOUS
<1>7. w \in Seq(GameEvent) /\ Len(w) = 1 + Len(y)
  <2>1. x \o y \in Seq(GameEvent) /\ Len(x \o y) = Len(x) + Len(y)
    BY <1>5, ConcatProperties
  <2>2. QED
    BY <1>5, <1>6, <2>1
<1>8. w \o z \in Seq(GameEvent) /\ Len(w \o z) = Len(w) + Len(z)
  BY <1>5, <1>7, ConcatProperties
<1>9. Len(y) \in Nat /\ Len(z) \in Nat /\ Len(<<>>) = 0
  BY <1>5, LenProperties
<1>10. w \o z # <<>>
  BY <1>7, <1>8, <1>9
<1>11. QED
  BY <1>2, <1>6, <1>8, <1>10

LEMMA GameTypes ==
    ASSUME Types, GameStep
    PROVE  Types'
<1>1. /\ game \in GameType(loads) /\ gameEvents \in Seq(GameEvent)
      /\ loads \in 0 .. MaxLoads /\ game.chips \in Purse(loads)
  BY DEF Types, GameType
<1>2. CASE FinishHand
  <2>1. PICK c \in Outcomes :
               /\ game' = [game EXCEPT !.phase = "SHOWDOWN", !.chips = c,
                              !.timer = \E p, q \in DOMAIN c : p # q /\ c[p] > 0 /\ c[q] > 0]
               /\ result' = [round |-> game.round, chips |-> c]
               /\ Send(gameEvents, gameEvents', ShowdownEvents(c))
    BY <1>2 DEF FinishHand
  <2>2. /\ DOMAIN game.chips \in SUBSET Players /\ SumFunction(game.chips) \in Nat
    BY <1>1, PurseHolds
  <2>3. /\ c \in [DOMAIN game.chips -> 0 .. SumFunction(game.chips)]
        /\ SumFunction(c) = SumFunction(game.chips)
    BY DEF Outcomes
  <2>4. c \in [DOMAIN game.chips -> Nat] /\ DOMAIN c \in SUBSET Players
    BY <2>2, <2>3
  <2>5. c \in Purse(loads)
    BY <1>1, <2>3, <2>4, SharedPurse
  <2>6. game' \in GameType(loads) /\ result' \in Snapshot(loads)
    BY <1>1, <2>1, <2>5 DEF GameType, Phases, Snapshot
  <2>7. gameEvents' \in Seq(GameEvent)
    BY <1>1, <2>1, <2>4, ShowdownEventTypes, SendKeeps
  <2>8. astray' \in BOOLEAN /\ mishaps' \in 0 .. MaxMishaps
    BY <2>1, SendTypes
  <2>9. QED
    BY <1>2, <2>6, <2>7, <2>8 DEF FinishHand, Types
<1>3. CASE AutoStartFires
  <2>1. /\ game' = [game EXCEPT !.timer = FALSE]
        /\ Send(gameEvents, gameEvents', <<Ev("AutoStartTriggered", {})>>)
    BY <1>3 DEF AutoStartFires
  <2>2. game' \in GameType(loads)
    BY <1>1, <2>1 DEF GameType
  <2>3. Ev("AutoStartTriggered", {}) \in GameEvent
    BY DEF Ev, GameEvent
  <2>4. gameEvents' \in Seq(GameEvent)
    BY <1>1, <2>1, <2>3, OneEvent, SendKeeps
  <2>5. astray' \in BOOLEAN /\ mishaps' \in 0 .. MaxMishaps
    BY <2>1, SendTypes
  <2>6. QED
    BY <1>3, <2>2, <2>4, <2>5 DEF AutoStartFires, Types
<1>4. QED
  BY <1>2, <1>3 DEF GameStep

(* The loop of the table takes one of its events.                          *)
LEMMA TakesEvent ==
    ASSUME Types, NEW type, Takes(type)
    PROVE  /\ gameEvents' \in Seq(GameEvent) /\ Head(gameEvents) \in GameEvent
           /\ UNCHANGED <<db, starters, queue, saves, mutex, removal, server, coord,
                           result, early, loads>>
<1>1. gameEvents \in Seq(GameEvent) /\ gameEvents # <<>> /\ gameEvents' = Tail(gameEvents)
  BY DEF Types, Takes
<1>2. QED
  BY <1>1, HeadTailProperties DEF Takes

LEMMA PruneTypes ==
    ASSUME Types, Prune
    PROVE  /\ table' \in TableType /\ game' \in GameType(loads) /\ out' \in SUBSET Players
<1>1. /\ table \in TableType /\ game \in GameType(loads) /\ out \in SUBSET Players
      /\ loads \in 0 .. MaxLoads /\ game.chips \in Purse(loads)
  BY DEF Types, GameType
<1>2. table' \in TableType /\ out' \in SUBSET Players
  <2>1. [table EXCEPT !.users = @ \ table.broke, !.broke = {}] \in TableType
    BY <1>1 DEF TableType
  <2>2. table.broke \in SUBSET Players
    BY <1>1 DEF TableType
  <2>3. QED
    BY <1>1, <2>1, <2>2, TableMoves DEF OnlyMoves, Prune
<1>3. PICK d : d = Restrict(game.chips, DOMAIN game.chips \ table.broke)
  OBVIOUS
<1>4. PICK R : R = DOMAIN game.chips \ table.broke
  OBVIOUS
<1>5. game.chips \in [DOMAIN game.chips -> Nat] /\ R \in SUBSET DOMAIN game.chips
  BY <1>1, <1>4, PurseHolds
<1>6. d \in [R -> Nat] /\ \A p \in R : d[p] <= game.chips[p]
  BY <1>3, <1>4, <1>5 DEF Restrict
<1>7. d \in Purse(loads)
  BY <1>1, <1>5, <1>6, SmallerPurse
<1>8. game' \in GameType(loads)
  BY <1>1, <1>3, <1>7 DEF Prune, GameType
<1>9. QED
  BY <1>2, <1>8

LEMMA LoopTypes ==
    ASSUME Types, LoopStep
    PROVE  Types'
<1>1. /\ table \in TableType /\ game \in GameType(loads) /\ tableEvents \in Seq(TableEvent)
      /\ mishaps \in 0 .. MaxMishaps
  BY DEF Types
<1>2. \A x \in TableEvent : <<x>> \in Seq(TableEvent) /\ <<x>> # <<>>
  BY OneEvent
<1>3. CASE HandleShowdownComplete
  <2>1. Takes("ShowdownComplete")
    BY <1>3 DEF HandleShowdownComplete
  <2>2. table' \in TableType
    <3>1. game.round \in 0 .. MaxHands
      BY <1>1 DEF GameType
    <3>2. QED
      BY <1>1, <1>3, <3>1 DEF HandleShowdownComplete, TableType
  <2>3. tableEvents' \in Seq(TableEvent) /\ astray' \in BOOLEAN /\ mishaps' \in 0 .. MaxMishaps
    <3>1. CASE table.shown = game.round
      BY <1>1, <1>3, <3>1 DEF HandleShowdownComplete, Types
    <3>2. CASE table.shown # game.round
      <4>1. Send(tableEvents, tableEvents', <<"SHOWDOWN_RESULT">>)
        BY <1>3, <3>2 DEF HandleShowdownComplete
      <4>2. "SHOWDOWN_RESULT" \in TableEvent
        BY DEF TableEvent
      <4>3. QED
        BY <1>1, <1>2, <4>1, <4>2, SendTypes, SendKeeps
    <3>3. QED
      BY <3>1, <3>2
  <2>4. QED
    BY <1>3, <2>1, <2>2, <2>3, TakesEvent DEF HandleShowdownComplete, Types
<1>4. CASE RecordPendingElimination
  <2>1. Takes("PlayerLost")
    BY <1>4 DEF RecordPendingElimination
  <2>2. Head(gameEvents).who \in SUBSET Players
    BY <2>1, TakesEvent DEF GameEvent
  <2>3. table' \in TableType
    <3>1. [table EXCEPT !.broke = @ \cup Head(gameEvents).who] \in TableType
      BY <1>1, <2>2 DEF TableType
    <3>2. QED
      BY <1>4, <3>1, TableMoves DEF OnlyMoves, RecordPendingElimination
  <2>4. QED
    BY <1>4, <2>1, <2>3, TakesEvent DEF RecordPendingElimination, Types
<1>5. CASE HandleGameOver
  <2>1. Takes("GameOver")
    BY <1>5 DEF HandleGameOver
  <2>2. table' \in TableType
    BY <1>1, <1>5, TableMoves DEF OnlyMoves, HandleGameOver
  <2>3. game' \in GameType(loads)
    BY <1>1, <1>5 DEF HandleGameOver, GameType
  <2>4. tableEvents' \in Seq(TableEvent) /\ astray' \in BOOLEAN /\ mishaps' \in 0 .. MaxMishaps
    <3>1. Send(tableEvents, tableEvents', <<"GAME_ENDED">>)
      BY <1>5 DEF HandleGameOver
    <3>2. "GAME_ENDED" \in TableEvent
      BY DEF TableEvent
    <3>3. QED
      BY <1>1, <1>2, <3>1, <3>2, SendTypes, SendKeeps
  <2>5. QED
    BY <1>5, <2>1, <2>2, <2>3, <2>4, TakesEvent DEF HandleGameOver, Types
<1>6. CASE HandleAutoStart
  <2>1. Takes("AutoStartTriggered")
    BY <1>6 DEF HandleAutoStart
  <2>2. table' \in TableType /\ game' \in GameType(loads) /\ out' \in SUBSET Players
    <3>1. CASE table.broke = {}
      BY <1>1, <1>6, <3>1 DEF HandleAutoStart, Types
    <3>2. CASE table.broke # {}
      <4>1. Prune
        BY <1>6, <3>2 DEF HandleAutoStart
      <4>2. QED
        BY <4>1, PruneTypes
    <3>3. QED
      BY <3>1, <3>2
  <2>3. loop' \in {"idle", "starting"}
    BY <1>6 DEF HandleAutoStart
  <2>4. QED
    BY <1>6, <2>1, <2>2, <2>3, TakesEvent DEF HandleAutoStart, Types
<1>7. CASE AutoStartRefused
  <2>1. Takes("AutoStartTriggered")
    BY <1>7 DEF AutoStartRefused
  <2>2. mishaps' \in 0 .. MaxMishaps
    BY <1>1, <1>7, TroubleTypes DEF AutoStartRefused, Mishap
  <2>3. QED
    BY <1>7, <2>1, <2>2, TakesEvent DEF AutoStartRefused, Types
<1>8. CASE LoopDeals
  <2>1. /\ table' \in TableType /\ game' \in GameType(loads')
        /\ saves' \in Seq(SaveType(loads')) /\ early' \in BOOLEAN
    <3>1. StartNewHand /\ UNCHANGED loads
      BY <1>8 DEF LoopDeals
    <3>2. QED
      BY <3>1, StartTypes
  <2>2. QED
    BY <1>8, <2>1 DEF LoopDeals, Types
<1>9. QED
  BY <1>3, <1>4, <1>5, <1>6, <1>7, <1>8 DEF LoopStep

LEMMA ForwardTypes ==
    ASSUME Types, Forward
    PROVE  Types'
<1>1. /\ tableEvents \in Seq(TableEvent) /\ tableEvents # <<>> /\ tableEvents' = Tail(tableEvents)
      /\ queue \in Seq(QueuedEvent) /\ game \in GameType(loads)
  BY DEF Types, Forward
<1>2. tableEvents' \in Seq(TableEvent) /\ Head(tableEvents) \in TableEvent
  BY <1>1, HeadTailProperties
<1>3. /\ queue' \in Seq(QueuedEvent)
      /\ astray' \in BOOLEAN /\ mishaps' \in 0 .. MaxMishaps
  <2>1. PICK e : e = [type |-> Head(tableEvents), round |-> game.round,
                      live |-> game.phase = "betting"]
    OBVIOUS
  <2>2. e \in QueuedEvent
    <3>1. game.round \in 0 .. MaxHands
      BY <1>1 DEF GameType
    <3>2. QED
      BY <1>2, <2>1, <3>1 DEF QueuedEvent, TableEvent
  <2>3. CASE Send(queue, queue', <<e>>)
    BY <1>1, <2>2, <2>3, OneEvent, SendKeeps, SendTypes
  <2>4. CASE UNCHANGED <<queue, astray, mishaps>>
    BY <2>4 DEF Types
  <2>5. QED
    BY <2>1, <2>3, <2>4 DEF Forward
<1>4. QED
  BY <1>2, <1>3 DEF Forward, Types

LEMMA WorkerTypes ==
    ASSUME Types, NEW k \in 1 .. Workers, Worker(k)
    PROVE  Types'
<1>1. /\ queue \in Seq(QueuedEvent) /\ coord \in CoordType /\ early \in BOOLEAN
      /\ saves \in Seq(SaveType(loads)) /\ removal \in BOOLEAN
  BY DEF Types
<1>2. ASSUME NEW type, InWorker(k, type)
      PROVE  queue' \in Seq(QueuedEvent)
  <2>1. k \in DOMAIN queue /\ queue' = RemoveAt(queue, k)
    BY <1>2 DEF InWorker
  <2>2. QED
    BY <1>1, <2>1, RemoveAtKeeps
<1>3. ASSUME NEW type, Handle(k, type) PROVE Types'
  <2>1. InWorker(k, type)
    BY <1>3 DEF Handle
  <2>2. queue' \in Seq(QueuedEvent)
    BY <1>2, <2>1
  <2>3. saves' \in Seq(SaveType(loads))
    <3>1. PICK s : s = NewSave(FALSE)
      OBVIOUS
    <3>2. s \in SaveType(loads)
      BY <3>1, StaticTypes
    <3>3. Append(saves, s) \in Seq(SaveType(loads))
      BY <1>1, <3>2, AppendProperties
    <3>4. QED
      BY <1>1, <1>3, <3>1, <3>3 DEF Handle
  <2>4. coord' \in CoordType /\ early' \in BOOLEAN /\ removal' \in BOOLEAN
    <3>1. CASE ~table.open
      BY <1>1, <1>3, <3>1 DEF Handle
    <3>2. CASE table.open
      <4>1. Observe(queue[k]) /\ removal' \in BOOLEAN
        BY <1>1, <1>3, <3>2 DEF Handle
      <4>2. coord' \in CoordType
        BY <1>1, <4>1 DEF Observe, Quiesce, CoordType
      <4>3. early' \in BOOLEAN
        BY <1>1, <4>1 DEF Observe
      <4>4. QED
        BY <4>1, <4>2, <4>3
    <3>3. QED
      BY <3>1, <3>2
  <2>5. QED
    BY <1>3, <2>1, <2>2, <2>3, <2>4 DEF Handle, InWorker, Types
<1>4. CASE FinalizeRemoval(k)
  <2>1. InWorker(k, "TABLE_REMOVED")
    BY <1>4 DEF FinalizeRemoval
  <2>2. queue' \in Seq(QueuedEvent)
    BY <1>2, <2>1
  <2>3. QED
    BY <1>4, <2>1, <2>2 DEF FinalizeRemoval, InWorker, Types
<1>5. QED
  BY <1>3, <1>4 DEF Worker, HandleShowdownResult, HandleGameEnded

LEMMA RemovalTypes ==
    ASSUME Types, RemovalTimer \/ Removal
    PROVE  Types'
<1>1. /\ queue \in Seq(QueuedEvent) /\ coord \in CoordType /\ game \in GameType(loads)
      /\ db \in DbType(loads) /\ loads \in 0 .. MaxLoads
  BY DEF Types
<1>2. CASE RemovalTimer
  <2>1. PICK e : e = [type |-> "TABLE_REMOVED", round |-> game.round, live |-> FALSE]
    OBVIOUS
  <2>2. e \in QueuedEvent
    BY <1>1, <2>1 DEF GameType, QueuedEvent
  <2>3. Send(queue, queue', <<e>>)
    BY <1>2, <2>1 DEF RemovalTimer
  <2>4. queue' \in Seq(QueuedEvent)
    BY <1>1, <2>2, <2>3, OneEvent, SendKeeps
  <2>5. astray' \in BOOLEAN /\ mishaps' \in 0 .. MaxMishaps
    BY <2>3, SendTypes
  <2>6. QED
    BY <1>2, <2>4, <2>5 DEF RemovalTimer, Types
<1>3. CASE CloseTable
  <2>1. table' \in TableType /\ game' \in GameType(loads) /\ gameEvents' \in Seq(GameEvent)
    BY <1>1, <1>3, StaticTypes, EmptySeq DEF CloseTable
  <2>2. QED
    BY <1>3, <2>1 DEF CloseTable, Types, ghosts
<1>4. CASE DeleteRows
  <2>1. db' \in DbType(loads)
    BY <1>1, <1>4 DEF DeleteRows, DbType
  <2>2. coord' \in CoordType
    BY <1>1, <1>4 DEF DeleteRows, Quiesce, CoordType
  <2>3. QED
    BY <1>4, <2>1, <2>2 DEF DeleteRows, Types, ghosts
<1>5. QED
  BY <1>2, <1>3, <1>4 DEF Removal

LEMMA SaveTypes ==
    ASSUME Types, NEW i \in SaveIds, Save(i)
    PROVE  Types'
<1>1. /\ saves \in Seq(SaveType(loads)) /\ game \in GameType(loads)
      /\ db \in DbType(loads) /\ loads \in 0 .. MaxLoads
  BY DEF Types
<1>2. ASSUME NEW x \in DOMAIN saves
      PROVE  /\ x \in 1 .. Len(saves) /\ saves[x] \in SaveType(loads)
             /\ RemoveAt(saves, x) \in Seq(SaveType(loads))
  BY <1>1, RemoveAtKeeps, LenProperties
<1>3. CASE SaveBegin(i)
  <2>1. saves' \in Seq(SaveType(loads))
    <3>1. PICK s : s = [saves[i] EXCEPT !.at = "looking"]
      OBVIOUS
    <3>2. i \in DOMAIN saves
      BY <1>3 DEF SaveBegin
    <3>3. s \in SaveType(loads)
      BY <1>2, <3>1, <3>2 DEF SaveType
    <3>4. [saves EXCEPT ![i] = s] \in Seq(SaveType(loads))
      BY <1>1, <1>2, <3>2, <3>3, ExceptSeq
    <3>5. [saves EXCEPT ![i].at = "looking"] = [saves EXCEPT ![i] = s]
      BY <3>1
    <3>6. QED
      BY <1>2, <1>3, <3>2, <3>4, <3>5 DEF SaveBegin
  <2>2. QED
    BY <1>3, <2>1 DEF SaveBegin, SaveStep, Types, ghosts
<1>4. CASE SaveRead(i)
  <2>1. PICK c \in Readable :
          saves' = [saves EXCEPT ![i].at = "writing",
                                 ![i].snap = [round |-> game.round, chips |-> c]]
    BY <1>4 DEF SaveRead
  <2>2. game.chips \in Purse(loads) /\ game.round \in 0 .. MaxHands
    BY <1>1 DEF GameType
  <2>3. c \in Purse(loads)
    <3>1. CASE c = game.chips
      BY <2>2, <3>1
    <3>2. CASE /\ c \in [DOMAIN game.chips -> 0 .. Total]
               /\ \A p \in DOMAIN c : c[p] <= game.chips[p]
      <4>1. c \in [DOMAIN game.chips -> Nat]
        BY <3>2
      <4>2. PICK R : R = DOMAIN game.chips
        OBVIOUS
      <4>3. R \in SUBSET DOMAIN game.chips /\ c \in [R -> Nat] /\ \A p \in R : c[p] <= game.chips[p]
        BY <3>2, <4>1, <4>2
      <4>4. QED
        BY <1>1, <2>2, <4>3, SmallerPurse
    <3>3. QED
      BY <3>1, <3>2 DEF Readable
  <2>4. saves' \in Seq(SaveType(loads))
    <3>1. PICK s : s = [saves[i] EXCEPT !.at = "writing",
                                        !.snap = [round |-> game.round, chips |-> c]]
      OBVIOUS
    <3>2. i \in DOMAIN saves
      BY <1>4 DEF SaveRead
    <3>3. [round |-> game.round, chips |-> c] \in Snapshot(loads)
      BY <2>2, <2>3 DEF Snapshot
    <3>4. s \in SaveType(loads)
      BY <1>2, <3>1, <3>2, <3>3 DEF SaveType
    <3>5. [saves EXCEPT ![i] = s] \in Seq(SaveType(loads))
      BY <1>1, <1>2, <3>2, <3>4, ExceptSeq
    <3>6. saves' = [saves EXCEPT ![i] = s]
      BY <1>1, <2>1, <3>1, <3>2
    <3>7. QED
      BY <3>5, <3>6
  <2>5. QED
    BY <1>4, <2>4 DEF SaveRead, SaveStep, Types, ghosts
<1>5. CASE SaveWrite(i)
  <2>1. i \in DOMAIN saves /\ saves' = RemoveAt(saves, i)
    BY <1>5 DEF SaveWrite
  <2>2. saves' \in Seq(SaveType(loads)) /\ saves[i].snap \in Snapshot(loads) \cup {None}
    BY <1>2, <2>1 DEF SaveType
  <2>3. db' \in DbType(loads)
    BY <1>1, <1>5, <2>2 DEF SaveWrite, DbType
  <2>4. QED
    BY <1>5, <2>2, <2>3 DEF SaveWrite, SaveStep, Types, ghosts
<1>6. QED
  BY <1>3, <1>4, <1>5 DEF Save

LEMMA StopTypes ==
    ASSUME Types, BeginDrain \/ Stop \/ Crash
    PROVE  Types'
<1>1. /\ saves \in Seq(SaveType(loads)) /\ game \in GameType(loads) /\ table \in TableType
      /\ coord \in CoordType
  BY DEF Types
<1>2. CASE BeginDrain
  <2>1. coord' \in CoordType
    BY <1>1, <1>2 DEF BeginDrain, CoordType, TableType
  <2>2. QED
    BY <1>2, <2>1 DEF BeginDrain, StopStep, ServerAt, Types, ghosts
<1>3. CASE TellCoordinator
  <2>1. coord' \in CoordType
    BY <1>1, <1>3 DEF TellCoordinator, CoordType
  <2>2. QED
    BY <1>3, <2>1 DEF TellCoordinator, StopStep, ServerAt, Types, ghosts
<1>4. CASE HoldTable
  <2>1. coord' \in CoordType /\ table' \in TableType /\ game' \in GameType(loads)
    <3>1. coord' \in CoordType
      BY <1>1, <1>4 DEF HoldTable, Quiesce, CoordType
    <3>2. table' \in TableType
      BY <1>1, <1>4 DEF HoldTable, TableType
    <3>3. game' \in GameType(loads)
      BY <1>1, <1>4 DEF HoldTable, GameType
    <3>4. QED
      BY <3>1, <3>2, <3>3
  <2>2. QED
    BY <1>4, <2>1 DEF HoldTable, StopStep, ServerAt, Types, ghosts
<1>5. CASE WaitForQuiescence
  <2>1. PICK s : s = NewSave(TRUE)
    OBVIOUS
  <2>2. s \in SaveType(loads)
    BY <2>1, StaticTypes
  <2>3. Append(saves, s) \in Seq(SaveType(loads))
    BY <1>1, <2>2, AppendProperties
  <2>4. QED
    BY <1>5, <2>1, <2>3 DEF WaitForQuiescence, StopStep, ServerAt, Types, ghosts
<1>6. CASE StopEventProcessor
  BY <1>6 DEF StopEventProcessor, StopStep, ServerAt, Types, ghosts
<1>7. CASE CloseTables
  <2>1. /\ ForgetMemory /\ server' = "down" /\ loads' = loads
        /\ UNCHANGED <<db, result, ghosts>> /\ mishaps' = mishaps
    BY <1>7 DEF CloseTables
  <2>2. server' \in ServerAt /\ mishaps' \in 0 .. MaxMishaps
    BY <2>1 DEF ServerAt, Types
  <2>3. QED
    BY <2>1, <2>2, ForgetTypes
<1>8. CASE Crash
  <2>1. /\ ForgetMemory /\ server' = "down" /\ loads' = loads
        /\ UNCHANGED <<db, result, ghosts>> /\ Trouble
    BY <1>8 DEF Crash
  <2>2. server' \in ServerAt /\ mishaps' \in 0 .. MaxMishaps
    <3>1. mishaps \in 0 .. MaxMishaps
      BY DEF Types
    <3>2. QED
      BY <2>1, <3>1, TroubleTypes DEF ServerAt
  <2>3. QED
    BY <2>1, <2>2, ForgetTypes
<1>9. QED
  BY <1>2, <1>3, <1>4, <1>5, <1>6, <1>7, <1>8 DEF Stop

\* What a process that is not there remembers.
Forgotten ==
    /\ table = Gone /\ game = NoGame /\ loop = "idle" /\ starters = NoStarters
    /\ gameEvents = <<>> /\ tableEvents = <<>> /\ queue = <<>> /\ saves = <<>>
    /\ mutex = "free" /\ removal = FALSE
    /\ coord = [at |-> "idle", pending |-> FALSE]

Down == server = "down" => Forgotten

(* The table and the game that are loaded.                                 *)
LEMMA LoadedTypes ==
    ASSUME Types, Load
    PROVE  /\ loads \in Nat /\ loads' \in 0 .. MaxLoads
           /\ LoadedTable \in TableType
           /\ LoadedTable.open /\ LoadedTable.users = Players /\ LoadedTable.ready = db.ready
           /\ LoadedTable.broke = {} /\ ~LoadedTable.draining
           /\ LoadedGame \in GameType(loads')
           /\ db \in DbType(loads')
<1>1. loads \in 0 .. MaxLoads /\ loads + 1 \in 0 .. MaxLoads /\ loads' = loads + 1 /\ loads \in Nat
  BY MatchAssumption DEF Load, Types
<1>2. db \in DbType(loads) /\ db.ready \in SUBSET Players
  BY DEF Types, DbType
<1>3. PICK t : t = [Gone EXCEPT !.open = TRUE, !.users = ActiveParticipants, !.ready = db.ready]
  OBVIOUS
<1>4. /\ t \in TableType /\ t.open /\ t.users = Players /\ t.ready = db.ready
      /\ t.broke = {} /\ ~t.draining
  <2>1. Gone \in TableType
    BY StaticTypes
  <2>2. QED
    BY <1>2, <1>3, <2>1 DEF TableType, ActiveParticipants, Gone
<1>5. OnlyMoves(t, LoadedTable)
  BY <1>3, <1>4, TableMoves DEF LoadedTable
<1>6. ASSUME db.checkpoint # None
      PROVE  /\ db.checkpoint \in Snapshot(loads)
             /\ db.checkpoint.round \in 0 .. MaxHands
             /\ db.checkpoint.chips \in Purse(loads)
  BY <1>2, <1>6 DEF DbType, Snapshot
<1>7. LoadedGame \in GameType(loads')
  <2>1. CASE db.checkpoint = None
    BY <1>1, <2>1, StaticTypes DEF LoadedGame
  <2>2. CASE db.checkpoint # None
    <3>1. PICK c, r : c = db.checkpoint.chips /\ r = db.checkpoint.round
      OBVIOUS
    <3>2. PICK d : d = [p \in Players |-> IF p \in DOMAIN c THEN c[p] ELSE StartingChips]
      OBVIOUS
    <3>3. c \in Purse(loads) /\ r \in 0 .. MaxHands
      BY <1>6, <2>2, <3>1
    <3>4. d \in Purse(loads')
      BY <1>1, <3>2, <3>3, LoadedPurse
    <3>5. LoadedGame = [phase |-> "NEW_HAND_DEALING", running |-> TRUE, round |-> r,
                        timer |-> FALSE, chips |-> d]
      BY <2>2, <3>1, <3>2 DEF LoadedGame, RestorePausedMatch, ActiveParticipants
    <3>6. QED
      BY <3>3, <3>4, <3>5 DEF GameType, Phases
  <2>3. QED
    BY <2>1, <2>2
<1>8. db \in DbType(loads')
  <2>1. CASE db.checkpoint = None
    BY <1>2, <2>1 DEF DbType
  <2>2. CASE db.checkpoint # None
    <3>1. db.checkpoint.chips \in Purse(loads')
      BY <1>1, <1>6, <2>2, LoadedPurse
    <3>2. db.checkpoint \in Snapshot(loads')
      BY <1>6, <2>2, <3>1 DEF Snapshot
    <3>3. QED
      BY <1>2, <3>2 DEF DbType
  <2>3. QED
    BY <2>1, <2>2
<1>9. QED
  BY <1>1, <1>4, <1>5, <1>7, <1>8 DEF OnlyMoves

LEMMA LoadTypes ==
    ASSUME Types, Down, Load
    PROVE  Types'
<1>1. /\ loads' \in 0 .. MaxLoads /\ LoadedTable \in TableType
      /\ LoadedGame \in GameType(loads') /\ db \in DbType(loads')
  BY LoadedTypes
<1>2. /\ gameEvents' \in Seq(GameEvent) /\ tableEvents' \in Seq(TableEvent)
      /\ queue' \in Seq(QueuedEvent) /\ saves' \in Seq(SaveType(loads'))
  BY EmptySeq DEF Down, Forgotten, Load
<1>3. starters' \in StarterType
  <2>1. NoStarters \in StarterType
    BY StaticTypes
  <2>2. QED
    BY <2>1 DEF Load, StarterType
<1>4. result' \in Snapshot(loads')
  <2>1. CASE db.checkpoint = None
    <3>1. StacksOf(Players) \in Purse(loads') /\ 0 \in 0 .. MaxHands
      BY <1>1, FreshPurse, MatchAssumption
    <3>2. QED
      BY <2>1, <3>1 DEF Load, Snapshot
  <2>2. CASE db.checkpoint # None
    BY <1>1, <2>2 DEF Load, Snapshot, GameType
  <2>3. QED
    BY <2>1, <2>2
<1>5. QED
  BY <1>1, <1>2, <1>3, <1>4 DEF Load, Types, ServerAt

(* A process that is not there does nothing until it is started.           *)
LEMMA DownWaits ==
    ASSUME Types, Down, server = "down", Next
    PROVE  Load
<1>1. Forgotten
  BY DEF Down
<1>2. /\ ~table.open /\ table.users = {} /\ table.echo = {} /\ table.ready = {}
  BY <1>1 DEF Forgotten, Gone
<1>3. \A i \in StarterIds : starters[i] = "none"
  BY <1>1 DEF Forgotten, NoStarters
<1>4. game.phase = "none" /\ ~game.running /\ ~game.timer
  BY <1>1 DEF Forgotten, NoGame
<1>5. DOMAIN saves = {} /\ DOMAIN queue = {} /\ tableEvents = <<>> /\ ~removal
      /\ loop = "idle" /\ mutex = "free"
  BY <1>1 DEF Forgotten
<1>6. \A p \in Players : ~SetPlayerReady(p) /\ ~SetPlayerUnready(p) /\ ~Echo(p)
  BY <1>2 DEF SetPlayerReady, SetPlayerUnready, Echo
<1>7. \A i \in StarterIds : ~Starter(i)
  BY <1>3 DEF Starter, StartGame, ResumeMatch, StarterDeals, StarterPanics
<1>8. ~GameStep
  BY <1>4 DEF GameStep, FinishHand, AutoStartFires
<1>9. ~LoopStep
  BY <1>2, <1>5 DEF LoopStep, HandleShowdownComplete, RecordPendingElimination, HandleGameOver,
                    HandleAutoStart, AutoStartRefused, LoopDeals, Takes
<1>10. ~Forward /\ ~RemovalTimer /\ ~Removal
  BY <1>5 DEF Forward, RemovalTimer, Removal, CloseTable, DeleteRows
<1>11. \A k \in 1 .. Workers : ~Worker(k)
  BY <1>5 DEF Worker, HandleShowdownResult, HandleGameEnded, FinalizeRemoval, Handle, InWorker
<1>12. \A i \in SaveIds : ~Save(i)
  BY <1>5 DEF Save, SaveBegin, SaveRead, SaveWrite
<1>13. ~BeginDrain /\ ~Stop /\ ~Crash
  BY DEF BeginDrain, Stop, StopStep, TellCoordinator, HoldTable, WaitForQuiescence,
         StopEventProcessor, CloseTables, Crash, Running
<1>14. QED
  BY <1>6, <1>7, <1>8, <1>9, <1>10, <1>11, <1>12, <1>13 DEF Next

LEMMA TypesStep ==
    ASSUME Types, Down, Next
    PROVE  Types'
<1>1. CASE Load
  BY <1>1, LoadTypes
<1>2. CASE ~Load
  BY <1>2, PlayerTypes, StarterTypes, GameTypes, LoopTypes, ForwardTypes, WorkerTypes,
     RemovalTypes, SaveTypes, StopTypes DEF Next
<1>3. QED
  BY <1>1, <1>2

(* A step leaves the server down only by forgetting everything.            *)
LEMMA DownStep ==
    ASSUME Types, Down, Next
    PROVE  Down'
<1>1. CASE server = "down"
  BY <1>1, DownWaits DEF Load, Down
<1>2. CASE server # "down" /\ server' = "down"
  <2>1. ForgetMemory
    BY <1>2 DEF Next, SetPlayerReady, SetPlayerUnready, Echo, Starter, StartGame, ResumeMatch,
       StarterDeals, StarterPanics, GameStep, FinishHand, AutoStartFires, LoopStep, Takes,
       HandleShowdownComplete, RecordPendingElimination, HandleGameOver, HandleAutoStart,
       AutoStartRefused, LoopDeals, Forward, Worker, HandleShowdownResult, HandleGameEnded,
       Handle, FinalizeRemoval, InWorker, RemovalTimer, Removal, CloseTable, DeleteRows,
       Save, SaveBegin, SaveRead, SaveWrite, SaveStep, BeginDrain, Stop, StopStep,
       TellCoordinator, HoldTable, WaitForQuiescence, StopEventProcessor, CloseTables, Crash, Load
  <2>2. QED
    BY <2>1 DEF ForgetMemory, Down, Forgotten
<1>3. QED
  BY <1>1, <1>2 DEF Down

(***************************************************************************)
(* The table, its game, and the saves under way.                           *)
(***************************************************************************)
\* A save that holds the mutex.
Busy(i) == i \in DOMAIN saves /\ saves[i].at # "asked"

\* A game needs an open table, and an open table its row.
Life ==
    /\ table.open => db.table
    /\ ~table.open => game = NoGame
    /\ ~db.table => db.checkpoint = None
    /\ game.timer => game.running
    /\ game.phase = "none" => game = NoGame
    /\ game.phase = "none" /\ table.open => db.checkpoint = None

\* The final save of Stop is the only one above MaxSaves.
SaveRoom ==
    /\ Len(saves) <= MaxSaves + 1
    /\ server \notin {"saving", "stopped"} =>
           Len(saves) <= MaxSaves /\ \A i \in DOMAIN saves : ~saves[i].final

\* One goroutine at most is about to start a game, and there is none then.
OneStart ==
    /\ \A i \in StarterIds : starters[i] = "game" => game.phase = "none"
    /\ \A i, j \in StarterIds : starters[i] = "game" /\ starters[j] = "game" => i = j

\* Saves take turns, and have a game to save.
Exclusive ==
    /\ \A i : Busy(i) => mutex = "save" /\ table.open /\ game.phase # "none"
    /\ \A i, j : Busy(i) /\ Busy(j) => i = j

\* What is being written is no older than the checkpoint, and no newer than
\* the game.
Forwards ==
    /\ game.phase # "none" /\ db.checkpoint # None => db.checkpoint.round <= game.round
    /\ \A i \in DOMAIN saves : saves[i].at = "writing" =>
           /\ saves[i].snap # None
           /\ saves[i].snap.round <= game.round
           /\ db.checkpoint # None => db.checkpoint.round <= saves[i].snap.round

Core == Life /\ SaveRoom /\ OneStart /\ Exclusive /\ Forwards

\* The same saves, at the same point.
SameSaves ==
    /\ Len(saves') = Len(saves) /\ DOMAIN saves' = DOMAIN saves
    /\ \A i \in DOMAIN saves : /\ saves'[i].at = saves[i].at
                               /\ saves'[i].snap = saves[i].snap
                               /\ saves'[i].final = saves[i].final

\* The game stays, or goes on.
GoesOn ==
    \/ game' = game
    \/ /\ game.phase # "none" /\ game'.phase # "none"
       /\ game.round <= game'.round /\ (game'.timer => game'.running)

\* A step that leaves the database, the saves and the mutex alone.
Quiet ==
    /\ db'.table = db.table /\ db'.checkpoint = db.checkpoint
    /\ table'.open = table.open /\ GoesOn
    /\ \A i \in StarterIds : starters'[i] = "game" => starters[i] = "game"
    /\ SameSaves /\ mutex' = mutex
    /\ server \in {"saving", "stopped"} => server' \in {"saving", "stopped"}

LEMMA Rounds ==
    ASSUME Types
    PROVE  /\ game.round \in Int /\ Len(saves) \in Nat /\ MaxSaves \in Nat
           /\ DOMAIN saves = 1 .. Len(saves)
           /\ db.checkpoint # None => db.checkpoint.round \in Int
           /\ \A i \in DOMAIN saves : /\ saves[i] \in SaveType(loads)
                                      /\ saves[i].snap # None => saves[i].snap.round \in Int
<1>1. game \in GameType(loads) /\ db \in DbType(loads) /\ saves \in Seq(SaveType(loads))
  BY DEF Types
<1>2. game.round \in Int
  BY <1>1, MatchAssumption DEF GameType
<1>3. /\ Len(saves) \in Nat /\ DOMAIN saves = 1 .. Len(saves)
      /\ \A i \in DOMAIN saves : saves[i] \in SaveType(loads)
  BY <1>1, LenProperties
<1>4. \A c \in Snapshot(loads) : c.round \in Int
  BY MatchAssumption DEF Snapshot
<1>5. db.checkpoint # None => db.checkpoint.round \in Int
  BY <1>1, <1>4 DEF DbType
<1>6. \A i \in DOMAIN saves : saves[i].snap # None => saves[i].snap.round \in Int
  BY <1>3, <1>4 DEF SaveType
<1>7. QED
  BY <1>2, <1>3, <1>5, <1>6, MatchAssumption

LEMMA QuietKeeps ==
    ASSUME Types, Types', Core, Quiet
    PROVE  Core'
<1>1. /\ game.phase # "none" <=> game'.phase # "none"
      /\ game.phase = "none" => game' = game
  BY DEF Core, Life, Quiet, GoesOn, NoGame
<1>2. game.round \in Int /\ game'.round \in Int /\ game.round <= game'.round
  BY Rounds DEF Quiet, GoesOn, Types, GameType
<1>3. Life'
  <2>1. ~table'.open => game' = NoGame
    BY <1>1 DEF Core, Life, Quiet, NoGame
  <2>2. game'.phase = "none" => game' = NoGame
    BY <1>1 DEF Core, Life
  <2>3. game'.timer => game'.running
    BY DEF Core, Life, Quiet, GoesOn
  <2>4. QED
    BY <1>1, <2>1, <2>2, <2>3 DEF Core, Life, Quiet
<1>4. SaveRoom'
  BY DEF Core, SaveRoom, Quiet, SameSaves
<1>5. OneStart'
  BY <1>1 DEF Core, OneStart, Quiet
<1>6. Exclusive'
  <2>1. \A i : Busy(i)' <=> Busy(i)
    BY DEF Quiet, SameSaves, Busy
  <2>2. QED
    BY <1>1, <2>1 DEF Core, Exclusive, Quiet
<1>7. Forwards'
  <2>1. game'.phase # "none" /\ db'.checkpoint # None => db'.checkpoint.round <= game'.round
    BY <1>1, <1>2, Rounds DEF Core, Forwards, Quiet
  <2>2. ASSUME NEW i \in DOMAIN saves', saves'[i].at = "writing"
        PROVE  /\ saves'[i].snap # None
               /\ saves'[i].snap.round <= game'.round
               /\ db'.checkpoint # None => db'.checkpoint.round <= saves'[i].snap.round
    <3>1. i \in DOMAIN saves /\ saves[i].at = "writing" /\ saves'[i].snap = saves[i].snap
      BY <2>2 DEF Quiet, SameSaves
    <3>2. /\ saves[i].snap # None
          /\ saves[i].snap.round <= game.round
          /\ db.checkpoint # None => db.checkpoint.round <= saves[i].snap.round
      BY <3>1 DEF Core, Forwards
    <3>3. saves[i].snap.round \in Int
      BY <3>1, <3>2, Rounds
    <3>4. QED
      BY <1>2, <3>1, <3>2, <3>3 DEF Quiet
  <2>3. QED
    BY <2>1, <2>2 DEF Forwards
<1>8. QED
  BY <1>3, <1>4, <1>5, <1>6, <1>7 DEF Core

\* The steps that are quiet.
QuietStep ==
    \/ \E p \in Players : SetPlayerUnready(p) \/ Echo(p)
    \/ \E i \in StarterIds : ResumeMatch(i) \/ StarterDeals(i)
    \/ GameStep \/ LoopStep \/ Forward \/ RemovalTimer
    \/ BeginDrain \/ TellCoordinator \/ HoldTable \/ StopEventProcessor

(* Cancelling what no game has.                                            *)
LEMMA NoGameStays ==
    /\ [NoGame EXCEPT !.timer = FALSE] = NoGame
    /\ [NoGame EXCEPT !.running = FALSE, !.timer = FALSE] = NoGame
<1> DEFINE Only == [phase : {"none"}, running : {FALSE}, chips : {<<>>}, round : {0},
                    timer : {FALSE}]
<1>1. NoGame \in Only
  BY DEF NoGame
<1>2. ASSUME NEW x \in Only, NEW y \in Only PROVE x = y
  <2>1. /\ x.phase = y.phase /\ x.running = y.running /\ x.chips = y.chips
        /\ x.round = y.round /\ x.timer = y.timer
    OBVIOUS
  <2>2. QED
    BY <2>1
<1>3. /\ [NoGame EXCEPT !.timer = FALSE] \in Only
      /\ [NoGame EXCEPT !.running = FALSE, !.timer = FALSE] \in Only
  BY <1>1
<1>4. QED
  BY <1>1, <1>2, <1>3

LEMMA NewHandIsQuiet ==
    ASSUME Types, Core, StartNewHand
    PROVE  table'.open = table.open /\ GoesOn /\ SameSaves
<1>1. /\ game \in GameType(loads) /\ table \in TableType /\ saves \in Seq(SaveType(loads))
  BY DEF Types
<1>2. table'.open = table.open
  <2>1. 0 \in 0 .. MaxHands
    BY MatchAssumption
  <2>2. [table EXCEPT !.shown = 0] \in TableType /\ [table EXCEPT !.shown = 0].open = table.open
    BY <1>1, <2>1 DEF TableType
  <2>3. QED
    BY <2>2, TableMoves DEF StartNewHand, OnlyMoves
<1>3. GoesOn
  <2>1. CASE game' = game
    BY <2>1 DEF GoesOn
  <2>2. CASE /\ TakesStartHand
             /\ game' = [game EXCEPT !.phase = "betting", !.round = @ + 1, !.timer = FALSE]
    <3>1. /\ game'.phase = "betting" /\ game'.round = game.round + 1
          /\ game'.timer = FALSE
      BY <1>1, <2>2 DEF GameType
    <3>2. game.phase # "none"
      BY <2>2 DEF TakesStartHand
    <3>3. QED
      BY <3>1, <3>2, Rounds DEF GoesOn
  <2>3. QED
    BY <2>1, <2>2 DEF StartNewHand
<1>4. SameSaves
  <2>1. CASE saves' = saves
    BY <2>1 DEF SameSaves
  <2>2. CASE saves' = [i \in DOMAIN saves |->
                         [saves[i] EXCEPT !.overtaken = @ \/ saves[i].at = "looking"]]
    <3>1. DOMAIN saves' = DOMAIN saves
      BY <2>2
    <3>2. \A i \in DOMAIN saves : /\ saves'[i].at = saves[i].at
                                  /\ saves'[i].snap = saves[i].snap
                                  /\ saves'[i].final = saves[i].final
      BY <2>2, Rounds DEF SaveType
    <3>3. DOMAIN saves = 1 .. Len(saves) /\ Len(saves) \in Nat
      BY Rounds
    <3>4. Len(saves') = Len(saves)
      BY <3>1, <3>3
    <3>5. QED
      BY <3>1, <3>2, <3>4 DEF SameSaves
  <2>3. QED
    BY <2>1, <2>2 DEF StartNewHand
<1>5. QED
  BY <1>2, <1>3, <1>4

LEMMA QuietOnes ==
    ASSUME Types, Core, QuietStep
    PROVE  Quiet
<1>1. /\ game \in GameType(loads) /\ table \in TableType /\ db \in DbType(loads)
      /\ starters \in StarterType
  BY DEF Types
<1>2. saves' = saves => SameSaves
  BY DEF SameSaves
<1>3. game' = game => GoesOn
  BY DEF GoesOn
<1>4. CASE \E p \in Players : SetPlayerUnready(p) \/ Echo(p)
  <2>1. PICK p \in Players : SetPlayerUnready(p) \/ Echo(p)
    BY <1>4
  <2>2. db'.table = db.table /\ db'.checkpoint = db.checkpoint
    BY <1>1, <2>1 DEF SetPlayerUnready, Echo, DbType
  <2>3. table'.open = table.open
    <3>1. PICK t, u, v :
            /\ t = [table EXCEPT !.ready = @ \ {p}]
            /\ u = [table EXCEPT !.echo = @ \ {p}, !.stuck = TRUE]
            /\ v = [table EXCEPT !.echo = @ \ {p}, !.ready = @ \cup ({p} \cap table.users)]
      OBVIOUS
    <3>2. /\ t \in TableType /\ t.open = table.open
          /\ u.open = table.open
          /\ v \in TableType /\ v.open = table.open
      BY <1>1, <3>1 DEF TableType
    <3>3. table' \in {OnReadiness(t), u, OnReadiness(v)}
      BY <2>1, <3>1, Zenon DEF SetPlayerUnready, Echo
    <3>4. QED
      BY <3>2, <3>3, TableMoves DEF OnlyMoves
  <2>4. QED
    BY <1>2, <1>3, <2>1, <2>2, <2>3 DEF SetPlayerUnready, Echo, Quiet
<1>5. CASE \E i \in StarterIds : ResumeMatch(i) \/ StarterDeals(i)
  <2>1. PICK i \in StarterIds : ResumeMatch(i) \/ StarterDeals(i)
    BY <1>5
  <2>2. \A j \in StarterIds : starters'[j] = "game" => starters[j] = "game"
    BY <1>1, <2>1 DEF ResumeMatch, StarterDeals, StarterType
  <2>3. table'.open = table.open /\ GoesOn /\ SameSaves
    BY <1>2, <1>3, <2>1, NewHandIsQuiet DEF ResumeMatch, StarterDeals
  <2>4. QED
    BY <2>1, <2>2, <2>3 DEF ResumeMatch, StarterDeals, Quiet
<1>6. CASE GameStep
  <2>1. GoesOn
    <3>1. CASE FinishHand
      <4>1. PICK c, x : game' = [game EXCEPT !.phase = "SHOWDOWN", !.chips = c, !.timer = x]
        BY <3>1 DEF FinishHand
      <4>2. QED
        BY <1>1, <3>1, <4>1, Rounds DEF FinishHand, GoesOn, GameType
    <3>2. CASE AutoStartFires
      BY <1>1, <3>2, Rounds DEF AutoStartFires, GoesOn, GameType, Core, Life, NoGame
    <3>3. QED
      BY <1>6, <3>1, <3>2 DEF GameStep
  <2>2. QED
    BY <1>2, <1>6, <2>1 DEF GameStep, FinishHand, AutoStartFires, Quiet
<1>7. CASE LoopStep
  <2>1. table'.open = table.open
    <3>1. CASE LoopDeals
      BY <3>1, NewHandIsQuiet DEF LoopDeals
    <3>2. CASE HandleShowdownComplete
      BY <1>1, <3>2 DEF HandleShowdownComplete, TableType
    <3>3. CASE RecordPendingElimination
      <4>1. Head(gameEvents).who \in SUBSET Players
        BY <3>3, TakesEvent DEF RecordPendingElimination, GameEvent
      <4>2. PICK t : t = [table EXCEPT !.broke = @ \cup Head(gameEvents).who]
        OBVIOUS
      <4>3. t \in TableType /\ t.open = table.open
        BY <1>1, <4>1, <4>2 DEF TableType
      <4>4. QED
        BY <3>3, <4>2, <4>3, TableMoves DEF RecordPendingElimination, OnlyMoves
    <3>4. CASE HandleGameOver
      BY <1>1, <3>4, TableMoves DEF HandleGameOver, OnlyMoves
    <3>5. CASE HandleAutoStart
      <4>1. PICK t : t = [table EXCEPT !.users = @ \ table.broke, !.broke = {}]
        OBVIOUS
      <4>2. t \in TableType /\ t.open = table.open
        BY <1>1, <4>1 DEF TableType
      <4>3. QED
        BY <3>5, <4>1, <4>2, TableMoves DEF HandleAutoStart, Prune, OnlyMoves
    <3>6. CASE AutoStartRefused
      BY <3>6 DEF AutoStartRefused
    <3>7. QED
      BY <1>7, <3>1, <3>2, <3>3, <3>4, <3>5, <3>6 DEF LoopStep
  <2>2. GoesOn
    <3>1. CASE LoopDeals
      BY <3>1, NewHandIsQuiet DEF LoopDeals
    <3>2. CASE HandleGameOver
      <4>1. CASE game.phase = "none"
        <5>1. game = NoGame /\ game' = [game EXCEPT !.running = FALSE, !.timer = FALSE]
          BY <3>2, <4>1 DEF HandleGameOver, Core, Life
        <5>2. game' = game
          BY <5>1, NoGameStays
        <5>3. QED
          BY <1>3, <5>2
      <4>2. CASE game.phase # "none"
        BY <1>1, <3>2, <4>2, Rounds DEF HandleGameOver, GoesOn, GameType
      <4>3. QED
        BY <4>1, <4>2
    <3>3. CASE HandleAutoStart
      <4>1. CASE game' = game
        BY <1>3, <4>1
      <4>2. CASE MayPrune /\ Prune
        BY <1>1, <4>2, Rounds DEF MayPrune, Prune, GoesOn, GameType
      <4>3. QED
        BY <3>3, <4>1, <4>2 DEF HandleAutoStart
    <3>4. CASE HandleShowdownComplete \/ RecordPendingElimination \/ AutoStartRefused
      BY <1>3, <3>4 DEF HandleShowdownComplete, RecordPendingElimination, AutoStartRefused
    <3>5. QED
      BY <1>7, <3>1, <3>2, <3>3, <3>4 DEF LoopStep
  <2>3. SameSaves
    BY <1>2, <1>7, NewHandIsQuiet DEF LoopStep, LoopDeals, Takes, HandleShowdownComplete,
       RecordPendingElimination, HandleGameOver, HandleAutoStart, AutoStartRefused
  <2>4. QED
    BY <1>7, <2>1, <2>2, <2>3 DEF Quiet, LoopStep, LoopDeals, Takes, HandleShowdownComplete,
       RecordPendingElimination, HandleGameOver, HandleAutoStart, AutoStartRefused
<1>8. CASE Forward \/ RemovalTimer
  BY <1>2, <1>3, <1>8 DEF Forward, RemovalTimer, Quiet
<1>9. CASE BeginDrain \/ TellCoordinator \/ StopEventProcessor
  BY <1>2, <1>3, <1>9 DEF BeginDrain, TellCoordinator, StopEventProcessor, StopStep, Quiet
<1>10. CASE HoldTable
  <2>1. table'.open = table.open
    BY <1>1, <1>10 DEF HoldTable, TableType
  <2>2. GoesOn
    <3>1. CASE game.phase = "none"
      <4>1. game = NoGame /\ game' = [game EXCEPT !.timer = FALSE]
        BY <1>10, <3>1 DEF HoldTable, Core, Life
      <4>2. game' = game
        BY <4>1, NoGameStays
      <4>3. QED
        BY <1>3, <4>2
    <3>2. CASE game.phase # "none"
      BY <1>1, <1>10, <3>2, Rounds DEF HoldTable, GoesOn, GameType
    <3>3. QED
      BY <3>1, <3>2
  <2>3. QED
    BY <1>2, <1>10, <2>1, <2>2 DEF HoldTable, StopStep, Quiet
<1>11. QED
  BY <1>4, <1>5, <1>6, <1>7, <1>8, <1>9, <1>10 DEF QuietStep

LEMMA ForgetCore ==
    ASSUME Core, ForgetMemory, db' = db, server' = "down"
    PROVE  Core'
<1>1. ~table'.open /\ game' = NoGame /\ game'.phase = "none" /\ ~game'.timer
  BY DEF ForgetMemory, Gone, NoGame
<1>2. DOMAIN saves' = {} /\ Len(saves') = 0
  BY DEF ForgetMemory
<1>3. \A i \in StarterIds : starters'[i] = "none"
  BY DEF ForgetMemory, NoStarters
<1>4. Life'
  BY <1>1 DEF Core, Life
<1>5. SaveRoom'
  BY <1>2, MatchAssumption DEF SaveRoom
<1>6. OneStart'
  BY <1>3 DEF OneStart
<1>7. Exclusive'
  BY <1>2 DEF Exclusive, Busy
<1>8. Forwards'
  BY <1>1, <1>2 DEF Forwards
<1>9. QED
  BY <1>4, <1>5, <1>6, <1>7, <1>8 DEF Core

LEMMA ReadyKeepsCore ==
    ASSUME Types, Types', Core, NEW p \in Players, SetPlayerReady(p)
    PROVE  Core'
<1>1. /\ table \in TableType /\ db \in DbType(loads) /\ starters \in StarterType
  BY DEF Types
<1>2. UNCHANGED <<game, saves, mutex, server>>
  BY DEF SetPlayerReady
<1>3. db'.table = db.table /\ db'.checkpoint = db.checkpoint
  BY <1>1 DEF SetPlayerReady, DbType
<1>4. table'.open = table.open
  <2>1. PICK t, u : t = [table EXCEPT !.ready = @ \cup {p}] /\ u = OnReadiness(t)
    OBVIOUS
  <2>2. t \in TableType /\ t.open = table.open
    BY <1>1, <2>1 DEF TableType
  <2>3. u \in TableType /\ u.open = table.open
    BY <2>1, <2>2, TableMoves DEF OnlyMoves
  <2>4. table' = u \/ table' = [u EXCEPT !.echo = @ \cup {p}]
    BY <2>1, Zenon DEF SetPlayerReady
  <2>5. [u EXCEPT !.echo = @ \cup {p}].open = u.open
    BY <2>3 DEF TableType
  <2>6. QED
    BY <2>3, <2>4, <2>5
<1>5. OneStart'
  <2>1. CASE \A i \in StarterIds : starters'[i] = "game" => starters[i] = "game"
    BY <1>2, <2>1 DEF Core, OneStart
  <2>2. CASE /\ game.phase = "none" /\ \A i \in StarterIds : starters[i] # "game"
             /\ Launch("game")
    <3>1. PICK i \in StarterIds : starters' = [starters EXCEPT ![i] = "game"]
      BY <2>2 DEF Launch, FirstOf
    <3>2. \A j \in StarterIds : starters'[j] = "game" => j = i
      BY <1>1, <2>2, <3>1 DEF StarterType
    <3>3. QED
      BY <1>2, <2>2, <3>2 DEF OneStart
  <2>3. CASE Launch("next")
    BY <1>1, <1>2, <2>3 DEF Launch, StarterType, Core, OneStart
  <2>4. MaybeStartGame(table')
    BY DEF SetPlayerReady
  <2>5. QED
    BY <2>1, <2>2, <2>3, <2>4 DEF MaybeStartGame
<1>6. Life' /\ SaveRoom' /\ Forwards'
  BY <1>2, <1>3, <1>4 DEF Core, Life, SaveRoom, Forwards
<1>7. Exclusive'
  BY <1>2, <1>4 DEF Core, Exclusive, Busy
<1>8. QED
  BY <1>5, <1>6, <1>7 DEF Core

LEMMA StartKeepsCore ==
    ASSUME Types, Types', Core, NEW i \in StarterIds, StartGame(i)
    PROVE  Core'
<1>1. /\ table \in TableType /\ starters \in StarterType
  BY DEF Types
<1>2. UNCHANGED <<db, saves, mutex, server>>
  BY DEF StartGame
<1>3. game.phase = "none" /\ game = NoGame
  BY DEF StartGame, Core, OneStart, Life
<1>4. \A j \in StarterIds : starters'[j] # "game"
  BY <1>1 DEF StartGame, Core, OneStart, StarterType
<1>5. CASE MayStartGame
  <2>1. table.open /\ db.checkpoint = None
    BY <1>3, <1>5 DEF MayStartGame, Core, Life
  <2>2. table'.open = table.open
    BY <1>1, <1>5, TableMoves DEF StartGame, OnlyMoves
  <2>3. /\ game'.phase = "betting" /\ ~game'.timer /\ game'.running
    BY <1>5 DEF StartGame
  <2>4. \A j : ~Busy(j)
    BY <1>3 DEF Core, Exclusive
  <2>5. Life' /\ SaveRoom'
    BY <1>2, <2>1, <2>2, <2>3 DEF Core, Life, SaveRoom
  <2>6. OneStart'
    BY <1>4 DEF OneStart
  <2>7. Exclusive'
    BY <1>2, <2>4 DEF Exclusive, Busy
  <2>8. Forwards'
    BY <1>2, <2>1, <2>4 DEF Forwards, Busy
  <2>9. QED
    BY <2>5, <2>6, <2>7, <2>8 DEF Core
<1>6. CASE ~MayStartGame
  <2>1. UNCHANGED <<table, game>>
    BY <1>6 DEF StartGame
  <2>2. OneStart'
    BY <1>4 DEF OneStart
  <2>3. Exclusive'
    BY <1>2, <2>1 DEF Core, Exclusive, Busy
  <2>4. QED
    BY <1>2, <2>1, <2>2, <2>3 DEF Core, Life, SaveRoom, Forwards
<1>7. QED
  BY <1>5, <1>6

(* One more save that has been asked for, or the final one.                *)
LEMMA MoreSaves ==
    ASSUME Types, Core, NEW final \in BOOLEAN, saves' = Append(saves, NewSave(final)),
           UNCHANGED <<db, table, game, starters, mutex>>,
           \/ ~final /\ Len(saves) < MaxSaves /\ server' = server
           \/ server = "waiting" /\ server' = "saving"
    PROVE  Core'
<1>1. PICK s, n : s = NewSave(final) /\ n = Len(saves)
  OBVIOUS
<1>2. s.at = "asked" /\ s.final = final
  BY <1>1 DEF NewSave
<1>3. n \in Nat /\ DOMAIN saves = 1 .. n /\ MaxSaves \in Nat
  BY <1>1, Rounds
<1>4. /\ Len(saves') = n + 1 /\ DOMAIN saves' = 1 .. n + 1
      /\ \A i \in 1 .. n : saves'[i] = saves[i]
      /\ saves'[n + 1] = s
  <2>1. saves \in Seq(SaveType(loads)) /\ s \in SaveType(loads)
    BY <1>1, StaticTypes DEF Types
  <2>2. saves' = Append(saves, s)
    BY <1>1
  <2>3. QED
    BY <1>1, <2>1, <2>2, AppendProperties, LenProperties
<1>5. \A i \in DOMAIN saves' : i \in 1 .. n \/ i = n + 1
  BY <1>3, <1>4
<1>6. \A i : Busy(i)' <=> Busy(i)
  BY <1>2, <1>3, <1>4, <1>5 DEF Busy
<1>7. Exclusive'
  BY <1>6 DEF Core, Exclusive
<1>8. Forwards'
  BY <1>2, <1>3, <1>4, <1>5 DEF Core, Forwards
<1>9. SaveRoom'
  <2>1. CASE ~final /\ Len(saves) < MaxSaves /\ server' = server
    <3>1. n + 1 <= MaxSaves
      BY <1>1, <1>3, <2>1
    <3>2. server' \notin {"saving", "stopped"} => \A i \in DOMAIN saves' : ~saves'[i].final
      BY <1>2, <1>3, <1>4, <1>5, <2>1 DEF Core, SaveRoom
    <3>3. QED
      BY <1>3, <1>4, <3>1, <3>2 DEF SaveRoom
  <2>2. CASE server = "waiting" /\ server' = "saving"
    BY <1>1, <1>3, <1>4, <2>2 DEF Core, SaveRoom
  <2>3. QED
    BY <2>1, <2>2
<1>10. QED
  BY <1>7, <1>8, <1>9 DEF Core, Life, OneStart

LEMMA WorkerKeepsCore ==
    ASSUME Types, Types', Core, NEW k \in 1 .. Workers, Worker(k)
    PROVE  Core'
<1>1. CASE FinalizeRemoval(k)
  <2>1. /\ mutex = "free" /\ UNCHANGED <<db, table, game, starters, saves, server>>
    BY <1>1 DEF FinalizeRemoval, InWorker
  <2>2. \A i : ~Busy(i)
    BY <2>1 DEF Core, Exclusive
  <2>3. Exclusive'
    BY <2>1, <2>2 DEF Exclusive, Busy
  <2>4. QED
    BY <2>1, <2>3 DEF Core, Life, SaveRoom, OneStart, Forwards
<1>2. ASSUME NEW type, Handle(k, type) PROVE Core'
  <2>1. UNCHANGED <<db, table, game, starters, mutex, server>>
    BY <1>2 DEF Handle, InWorker
  <2>2. CASE saves' = saves
    <3>1. Exclusive'
      BY <2>1, <2>2 DEF Core, Exclusive, Busy
    <3>2. QED
      BY <2>1, <2>2, <3>1 DEF Core, Life, SaveRoom, OneStart, Forwards
  <2>3. CASE Len(saves) < MaxSaves /\ saves' = Append(saves, NewSave(FALSE))
    BY <2>1, <2>3, MoreSaves
  <2>4. QED
    BY <1>2, <2>2, <2>3 DEF Handle
<1>3. QED
  BY <1>1, <1>2 DEF Worker, HandleShowdownResult, HandleGameEnded

LEMMA RemovalKeepsCore ==
    ASSUME Types, Types', Core, Removal
    PROVE  Core'
<1>0. mutex = "removing" /\ UNCHANGED <<saves, starters, server>>
  BY DEF Removal, CloseTable, DeleteRows
<1>1. \A i : ~Busy(i)
  BY <1>0 DEF Core, Exclusive
<1>2. Exclusive'
  BY <1>0, <1>1 DEF Exclusive, Busy
<1>3. \A i \in DOMAIN saves : saves[i].at # "writing"
  BY <1>1 DEF Busy
<1>4. CASE CloseTable
  <2>1. ~table'.open /\ game' = NoGame /\ game'.phase = "none" /\ ~game'.timer /\ db' = db
    BY <1>4 DEF CloseTable, Gone, NoGame
  <2>2. QED
    BY <1>0, <1>2, <1>3, <2>1 DEF Core, Life, SaveRoom, OneStart, Forwards
<1>5. CASE DeleteRows
  <2>1. ~table.open /\ UNCHANGED <<table, game>> /\ db \in DbType(loads)
    BY <1>5 DEF DeleteRows, Types
  <2>2. ~db'.table /\ db'.checkpoint = None
    BY <1>5, <2>1 DEF DeleteRows, DbType
  <2>3. QED
    BY <1>0, <1>2, <1>3, <2>1, <2>2 DEF Core, Life, SaveRoom, OneStart, Forwards
<1>6. QED
  BY <1>4, <1>5 DEF Removal

(* A save that is over.                                                    *)
LEMMA FewerSaves ==
    ASSUME Types, Core, NEW i \in DOMAIN saves, saves' = RemoveAt(saves, i),
           server' = server
    PROVE  /\ SaveRoom'
           /\ \A j \in DOMAIN saves' : \E o \in DOMAIN saves \ {i} : saves'[j] = saves[o]
           /\ \A o \in DOMAIN saves \ {i} : \E j \in DOMAIN saves' : saves'[j] = saves[o]
           /\ \A j \in DOMAIN saves' : j \in DOMAIN saves /\ (j < i => saves'[j] = saves[j])
           /\ saves[i].at # "asked" => \A j : ~Busy(j)'
<1>1. saves \in Seq(SaveType(loads))
  BY DEF Types
<1>2. PICK n : n = Len(saves)
  OBVIOUS
<1>3. /\ n \in Nat /\ DOMAIN saves = 1 .. n
      /\ Len(saves') = n - 1 /\ DOMAIN saves' = 1 .. n - 1
      /\ \A j \in DOMAIN saves' :
             /\ (IF j < i THEN j ELSE j + 1) \in DOMAIN saves \ {i}
             /\ saves'[j] = saves[IF j < i THEN j ELSE j + 1]
  <2>1. PICK X, r : X = SaveType(loads) /\ r = RemoveAt(saves, i)
    OBVIOUS
  <2>2. saves \in Seq(X)
    BY <1>1, <2>1
  <2>3. /\ Len(saves) \in Nat /\ DOMAIN saves = 1 .. Len(saves)
        /\ Len(r) = Len(saves) - 1
        /\ DOMAIN r = 1 .. Len(saves) - 1
        /\ \A j \in DOMAIN r :
               /\ (IF j < i THEN j ELSE j + 1) \in DOMAIN saves \ {i}
               /\ r[j] = saves[IF j < i THEN j ELSE j + 1]
    BY <2>1, <2>2, RemoveAtKeeps
  <2>4. saves' = r
    BY <2>1
  <2>5. QED
    BY <1>2, <2>3, <2>4
<1>4. \A j \in DOMAIN saves' : \E o \in DOMAIN saves \ {i} : saves'[j] = saves[o]
  BY <1>3
<1>5. \A j \in DOMAIN saves' : j \in DOMAIN saves /\ (j < i => saves'[j] = saves[j])
  BY <1>3
<1>6. SaveRoom'
  <2>1. n - 1 <= n /\ MaxSaves \in Nat
    BY <1>3, MatchAssumption
  <2>2. n <= MaxSaves + 1 => n - 1 <= MaxSaves + 1
    BY <1>3, <2>1
  <2>3. n <= MaxSaves => n - 1 <= MaxSaves
    BY <1>3, <2>1
  <2>4. QED
    BY <1>2, <1>3, <1>4, <2>2, <2>3 DEF Core, SaveRoom
<1>7. ASSUME saves[i].at # "asked", NEW j, Busy(j)' PROVE FALSE
  <2>1. PICK o \in DOMAIN saves \ {i} : saves'[j] = saves[o]
    BY <1>4, <1>7 DEF Busy
  <2>2. Busy(o) /\ Busy(i)
    BY <1>7, <2>1 DEF Busy
  <2>3. QED
    BY <2>1, <2>2 DEF Core, Exclusive
<1>8. ASSUME NEW o \in DOMAIN saves \ {i}
      PROVE  \E j \in DOMAIN saves' : saves'[j] = saves[o]
  <2>1. i \in 1 .. n /\ o \in 1 .. n /\ o # i
    BY <1>3
  <2>2. CASE o < i
    <3>1. o \in 1 .. n - 1
      BY <1>3, <2>1, <2>2
    <3>2. QED
      BY <1>3, <2>2, <3>1
  <2>3. CASE ~(o < i)
    <3>1. o - 1 \in 1 .. n - 1 /\ ~(o - 1 < i) /\ (o - 1) + 1 = o
      BY <1>3, <2>1, <2>3
    <3>2. saves'[o - 1] = saves[(o - 1) + 1]
      BY <1>3, <3>1
    <3>3. QED
      BY <1>3, <3>1, <3>2
  <2>4. QED
    BY <2>2, <2>3
<1>9. QED
  BY <1>4, <1>5, <1>6, <1>7, <1>8

LEMMA SaveKeepsCore ==
    ASSUME Types, Types', Core, NEW i \in SaveIds, Save(i)
    PROVE  Core'
<1>0. UNCHANGED <<table, game, starters, server>>
  BY DEF Save, SaveBegin, SaveRead, SaveWrite, SaveStep
<1>1. CASE SaveBegin(i)
  <2>1. i \in DOMAIN saves /\ saves[i].at = "asked" /\ mutex = "free" /\ db' = db
    BY <1>1 DEF SaveBegin
  <2>2. \A j : ~Busy(j)
    BY <2>1 DEF Core, Exclusive
  <2>3. CASE BetweenHands
    <3>1. saves' = [saves EXCEPT ![i].at = "looking"] /\ mutex' = "save"
      BY <1>1, <2>3 DEF SaveBegin
    <3>2. /\ Len(saves) \in Nat /\ DOMAIN saves = 1 .. Len(saves)
          /\ DOMAIN saves' = DOMAIN saves /\ saves'[i].at = "looking"
          /\ \A j \in DOMAIN saves : /\ j # i => saves'[j] = saves[j]
                                    /\ saves'[j].final = saves[j].final
      BY <2>1, <3>1, Rounds DEF SaveType
    <3>3. Len(saves') = Len(saves)
      BY <3>2
    <3>4. \A j : Busy(j)' => j = i
      BY <2>2, <3>2 DEF Busy
    <3>5. Exclusive'
      BY <1>0, <2>3, <3>1, <3>4 DEF Exclusive, BetweenHands
    <3>6. SaveRoom'
      BY <1>0, <3>2, <3>3 DEF Core, SaveRoom
    <3>7. \A j \in DOMAIN saves' : saves'[j].at # "writing"
      BY <2>2, <3>2 DEF Busy
    <3>8. QED
      BY <1>0, <2>1, <3>5, <3>6, <3>7 DEF Core, Life, OneStart, Forwards
  <2>4. CASE ~BetweenHands
    <3>1. saves' = RemoveAt(saves, i) /\ mutex' = mutex
      BY <1>1, <2>4 DEF SaveBegin
    <3>2. /\ SaveRoom'
          /\ \A j \in DOMAIN saves' : \E o \in DOMAIN saves \ {i} : saves'[j] = saves[o]
      BY <1>0, <2>1, <3>1, FewerSaves
    <3>3. \A j \in DOMAIN saves' : saves'[j].at = "asked"
      BY <2>2, <3>2 DEF Busy
    <3>4. Exclusive' /\ Forwards'
      BY <1>0, <2>1, <3>3 DEF Core, Exclusive, Forwards, Busy
    <3>5. QED
      BY <1>0, <2>1, <3>2, <3>4 DEF Core, Life, OneStart
  <2>5. QED
    BY <2>3, <2>4
<1>2. CASE SaveRead(i)
  <2>1. i \in DOMAIN saves /\ saves[i].at = "looking" /\ UNCHANGED <<db, mutex>>
    BY <1>2 DEF SaveRead
  <2>2. Busy(i) /\ game.phase # "none"
    BY <2>1 DEF Busy, Core, Exclusive
  <2>3. PICK c : saves' = [saves EXCEPT ![i].at = "writing",
                                        ![i].snap = [round |-> game.round, chips |-> c]]
    BY <1>2 DEF SaveRead
  <2>4. /\ Len(saves) \in Nat /\ DOMAIN saves = 1 .. Len(saves)
        /\ DOMAIN saves' = DOMAIN saves /\ saves'[i].at = "writing"
        /\ saves'[i].snap = [round |-> game.round, chips |-> c]
        /\ \A j \in DOMAIN saves : /\ j # i => saves'[j] = saves[j]
                                  /\ saves'[j].final = saves[j].final
    BY <2>1, <2>3, Rounds DEF SaveType
  <2>5. Len(saves') = Len(saves)
    BY <2>4
  <2>6. \A j : Busy(j)' <=> Busy(j)
    BY <2>1, <2>4 DEF Busy
  <2>7. Exclusive'
    BY <1>0, <2>1, <2>6 DEF Core, Exclusive
  <2>8. SaveRoom'
    BY <1>0, <2>4, <2>5 DEF Core, SaveRoom
  <2>9. Forwards'
    <3>1. saves'[i].snap.round = game.round /\ game.round \in Int
      BY <2>4, Rounds
    <3>2. saves'[i].snap # None
      <4>1. i \in DOMAIN saves'
        BY <2>1, <2>4
      <4>2. saves' \in Seq(SaveType(loads')) /\ game.round \in 0 .. MaxHands
        BY DEF Types, GameType
      <4>3. saves'[i] \in SaveType(loads')
        BY <4>1, <4>2, LenProperties
      <4>4. c \in Stacks
        <5>1. PICK d \in Readable :
                saves' = [saves EXCEPT ![i].at = "writing",
                                       ![i].snap = [round |-> game.round, chips |-> d]]
          BY <1>2 DEF SaveRead
        <5>2. saves'[i].snap = [round |-> game.round, chips |-> d]
          BY <2>1, <5>1, Rounds DEF SaveType
        <5>3. c = d
          BY <2>4, <5>2
        <5>4. game.chips \in Stacks
          BY DEF Types, GameType, Purse
        <5>5. PICK R \in SUBSET Players : game.chips \in [R -> 0 .. Total]
          BY <5>4 DEF Stacks
        <5>6. d \in [R -> 0 .. Total]
          BY <5>5 DEF Readable
        <5>7. QED
          BY <5>3, <5>6 DEF Stacks
      <4>5. saves'[i].snap \in Checkpoint
        BY <2>4, <4>2, <4>4 DEF Checkpoint
      <4>6. QED
        BY <4>5, NoneAssumption
    <3>3. db.checkpoint # None => db.checkpoint.round <= game.round
      BY <2>2 DEF Core, Forwards
    <3>4. \A j \in DOMAIN saves : saves'[j].at = "writing" => j = i
      BY <2>2, <2>4, <2>6 DEF Core, Exclusive, Busy
    <3>5. QED
      BY <1>0, <2>1, <2>4, <3>1, <3>2, <3>3, <3>4 DEF Core, Forwards
  <2>10. QED
    BY <1>0, <2>1, <2>7, <2>8, <2>9 DEF Core, Life, OneStart
<1>3. CASE SaveWrite(i)
  <2>1. i \in DOMAIN saves /\ saves[i].at = "writing" /\ saves' = RemoveAt(saves, i)
    BY <1>3 DEF SaveWrite
  <2>2. Busy(i)
    BY <2>1 DEF Busy
  <2>3. table.open /\ game.phase # "none" /\ db.table
    BY <2>2 DEF Core, Exclusive, Life
  <2>4. SaveRoom' /\ \A j : ~Busy(j)'
    BY <1>0, <2>1, FewerSaves
  <2>5. db' = [db EXCEPT !.checkpoint = saves[i].snap] /\ db \in DbType(loads)
    BY <1>3, <2>3 DEF SaveWrite, Types
  <2>6. db'.table /\ db'.checkpoint = saves[i].snap
    BY <2>3, <2>5 DEF DbType
  <2>7. Life'
    BY <1>0, <2>3, <2>6 DEF Core, Life
  <2>8. Exclusive'
    BY <2>4 DEF Exclusive
  <2>9. Forwards'
    BY <1>0, <2>1, <2>4, <2>6 DEF Core, Forwards, Busy
  <2>10. QED
    BY <1>0, <2>4, <2>7, <2>8, <2>9 DEF Core, OneStart
<1>4. QED
  BY <1>1, <1>2, <1>3 DEF Save

LEMMA LoadKeepsCore ==
    ASSUME Types, Types', Down, Core, Load
    PROVE  Core'
<1>1. /\ db.table /\ db' = db /\ table' = LoadedTable /\ game' = LoadedGame
      /\ saves' = <<>> /\ server' = "up" /\ LoadedTable.open
  BY LoadedTypes DEF Load, Down, Forgotten
<1>2. DOMAIN saves' = {} /\ Len(saves') = 0
  BY <1>1
<1>3. \A i \in StarterIds : starters'[i] # "game"
  BY DEF Load, NoStarters
<1>4. db.checkpoint = None => game' = NoGame /\ game'.phase = "none" /\ ~game'.timer
  BY <1>1 DEF LoadedGame, NoGame
<1>5. db.checkpoint # None => /\ game'.phase # "none" /\ ~game'.timer
                              /\ game'.round = db.checkpoint.round
  BY <1>1 DEF LoadedGame, RestorePausedMatch
<1>6. Life'
  BY <1>1, <1>4, <1>5 DEF Life
<1>7. SaveRoom'
  BY <1>2, MatchAssumption DEF SaveRoom
<1>8. OneStart'
  BY <1>3 DEF OneStart
<1>9. Exclusive'
  BY <1>2 DEF Exclusive, Busy
<1>10. Forwards'
  BY <1>1, <1>2, <1>4, <1>5, Rounds DEF Forwards
<1>11. QED
  BY <1>6, <1>7, <1>8, <1>9, <1>10 DEF Core

LEMMA CoreInit == Init => Core
<1>1. SUFFICES ASSUME Init PROVE Core
  OBVIOUS
<1>2. /\ db.table /\ db.checkpoint = None /\ game = NoGame /\ game.phase = "none" /\ ~game.timer
      /\ DOMAIN saves = {} /\ Len(saves) = 0
  BY <1>1 DEF Init, NoGame
<1>3. \A i \in StarterIds : starters[i] = "none"
  BY <1>1 DEF Init, NoStarters
<1>4. Life /\ OneStart /\ Exclusive /\ Forwards
  BY <1>2, <1>3 DEF Life, OneStart, Exclusive, Forwards, Busy
<1>5. SaveRoom
  BY <1>2, MatchAssumption DEF SaveRoom
<1>6. QED
  BY <1>4, <1>5 DEF Core

LEMMA CoreStep ==
    ASSUME Types, Types', Down, Core, Next
    PROVE  Core'
<1>1. CASE QuietStep
  BY <1>1, QuietOnes, QuietKeeps
<1>2. CASE (\E i \in StarterIds : StarterPanics(i)) \/ CloseTables \/ Crash
  <2>1. ForgetMemory /\ db' = db /\ server' = "down"
    BY <1>2 DEF StarterPanics, CloseTables, Crash
  <2>2. QED
    BY <2>1, ForgetCore
<1>3. CASE WaitForQuiescence
  <2>1. /\ saves' = Append(saves, NewSave(TRUE)) /\ server = "waiting" /\ server' = "saving"
        /\ UNCHANGED <<db, table, game, starters, mutex>>
    BY <1>3 DEF WaitForQuiescence, StopStep
  <2>2. QED
    BY <2>1, MoreSaves
<1>4. CASE \E p \in Players : SetPlayerReady(p)
  BY <1>4, ReadyKeepsCore
<1>5. CASE \E i \in StarterIds : StartGame(i)
  BY <1>5, StartKeepsCore
<1>6. CASE \E k \in 1 .. Workers : Worker(k)
  BY <1>6, WorkerKeepsCore
<1>7. CASE Removal
  BY <1>7, RemovalKeepsCore
<1>8. CASE \E i \in SaveIds : Save(i)
  BY <1>8, SaveKeepsCore
<1>9. CASE Load
  BY <1>9, LoadKeepsCore
<1>10. QED
  BY <1>1, <1>2, <1>3, <1>4, <1>5, <1>6, <1>7, <1>8, <1>9 DEF Next, QuietStep, Starter, Stop

(***************************************************************************)
(* What a step does to the game.                                           *)
(***************************************************************************)
\* The hand stays where it is; players may leave with their chips.
Steady ==
    /\ game'.phase = game.phase /\ game'.round = game.round
    /\ \A p \in DOMAIN game'.chips :
           p \in DOMAIN game.chips /\ game'.chips[p] = game.chips[p]

\* A hand after another one.
NewHand ==
    /\ TakesStartHand /\ StartNewHand
    /\ \/ LoopDeals
       \/ \E i \in StarterIds : StarterDeals(i)

\* The first hand of a game.
FirstHand == MayStartGame /\ \E i \in StarterIds : StartGame(i)

\* The process ends.
Ends == ForgetMemory /\ server' = "down" /\ UNCHANGED <<db, result, ghosts, loads>>

LEMMA EndsWhen ==
    ASSUME CloseTables \/ Crash \/ \E i \in StarterIds : StarterPanics(i)
    PROVE  Ends
BY DEF CloseTables, Crash, StarterPanics, Ends

LEMMA HandsOrSteady ==
    ASSUME Types, Next
    PROVE  Steady \/ FinishHand \/ NewHand \/ FirstHand \/ CloseTable \/ Ends \/ Load
<1>1. game \in GameType(loads)
  BY DEF Types
<1>2. game' = game => Steady
  BY DEF Steady
<1>3. ASSUME NEW x, NEW y,
             game' = [game EXCEPT !.timer = x]
             \/ game' = [game EXCEPT !.running = x, !.timer = y]
      PROVE  Steady
  <2>1. /\ game'.phase = game.phase /\ game'.round = game.round /\ game'.chips = game.chips
    BY <1>1, <1>3 DEF GameType
  <2>2. QED
    BY <2>1 DEF Steady
<1>4. CASE GameStep
  BY <1>3, <1>4 DEF GameStep, AutoStartFires
<1>5. CASE LoopStep
  <2>1. CASE HandleShowdownComplete \/ RecordPendingElimination \/ AutoStartRefused
    BY <1>2, <2>1 DEF HandleShowdownComplete, RecordPendingElimination, AutoStartRefused
  <2>2. CASE HandleGameOver
    BY <1>3, <2>2 DEF HandleGameOver
  <2>3. CASE HandleAutoStart
    <3>1. CASE game' = game
      BY <1>2, <3>1
    <3>2. CASE Prune
      <4>1. /\ game'.phase = game.phase /\ game'.round = game.round
            /\ game'.chips = Restrict(game.chips, DOMAIN game.chips \ table.broke)
        BY <1>1, <3>2 DEF Prune, GameType
      <4>2. QED
        BY <4>1 DEF Steady, Restrict
    <3>3. QED
      BY <2>3, <3>1, <3>2 DEF HandleAutoStart
  <2>4. CASE LoopDeals
    BY <1>2, <2>4 DEF LoopDeals, NewHand, StartNewHand
  <2>5. QED
    BY <1>5, <2>1, <2>2, <2>3, <2>4 DEF LoopStep
<1>6. CASE \E i \in StarterIds : Starter(i)
  <2>1. PICK i \in StarterIds : Starter(i)
    BY <1>6
  <2>2. CASE StartGame(i)
    BY <1>2, <2>2 DEF StartGame, FirstHand
  <2>3. CASE ResumeMatch(i)
    BY <1>2, <2>3 DEF ResumeMatch
  <2>4. CASE StarterDeals(i)
    BY <1>2, <2>4 DEF StarterDeals, NewHand, StartNewHand
  <2>5. CASE StarterPanics(i)
    BY <2>5, EndsWhen
  <2>6. QED
    BY <2>1, <2>2, <2>3, <2>4, <2>5 DEF Starter
<1>7. CASE \E p \in Players : SetPlayerReady(p) \/ SetPlayerUnready(p) \/ Echo(p)
  BY <1>2, <1>7 DEF SetPlayerReady, SetPlayerUnready, Echo
<1>8. CASE Forward \/ RemovalTimer \/ DeleteRows
  BY <1>2, <1>8 DEF Forward, RemovalTimer, DeleteRows
<1>9. CASE \E k \in 1 .. Workers : Worker(k)
  BY <1>2, <1>9 DEF Worker, HandleShowdownResult, HandleGameEnded, Handle, FinalizeRemoval, InWorker
<1>10. CASE \E i \in SaveIds : Save(i)
  BY <1>2, <1>10 DEF Save, SaveBegin, SaveRead, SaveWrite, SaveStep
<1>11. CASE BeginDrain \/ TellCoordinator \/ WaitForQuiescence \/ StopEventProcessor
  BY <1>2, <1>11 DEF BeginDrain, TellCoordinator, WaitForQuiescence, StopEventProcessor
<1>12. CASE HoldTable
  BY <1>3, <1>12 DEF HoldTable
<1>13. CASE CloseTables \/ Crash
  BY <1>13, EndsWhen
<1>14. QED
  BY <1>4, <1>5, <1>6, <1>7, <1>8, <1>9, <1>10, <1>11, <1>12, <1>13 DEF Next, Removal, Stop

(***************************************************************************)
(* A checkpoint is a result.                                               *)
(***************************************************************************)
Between == game.phase \in {"SHOWDOWN", "NEW_HAND_DEALING"}

\* A save that has found the match between hands, and no hand has begun since.
Looker(i) == i \in DOMAIN saves /\ saves[i].at = "looking" /\ ~saves[i].overtaken

Settled ==
    /\ Between => /\ result.round = game.round
                  /\ \A p \in DOMAIN game.chips : result.chips[p] = game.chips[p]
    /\ \A i : Looker(i) => Between

(* A save looks only when the match is between hands, and every one that   *)
(* looks is overtaken by a new hand.                                       *)
LEMMA LookersStep ==
    ASSUME Types, Types', Core, Next, NEW i, Looker(i)'
    PROVE  ~NewHand /\ (Between \/ \E o : Looker(o))
<1>1. i \in DOMAIN saves' /\ saves'[i].at = "looking" /\ ~saves'[i].overtaken
  BY DEF Looker
<1>2. saves \in Seq(SaveType(loads)) /\ \A o \in DOMAIN saves : saves[o] \in SaveType(loads)
  BY Rounds DEF Types
<1>3. ASSUME StartNewHand, TakesStartHand PROVE FALSE
  <2>1. saves' = [o \in DOMAIN saves |->
                    [saves[o] EXCEPT !.overtaken = @ \/ saves[o].at = "looking"]]
    BY <1>3 DEF StartNewHand
  <2>2. /\ i \in DOMAIN saves
        /\ saves'[i] = [saves[i] EXCEPT !.overtaken = @ \/ saves[i].at = "looking"]
    BY <1>1, <2>1
  <2>3. saves'[i].at = saves[i].at /\ saves'[i].overtaken = (saves[i].overtaken \/ saves[i].at = "looking")
    BY <1>2, <2>2 DEF SaveType
  <2>4. QED
    BY <1>1, <2>3
<1>4. ~NewHand
  BY <1>3 DEF NewHand
<1>5. saves' = saves => Looker(i)
  BY <1>1 DEF Looker
<1>6. CASE \E j \in SaveIds : Save(j)
  <2>1. PICK j \in SaveIds : Save(j)
    BY <1>6
  <2>2. j \in DOMAIN saves
    BY <2>1 DEF Save, SaveBegin, SaveRead, SaveWrite
  <2>3. CASE saves' = RemoveAt(saves, j)
    <3>1. server' = server
      BY <2>1 DEF Save, SaveBegin, SaveRead, SaveWrite, SaveStep
    <3>2. PICK o \in DOMAIN saves \ {j} : saves'[i] = saves[o]
      BY <1>1, <2>2, <2>3, <3>1, FewerSaves
    <3>3. QED
      BY <1>1, <1>4, <3>2 DEF Looker
  <2>4. CASE BetweenHands
    BY <1>4, <2>4 DEF BetweenHands, Between
  <2>5. CASE SaveRead(j)
    <3>1. PICK c : saves' = [saves EXCEPT ![j].at = "writing",
                                          ![j].snap = [round |-> game.round, chips |-> c]]
      BY <2>5 DEF SaveRead
    <3>2. i \in DOMAIN saves /\ (i = j => saves'[i].at = "writing") /\ (i # j => saves'[i] = saves[i])
      BY <1>1, <1>2, <2>2, <3>1 DEF SaveType
    <3>3. QED
      BY <1>1, <1>4, <3>2 DEF Looker
  <2>6. QED
    BY <2>1, <2>3, <2>4, <2>5 DEF Save, SaveBegin, SaveWrite
<1>7. CASE \E final \in BOOLEAN : saves' = Append(saves, NewSave(final))
  <2>1. PICK final \in BOOLEAN : saves' = Append(saves, NewSave(final))
    BY <1>7
  <2>2. PICK s : s = NewSave(final)
    OBVIOUS
  <2>3. s.at = "asked" /\ s \in SaveType(loads)
    BY <2>2, StaticTypes DEF NewSave
  <2>4. saves' = Append(saves, s)
    BY <2>1, <2>2
  <2>5. /\ Len(saves) \in Nat /\ DOMAIN saves = 1 .. Len(saves)
        /\ DOMAIN saves' = 1 .. Len(saves) + 1
        /\ \A o \in 1 .. Len(saves) : saves'[o] = saves[o]
        /\ saves'[Len(saves) + 1] = s
    BY <1>2, <2>3, <2>4, AppendProperties, LenProperties
  <2>6. i \in 1 .. Len(saves)
    BY <1>1, <2>3, <2>5
  <2>7. QED
    BY <1>1, <1>4, <2>5, <2>6 DEF Looker
<1>8. CASE saves' = <<>>
  BY <1>1, <1>8
<1>9. CASE saves' = saves
  BY <1>4, <1>5, <1>9
<1>10. CASE StartNewHand
  BY <1>3, <1>9, <1>10 DEF StartNewHand
<1>11. saves' = saves \/ saves' = <<>> \/ StartNewHand
       \/ (\E final \in BOOLEAN : saves' = Append(saves, NewSave(final)))
       \/ \E j \in SaveIds : Save(j)
  <2>1. CASE QuietStep
    BY <2>1 DEF QuietStep, SetPlayerUnready, Echo, ResumeMatch, StarterDeals, GameStep, FinishHand,
       AutoStartFires, LoopStep, LoopDeals, Takes, HandleShowdownComplete,
       RecordPendingElimination, HandleGameOver, HandleAutoStart, AutoStartRefused, Forward,
       RemovalTimer, BeginDrain, TellCoordinator, HoldTable, StopEventProcessor
  <2>2. CASE (\E j \in StarterIds : StarterPanics(j)) \/ CloseTables \/ Crash
    BY <2>2, EndsWhen DEF Ends, ForgetMemory
  <2>3. CASE WaitForQuiescence
    BY <2>3 DEF WaitForQuiescence
  <2>4. CASE \E k \in 1 .. Workers : Worker(k)
    BY <2>4 DEF Worker, FinalizeRemoval, HandleShowdownResult, HandleGameEnded, Handle
  <2>5. CASE (\E p \in Players : SetPlayerReady(p)) \/ (\E j \in StarterIds : StartGame(j))
             \/ Removal \/ Load
    BY <2>5 DEF SetPlayerReady, StartGame, Removal, CloseTable, DeleteRows, Load
  <2>6. QED
    BY <2>1, <2>2, <2>3, <2>4, <2>5 DEF Next, QuietStep, Starter, Stop
<1>12. QED
  BY <1>6, <1>7, <1>8, <1>9, <1>10, <1>11

(* Only the end of a hand and a load have a result.                        *)
LEMMA ResultStays ==
    ASSUME Next, ~FinishHand, ~Load
    PROVE  result' = result
<1>1. CASE QuietStep
  BY <1>1 DEF QuietStep, SetPlayerUnready, Echo, ResumeMatch, StarterDeals, GameStep,
     AutoStartFires, LoopStep, LoopDeals, Takes, HandleShowdownComplete,
     RecordPendingElimination, HandleGameOver, HandleAutoStart, AutoStartRefused, Forward,
     RemovalTimer, BeginDrain, TellCoordinator, HoldTable, StopEventProcessor, StopStep
<1>2. CASE (\E j \in StarterIds : StarterPanics(j)) \/ CloseTables \/ Crash
  BY <1>2, EndsWhen DEF Ends
<1>3. CASE WaitForQuiescence
  BY <1>3 DEF WaitForQuiescence, StopStep
<1>4. CASE \E k \in 1 .. Workers : Worker(k)
  BY <1>4 DEF Worker, FinalizeRemoval, HandleShowdownResult, HandleGameEnded, Handle, InWorker
<1>5. CASE (\E p \in Players : SetPlayerReady(p)) \/ (\E j \in StarterIds : StartGame(j))
           \/ Removal \/ \E i \in SaveIds : Save(i)
  BY <1>5 DEF SetPlayerReady, StartGame, Removal, CloseTable, DeleteRows, Save, SaveBegin,
     SaveRead, SaveWrite, SaveStep
<1>6. QED
  BY <1>1, <1>2, <1>3, <1>4, <1>5 DEF Next, QuietStep, Starter, Stop

LEMMA SettledStep ==
    ASSUME Types, Types', Down, Core, Core', Settled, Next
    PROVE  Settled'
<1>1. game \in GameType(loads)
  BY DEF Types
<1>2. CASE FinishHand
  <2>1. PICK c, x : /\ game' = [game EXCEPT !.phase = "SHOWDOWN", !.chips = c, !.timer = x]
                    /\ result' = [round |-> game.round, chips |-> c]
    BY <1>2 DEF FinishHand
  <2>2. /\ game'.phase = "SHOWDOWN" /\ game'.round = game.round /\ game'.chips = c
        /\ result'.round = game.round /\ result'.chips = c
    BY <1>1, <2>1 DEF GameType
  <2>3. QED
    BY <2>2 DEF Settled, Between
<1>3. CASE NewHand
  <2>1. game' = [game EXCEPT !.phase = "betting", !.round = @ + 1, !.timer = FALSE]
    BY <1>3 DEF NewHand, StartNewHand
  <2>2. game'.phase = "betting"
    BY <1>1, <2>1 DEF GameType
  <2>3. \A i : ~Looker(i)'
    BY <1>3, LookersStep
  <2>4. QED
    BY <2>2, <2>3 DEF Settled, Between
<1>4. CASE FirstHand
  <2>1. PICK j \in StarterIds : StartGame(j) /\ MayStartGame
    BY <1>4 DEF FirstHand
  <2>2. game'.phase = "betting" /\ saves' = saves
    BY <2>1 DEF StartGame
  <2>3. game.phase = "none"
    BY <2>1 DEF StartGame, Core, OneStart
  <2>4. \A i : ~Looker(i)'
    BY <2>2, <2>3 DEF Core, Exclusive, Busy, Looker
  <2>5. QED
    BY <2>2, <2>4 DEF Settled, Between
<1>5. CASE CloseTable \/ Ends
  <2>1. game'.phase = "none"
    BY <1>5 DEF CloseTable, Ends, ForgetMemory, NoGame
  <2>2. \A i : ~Looker(i)'
    BY <2>1 DEF Core, Exclusive, Busy, Looker
  <2>3. QED
    BY <2>1, <2>2 DEF Settled, Between
<1>6. CASE Load
  <2>1. saves' = <<>>
    BY <1>6 DEF Load, Down, Forgotten
  <2>2. \A i : ~Looker(i)'
    BY <2>1 DEF Looker
  <2>3. CASE db.checkpoint = None
    <3>1. game'.phase = "none"
      BY <1>6, <2>3 DEF Load, LoadedGame, NoGame
    <3>2. QED
      BY <2>2, <3>1 DEF Settled, Between
  <2>4. CASE db.checkpoint # None
    <3>1. game' = LoadedGame /\ result' = [round |-> LoadedGame.round, chips |-> LoadedGame.chips]
      BY <1>6, <2>4 DEF Load
    <3>2. result'.round = game'.round /\ result'.chips = game'.chips
      BY <3>1
    <3>3. QED
      BY <2>2, <3>2 DEF Settled
  <2>5. QED
    BY <2>3, <2>4
<1>7. CASE Steady /\ ~FinishHand /\ ~Load
  <2>1. result' = result
    BY <1>7, ResultStays
  <2>2. Between' <=> Between
    BY <1>7 DEF Steady, Between
  <2>3. \A i : Looker(i)' => Between
    BY LookersStep DEF Settled
  <2>4. QED
    BY <1>7, <2>1, <2>2, <2>3 DEF Settled, Steady
<1>8. QED
  BY <1>2, <1>3, <1>4, <1>5, <1>6, <1>7, HandsOrSteady

(***************************************************************************)
(* Draining: what the coordinator believes, and what it may.               *)
(***************************************************************************)
\* What has been reported of the game is no newer than it, and a report that
\* its hand is over is right.
Reports ==
    \A k \in DOMAIN queue :
        /\ queue[k].round <= game.round
        /\ queue[k].type # "TABLE_REMOVED" /\ queue[k].round = game.round /\ ~queue[k].live
               => game.phase # "betting"

\* Before its first hand the table has nothing to report.
NothingYet == gameEvents = <<>> /\ tableEvents = <<>> /\ queue = <<>> /\ ~removal

Channels ==
    /\ table.open => Reports
    /\ table.open /\ game.phase = "none" => NothingYet

\* Quiesced means that no hand is under way and that none is begun, except
\* by the ways that set early.
Draining ==
    /\ server \in {"up", "flagged"} => coord.at = "idle"
    /\ server = "flagged" /\ ~coord.pending => ~table.open
    /\ server \in {"saving", "stopped"} => coord.at = "quiesced"
    /\ server \in {"waiting", "saving", "stopped"} /\ table.open => table.draining
    /\ coord.at = "quiesced" /\ table.open => table.draining \/ game.phase # "none"
    /\ coord.at = "quiesced" /\ ~early => game.phase # "betting"

(* What is in the queue was there, or reports the game as it is.           *)
LEMMA QueueStep ==
    ASSUME Types, Down, Next, NEW k \in DOMAIN queue'
    PROVE  \/ \E o \in DOMAIN queue : queue'[k] = queue[o]
           \/ /\ game' = game /\ queue'[k].round = game.round
              /\ queue'[k].type = "TABLE_REMOVED" \/ (~queue'[k].live => game.phase # "betting")
<1>1. queue \in Seq(QueuedEvent)
  BY DEF Types
<1>2. CASE queue' = queue
  BY <1>2
<1>3. CASE queue' = <<>>
  BY <1>3
<1>4. CASE \E i \in DOMAIN queue : queue' = RemoveAt(queue, i)
  <2>1. PICK i \in DOMAIN queue : queue' = RemoveAt(queue, i)
    BY <1>4
  <2>2. PICK X, r : X = QueuedEvent /\ r = RemoveAt(queue, i)
    OBVIOUS
  <2>3. queue \in Seq(X)
    BY <1>1, <2>2
  <2>4. \A j \in DOMAIN r : /\ (IF j < i THEN j ELSE j + 1) \in DOMAIN queue \ {i}
                            /\ r[j] = queue[IF j < i THEN j ELSE j + 1]
    BY <2>2, <2>3, RemoveAtKeeps
  <2>5. queue' = r
    BY <2>1, <2>2
  <2>6. QED
    BY <2>4, <2>5
<1>5. ASSUME NEW e \in QueuedEvent, Send(queue, queue', <<e>>)
      PROVE  (\E o \in DOMAIN queue : queue'[k] = queue[o]) \/ queue'[k] = e
  <2>1. <<e>> \in Seq(QueuedEvent) /\ Len(<<e>>) = 1 /\ <<e>>[1] = e /\ <<e>> # <<>>
    OBVIOUS
  <2>2. CASE queue' = queue \o <<e>>
    <3>1. /\ queue' \in Seq(QueuedEvent)
          /\ Len(queue') = Len(queue) + Len(<<e>>)
          /\ \A j \in 1 .. Len(queue) + Len(<<e>>) :
                queue'[j] = IF j <= Len(queue) THEN queue[j] ELSE <<e>>[j - Len(queue)]
      BY <1>1, <2>1, <2>2, ConcatProperties
    <3>2. /\ Len(queue) \in Nat /\ DOMAIN queue = 1 .. Len(queue)
          /\ DOMAIN queue' = 1 .. Len(queue) + 1
      BY <1>1, <2>1, <3>1, LenProperties
    <3>3. CASE k <= Len(queue)
      BY <2>1, <3>1, <3>2, <3>3
    <3>4. CASE ~(k <= Len(queue))
      <4>1. k = Len(queue) + 1 /\ k - Len(queue) = 1 /\ k \in 1 .. Len(queue) + Len(<<e>>)
        BY <2>1, <3>2, <3>4
      <4>2. queue'[k] = <<e>>[k - Len(queue)]
        BY <3>1, <3>4, <4>1
      <4>3. QED
        BY <2>1, <4>1, <4>2
    <3>5. QED
      BY <3>3, <3>4
  <2>3. CASE queue' = queue \o Front(<<e>>)
    <3>1. Front(<<e>>) = <<>>
      <4>1. Front(<<e>>) = SubSeq(<<e>>, 1, 0)
        BY <2>1 DEF Front
      <4>2. QED
        BY <4>1
    <3>2. queue' = queue
      BY <1>1, <2>3, <3>1, ConcatEmptySeq
    <3>3. QED
      BY <3>2
  <2>4. QED
    BY <1>5, <2>2, <2>3 DEF Send
<1>6. CASE Forward
  <2>1. CASE UNCHANGED queue
    BY <2>1
  <2>2. CASE Send(queue, queue', <<[type |-> Head(tableEvents), round |-> game.round,
                                    live |-> game.phase = "betting"]>>)
    <3>1. PICK e : e = [type |-> Head(tableEvents), round |-> game.round,
                        live |-> game.phase = "betting"]
      OBVIOUS
    <3>2. Head(tableEvents) \in TableEvent /\ game.round \in 0 .. MaxHands
      <4>1. tableEvents \in Seq(TableEvent) /\ tableEvents # <<>>
        BY <1>6 DEF Forward, Types
      <4>2. Head(tableEvents) \in TableEvent
        BY <4>1, HeadTailProperties
      <4>3. QED
        BY <4>2 DEF Types, GameType
    <3>3. e \in QueuedEvent /\ e.round = game.round /\ (~e.live => game.phase # "betting")
      BY <3>1, <3>2 DEF QueuedEvent, TableEvent
    <3>4. (\E o \in DOMAIN queue : queue'[k] = queue[o]) \/ queue'[k] = e
      BY <1>5, <2>2, <3>1, <3>3
    <3>5. game' = game
      BY <1>6 DEF Forward
    <3>6. QED
      BY <3>3, <3>4, <3>5
  <2>3. QED
    BY <1>6, <2>1, <2>2 DEF Forward
<1>7. CASE RemovalTimer
  <2>1. PICK e : e = [type |-> "TABLE_REMOVED", round |-> game.round, live |-> FALSE]
    OBVIOUS
  <2>2. e \in QueuedEvent /\ e.round = game.round /\ e.type = "TABLE_REMOVED"
    BY <2>1 DEF QueuedEvent, Types, GameType
  <2>3. Send(queue, queue', <<e>>) /\ game' = game
    BY <1>7, <2>1 DEF RemovalTimer
  <2>4. QED
    BY <1>5, <2>2, <2>3
<1>8. CASE \E j \in 1 .. Workers : Worker(j)
  BY <1>4, <1>8 DEF Worker, HandleShowdownResult, HandleGameEnded, Handle, FinalizeRemoval, InWorker
<1>9. CASE Ends
  BY <1>3, <1>9 DEF Ends, ForgetMemory
<1>10. CASE \/ \E p \in Players : SetPlayerReady(p) \/ SetPlayerUnready(p) \/ Echo(p)
            \/ GameStep \/ LoopStep \/ Removal \/ Load \/ BeginDrain
            \/ \E i \in SaveIds : Save(i)
  BY <1>2, <1>10 DEF SetPlayerReady, SetPlayerUnready, Echo, GameStep, FinishHand, AutoStartFires,
     LoopStep, LoopDeals, Takes, HandleShowdownComplete, RecordPendingElimination, HandleGameOver,
     HandleAutoStart, AutoStartRefused, Removal, CloseTable, DeleteRows, Load, BeginDrain, StopStep,
     Save, SaveBegin, SaveRead, SaveWrite, SaveStep
<1>11. CASE \/ \E i \in StarterIds : StartGame(i) \/ ResumeMatch(i) \/ StarterDeals(i)
            \/ TellCoordinator \/ HoldTable \/ WaitForQuiescence \/ StopEventProcessor
  BY <1>2, <1>11 DEF StartGame, ResumeMatch, StarterDeals, TellCoordinator, HoldTable,
     WaitForQuiescence, StopEventProcessor, StopStep
<1>12. QED
  BY <1>6, <1>7, <1>8, <1>9, <1>10, <1>11, EndsWhen DEF Next, Starter, Stop

(* A table is opened by a load only, and told once to drain it drains.     *)
LEMMA OpenStays ==
    ASSUME Types, Core, Next, ~Load, table'.open
    PROVE  /\ table.open /\ ~Ends /\ ~CloseTable
           /\ table.draining => table'.draining
<1>1. table \in TableType
  BY DEF Types
<1>2. ~Ends /\ ~CloseTable
  BY DEF Ends, ForgetMemory, CloseTable, Gone
<1>3. table.open /\ (table.draining => table'.draining)
  <2>1. CASE table' = table
    BY <2>1
  <2>2. ASSUME NEW t \in TableType, t.open = table.open, t.draining = table.draining,
               table' \in {t, OnReadiness(t), OnStartGameReq(t), OnGameEnded(t)}
        PROVE  table.open /\ (table.draining => table'.draining)
    <3>1. OnlyMoves(t, t)
      BY DEF OnlyMoves
    <3>2. OnlyMoves(t, table')
      BY <2>2, <3>1, TableMoves
    <3>3. table'.open = t.open /\ table'.draining = t.draining
      BY <3>2 DEF OnlyMoves
    <3>4. QED
      BY <2>2, <3>3
  <2>3. CASE \E p \in Players : SetPlayerReady(p)
    <3>1. PICK p \in Players : SetPlayerReady(p)
      BY <2>3
    <3>2. PICK t, u : t = [table EXCEPT !.ready = @ \cup {p}] /\ u = OnReadiness(t)
      OBVIOUS
    <3>3. t \in TableType /\ t.open = table.open /\ t.draining = table.draining
      BY <1>1, <3>2 DEF TableType
    <3>4. CASE table' = u
      BY <2>2, <3>2, <3>3, <3>4
    <3>5. CASE table' = [u EXCEPT !.echo = @ \cup {p}]
      <4>1. u \in TableType /\ u.open = t.open /\ u.draining = t.draining
        BY <3>2, <3>3, TableMoves DEF OnlyMoves
      <4>2. table'.open = u.open /\ table'.draining = u.draining
        BY <3>5, <4>1 DEF TableType
      <4>3. QED
        BY <3>3, <4>1, <4>2
    <3>6. QED
      BY <3>1, <3>2, <3>4, <3>5, Zenon DEF SetPlayerReady
  <2>4. CASE \E p \in Players : SetPlayerUnready(p) \/ Echo(p)
    <3>1. PICK p \in Players : SetPlayerUnready(p) \/ Echo(p)
      BY <2>4
    <3>2. PICK t, u, v :
            /\ t = [table EXCEPT !.ready = @ \ {p}]
            /\ u = [table EXCEPT !.echo = @ \ {p}, !.stuck = TRUE]
            /\ v = [table EXCEPT !.echo = @ \ {p}, !.ready = @ \cup ({p} \cap table.users)]
      OBVIOUS
    <3>3. /\ t \in TableType /\ t.open = table.open /\ t.draining = table.draining
          /\ u \in TableType /\ u.open = table.open /\ u.draining = table.draining
          /\ v \in TableType /\ v.open = table.open /\ v.draining = table.draining
      BY <1>1, <3>2 DEF TableType
    <3>4. table' \in {OnReadiness(t), u, OnReadiness(v)}
      BY <3>1, <3>2, Zenon DEF SetPlayerUnready, Echo
    <3>5. QED
      BY <2>2, <3>3, <3>4
  <2>5. CASE StartNewHand
    <3>1. PICK t : t = [table EXCEPT !.shown = 0]
      OBVIOUS
    <3>2. 0 \in 0 .. MaxHands
      BY MatchAssumption
    <3>3. t \in TableType /\ t.open = table.open /\ t.draining = table.draining
      BY <1>1, <3>1, <3>2 DEF TableType
    <3>4. QED
      BY <2>2, <2>5, <3>1, <3>3 DEF StartNewHand
  <2>6. CASE HandleShowdownComplete
    BY <1>1, <2>6 DEF HandleShowdownComplete, TableType
  <2>7. CASE RecordPendingElimination
    <3>1. PICK t : t = [table EXCEPT !.broke = @ \cup Head(gameEvents).who]
      OBVIOUS
    <3>2. Head(gameEvents).who \in SUBSET Players
      BY <2>7, TakesEvent DEF RecordPendingElimination, GameEvent
    <3>3. t \in TableType /\ t.open = table.open /\ t.draining = table.draining
      BY <1>1, <3>1, <3>2 DEF TableType
    <3>4. QED
      BY <2>2, <2>7, <3>1, <3>3 DEF RecordPendingElimination
  <2>8. CASE HandleGameOver
    BY <1>1, <2>2, <2>8 DEF HandleGameOver
  <2>9. CASE HandleAutoStart
    <3>1. PICK t : t = [table EXCEPT !.users = @ \ table.broke, !.broke = {}]
      OBVIOUS
    <3>2. t \in TableType /\ t.open = table.open /\ t.draining = table.draining
      BY <1>1, <3>1 DEF TableType
    <3>3. QED
      BY <2>1, <2>2, <2>9, <3>1, <3>2 DEF HandleAutoStart, Prune
  <2>10. CASE \E i \in StarterIds : StartGame(i)
    BY <1>1, <2>1, <2>2, <2>10 DEF StartGame
  <2>11. CASE HoldTable
    BY <1>1, <2>11 DEF HoldTable, TableType
  <2>12. CASE \/ Forward \/ RemovalTimer \/ DeleteRows \/ AutoStartRefused \/ GameStep
              \/ BeginDrain \/ TellCoordinator \/ WaitForQuiescence \/ StopEventProcessor
              \/ \E i \in StarterIds : ResumeMatch(i)
              \/ \E k \in 1 .. Workers : Worker(k)
              \/ \E i \in SaveIds : Save(i)
    BY <2>1, <2>12 DEF Forward, RemovalTimer, DeleteRows, AutoStartRefused, GameStep, FinishHand,
       AutoStartFires, BeginDrain, TellCoordinator, WaitForQuiescence, StopEventProcessor,
       ResumeMatch, Worker, HandleShowdownResult, HandleGameEnded, Handle, FinalizeRemoval,
       InWorker, Save, SaveBegin, SaveRead, SaveWrite, SaveStep
  <2>13. QED
    BY <1>2, <2>3, <2>4, <2>5, <2>6, <2>7, <2>8, <2>9, <2>10, <2>11, <2>12, EndsWhen
       DEF Next, Starter, StarterDeals, LoopStep, LoopDeals, Removal, Stop
<1>4. QED
  BY <1>2, <1>3

(* The game of an open table never falls behind.                           *)
LEMMA OpenGame ==
    ASSUME Types, Core, Channels, Next, ~Load, table'.open
    PROVE  \/ Steady
           \/ game'.phase = "SHOWDOWN" /\ game'.round = game.round
           \/ NewHand /\ game'.phase = "betting" /\ game'.round = game.round + 1
           \/ /\ FirstHand /\ game'.phase = "betting" /\ game.phase = "none"
              /\ NothingYet /\ queue' = queue /\ ~table.draining /\ coord' = coord
<1>1. game \in GameType(loads) /\ table.open /\ ~Ends /\ ~CloseTable
  BY OpenStays DEF Types
<1>2. CASE FinishHand
  <2>1. PICK c, x : game' = [game EXCEPT !.phase = "SHOWDOWN", !.chips = c, !.timer = x]
    BY <1>2 DEF FinishHand
  <2>2. QED
    BY <1>1, <2>1 DEF GameType
<1>3. CASE NewHand
  <2>1. game' = [game EXCEPT !.phase = "betting", !.round = @ + 1, !.timer = FALSE]
    BY <1>3 DEF NewHand, StartNewHand
  <2>2. QED
    BY <1>1, <1>3, <2>1 DEF GameType
<1>4. CASE FirstHand
  <2>1. PICK i \in StarterIds : StartGame(i) /\ MayStartGame
    BY <1>4 DEF FirstHand
  <2>2. game.phase = "none" /\ game'.phase = "betting" /\ queue' = queue /\ ~table.draining
        /\ coord' = coord
    BY <2>1 DEF StartGame, MayStartGame, Core, OneStart
  <2>3. NothingYet
    BY <1>1, <2>2 DEF Channels
  <2>4. QED
    BY <1>4, <2>2, <2>3
<1>5. QED
  BY <1>1, <1>2, <1>3, <1>4, HandsOrSteady

LEMMA NothingStays ==
    ASSUME Types, Core, Next, ~Load, NothingYet, game = NoGame
    PROVE  NothingYet'
<1>1. game.phase = "none" /\ ~game.timer
  BY DEF NoGame
<1>2. DOMAIN queue = {} /\ gameEvents = <<>> /\ tableEvents = <<>> /\ ~removal
  BY DEF NothingYet
<1>3. ~GameStep
  BY <1>1 DEF GameStep, FinishHand, AutoStartFires
<1>4. ~Forward /\ ~RemovalTimer /\ \A k \in 1 .. Workers : ~Worker(k)
  BY <1>2 DEF Forward, RemovalTimer, Worker, HandleShowdownResult, HandleGameEnded, Handle,
              FinalizeRemoval, InWorker
<1>5. CASE LoopStep
  BY <1>2, <1>5 DEF LoopStep, LoopDeals, Takes, HandleShowdownComplete,
     RecordPendingElimination, HandleGameOver, HandleAutoStart, AutoStartRefused, NothingYet
<1>6. CASE Ends
  BY <1>6 DEF Ends, ForgetMemory, NothingYet
<1>7. CASE \E p \in Players : SetPlayerReady(p) \/ SetPlayerUnready(p) \/ Echo(p)
  BY <1>7 DEF SetPlayerReady, SetPlayerUnready, Echo, NothingYet
<1>8. CASE \E i \in StarterIds : StartGame(i) \/ ResumeMatch(i) \/ StarterDeals(i)
  BY <1>8 DEF StartGame, ResumeMatch, StarterDeals, NothingYet
<1>9. CASE Removal \/ \E i \in SaveIds : Save(i)
  <2>1. gameEvents' \in {gameEvents, <<>>} /\ UNCHANGED <<tableEvents, queue, removal>>
    BY <1>9 DEF Removal, CloseTable, DeleteRows, Save, SaveBegin, SaveRead, SaveWrite, SaveStep
  <2>2. QED
    BY <2>1 DEF NothingYet
<1>10. CASE BeginDrain \/ TellCoordinator \/ HoldTable \/ WaitForQuiescence \/ StopEventProcessor
  <2>1. UNCHANGED <<gameEvents, tableEvents, queue>> /\ (removal' = removal \/ removal' = FALSE)
    BY <1>10 DEF BeginDrain, TellCoordinator, HoldTable, WaitForQuiescence, StopEventProcessor,
       StopStep
  <2>2. QED
    BY <2>1 DEF NothingYet
<1>11. QED
  BY <1>3, <1>4, <1>5, <1>6, <1>7, <1>8, <1>9, <1>10, EndsWhen DEF Next, Starter, Stop

LEMMA ChannelsStep ==
    ASSUME Types, Types', Down, Core, Core', Channels, Next
    PROVE  Channels'
<1>1. CASE Load
  <2>1. gameEvents' = <<>> /\ tableEvents' = <<>> /\ queue' = <<>> /\ ~removal'
    BY <1>1 DEF Load, Down, Forgotten
  <2>2. QED
    BY <2>1 DEF Channels, Reports, NothingYet
<1>2. CASE ~table'.open
  BY <1>2 DEF Channels
<1>3. CASE ~Load /\ table'.open
  <2>1. table.open /\ Reports
    BY <1>3, OpenStays DEF Channels
  <2>2. ASSUME game'.phase = "none" PROVE NothingYet'
    <3>1. game.phase = "none"
      <4>1. Steady
        BY <1>3, <2>2, OpenGame
      <4>2. QED
        BY <2>2, <4>1 DEF Steady
    <3>2. NothingYet /\ game = NoGame
      BY <2>1, <3>1 DEF Channels, Core, Life
    <3>3. QED
      BY <1>3, <3>2, NothingStays
  <2>3. Reports'
    <3>1. SUFFICES ASSUME NEW k \in DOMAIN queue'
                   PROVE  /\ queue'[k].round <= game'.round
                          /\ queue'[k].type # "TABLE_REMOVED" /\ queue'[k].round = game'.round
                                /\ ~queue'[k].live
                                 => game'.phase # "betting"
      BY DEF Reports
    <3>2. queue'[k].round \in Int /\ game.round \in Int
      <4>1. queue' \in Seq(QueuedEvent) /\ game \in GameType(loads)
        BY DEF Types
      <4>2. queue'[k] \in QueuedEvent
        BY <4>1, LenProperties
      <4>3. \A r \in 0 .. MaxHands : r \in Int
        BY MatchAssumption
      <4>4. QED
        BY <4>1, <4>2, <4>3 DEF QueuedEvent, GameType
    <3>3. CASE \E o \in DOMAIN queue : queue'[k] = queue[o]
      <4>1. PICK o \in DOMAIN queue : queue'[k] = queue[o]
        BY <3>3
      <4>2. /\ queue'[k].round <= game.round
            /\ queue'[k].type # "TABLE_REMOVED" /\ queue'[k].round = game.round
                  /\ ~queue'[k].live
                 => game.phase # "betting"
        BY <2>1, <4>1 DEF Reports
      <4>3. CASE Steady
        BY <4>2, <4>3 DEF Steady
      <4>4. CASE game'.phase = "SHOWDOWN" /\ game'.round = game.round
        BY <4>2, <4>4
      <4>5. CASE game'.round = game.round + 1
        BY <3>2, <4>2, <4>5
      <4>6. CASE NothingYet
        BY <4>1, <4>6 DEF NothingYet
      <4>7. QED
        BY <1>3, <4>3, <4>4, <4>5, <4>6, OpenGame
    <3>4. CASE /\ game' = game /\ queue'[k].round = game.round
               /\ queue'[k].type = "TABLE_REMOVED" \/ (~queue'[k].live => game.phase # "betting")
      BY <3>2, <3>4
    <3>5. QED
      BY <3>3, <3>4, QueueStep
  <2>4. QED
    BY <2>2, <2>3 DEF Channels
<1>4. QED
  BY <1>1, <1>2, <1>3

(* Who has been too early stays so until the next load.                    *)
LEMMA EarlyStays ==
    ASSUME Next, ~Load, early
    PROVE  early'
<1>1. early' = early => early'
  OBVIOUS
<1>2. CASE StartNewHand
  BY <1>2 DEF StartNewHand
<1>3. CASE \E k \in 1 .. Workers : Worker(k)
  BY <1>3 DEF Worker, HandleShowdownResult, HandleGameEnded, Handle, Observe, FinalizeRemoval
<1>4. CASE Ends
  BY <1>4 DEF Ends, ghosts
<1>5. CASE \E p \in Players : SetPlayerReady(p) \/ SetPlayerUnready(p) \/ Echo(p)
  BY <1>5 DEF SetPlayerReady, SetPlayerUnready, Echo, ghosts
<1>6. CASE \E i \in StarterIds : StartGame(i) \/ ResumeMatch(i)
  BY <1>6 DEF StartGame, ResumeMatch, ghosts
<1>7. CASE GameStep \/ Forward \/ RemovalTimer \/ Removal \/ \E i \in SaveIds : Save(i)
  BY <1>7 DEF GameStep, FinishHand, AutoStartFires, Forward, RemovalTimer, Removal, CloseTable,
     DeleteRows, Save, SaveBegin, SaveRead, SaveWrite, SaveStep, ghosts
<1>8. CASE HandleShowdownComplete \/ RecordPendingElimination \/ HandleGameOver
           \/ HandleAutoStart \/ AutoStartRefused
  BY <1>8 DEF Takes, HandleShowdownComplete, RecordPendingElimination, HandleGameOver,
     HandleAutoStart, AutoStartRefused
<1>9. CASE BeginDrain \/ TellCoordinator \/ HoldTable \/ WaitForQuiescence \/ StopEventProcessor
  BY <1>9 DEF BeginDrain, TellCoordinator, HoldTable, WaitForQuiescence, StopEventProcessor,
     StopStep, ghosts
<1>10. QED
  BY <1>2, <1>3, <1>4, <1>5, <1>6, <1>7, <1>8, <1>9, EndsWhen
     DEF Next, Starter, StarterDeals, LoopStep, LoopDeals, Stop

\* The steps of Stop and the workers, and the removal of the row.
Coordinates ==
    \/ BeginDrain \/ TellCoordinator \/ HoldTable \/ WaitForQuiescence \/ StopEventProcessor
    \/ \E k \in 1 .. Workers : HandleShowdownResult(k) \/ HandleGameEnded(k)
    \/ DeleteRows

LEMMA CoordStays ==
    ASSUME Next, ~Load, ~Ends, ~Coordinates
    PROVE  coord' = coord /\ server' = server
<1>1. CASE \E p \in Players : SetPlayerReady(p) \/ SetPlayerUnready(p) \/ Echo(p)
  BY <1>1 DEF SetPlayerReady, SetPlayerUnready, Echo
<1>2. CASE \E i \in StarterIds : StartGame(i) \/ ResumeMatch(i) \/ StarterDeals(i)
  BY <1>2 DEF StartGame, ResumeMatch, StarterDeals
<1>3. CASE GameStep \/ Forward \/ RemovalTimer \/ CloseTable \/ \E i \in SaveIds : Save(i)
  BY <1>3 DEF GameStep, FinishHand, AutoStartFires, Forward, RemovalTimer, CloseTable,
     Save, SaveBegin, SaveRead, SaveWrite, SaveStep
<1>4. CASE LoopStep
  BY <1>4 DEF LoopStep, LoopDeals, Takes, HandleShowdownComplete, RecordPendingElimination,
     HandleGameOver, HandleAutoStart, AutoStartRefused
<1>5. CASE \E k \in 1 .. Workers : FinalizeRemoval(k)
  BY <1>5 DEF FinalizeRemoval, InWorker
<1>6. QED
  BY <1>1, <1>2, <1>3, <1>4, <1>5, EndsWhen DEF Next, Starter, Worker, Removal, Stop, Coordinates

LEMMA DrainingStep ==
    ASSUME Types, Types', Down, Core, Core', Channels, Draining, Next
    PROVE  Draining'
<1>0. server \in ServerAt /\ coord \in CoordType /\ table \in TableType /\ game \in GameType(loads)
  BY DEF Types
<1>1. CASE Load
  <2>1. coord'.at = "idle" /\ server' = "up"
    BY <1>1 DEF Load, Down, Forgotten
  <2>2. QED
    BY <2>1 DEF Draining
<1>2. CASE Ends
  <2>1. coord'.at = "idle" /\ server' = "down"
    BY <1>2 DEF Ends, ForgetMemory
  <2>2. QED
    BY <2>1 DEF Draining
<1>3. CASE ~Load /\ ~Ends
  <2>1. ~table.open => ~table'.open
    BY <1>3, OpenStays
  <2>2. ~table'.open => game'.phase = "none"
    BY DEF Core, Life, NoGame
  <2>3. ASSUME coord.at = "quiesced", ~early'
        PROVE  game'.phase # "betting"
    <3>1. game.phase # "betting" /\ ~early
      BY <1>3, <2>3, EarlyStays DEF Draining
    <3>2. CASE ~table'.open
      BY <2>2, <3>2
    <3>3. CASE table'.open
      <4>1. CASE Steady
        BY <3>1, <4>1 DEF Steady
      <4>2. CASE NewHand
        BY <2>3, <4>2 DEF NewHand, StartNewHand
      <4>3. CASE ~table.draining /\ game.phase = "none"
        BY <2>1, <2>3, <3>3, <4>3 DEF Draining
      <4>4. QED
        BY <1>3, <3>3, <4>1, <4>2, <4>3, OpenGame
    <3>4. QED
      BY <3>2, <3>3
  <2>4. ASSUME coord.at = "quiesced", table'.open
        PROVE  table'.draining \/ game'.phase # "none"
    <3>1. table.draining \/ game.phase # "none"
      BY <2>1, <2>4 DEF Draining
    <3>2. CASE table.draining
      BY <1>3, <2>4, <3>2, OpenStays
    <3>3. CASE game.phase # "none"
      <4>1. CASE Steady
        BY <3>3, <4>1 DEF Steady
      <4>2. CASE ~Steady
        BY <1>3, <2>4, <4>2, OpenGame
      <4>3. QED
        BY <4>1, <4>2
    <3>4. QED
      BY <3>1, <3>2, <3>3
  <2>5. server \in {"waiting", "saving", "stopped"} /\ table'.open => table'.draining
    BY <1>3, <2>1, OpenStays DEF Draining
  <2>6. CASE coord' = coord /\ server' = server
    BY <2>1, <2>3, <2>4, <2>5, <2>6 DEF Draining
  <2>7. CASE BeginDrain
    <3>1. /\ server = "up" /\ server' = "flagged" /\ UNCHANGED table
          /\ coord' = [coord EXCEPT !.pending = table.open]
      BY <2>7 DEF BeginDrain, StopStep
    <3>2. coord'.at = coord.at /\ coord'.pending = table.open /\ coord.at = "idle"
      BY <1>0, <3>1 DEF CoordType, Draining
    <3>3. QED
      BY <3>1, <3>2 DEF Draining
  <2>8. CASE TellCoordinator
    <3>1. /\ server = "flagged" /\ server' = "told" /\ UNCHANGED <<table, game>>
          /\ coord' = [coord EXCEPT !.at = IF coord.pending THEN "draining" ELSE "quiesced"]
      BY <2>8 DEF TellCoordinator, StopStep
    <3>2. coord'.at = IF coord.pending THEN "draining" ELSE "quiesced"
      BY <1>0, <3>1 DEF CoordType
    <3>3. coord'.at = "quiesced" => ~table'.open
      BY <3>1, <3>2 DEF Draining
    <3>4. QED
      BY <2>2, <3>1, <3>3 DEF Draining
  <2>9. CASE HoldTable
    <3>1. /\ server' = "waiting" /\ table' = [table EXCEPT !.draining = table.open]
          /\ game' = [game EXCEPT !.timer = FALSE]
          /\ coord' = IF HasActiveHand THEN coord ELSE Quiesce(coord)
      BY <2>9 DEF HoldTable, StopStep
    <3>2. table'.open = table.open /\ table'.draining = table.open /\ game'.phase = game.phase
      BY <1>0, <3>1 DEF TableType, GameType
    <3>3. HasActiveHand => coord' = coord
      BY <3>1
    <3>4. coord'.at = "quiesced" /\ ~early' => game'.phase # "betting"
      BY <2>3, <3>2, <3>3 DEF HasActiveHand
    <3>5. QED
      BY <3>1, <3>2, <3>4 DEF Draining
  <2>10. CASE WaitForQuiescence
    <3>1. /\ server = "waiting" /\ server' = "saving" /\ coord' = coord /\ coord.at = "quiesced"
      BY <2>10 DEF WaitForQuiescence, StopStep
    <3>2. QED
      BY <2>3, <2>4, <2>5, <3>1 DEF Draining
  <2>11. CASE StopEventProcessor
    <3>1. /\ server = "saving" /\ server' = "stopped" /\ coord' = coord
      BY <2>11 DEF StopEventProcessor, StopStep
    <3>2. QED
      BY <2>3, <2>4, <2>5, <3>1 DEF Draining
  <2>12. CASE DeleteRows
    <3>1. ~table.open /\ UNCHANGED <<table, game, server>>
          /\ coord' = IF IsDraining THEN Quiesce(coord) ELSE coord
      BY <2>12 DEF DeleteRows
    <3>2. ~table'.open /\ game'.phase = "none"
      BY <2>1, <2>2, <3>1
    <3>3. /\ server \in {"up", "flagged"} => coord'.at = "idle"
          /\ coord.at = "quiesced" => coord' = coord
      BY <1>0, <3>1 DEF Quiesce, Draining
    <3>4. QED
      BY <3>1, <3>2, <3>3 DEF Draining
  <2>13. ASSUME NEW k, NEW type \in {"SHOWDOWN_RESULT", "GAME_ENDED"}, Handle(k, type)
         PROVE  Draining'
    <3>1. /\ k \in DOMAIN queue /\ queue[k].type = type /\ UNCHANGED <<table, game, server>>
      BY <2>13 DEF Handle, InWorker
    <3>2. CASE ~table.open
      <4>1. coord' = coord
        BY <2>13, <3>2 DEF Handle
      <4>2. QED
        BY <2>6, <3>1, <4>1
    <3>3. CASE table.open
      <4>1. Observe(queue[k])
        BY <2>13, <3>3 DEF Handle
      <4>2. CASE coord' = coord
        BY <2>6, <3>1, <4>2
      <4>3. CASE coord' # coord
        <5>1. /\ ~queue[k].live /\ coord.at = "draining" /\ coord'.at = "quiesced"
              /\ ~early' => queue[k].round = game.round
          BY <4>1, <4>3 DEF Observe, Quiesce
        <5>2. game.phase # "none"
          BY <3>1, <3>3 DEF Channels, NothingYet
        <5>3. ~early' => game.phase # "betting"
          BY <3>1, <3>3, <5>1 DEF Channels, Reports
        <5>4. QED
          BY <2>1, <2>5, <3>1, <5>1, <5>2, <5>3 DEF Draining
      <4>4. QED
        BY <4>2, <4>3
    <3>4. QED
      BY <3>2, <3>3
  <2>14. QED
    BY <1>3, <2>6, <2>7, <2>8, <2>9, <2>10, <2>11, <2>12, <2>13, CoordStays
       DEF Coordinates, HandleShowdownResult, HandleGameEnded
<1>4. QED
  BY <1>1, <1>2, <1>3

(***************************************************************************)
(* The last save.                                                          *)
(***************************************************************************)
\* A checkpoint that has the round and the stacks of the game.
Agrees(c, g) ==
    /\ c # None /\ c.round = g.round
    /\ \A p \in DOMAIN g.chips : c.chips[p] = g.chips[p]

\* What is being written, by the final save at least, agrees with the game,
\* and so does the checkpoint when the final save is over.
LastSave ==
    server \in {"saving", "stopped"} /\ ~early /\ game.phase # "none" =>
        /\ \A i \in DOMAIN saves :
               saves[i].final /\ saves[i].at = "writing" => Agrees(saves[i].snap, game)
        /\ (\A i \in DOMAIN saves : ~saves[i].final) =>
               /\ Agrees(db.checkpoint, game)
               /\ \A i \in DOMAIN saves :
                      saves[i].at = "writing" => Agrees(saves[i].snap, game)
        /\ server = "stopped" => \A i \in DOMAIN saves : ~saves[i].final

(* The checkpoint changes when a save writes it or the table is removed.   *)
LEMMA CheckpointMoves ==
    ASSUME Types, Core, Next
    PROVE  \/ db'.checkpoint = db.checkpoint
           \/ \E i \in DOMAIN saves : SaveWrite(i)
           \/ DeleteRows
<1>1. CASE QuietStep
  BY <1>1, QuietOnes DEF Quiet
<1>2. CASE Ends \/ Load
  BY <1>2 DEF Ends, Load
<1>3. CASE WaitForQuiescence
  BY <1>3 DEF WaitForQuiescence, StopStep
<1>4. CASE \E p \in Players : SetPlayerReady(p)
  BY <1>4 DEF SetPlayerReady, Types, DbType
<1>5. CASE (\E i \in StarterIds : StartGame(i)) \/ (\E k \in 1 .. Workers : Worker(k)) \/ CloseTable
  BY <1>5 DEF StartGame, CloseTable, Worker, HandleShowdownResult, HandleGameEnded, Handle,
     FinalizeRemoval, InWorker
<1>6. CASE \E i \in SaveIds : Save(i)
  BY <1>6 DEF Save, SaveBegin, SaveRead, SaveWrite
<1>7. QED
  BY <1>1, <1>2, <1>3, <1>4, <1>5, <1>6, EndsWhen DEF Next, QuietStep, Starter, Removal, Stop

(* It stays as long as there is a game, unless a save writes it.           *)
LEMMA CheckpointStays ==
    ASSUME Types, Core, Next, game'.phase # "none"
    PROVE  \/ db'.checkpoint = db.checkpoint
           \/ \E i \in DOMAIN saves : SaveWrite(i)
<1>1. ~DeleteRows
  BY DEF DeleteRows, Core, Life, NoGame
<1>2. QED
  BY <1>1, CheckpointMoves

(* While the server saves, the match stands still.                         *)
LEMMA StandsStill ==
    ASSUME Types, Types', Down, Core, Core', Channels, Draining, Next,
           server \in {"saving", "stopped"}, ~early', game'.phase # "none"
    PROVE  /\ Steady /\ table.open /\ ~early
           /\ game.phase \in {"SHOWDOWN", "NEW_HAND_DEALING"}
           /\ \A c : Agrees(c, game) => Agrees(c, game')
<1>1. ~Load /\ ~Ends
  BY DEF Load, Ends, ForgetMemory, NoGame
<1>2. table'.open
  BY DEF Core, Life, NoGame
<1>3. table.open /\ ~early /\ table.draining /\ coord.at = "quiesced" /\ game.phase # "betting"
  BY <1>1, <1>2, OpenStays, EarlyStays DEF Draining
<1>4. ~NewHand
  BY <1>3 DEF NewHand, StartNewHand
<1>5. ~FinishHand
  BY <1>3 DEF FinishHand
<1>6. Steady
  BY <1>1, <1>2, <1>3, <1>4, <1>5, OpenStays, HandsOrSteady DEF FirstHand, MayStartGame
<1>7. game.phase \in {"SHOWDOWN", "NEW_HAND_DEALING"}
  <2>1. game.phase \in Phases
    BY DEF Types, GameType
  <2>2. QED
    BY <1>3, <1>6, <2>1 DEF Steady, Phases
<1>8. \A c : Agrees(c, game) => Agrees(c, game')
  BY <1>6 DEF Steady, Agrees
<1>9. QED
  BY <1>3, <1>6, <1>7, <1>8

LEMMA LastSaveStep ==
    ASSUME Types, Types', Down, Core, Core', Channels, Draining, LastSave, Next
    PROVE  LastSave'
<1>1. SUFFICES ASSUME server' \in {"saving", "stopped"}, ~early', game'.phase # "none"
      PROVE  /\ \A i \in DOMAIN saves' :
                    saves'[i].final /\ saves'[i].at = "writing" => Agrees(saves'[i].snap, game')
             /\ (\A i \in DOMAIN saves' : ~saves'[i].final) =>
                    /\ Agrees(db'.checkpoint, game')
                    /\ \A i \in DOMAIN saves' :
                           saves'[i].at = "writing" => Agrees(saves'[i].snap, game')
             /\ server' = "stopped" => \A i \in DOMAIN saves' : ~saves'[i].final
  BY DEF LastSave, Agrees
<1>2. CASE server \notin {"saving", "stopped"}
  <2>1. ~Load /\ ~Ends
    BY <1>1 DEF Load, Ends
  <2>2. WaitForQuiescence
    <3>1. server' # server
      BY <1>1, <1>2
    <3>2. ~(\E k \in 1 .. Workers : HandleShowdownResult(k) \/ HandleGameEnded(k)) /\ ~DeleteRows
      BY <3>1 DEF HandleShowdownResult, HandleGameEnded, Handle, InWorker, DeleteRows
    <3>3. ~BeginDrain /\ ~TellCoordinator /\ ~HoldTable /\ ~StopEventProcessor
      BY <1>1, <1>2 DEF BeginDrain, TellCoordinator, HoldTable, StopEventProcessor, StopStep
    <3>4. QED
      BY <2>1, <3>1, <3>2, <3>3, CoordStays DEF Coordinates
  <2>3. /\ saves' = Append(saves, NewSave(TRUE)) /\ server' = "saving" /\ server = "waiting"
    BY <2>2 DEF WaitForQuiescence, StopStep
  <2>4. \A i \in DOMAIN saves : ~saves[i].final
    BY <2>3 DEF Core, SaveRoom
  <2>5. PICK s : s = NewSave(TRUE)
    OBVIOUS
  <2>6. s.at = "asked" /\ s.final /\ s \in SaveType(loads) /\ saves \in Seq(SaveType(loads))
    BY <2>5, StaticTypes DEF NewSave, Types
  <2>7. saves' = Append(saves, s)
    BY <2>3, <2>5
  <2>8. /\ Len(saves) \in Nat /\ DOMAIN saves = 1 .. Len(saves)
        /\ DOMAIN saves' = 1 .. Len(saves) + 1
        /\ \A i \in 1 .. Len(saves) : saves'[i] = saves[i]
        /\ saves'[Len(saves) + 1] = s
    BY <2>6, <2>7, AppendProperties, LenProperties
  <2>9. Len(saves) + 1 \in DOMAIN saves' /\ saves'[Len(saves) + 1].final
    BY <2>6, <2>8
  <2>10. \A i \in DOMAIN saves' : i \in 1 .. Len(saves) \/ i = Len(saves) + 1
    BY <2>8
  <2>11. QED
    BY <2>3, <2>4, <2>6, <2>8, <2>9, <2>10
<1>3. CASE server \in {"saving", "stopped"}
  <2>1. /\ Steady /\ table.open /\ ~early
        /\ game.phase \in {"SHOWDOWN", "NEW_HAND_DEALING"}
        /\ \A c : Agrees(c, game) => Agrees(c, game')
    BY <1>1, <1>3, StandsStill
  <2>2. /\ \A i \in DOMAIN saves :
               saves[i].final /\ saves[i].at = "writing" => Agrees(saves[i].snap, game)
        /\ (\A i \in DOMAIN saves : ~saves[i].final) =>
               /\ Agrees(db.checkpoint, game)
               /\ \A i \in DOMAIN saves :
                      saves[i].at = "writing" => Agrees(saves[i].snap, game)
        /\ server = "stopped" => \A i \in DOMAIN saves : ~saves[i].final
    BY <1>3, <2>1 DEF LastSave
  <2>3. ~Load /\ ~Ends
    BY <1>1 DEF Load, Ends
  <2>4. DOMAIN saves = 1 .. Len(saves) /\ Len(saves) \in Nat
        /\ \A i \in DOMAIN saves : saves[i] \in SaveType(loads)
    BY Rounds
  <2>5. CASE /\ db'.checkpoint = db.checkpoint /\ saves' = saves
             /\ (server' = "stopped" => server = "stopped" \/ \A i \in DOMAIN saves : ~saves[i].final)
    BY <2>1, <2>2, <2>5
  <2>6. CASE \E i \in SaveIds : SaveBegin(i)
    <3>1. PICK i \in SaveIds : SaveBegin(i)
      BY <2>6
    <3>2. /\ i \in DOMAIN saves /\ saves[i].at = "asked" /\ db' = db /\ server' = server
          /\ saves' = [saves EXCEPT ![i].at = "looking"]
      BY <2>1, <3>1 DEF SaveBegin, BetweenHands, SaveStep
    <3>3. /\ DOMAIN saves' = DOMAIN saves /\ saves'[i].at = "looking"
          /\ \A j \in DOMAIN saves : /\ j # i => saves'[j] = saves[j]
                                    /\ saves'[j].final = saves[j].final
      BY <2>4, <3>2 DEF SaveType
    <3>4. QED
      BY <2>1, <2>2, <3>2, <3>3
  <2>7. CASE \E i \in SaveIds : SaveRead(i)
    <3>1. PICK i \in SaveIds : SaveRead(i)
      BY <2>7
    <3>2. /\ i \in DOMAIN saves /\ db' = db /\ server' = server /\ game' = game
          /\ saves' = [saves EXCEPT ![i].at = "writing",
                                    ![i].snap = [round |-> game.round, chips |-> game.chips]]
      BY <2>1, <3>1 DEF SaveRead, Readable, SaveStep
    <3>3. /\ DOMAIN saves' = DOMAIN saves /\ saves'[i].at = "writing"
          /\ saves'[i].snap = [round |-> game.round, chips |-> game.chips]
          /\ \A j \in DOMAIN saves : /\ j # i => saves'[j] = saves[j]
                                    /\ saves'[j].final = saves[j].final
      BY <2>4, <3>2 DEF SaveType
    <3>4. Agrees(saves'[i].snap, game')
      <4>1. saves'[i].snap # None
        BY <3>2, <3>3 DEF Core, Forwards
      <4>2. /\ saves'[i].snap.round = game.round /\ saves'[i].snap.chips = game.chips
        BY <3>3
      <4>3. QED
        BY <3>2, <4>1, <4>2 DEF Agrees
    <3>5. QED
      BY <2>1, <2>2, <3>2, <3>3, <3>4
  <2>8. CASE \E i \in DOMAIN saves : SaveWrite(i)
    <3>1. PICK i \in DOMAIN saves : SaveWrite(i)
      BY <2>8
    <3>2. /\ saves[i].at = "writing" /\ saves' = RemoveAt(saves, i) /\ server' = server
      BY <3>1 DEF SaveWrite, SaveStep
    <3>3. db'.checkpoint = saves[i].snap
      <4>1. db.table /\ db \in DbType(loads)
        BY <2>1 DEF Core, Life, Types
      <4>2. db' = [db EXCEPT !.checkpoint = saves[i].snap]
        BY <3>1, <4>1 DEF SaveWrite
      <4>3. QED
        BY <4>1, <4>2 DEF DbType
    <3>4. /\ \A j \in DOMAIN saves' : \E o \in DOMAIN saves \ {i} : saves'[j] = saves[o]
          /\ \A o \in DOMAIN saves \ {i} : \E j \in DOMAIN saves' : saves'[j] = saves[o]
          /\ \A j : ~Busy(j)'
      BY <3>2, FewerSaves
    <3>5. \A j \in DOMAIN saves' : saves'[j].at # "writing"
      BY <3>4 DEF Busy
    <3>6. (\A j \in DOMAIN saves' : ~saves'[j].final) => Agrees(saves[i].snap, game)
      BY <2>2, <3>2, <3>4
    <3>7. server' = "stopped" => \A j \in DOMAIN saves' : ~saves'[j].final
      BY <2>2, <3>2, <3>4
    <3>8. QED
      BY <2>1, <3>3, <3>5, <3>6, <3>7
  <2>9. CASE \E k \in 1 .. Workers : Worker(k)
    <3>1. PICK k \in 1 .. Workers : Worker(k)
      BY <2>9
    <3>2. db' = db /\ server' = server /\ server # "stopped"
      BY <3>1 DEF Worker, HandleShowdownResult, HandleGameEnded, Handle, FinalizeRemoval, InWorker
    <3>3. CASE saves' = saves
      BY <2>5, <3>2, <3>3
    <3>4. CASE saves' = Append(saves, NewSave(FALSE))
      <4>1. PICK s : s = NewSave(FALSE)
        OBVIOUS
      <4>2. s.at = "asked" /\ ~s.final /\ s \in SaveType(loads) /\ saves \in Seq(SaveType(loads))
        BY <4>1, StaticTypes DEF NewSave, Types
      <4>3. saves' = Append(saves, s)
        BY <3>4, <4>1
      <4>4. /\ DOMAIN saves' = 1 .. Len(saves) + 1
            /\ \A i \in 1 .. Len(saves) : saves'[i] = saves[i]
            /\ saves'[Len(saves) + 1] = s
        BY <2>4, <4>2, <4>3, AppendProperties, LenProperties
      <4>5. \A i \in DOMAIN saves' : \/ i \in DOMAIN saves /\ saves'[i] = saves[i]
                                     \/ saves'[i] = s
        BY <2>4, <4>4
      <4>6. \A i \in DOMAIN saves : i \in DOMAIN saves' /\ saves'[i] = saves[i]
        BY <2>4, <4>4
      <4>7. QED
        BY <2>1, <2>2, <3>2, <4>2, <4>5, <4>6
    <3>5. QED
      BY <3>1, <3>3, <3>4 DEF Worker, HandleShowdownResult, HandleGameEnded, Handle, FinalizeRemoval
  <2>10. CASE StopEventProcessor
    BY <2>5, <2>10 DEF StopEventProcessor, StopStep
  <2>11. CASE /\ ~(\E i \in SaveIds : Save(i)) /\ ~(\E k \in 1 .. Workers : Worker(k))
              /\ ~StopEventProcessor
    <3>1. ~TakesStartHand \/ ~StartNewHand
      <4>1. ~early' /\ coord.at = "quiesced"
        BY <1>1, <1>3 DEF Draining
      <4>2. QED
        BY <4>1 DEF StartNewHand
    <3>2. saves' = saves /\ server' = server
      <4>1. ~WaitForQuiescence
        BY <1>3 DEF WaitForQuiescence, StopStep
      <4>2. ~BeginDrain /\ ~TellCoordinator /\ ~HoldTable
        BY <1>3 DEF BeginDrain, TellCoordinator, HoldTable, StopStep
      <4>3. CASE StartNewHand /\ (LoopDeals \/ \E i \in StarterIds : StarterDeals(i))
        BY <3>1, <4>3 DEF StartNewHand, LoopDeals, StarterDeals
      <4>4. CASE \E p \in Players : SetPlayerReady(p) \/ SetPlayerUnready(p) \/ Echo(p)
        BY <4>4 DEF SetPlayerReady, SetPlayerUnready, Echo
      <4>5. CASE \E i \in StarterIds : StartGame(i) \/ ResumeMatch(i)
        BY <4>5 DEF StartGame, ResumeMatch
      <4>6. CASE GameStep \/ Forward \/ RemovalTimer \/ Removal
        BY <4>6 DEF GameStep, FinishHand, AutoStartFires, Forward, RemovalTimer, Removal,
           CloseTable, DeleteRows
      <4>7. CASE HandleShowdownComplete \/ RecordPendingElimination \/ HandleGameOver
                 \/ HandleAutoStart \/ AutoStartRefused
        BY <4>7 DEF Takes, HandleShowdownComplete, RecordPendingElimination, HandleGameOver,
           HandleAutoStart, AutoStartRefused
      <4>8. QED
        BY <2>3, <2>11, <4>1, <4>2, <4>3, <4>4, <4>5, <4>6, <4>7, EndsWhen
           DEF Next, Starter, StarterDeals, LoopStep, LoopDeals, Stop
    <3>3. db'.checkpoint = db.checkpoint
      <4>1. ASSUME NEW i \in DOMAIN saves, SaveWrite(i) PROVE FALSE
        <5>1. Len(saves) <= MaxSaves + 1 /\ MaxSaves \in Nat
          BY MatchAssumption DEF Core, SaveRoom
        <5>2. i \in SaveIds
          BY <2>4, <5>1 DEF SaveIds
        <5>3. QED
          BY <2>11, <4>1, <5>2 DEF Save
      <4>2. QED
        BY <1>1, <4>1, CheckpointStays
    <3>4. QED
      BY <2>5, <3>2, <3>3
  <2>12. QED
    <3>1. ASSUME NEW i \in SaveIds, SaveWrite(i) PROVE i \in DOMAIN saves
      BY <3>1 DEF SaveWrite
    <3>2. QED
      BY <2>6, <2>7, <2>8, <2>9, <2>10, <2>11, <3>1 DEF Save
<1>4. QED
  BY <1>2, <1>3

(***************************************************************************)
(* Nobody without chips is dealt in.                                       *)
(***************************************************************************)
\* A player whose elimination is still in the channel.
Named(p) ==
    \E k \in DOMAIN gameEvents :
        gameEvents[k].type = "PlayerLost" /\ p \in gameEvents[k].who

\* The auto-start is armed, or its event is the last of the channel, or the
\* next hand is about to start, and no two of these.
OneAutoStart ==
    /\ game.timer \/ loop = "starting" => game.phase = "SHOWDOWN"
    /\ ~(game.timer /\ loop = "starting")
    /\ \A k \in DOMAIN gameEvents :
           gameEvents[k].type = "AutoStartTriggered" =>
               /\ k = Len(gameEvents) /\ game.phase = "SHOWDOWN"
               /\ ~game.timer /\ loop = "idle"

\* The table knows who is eliminated, or will before the auto-start; when it
\* starts the next hand, nobody of them is left.
BrokeAreKnown ==
    /\ game.phase = "SHOWDOWN" =>
           \A p \in DOMAIN game.chips : game.chips[p] = 0 => p \in table.broke \/ Named(p)
    /\ loop = "starting" => \A p \in DOMAIN game.chips : game.chips[p] > 0

Eliminations == ~astray => OneAutoStart /\ BrokeAreKnown

(* What went astray stays so until the next load.                          *)
LEMMA AstrayStays ==
    ASSUME Next, ~Load, astray
    PROVE  astray'
<1>1. \A ch, ch2, evs : Send(ch, ch2, evs) => astray'
  BY DEF Send
<1>2. CASE \E p \in Players : SetPlayerReady(p) \/ SetPlayerUnready(p) \/ Echo(p)
  BY <1>2 DEF SetPlayerReady, SetPlayerUnready, Echo, ghosts
<1>3. CASE \E i \in StarterIds : StartGame(i) \/ ResumeMatch(i) \/ StarterDeals(i)
  BY <1>3 DEF StartGame, ResumeMatch, StarterDeals, ghosts
<1>4. CASE GameStep \/ Forward \/ RemovalTimer
  BY <1>1, <1>4 DEF GameStep, FinishHand, AutoStartFires, Forward, RemovalTimer
<1>5. CASE LoopStep
  BY <1>1, <1>5 DEF LoopStep, LoopDeals, HandleShowdownComplete, RecordPendingElimination,
     HandleGameOver, HandleAutoStart, AutoStartRefused
<1>6. CASE \E k \in 1 .. Workers : Worker(k)
  BY <1>6 DEF Worker, HandleShowdownResult, HandleGameEnded, Handle, FinalizeRemoval, InWorker
<1>7. CASE Removal \/ \E i \in SaveIds : Save(i)
  BY <1>7 DEF Removal, CloseTable, DeleteRows, Save, SaveBegin, SaveRead, SaveWrite, SaveStep,
     ghosts
<1>8. CASE BeginDrain \/ TellCoordinator \/ HoldTable \/ WaitForQuiescence \/ StopEventProcessor
  BY <1>8 DEF BeginDrain, TellCoordinator, HoldTable, WaitForQuiescence, StopEventProcessor,
     StopStep, ghosts
<1>9. CASE Ends
  BY <1>9 DEF Ends, ghosts
<1>10. QED
  BY <1>2, <1>3, <1>4, <1>5, <1>6, <1>7, <1>8, <1>9, EndsWhen DEF Next, Starter, Stop

(* The channel after its first event has been taken.                       *)
LEMMA TakesFirst ==
    ASSUME Types, NEW type, Takes(type)
    PROVE  /\ Len(gameEvents) \in Nat /\ DOMAIN gameEvents = 1 .. Len(gameEvents)
           /\ 1 \in DOMAIN gameEvents /\ gameEvents[1].type = type
           /\ Head(gameEvents) = gameEvents[1] /\ loop = "idle"
           /\ Len(gameEvents') = Len(gameEvents) - 1
           /\ \A k \in DOMAIN gameEvents' :
                  k + 1 \in DOMAIN gameEvents /\ gameEvents'[k] = gameEvents[k + 1]
           /\ \A o \in DOMAIN gameEvents :
                  o # 1 => o - 1 \in DOMAIN gameEvents' /\ gameEvents'[o - 1] = gameEvents[o]
<1>1. /\ gameEvents \in Seq(GameEvent) /\ gameEvents # <<>> /\ gameEvents' = Tail(gameEvents)
      /\ Head(gameEvents).type = type /\ loop = "idle"
  BY DEF Types, Takes
<1>2. PICK s, t, n : s = gameEvents /\ t = Tail(s) /\ n = Len(s)
  OBVIOUS
<1>3. n \in Nat /\ DOMAIN s = 1 .. n /\ n # 0
  BY <1>1, <1>2, LenProperties, EmptySeq
<1>4. /\ Head(s) = s[1] /\ DOMAIN t = 1 .. n - 1 /\ Len(t) = n - 1
      /\ \A k \in 1 .. n - 1 : t[k] = s[k + 1]
  <2>1. /\ Head(s) = s[1] /\ t \in Seq(GameEvent) /\ Len(t) = n - 1
        /\ \A k \in 1 .. Len(t) : t[k] = s[k + 1]
    BY <1>1, <1>2, HeadTailProperties
  <2>2. QED
    BY <2>1, LenProperties
<1>5. \A k \in 1 .. n - 1 : k + 1 \in 1 .. n
  BY <1>3
<1>6. \A o \in 1 .. n : o # 1 => o - 1 \in 1 .. n - 1 /\ (o - 1) + 1 = o
  BY <1>3
<1>7. 1 \in 1 .. n
  BY <1>3
<1>8. \A o \in 1 .. n : o # 1 => t[o - 1] = s[o]
  BY <1>4, <1>6
<1>9. gameEvents' = t /\ s[1].type = type
  BY <1>1, <1>2, <1>4
<1>10. QED
  BY <1>1, <1>2, <1>3, <1>4, <1>5, <1>6, <1>7, <1>8, <1>9

(* The channel after events have been sent and none dropped.               *)
LEMMA SentAll ==
    ASSUME NEW X, NEW ch \in Seq(X), NEW evs \in Seq(X), NEW ch2,
           ch2 = ch \o evs
    PROVE  /\ Len(ch) \in Nat /\ Len(evs) \in Nat /\ Len(ch2) = Len(ch) + Len(evs)
           /\ DOMAIN ch = 1 .. Len(ch) /\ DOMAIN evs = 1 .. Len(evs)
           /\ DOMAIN ch2 = 1 .. Len(ch) + Len(evs)
           /\ \A k \in DOMAIN ch : k \in DOMAIN ch2 /\ ch2[k] = ch[k]
           /\ \A k \in DOMAIN evs : Len(ch) + k \in DOMAIN ch2 /\ ch2[Len(ch) + k] = evs[k]
           /\ \A k \in DOMAIN ch2 :
                  \/ k \in DOMAIN ch
                  \/ k - Len(ch) \in DOMAIN evs /\ ch2[k] = evs[k - Len(ch)]
<1>1. /\ ch2 \in Seq(X) /\ Len(ch2) = Len(ch) + Len(evs)
      /\ \A k \in 1 .. Len(ch) + Len(evs) :
             ch2[k] = IF k <= Len(ch) THEN ch[k] ELSE evs[k - Len(ch)]
  BY ConcatProperties
<1>2. PICK m, n : m = Len(ch) /\ n = Len(evs)
  OBVIOUS
<1>3. /\ m \in Nat /\ n \in Nat /\ DOMAIN ch = 1 .. m /\ DOMAIN evs = 1 .. n
      /\ DOMAIN ch2 = 1 .. m + n
  BY <1>1, <1>2, LenProperties
<1>4. \A k \in 1 .. m + n : ch2[k] = IF k <= m THEN ch[k] ELSE evs[k - m]
  BY <1>1, <1>2
<1>5. \A k \in 1 .. m : k \in 1 .. m + n /\ k <= m
  BY <1>3
<1>6. \A k \in 1 .. n : m + k \in 1 .. m + n /\ ~(m + k <= m) /\ (m + k) - m = k
  BY <1>3
<1>7. \A k \in 1 .. m + n : k \in 1 .. m \/ (~(k <= m) /\ k - m \in 1 .. n)
  BY <1>3
<1>8. \A k \in 1 .. m : ch2[k] = ch[k]
  BY <1>4, <1>5
<1>9. \A k \in 1 .. n : ch2[m + k] = evs[k]
  BY <1>4, <1>6
<1>10. QED
  BY <1>1, <1>2, <1>3, <1>4, <1>5, <1>6, <1>7, <1>8, <1>9

(* The events of a showdown name whoever has no chips, and do not start.   *)
LEMMA ShowdownNames ==
    ASSUME NEW c, DOMAIN c \in SUBSET Players
    PROVE  /\ \A k \in DOMAIN ShowdownEvents(c) :
                  ShowdownEvents(c)[k].type # "AutoStartTriggered"
           /\ \A p \in DOMAIN c : c[p] = 0 =>
                  \E k \in DOMAIN ShowdownEvents(c) :
                      /\ ShowdownEvents(c)[k].type = "PlayerLost"
                      /\ p \in ShowdownEvents(c)[k].who
<1>1. PICK broke, holders : /\ broke = {p \in DOMAIN c : c[p] = 0}
                            /\ holders = DOMAIN c \ broke
  OBVIOUS
<1>2. PICK e, f, g : /\ e = Ev("ShowdownComplete", {}) /\ f = Ev("PlayerLost", broke)
                     /\ g = Ev("GameOver", holders)
  OBVIOUS
<1>3. /\ e \in GameEvent /\ f \in GameEvent /\ g \in GameEvent
      /\ e.type = "ShowdownComplete" /\ f.type = "PlayerLost" /\ f.who = broke
      /\ g.type = "GameOver"
  <2>1. broke \in SUBSET Players /\ holders \in SUBSET Players /\ {} \in SUBSET Players
    BY <1>1
  <2>2. QED
    BY <1>2, <2>1 DEF Ev, GameEvent
<1>4. PICK x, y, z : /\ x = <<e>> /\ y = (IF broke = {} THEN <<>> ELSE <<f>>)
                     /\ z = (IF Cardinality(holders) <= 1 THEN <<g>> ELSE <<>>)
  OBVIOUS
<1>5. ShowdownEvents(c) = x \o y \o z
  BY <1>1, <1>2, <1>4 DEF ShowdownEvents
<1>6. <<e>> \in Seq(GameEvent) /\ <<f>> \in Seq(GameEvent) /\ <<g>> \in Seq(GameEvent)
      /\ <<>> \in Seq(GameEvent)
  BY <1>3, OneEvent, EmptySeq
<1>7. /\ x \in Seq(GameEvent) /\ y \in Seq(GameEvent) /\ z \in Seq(GameEvent)
  BY <1>4, <1>6
<1>8. /\ \A k \in DOMAIN x : x[k] = e
      /\ \A k \in DOMAIN y : y[k] = f
      /\ \A k \in DOMAIN z : z[k] = g
      /\ broke # {} => 1 \in DOMAIN y
  <2>1. \A k \in DOMAIN x : x[k] = e
    BY <1>4
  <2>2. (\A k \in DOMAIN y : y[k] = f) /\ (broke # {} => 1 \in DOMAIN y)
    <3>1. CASE broke = {}
      BY <1>4, <3>1
    <3>2. CASE broke # {}
      BY <1>4, <3>2
    <3>3. QED
      BY <3>1, <3>2
  <2>3. \A k \in DOMAIN z : z[k] = g
    <3>1. CASE Cardinality(holders) <= 1
      BY <1>4, <3>1
    <3>2. CASE ~(Cardinality(holders) <= 1)
      BY <1>4, <3>2
    <3>3. QED
      BY <3>1, <3>2
  <2>4. QED
    BY <2>1, <2>2, <2>3
<1>9. PICK w, v : w = x \o y /\ v = w \o z
  OBVIOUS
<1>10. w \in Seq(GameEvent) /\ v = ShowdownEvents(c)
  BY <1>5, <1>7, <1>9, ConcatProperties
<1>11. /\ \A k \in DOMAIN y : Len(x) + k \in DOMAIN w /\ w[Len(x) + k] = y[k]
       /\ \A k \in DOMAIN x : w[k] = x[k]
       /\ \A k \in DOMAIN w : \/ k \in DOMAIN x
                              \/ k - Len(x) \in DOMAIN y /\ w[k] = y[k - Len(x)]
  BY <1>7, <1>9, SentAll
<1>12. /\ \A k \in DOMAIN w : k \in DOMAIN v /\ v[k] = w[k]
       /\ \A k \in DOMAIN v : \/ k \in DOMAIN w
                              \/ k - Len(w) \in DOMAIN z /\ v[k] = z[k - Len(w)]
  <2>1. w \in Seq(GameEvent) /\ z \in Seq(GameEvent) /\ v = w \o z
    BY <1>7, <1>9, <1>10
  <2>2. QED
    BY <2>1, SentAll
<1>13. \A k \in DOMAIN v : v[k] \in {e, f, g}
  <2>1. \A k \in DOMAIN w : w[k] \in {e, f}
    BY <1>8, <1>11
  <2>2. QED
    BY <1>8, <1>12, <2>1
<1>14. \A p \in DOMAIN c : c[p] = 0 => \E k \in DOMAIN v : v[k] = f /\ p \in broke
  <2>1. SUFFICES ASSUME NEW p \in DOMAIN c, c[p] = 0
                 PROVE  \E k \in DOMAIN v : v[k] = f /\ p \in broke
    OBVIOUS
  <2>2. p \in broke /\ 1 \in DOMAIN y
    BY <1>1, <1>8, <2>1
  <2>3. PICK o : o = Len(x) + 1
    OBVIOUS
  <2>4. o \in DOMAIN w /\ w[o] = f
    BY <1>8, <1>11, <2>2, <2>3
  <2>5. o \in DOMAIN v /\ v[o] = f
    BY <1>12, <2>4
  <2>6. QED
    BY <2>2, <2>5
<1>15. QED
  BY <1>3, <1>10, <1>13, <1>14

\* The game and its channel stay, but for a timer that is cancelled.
SameGame ==
    /\ UNCHANGED <<loop, gameEvents>> /\ table'.broke = table.broke
    /\ game'.phase = game.phase /\ game'.chips = game.chips
    /\ game'.timer => game.timer

LEMMA SameGameKeeps ==
    ASSUME OneAutoStart, BrokeAreKnown, SameGame
    PROVE  OneAutoStart' /\ BrokeAreKnown'
<1>1. \A p : Named(p)' <=> Named(p)
  BY DEF SameGame, Named
<1>2. OneAutoStart'
  BY DEF SameGame, OneAutoStart
<1>3. BrokeAreKnown'
  BY <1>1 DEF SameGame, BrokeAreKnown
<1>4. QED
  BY <1>2, <1>3

LEMMA SameGameSteps ==
    ASSUME Types,
           \/ \E p \in Players : SetPlayerReady(p) \/ SetPlayerUnready(p) \/ Echo(p)
           \/ \E i \in StarterIds : ResumeMatch(i)
           \/ Forward \/ RemovalTimer \/ DeleteRows
           \/ \E k \in 1 .. Workers : Worker(k)
           \/ \E i \in SaveIds : Save(i)
           \/ BeginDrain \/ TellCoordinator \/ HoldTable \/ WaitForQuiescence
           \/ StopEventProcessor
    PROVE  SameGame
<1>1. table \in TableType /\ game \in GameType(loads)
  BY DEF Types
<1>2. UNCHANGED <<table, game, loop, gameEvents>> => SameGame
  BY DEF SameGame
<1>3. ASSUME NEW p \in Players, SetPlayerReady(p) \/ SetPlayerUnready(p) \/ Echo(p)
      PROVE  SameGame
  <2>1. UNCHANGED <<game, loop, gameEvents>>
    BY <1>3 DEF SetPlayerReady, SetPlayerUnready, Echo
  <2>2. \A t \in TableType : OnReadiness(t) \in TableType /\ OnReadiness(t).broke = t.broke
    BY TableMoves DEF OnlyMoves
  <2>3. table'.broke = table.broke
    <3>1. CASE SetPlayerReady(p)
      <4>1. PICK t : t = OnReadiness([table EXCEPT !.ready = @ \cup {p}])
        OBVIOUS
      <4>2. t \in TableType /\ t.broke = table.broke
        <5>1. /\ [table EXCEPT !.ready = @ \cup {p}] \in TableType
              /\ [table EXCEPT !.ready = @ \cup {p}].broke = table.broke
          BY <1>1 DEF TableType
        <5>2. QED
          BY <2>2, <4>1, <5>1
      <4>3. table' = t \/ table' = [t EXCEPT !.echo = @ \cup {p}]
        BY <3>1, <4>1, Zenon DEF SetPlayerReady
      <4>4. QED
        BY <4>2, <4>3 DEF TableType
    <3>2. CASE SetPlayerUnready(p)
      <4>1. /\ [table EXCEPT !.ready = @ \ {p}] \in TableType
            /\ [table EXCEPT !.ready = @ \ {p}].broke = table.broke
        BY <1>1 DEF TableType
      <4>2. QED
        BY <2>2, <3>2, <4>1 DEF SetPlayerUnready
    <3>3. CASE Echo(p)
      <4>1. /\ [table EXCEPT !.echo = @ \ {p}, !.stuck = TRUE].broke = table.broke
            /\ [table EXCEPT !.echo = @ \ {p}, !.ready = @ \cup ({p} \cap table.users)]
                 \in TableType
            /\ [table EXCEPT !.echo = @ \ {p},
                             !.ready = @ \cup ({p} \cap table.users)].broke = table.broke
        BY <1>1 DEF TableType
      <4>2. QED
        BY <2>2, <3>3, <4>1 DEF Echo
    <3>4. QED
      BY <1>3, <3>1, <3>2, <3>3
  <2>4. QED
    BY <2>1, <2>3 DEF SameGame
<1>4. CASE \E i \in StarterIds : ResumeMatch(i)
  BY <1>2, <1>4 DEF ResumeMatch
<1>5. CASE Forward \/ RemovalTimer \/ DeleteRows
  BY <1>2, <1>5 DEF Forward, RemovalTimer, DeleteRows
<1>6. CASE \E k \in 1 .. Workers : Worker(k)
  BY <1>2, <1>6 DEF Worker, HandleShowdownResult, HandleGameEnded, Handle, FinalizeRemoval,
     InWorker
<1>7. CASE \E i \in SaveIds : Save(i)
  BY <1>2, <1>7 DEF Save, SaveBegin, SaveRead, SaveWrite, SaveStep
<1>8. CASE BeginDrain \/ TellCoordinator \/ WaitForQuiescence \/ StopEventProcessor
  BY <1>2, <1>8 DEF BeginDrain, TellCoordinator, WaitForQuiescence, StopEventProcessor, StopStep
<1>9. CASE HoldTable
  <2>1. /\ table' = [table EXCEPT !.draining = table.open]
        /\ game' = [game EXCEPT !.timer = FALSE] /\ UNCHANGED <<loop, gameEvents>>
    BY <1>9 DEF HoldTable, StopStep
  <2>2. table'.broke = table.broke
    BY <1>1, <2>1 DEF TableType
  <2>3. game'.phase = game.phase /\ game'.chips = game.chips /\ ~game'.timer
    BY <1>1, <2>1 DEF GameType
  <2>4. QED
    BY <2>1, <2>2, <2>3 DEF SameGame
<1>10. QED
  BY <1>3, <1>4, <1>5, <1>6, <1>7, <1>8, <1>9

LEMMA FinishNames ==
    ASSUME Types, OneAutoStart, FinishHand, ~astray'
    PROVE  OneAutoStart' /\ BrokeAreKnown'
<1>1. PICK c \in Outcomes :
             /\ game' = [game EXCEPT !.phase = "SHOWDOWN", !.chips = c,
                            !.timer = \E p, q \in DOMAIN c : p # q /\ c[p] > 0 /\ c[q] > 0]
             /\ Send(gameEvents, gameEvents', ShowdownEvents(c))
  BY DEF FinishHand
<1>2. /\ game.phase = "betting" /\ loop' = loop /\ gameEvents \in Seq(GameEvent)
      /\ game \in GameType(loads) /\ loads \in 0 .. MaxLoads /\ game.chips \in Purse(loads)
  BY DEF FinishHand, Types, GameType
<1>3. loop' # "starting" /\ \A k \in DOMAIN gameEvents : gameEvents[k].type # "AutoStartTriggered"
  BY <1>2 DEF OneAutoStart
<1>4. DOMAIN c \in SUBSET Players
  <2>1. DOMAIN game.chips \in SUBSET Players
    BY <1>2, PurseHolds
  <2>2. QED
    BY <2>1 DEF Outcomes
<1>5. game'.phase = "SHOWDOWN" /\ game'.chips = c
  BY <1>1, <1>2 DEF GameType
<1>6. PICK evs : evs = ShowdownEvents(c)
  OBVIOUS
<1>7. /\ evs \in Seq(GameEvent)
      /\ \A k \in DOMAIN evs : evs[k].type # "AutoStartTriggered"
      /\ \A p \in DOMAIN c : c[p] = 0 =>
             \E k \in DOMAIN evs : evs[k].type = "PlayerLost" /\ p \in evs[k].who
  BY <1>4, <1>6, ShowdownEventTypes, ShowdownNames
<1>8. gameEvents' = gameEvents \o evs
  BY <1>1, <1>6 DEF Send
<1>9. /\ \A k \in DOMAIN evs :
             Len(gameEvents) + k \in DOMAIN gameEvents'
             /\ gameEvents'[Len(gameEvents) + k] = evs[k]
      /\ \A k \in DOMAIN gameEvents' :
             \/ k \in DOMAIN gameEvents /\ gameEvents'[k] = gameEvents[k]
             \/ k - Len(gameEvents) \in DOMAIN evs
                /\ gameEvents'[k] = evs[k - Len(gameEvents)]
  BY <1>2, <1>7, <1>8, SentAll
<1>10. \A k \in DOMAIN gameEvents' : gameEvents'[k].type # "AutoStartTriggered"
  BY <1>3, <1>7, <1>9
<1>11. OneAutoStart'
  BY <1>3, <1>5, <1>10 DEF OneAutoStart
<1>12. \A p \in DOMAIN c : c[p] = 0 => Named(p)'
  BY <1>7, <1>9 DEF Named
<1>13. BrokeAreKnown'
  BY <1>3, <1>5, <1>12 DEF BrokeAreKnown
<1>14. QED
  BY <1>11, <1>13

LEMMA FiresLast ==
    ASSUME Types, OneAutoStart, BrokeAreKnown, AutoStartFires, ~astray'
    PROVE  OneAutoStart' /\ BrokeAreKnown'
<1>1. PICK e : e = Ev("AutoStartTriggered", {})
  OBVIOUS
<1>2. PICK evs : evs = <<e>>
  OBVIOUS
<1>3. e \in GameEvent /\ e.type = "AutoStartTriggered"
  BY <1>1 DEF Ev, GameEvent
<1>4. evs \in Seq(GameEvent) /\ Len(evs) = 1 /\ DOMAIN evs = {1} /\ evs[1] = e
  <2>1. evs \in Seq(GameEvent)
    BY <1>2, <1>3, OneEvent
  <2>2. Len(evs) = 1 /\ DOMAIN evs = {1} /\ evs[1] = e
    BY <1>2
  <2>3. QED
    BY <2>1, <2>2
<1>5. /\ gameEvents \in Seq(GameEvent) /\ gameEvents' = gameEvents \o evs
      /\ game.timer /\ game' = [game EXCEPT !.timer = FALSE] /\ UNCHANGED <<table, loop>>
  BY <1>1, <1>2 DEF AutoStartFires, Send, Types
<1>6. /\ game'.phase = game.phase /\ game'.chips = game.chips /\ ~game'.timer
      /\ game.phase = "SHOWDOWN" /\ loop = "idle"
  BY <1>5 DEF Types, GameType, OneAutoStart
<1>7. /\ Len(gameEvents) \in Nat /\ Len(gameEvents') = Len(gameEvents) + 1
      /\ \A k \in DOMAIN gameEvents : k \in DOMAIN gameEvents' /\ gameEvents'[k] = gameEvents[k]
      /\ \A k \in DOMAIN gameEvents' :
             \/ k \in DOMAIN gameEvents /\ gameEvents'[k] = gameEvents[k]
             \/ k - Len(gameEvents) \in DOMAIN evs
                /\ gameEvents'[k] = evs[k - Len(gameEvents)]
      /\ DOMAIN gameEvents' = 1 .. Len(gameEvents) + 1
  <2>1. gameEvents \in Seq(GameEvent) /\ evs \in Seq(GameEvent) /\ gameEvents' = gameEvents \o evs
    BY <1>4, <1>5
  <2>2. /\ Len(gameEvents) \in Nat /\ Len(gameEvents') = Len(gameEvents) + Len(evs)
        /\ \A k \in DOMAIN gameEvents :
               k \in DOMAIN gameEvents' /\ gameEvents'[k] = gameEvents[k]
        /\ \A k \in DOMAIN gameEvents' :
               \/ k \in DOMAIN gameEvents /\ gameEvents'[k] = gameEvents[k]
               \/ k - Len(gameEvents) \in DOMAIN evs
                  /\ gameEvents'[k] = evs[k - Len(gameEvents)]
        /\ DOMAIN gameEvents' = 1 .. Len(gameEvents) + Len(evs)
    <3>1. \A ch2 : ch2 = gameEvents \o evs =>
            /\ Len(gameEvents) \in Nat /\ Len(ch2) = Len(gameEvents) + Len(evs)
            /\ \A k \in DOMAIN gameEvents : k \in DOMAIN ch2 /\ ch2[k] = gameEvents[k]
            /\ \A k \in DOMAIN ch2 : \/ k \in DOMAIN gameEvents
                                     \/ k - Len(gameEvents) \in DOMAIN evs
                                        /\ ch2[k] = evs[k - Len(gameEvents)]
            /\ DOMAIN ch2 = 1 .. Len(gameEvents) + Len(evs)
      BY <2>1, SentAll
    <3>2. QED
      BY <2>1, <3>1
  <2>3. QED
    BY <1>4, <2>2
<1>8. \A k \in DOMAIN gameEvents : gameEvents[k].type # "AutoStartTriggered"
  BY <1>5 DEF OneAutoStart
<1>9. \A k \in DOMAIN gameEvents' :
         gameEvents'[k].type = "AutoStartTriggered" => k = Len(gameEvents')
  <2>1. SUFFICES ASSUME NEW k \in DOMAIN gameEvents',
                        gameEvents'[k].type = "AutoStartTriggered"
                 PROVE  k = Len(gameEvents')
    OBVIOUS
  <2>2. k - Len(gameEvents) = 1
    BY <1>4, <1>7, <1>8, <2>1
  <2>3. k \in Int
    BY <1>7
  <2>4. QED
    BY <1>7, <2>2, <2>3
<1>10. OneAutoStart'
  BY <1>5, <1>6, <1>9 DEF OneAutoStart
<1>11. \A p : Named(p) => Named(p)'
  BY <1>7 DEF Named
<1>12. BrokeAreKnown'
  BY <1>5, <1>6, <1>11 DEF BrokeAreKnown
<1>13. QED
  BY <1>10, <1>12

\* The loop has taken an event that is not the auto-start.
OneLess ==
    /\ loop' = loop /\ game'.phase = game.phase /\ game'.chips = game.chips
    /\ game'.timer => game.timer
    /\ table.broke \subseteq table'.broke
    /\ gameEvents[1].type = "PlayerLost" => gameEvents[1].who \subseteq table'.broke

LEMMA OneLessKeeps ==
    ASSUME Types, OneAutoStart, BrokeAreKnown, NEW type, Takes(type), OneLess
    PROVE  OneAutoStart' /\ BrokeAreKnown'
<1>1. /\ Len(gameEvents) \in Nat /\ DOMAIN gameEvents = 1 .. Len(gameEvents)
      /\ Len(gameEvents') = Len(gameEvents) - 1
      /\ \A k \in DOMAIN gameEvents' :
             k + 1 \in DOMAIN gameEvents /\ gameEvents'[k] = gameEvents[k + 1]
      /\ \A o \in DOMAIN gameEvents :
             o # 1 => o - 1 \in DOMAIN gameEvents' /\ gameEvents'[o - 1] = gameEvents[o]
  BY TakesFirst
<1>2. gameEvents' \in Seq(GameEvent)
  BY TakesEvent
<1>3. DOMAIN gameEvents' = 1 .. Len(gameEvents')
  BY <1>2, LenProperties
<1>4. ASSUME NEW k \in DOMAIN gameEvents', gameEvents'[k].type = "AutoStartTriggered"
      PROVE  /\ k = Len(gameEvents') /\ game'.phase = "SHOWDOWN"
             /\ ~game'.timer /\ loop' = "idle"
  <2>1. PICK o : o = k + 1
    OBVIOUS
  <2>2. o \in DOMAIN gameEvents /\ gameEvents[o].type = "AutoStartTriggered"
    BY <1>1, <1>4, <2>1
  <2>3. o = Len(gameEvents) /\ game.phase = "SHOWDOWN" /\ ~game.timer /\ loop = "idle"
    BY <2>2 DEF OneAutoStart
  <2>4. k \in Int
    BY <1>3
  <2>5. k = Len(gameEvents')
    BY <1>1, <2>1, <2>3, <2>4
  <2>6. QED
    BY <2>3, <2>5 DEF OneLess
<1>5. OneAutoStart'
  <2>1. game'.timer \/ loop' = "starting" => game'.phase = "SHOWDOWN"
    BY DEF OneAutoStart, OneLess
  <2>2. ~(game'.timer /\ loop' = "starting")
    BY DEF OneAutoStart, OneLess
  <2>3. QED
    BY <1>4, <2>1, <2>2 DEF OneAutoStart
<1>6. ASSUME NEW p, Named(p) PROVE p \in table'.broke \/ Named(p)'
  <2>1. PICK o \in DOMAIN gameEvents : gameEvents[o].type = "PlayerLost" /\ p \in gameEvents[o].who
    BY <1>6 DEF Named
  <2>2. CASE o = 1
    BY <2>1, <2>2 DEF OneLess
  <2>3. CASE o # 1
    BY <1>1, <2>1, <2>3 DEF Named
  <2>4. QED
    BY <2>2, <2>3
<1>7. BrokeAreKnown'
  <2>1. ASSUME game'.phase = "SHOWDOWN", NEW p \in DOMAIN game'.chips, game'.chips[p] = 0
        PROVE  p \in table'.broke \/ Named(p)'
    <3>1. p \in table.broke \/ Named(p)
      BY <2>1 DEF BrokeAreKnown, OneLess
    <3>2. QED
      BY <1>6, <3>1 DEF OneLess
  <2>2. loop' = "starting" => \A p \in DOMAIN game'.chips : game'.chips[p] > 0
    BY DEF BrokeAreKnown, OneLess
  <2>3. QED
    BY <2>1, <2>2 DEF BrokeAreKnown
<1>8. QED
  BY <1>5, <1>7

LEMMA LoopTakesOne ==
    ASSUME Types, OneAutoStart, BrokeAreKnown,
           HandleShowdownComplete \/ RecordPendingElimination \/ HandleGameOver
    PROVE  OneAutoStart' /\ BrokeAreKnown'
<1>1. table \in TableType /\ game \in GameType(loads)
  BY DEF Types
<1>2. CASE HandleShowdownComplete
  <2>1. Takes("ShowdownComplete") /\ UNCHANGED <<game, loop>>
    BY <1>2 DEF HandleShowdownComplete
  <2>2. gameEvents[1].type = "ShowdownComplete"
    BY <2>1, TakesFirst
  <2>3. table'.broke = table.broke
    BY <1>1, <1>2 DEF HandleShowdownComplete, TableType
  <2>4. OneLess
    BY <2>1, <2>2, <2>3 DEF OneLess
  <2>5. QED
    BY <2>1, <2>4, OneLessKeeps
<1>3. CASE RecordPendingElimination
  <2>1. Takes("PlayerLost") /\ UNCHANGED <<game, loop>>
    BY <1>3 DEF RecordPendingElimination
  <2>2. Head(gameEvents) = gameEvents[1] /\ Head(gameEvents).who \in SUBSET Players
    BY <2>1, TakesFirst, TakesEvent DEF GameEvent
  <2>3. PICK t : t = [table EXCEPT !.broke = @ \cup Head(gameEvents).who]
    OBVIOUS
  <2>4. t \in TableType /\ t.broke = table.broke \cup gameEvents[1].who
    BY <1>1, <2>2, <2>3 DEF TableType
  <2>5. table' = t \/ table' = OnReadiness(t)
    BY <1>3, <2>3 DEF RecordPendingElimination
  <2>6. table'.broke = t.broke
    BY <2>4, <2>5, TableMoves DEF OnlyMoves
  <2>7. OneLess
    BY <2>1, <2>4, <2>6 DEF OneLess
  <2>8. QED
    BY <2>1, <2>7, OneLessKeeps
<1>4. CASE HandleGameOver
  <2>1. Takes("GameOver") /\ loop' = loop
    BY <1>4 DEF HandleGameOver
  <2>2. gameEvents[1].type = "GameOver"
    BY <2>1, TakesFirst
  <2>3. table'.broke = table.broke
    BY <1>1, <1>4, TableMoves DEF HandleGameOver, OnlyMoves
  <2>4. game'.phase = game.phase /\ game'.chips = game.chips /\ ~game'.timer
    BY <1>1, <1>4 DEF HandleGameOver, GameType
  <2>5. OneLess
    BY <2>1, <2>2, <2>3, <2>4 DEF OneLess
  <2>6. QED
    BY <2>1, <2>5, OneLessKeeps
<1>5. QED
  BY <1>2, <1>3, <1>4

(* When the loop decides on the next hand, nobody without chips is left.   *)
LEMMA NobodyLeft ==
    ASSUME Types, Types', OneAutoStart, BrokeAreKnown, HandleAutoStart
    PROVE  OneAutoStart' /\ BrokeAreKnown'
<1>1. /\ table \in TableType /\ game \in GameType(loads) /\ game.chips \in Purse(loads)
      /\ loads \in 0 .. MaxLoads
  BY DEF Types, GameType
<1>2. Takes("AutoStartTriggered")
  BY DEF HandleAutoStart
<1>3. /\ Len(gameEvents) \in Nat /\ DOMAIN gameEvents = 1 .. Len(gameEvents)
      /\ 1 \in DOMAIN gameEvents /\ gameEvents[1].type = "AutoStartTriggered"
      /\ \A k \in DOMAIN gameEvents' :
             k + 1 \in DOMAIN gameEvents /\ gameEvents'[k] = gameEvents[k + 1]
      /\ Len(gameEvents') = Len(gameEvents) - 1
  BY <1>2, TakesFirst
<1>4. 1 = Len(gameEvents) /\ game.phase = "SHOWDOWN" /\ ~game.timer /\ loop = "idle"
  BY <1>3 DEF OneAutoStart
<1>5. DOMAIN gameEvents' = {}
  <2>1. gameEvents' \in Seq(GameEvent)
    BY <1>2, TakesEvent
  <2>2. DOMAIN gameEvents' = 1 .. Len(gameEvents')
    BY <2>1, LenProperties
  <2>3. Len(gameEvents') = 0
    <3>1. PICK m, n : m = Len(gameEvents) /\ n = Len(gameEvents')
      OBVIOUS
    <3>2. n = m - 1 /\ m = 1
      BY <1>3, <1>4, <3>1, Zenon
    <3>3. n = 0
      BY <3>2
    <3>4. QED
      BY <3>1, <3>3
  <2>4. DOMAIN gameEvents' = 1 .. 0
    BY <2>2, <2>3, Zenon
  <2>5. 1 .. 0 = {}
    OBVIOUS
  <2>6. QED
    BY <2>4, <2>5
<1>6. \A p : ~Named(p)
  <2>1. \A k \in DOMAIN gameEvents : k = 1
    <3>1. DOMAIN gameEvents = 1 .. 1
      BY <1>3, <1>4
    <3>2. QED
      BY <3>1
  <2>2. QED
    BY <1>3, <2>1 DEF Named
<1>7. \A p \in DOMAIN game.chips : game.chips[p] = 0 => p \in table.broke
  BY <1>4, <1>6 DEF BrokeAreKnown
<1>8. game.chips \in [DOMAIN game.chips -> Nat]
  BY <1>1, PurseHolds
<1>9. /\ game'.phase = game.phase /\ game'.timer = game.timer
      /\ \A p \in DOMAIN game'.chips : game'.chips[p] > 0
  <2>1. CASE table.broke = {}
    <3>1. game' = game
      BY <2>1 DEF HandleAutoStart
    <3>2. \A p \in DOMAIN game.chips : game.chips[p] > 0
      BY <1>7, <1>8, <2>1
    <3>3. QED
      BY <3>1, <3>2
  <2>2. CASE table.broke # {}
    <3>1. /\ game'.phase = game.phase /\ game'.timer = game.timer
          /\ game'.chips = Restrict(game.chips, DOMAIN game.chips \ table.broke)
      BY <1>1, <2>2 DEF HandleAutoStart, Prune, GameType
    <3>2. /\ DOMAIN game'.chips = DOMAIN game.chips \ table.broke
          /\ \A p \in DOMAIN game'.chips : game'.chips[p] = game.chips[p]
      BY <3>1 DEF Restrict
    <3>3. QED
      BY <1>7, <1>8, <3>1, <3>2
  <2>3. QED
    BY <2>1, <2>2
<1>10. OneAutoStart'
  BY <1>4, <1>5, <1>9 DEF OneAutoStart
<1>11. BrokeAreKnown'
  <2>1. \A p \in DOMAIN game'.chips : game'.chips[p] # 0
    BY <1>9
  <2>2. QED
    BY <1>9, <2>1 DEF BrokeAreKnown
<1>12. QED
  BY <1>10, <1>11

LEMMA NextHandKeeps ==
    ASSUME Types, Core, OneAutoStart, BrokeAreKnown, ~astray',
           LoopDeals \/ \E i \in StarterIds : StarterDeals(i)
    PROVE  OneAutoStart' /\ BrokeAreKnown'
<1>1. table \in TableType /\ game \in GameType(loads)
  BY DEF Types
<1>2. StartNewHand /\ gameEvents' = gameEvents
  BY DEF LoopDeals, StarterDeals
<1>3. table'.broke = table.broke
  <2>1. 0 \in 0 .. MaxHands
    BY MatchAssumption
  <2>2. [table EXCEPT !.shown = 0] \in TableType /\ [table EXCEPT !.shown = 0].broke = table.broke
    BY <1>1, <2>1 DEF TableType
  <2>3. QED
    BY <1>2, <2>2, TableMoves DEF StartNewHand, OnlyMoves
<1>4. CASE TakesStartHand
  <2>1. game'.phase = "betting" /\ ~game'.timer
    BY <1>1, <1>2, <1>4 DEF StartNewHand, GameType
  <2>2. loop' = "idle" /\ \A k \in DOMAIN gameEvents : gameEvents[k].type # "AutoStartTriggered"
    <3>1. CASE LoopDeals
      BY <3>1 DEF LoopDeals, OneAutoStart
    <3>2. CASE \E i \in StarterIds : StarterDeals(i)
      <4>1. loop' = loop /\ game.phase # "SHOWDOWN"
        BY <1>4, <3>2 DEF StarterDeals
      <4>2. loop \in {"idle", "starting"}
        BY DEF Types
      <4>3. QED
        BY <4>1, <4>2 DEF OneAutoStart
    <3>3. QED
      BY <3>1, <3>2
  <2>3. QED
    BY <1>2, <2>1, <2>2 DEF OneAutoStart, BrokeAreKnown
<1>5. CASE ~TakesStartHand
  <2>1. game' = game /\ (loop' = loop \/ loop' = "idle")
    BY <1>2, <1>5 DEF StartNewHand, LoopDeals, StarterDeals
  <2>2. \A p : Named(p)' <=> Named(p)
    BY <1>2 DEF Named
  <2>3. OneAutoStart'
    BY <1>2, <2>1 DEF OneAutoStart
  <2>4. BrokeAreKnown'
    BY <1>3, <2>1, <2>2 DEF BrokeAreKnown
  <2>5. QED
    BY <2>3, <2>4
<1>6. QED
  BY <1>4, <1>5

LEMMA EliminationsStep ==
    ASSUME Types, Types', Down, Core, Eliminations, Next
    PROVE  Eliminations'
<1>1. SUFFICES ASSUME ~astray' PROVE OneAutoStart' /\ BrokeAreKnown'
  BY DEF Eliminations
<1>2. \A k : k \notin DOMAIN <<>>
  OBVIOUS
<1>3. CASE Load
  <2>1. Forgotten
    BY <1>3 DEF Load, Down
  <2>2. /\ loop' = "idle" /\ gameEvents' = <<>> /\ game' = LoadedGame
    BY <1>3, <2>1 DEF Load, Forgotten
  <2>3. game'.phase # "SHOWDOWN" /\ ~game'.timer
    BY <2>2 DEF LoadedGame, NoGame, RestorePausedMatch
  <2>4. QED
    BY <1>2, <2>2, <2>3 DEF OneAutoStart, BrokeAreKnown
<1>4. CASE Ends \/ CloseTable
  <2>1. gameEvents' = <<>> /\ game' = NoGame /\ loop' = "idle"
    BY <1>4 DEF Ends, ForgetMemory, CloseTable
  <2>2. game'.phase # "SHOWDOWN" /\ ~game'.timer
    BY <2>1 DEF NoGame
  <2>3. QED
    BY <1>2, <2>1, <2>2 DEF OneAutoStart, BrokeAreKnown
<1>5. CASE ~Load /\ ~Ends /\ ~CloseTable
  <2>1. OneAutoStart /\ BrokeAreKnown
    BY <1>1, <1>5, AstrayStays DEF Eliminations
  <2>2. CASE FinishHand \/ AutoStartFires
    BY <1>1, <2>1, <2>2, FinishNames, FiresLast
  <2>3. CASE HandleShowdownComplete \/ RecordPendingElimination \/ HandleGameOver
    BY <2>1, <2>3, LoopTakesOne
  <2>4. CASE HandleAutoStart
    BY <2>1, <2>4, NobodyLeft
  <2>5. CASE AutoStartRefused
    BY <1>1, <2>5 DEF AutoStartRefused
  <2>6. CASE LoopDeals \/ \E i \in StarterIds : StarterDeals(i)
    BY <1>1, <2>1, <2>6, NextHandKeeps
  <2>7. CASE \E i \in StarterIds : StartGame(i)
    <3>1. PICK i \in StarterIds : StartGame(i)
      BY <2>7
    <3>2. game.phase = "none" /\ loop' = loop /\ gameEvents' = gameEvents
      BY <3>1 DEF StartGame, Core, OneStart
    <3>3. loop # "starting" /\ \A k \in DOMAIN gameEvents :
                                   gameEvents[k].type # "AutoStartTriggered"
      BY <2>1, <3>2 DEF OneAutoStart
    <3>4. game'.phase # "SHOWDOWN" /\ ~game'.timer
      BY <3>1, <3>2 DEF StartGame, Core, Life, NoGame
    <3>5. QED
      BY <3>2, <3>3, <3>4 DEF OneAutoStart, BrokeAreKnown
  <2>8. CASE \/ \E p \in Players : SetPlayerReady(p) \/ SetPlayerUnready(p) \/ Echo(p)
             \/ \E i \in StarterIds : ResumeMatch(i)
             \/ Forward \/ RemovalTimer \/ DeleteRows
             \/ \E k \in 1 .. Workers : Worker(k)
             \/ \E i \in SaveIds : Save(i)
             \/ BeginDrain \/ TellCoordinator \/ HoldTable \/ WaitForQuiescence
             \/ StopEventProcessor
    BY <2>1, <2>8, SameGameSteps, SameGameKeeps
  <2>9. ~CloseTables /\ ~Crash /\ \A i \in StarterIds : ~StarterPanics(i)
    BY <1>5, EndsWhen
  <2>10. CASE GameStep \/ LoopStep
    BY <2>2, <2>3, <2>4, <2>5, <2>6, <2>10 DEF GameStep, LoopStep
  <2>11. CASE \E i \in StarterIds : Starter(i)
    BY <2>6, <2>7, <2>8, <2>9, <2>11 DEF Starter
  <2>12. CASE Removal \/ Stop
    BY <1>5, <2>8, <2>9, <2>12 DEF Removal, Stop
  <2>13. CASE Crash
    BY <2>9, <2>13
  <2>14. QED
    BY <1>5, <2>8, <2>10, <2>11, <2>12, <2>13 DEF Next
<1>6. QED
  BY <1>3, <1>4, <1>5

(***************************************************************************)
(* The invariant of the match.                                             *)
(***************************************************************************)
MatchInv ==
    /\ Types /\ Down /\ Core /\ Settled
    /\ Channels /\ Draining /\ LastSave

LEMMA MatchInit == Init => MatchInv
<1>1. SUFFICES ASSUME Init PROVE MatchInv
  OBVIOUS
<1>2. Types /\ Core
  BY <1>1, TypesInit, CoreInit
<1>3. /\ server = "up" /\ game.phase = "none" /\ table.open
      /\ DOMAIN saves = {} /\ DOMAIN queue = {} /\ coord.at = "idle"
  BY <1>1 DEF Init, NoGame
<1>4. NothingYet
  BY <1>1 DEF Init, NothingYet
<1>5. Down /\ Settled /\ Channels /\ Draining /\ LastSave
  BY <1>3, <1>4 DEF Down, Settled, Between, Looker, Channels, Reports, Draining, LastSave
<1>6. QED
  BY <1>2, <1>5 DEF MatchInv

LEMMA MatchStep ==
    ASSUME MatchInv, [Next]_vars
    PROVE  MatchInv'
<1>1. CASE Next
  <2>1. Types' /\ Down'
    BY <1>1, TypesStep, DownStep DEF MatchInv
  <2>2. Core'
    BY <1>1, <2>1, CoreStep DEF MatchInv
  <2>3. Settled' /\ Channels' /\ LastSave'
    BY <1>1, <2>1, <2>2, SettledStep, ChannelsStep, LastSaveStep DEF MatchInv
  <2>4. Draining'
    BY <1>1, <2>1, <2>2, DrainingStep DEF MatchInv
  <2>5. QED
    BY <2>1, <2>2, <2>3, <2>4 DEF MatchInv
<1>2. CASE UNCHANGED vars
  <2>1. UNCHANGED <<db, table, game, loop, starters, gameEvents, tableEvents, queue, saves,
                    mutex, removal, coord, server, result, out, astray, early, mishaps, loads>>
    BY <1>2 DEF vars, memory, ghosts
  <2>2. Types' /\ Down' /\ Core'
    BY <2>1 DEF MatchInv, Types, Down, Forgotten, Core, Life, SaveRoom, OneStart, Exclusive,
       Busy, Forwards
  <2>3. Settled' /\ Channels' /\ Draining' /\ LastSave'
    BY <2>1 DEF MatchInv, Settled, Between, Looker, Channels, Reports, NothingYet, Draining,
       LastSave
  <2>4. QED
    BY <2>2, <2>3 DEF MatchInv
<1>3. QED
  BY <1>1, <1>2

(* The match keeps its invariant, whatever the players do and whenever the *)
(* server is stopped, dies and is started again: the types; at most one    *)
(* save past the mutex; one goroutine at most about to start a game; what  *)
(* is being written neither older than the checkpoint nor newer than the   *)
(* game; the last result still what the game holds between hands; and a    *)
(* coordinator that is quiesced only when no hand is under way.            *)
THEOREM MatchInvariant == Spec => []MatchInv
<1>1. Init => MatchInv
  BY MatchInit
<1>2. MatchInv /\ [Next]_vars => MatchInv'
  BY MatchStep
<1>3. QED
  BY <1>1, <1>2, PTL DEF Spec

LEMMA MatchInvTypes ==
    ASSUME MatchInv
    PROVE  TypeOK
<1>1. Types /\ Life /\ SaveRoom
  BY DEF MatchInv, Core
<1>2. Purse(loads) \subseteq Stacks
  BY DEF Purse
<1>3. Snapshot(loads) \subseteq Checkpoint
  BY <1>2 DEF Snapshot, Checkpoint
<1>4. /\ db.table \in BOOLEAN /\ db.ready \subseteq Players
      /\ db.checkpoint \in Checkpoint \cup {None} /\ (~db.table => db.checkpoint = None)
  BY <1>1, <1>3 DEF Types, DbType, Life
<1>5. /\ table.state \in TableState /\ table.shown \in 0 .. MaxHands
      /\ UNION {table.users, table.ready, table.echo, table.broke, out} \subseteq Players
  BY <1>1 DEF Types, TableType
<1>6. /\ game.phase \in Phases /\ game.chips \in Stacks /\ game.round \in 0 .. MaxHands
      /\ (game.timer => game.running) /\ (game.phase = "none" => game = NoGame)
  BY <1>1, <1>2 DEF Types, GameType, Life
<1>7. \A i \in StarterIds : starters[i] \in {"none", "game", "next", "starting"}
  BY <1>1 DEF Types, StarterType
<1>8. /\ \A k \in DOMAIN gameEvents : gameEvents[k] \in GameEvent
      /\ \A k \in DOMAIN queue : queue[k] \in QueuedEvent
  BY <1>1, LenProperties DEF Types
<1>9. /\ Len(saves) <= MaxSaves + 1
      /\ \A i \in DOMAIN saves : saves[i].at \in {"asked", "looking", "writing"}
  BY <1>1, Rounds DEF SaveRoom, SaveType
<1>10. coord.at \in {"idle", "draining", "quiesced"}
  BY <1>1 DEF Types, CoordType
<1>11. QED
  BY <1>1, <1>4, <1>5, <1>6, <1>7, <1>8, <1>9, <1>10 DEF TypeOK, Types

(* Every variable of the match keeps its type, the stacks never grow past  *)
(* what the seats were given, and a table that is gone has no checkpoint   *)
(* (finalizeTableRemoval deletes both rows).                               *)
THEOREM MatchTypes == Spec => []TypeOK
<1>1. MatchInv => TypeOK
  BY MatchInvTypes
<1>2. QED
  BY <1>1, MatchInvariant, PTL

LEMMA ForwardStep ==
    ASSUME MatchInv, Next, db.checkpoint # None, db'.checkpoint # None
    PROVE  db'.checkpoint.round >= db.checkpoint.round
<1>1. Types /\ Core /\ db \in DbType(loads)
  BY DEF MatchInv, Types
<1>2. db.checkpoint.round \in Int
  BY <1>1, Rounds
<1>3. CASE db'.checkpoint = db.checkpoint
  BY <1>2, <1>3
<1>4. CASE \E i \in DOMAIN saves : SaveWrite(i)
  <2>1. PICK i \in DOMAIN saves : SaveWrite(i)
    BY <1>4
  <2>2. db' = db \/ db' = [db EXCEPT !.checkpoint = saves[i].snap]
    BY <2>1 DEF SaveWrite
  <2>3. db'.checkpoint = db.checkpoint \/ db'.checkpoint = saves[i].snap
    BY <1>1, <2>2 DEF DbType
  <2>4. saves[i].at = "writing"
    BY <2>1 DEF SaveWrite
  <2>5. saves[i].snap # None /\ db.checkpoint.round <= saves[i].snap.round
    BY <1>1, <2>4 DEF Core, Forwards
  <2>6. saves[i].snap.round \in Int
    BY <1>1, <2>5, Rounds
  <2>7. QED
    BY <1>2, <2>3, <2>5, <2>6
<1>5. CASE DeleteRows
  BY <1>1, <1>5 DEF DeleteRows, DbType
<1>6. QED
  BY <1>1, <1>3, <1>4, <1>5, CheckpointMoves

(* No save overwrites a later hand with an earlier one: the mutex of       *)
(* saveMatchCheckpointSync admits one save at a time, each reads the game  *)
(* inside it, and a loaded match goes on from the round it was saved in.   *)
THEOREM CheckpointsGoForward == Spec => CheckpointGoesForward
<1>1. MatchInv /\ [Next]_vars
      => [db.checkpoint # None /\ db'.checkpoint # None
          => db'.checkpoint.round >= db.checkpoint.round]_vars
  BY ForwardStep
<1>2. QED
  BY <1>1, MatchInvariant, PTL DEF Spec, CheckpointGoesForward

(* Only the save itself reads the game for its checkpoint.                 *)
LEMMA OnlyReadWrites ==
    ASSUME MatchInv, Next, NEW i \in DOMAIN saves \cap DOMAIN saves',
           saves[i].at = "looking", saves'[i].at = "writing"
    PROVE  SaveRead(i)
<1>1. Types /\ Core /\ Busy(i)
  BY DEF MatchInv, Busy
<1>2. mutex = "save" /\ \A j : Busy(j) => j = i
  BY <1>1 DEF Core, Exclusive
<1>3. /\ saves \in Seq(SaveType(loads)) /\ DOMAIN saves = 1 .. Len(saves)
  BY <1>1, Rounds DEF Types
<1>4. ~QuietStep
  BY <1>1, QuietOnes DEF Quiet, SameSaves
<1>5. ~Ends
  <2>1. Ends => saves' = <<>>
    BY DEF Ends, ForgetMemory
  <2>2. QED
    BY <2>1
<1>6. saves' # saves
  OBVIOUS
<1>7. \A s \in SaveType(loads) : saves' # Append(saves, s)
  <2>1. ASSUME NEW s \in SaveType(loads), saves' = Append(saves, s) PROVE FALSE
    <3>1. saves'[i] = saves[i]
      BY <1>3, <2>1, AppendProperties
    <3>2. QED
      BY <3>1
  <2>2. QED
    BY <2>1
<1>8. PICK s, t : s = NewSave(TRUE) /\ t = NewSave(FALSE)
  OBVIOUS
<1>9. saves' # Append(saves, NewSave(TRUE)) /\ saves' # Append(saves, NewSave(FALSE))
  BY <1>7, <1>8, StaticTypes
<1>10. ~WaitForQuiescence /\ ~(\E k \in 1 .. Workers : Worker(k))
  BY <1>6, <1>9 DEF WaitForQuiescence, Worker, HandleShowdownResult, HandleGameEnded, Handle,
     FinalizeRemoval
<1>11. /\ ~(\E p \in Players : SetPlayerReady(p)) /\ ~(\E j \in StarterIds : StartGame(j))
       /\ ~Removal /\ ~Load
  BY <1>6 DEF SetPlayerReady, StartGame, Removal, CloseTable, DeleteRows, Load
<1>12. PICK j \in SaveIds : Save(j)
  BY <1>4, <1>5, <1>10, <1>11, EndsWhen DEF Next, QuietStep, Starter, Stop
<1>13. ~SaveBegin(j)
  BY <1>2 DEF SaveBegin
<1>14. ~SaveWrite(j)
  <2>1. SaveWrite(j) => Busy(j) /\ saves[j].at = "writing"
    BY DEF SaveWrite, Busy
  <2>2. QED
    BY <1>2, <2>1
<1>15. SaveRead(j)
  BY <1>12, <1>13, <1>14 DEF Save
<1>16. Busy(j)
  BY <1>15 DEF SaveRead, Busy
<1>17. QED
  BY <1>2, <1>15, <1>16

LEMMA ResultStep ==
    ASSUME MatchInv, Next, NEW i \in DOMAIN saves \cap DOMAIN saves',
           saves[i].at = "looking", saves'[i].at = "writing", ~saves[i].overtaken
    PROVE  /\ saves'[i].snap.round = result.round
           /\ \A p \in DOMAIN saves'[i].snap.chips :
                  saves'[i].snap.chips[p] = result.chips[p]
<1>1. Looker(i)
  BY DEF Looker
<1>2. /\ Between /\ result.round = game.round
      /\ \A p \in DOMAIN game.chips : result.chips[p] = game.chips[p]
  BY <1>1 DEF MatchInv, Settled
<1>3. saves[i] \in SaveType(loads)
  BY Rounds DEF MatchInv
<1>4. SaveRead(i)
  BY OnlyReadWrites
<1>5. saves' = [saves EXCEPT ![i].at = "writing",
                             ![i].snap = [round |-> game.round, chips |-> game.chips]]
  BY <1>2, <1>4 DEF SaveRead, Readable, Between
<1>6. saves'[i].snap = [round |-> game.round, chips |-> game.chips]
  BY <1>3, <1>5 DEF SaveType
<1>7. saves'[i].snap.round = game.round /\ saves'[i].snap.chips = game.chips
  BY <1>6
<1>8. QED
  BY <1>2, <1>7

(* A save that found the match between hands, and that no new hand has     *)
(* overtaken, writes down the round and the stacks the last hand left      *)
(* (shouldCheckpointTable, then GetStateSnapshot): nothing else happens to *)
(* the game between the save's two looks at it.                            *)
THEOREM CheckpointsAreResults == Spec => CheckpointIsAResult
<1>1. MatchInv /\ [Next]_vars
      => [\A i \in DOMAIN saves \cap DOMAIN saves' :
            saves[i].at = "looking" /\ saves'[i].at = "writing" /\ ~saves[i].overtaken
            => /\ saves'[i].snap.round = result.round
               /\ \A p \in DOMAIN saves'[i].snap.chips :
                    saves'[i].snap.chips[p] = result.chips[p]]_vars
  BY ResultStep
<1>2. QED
  BY <1>1, MatchInvariant, PTL DEF Spec, CheckpointIsAResult

(* A server that has drained and saved has saved the last hand: no hand is *)
(* under way and the checkpoint is the game's (runDrainSequence,           *)
(* saveAllMatchCheckpointsSync), but for the two ways a hand gets past the *)
(* coordinator.                                                            *)
THEOREM DrainedIsSaved == Spec => []DrainSavesLastHand
<1>1. MatchInv => DrainSavesLastHand
  BY DEF MatchInv, DrainSavesLastHand, Draining, LastSave, Agrees
<1>2. QED
  BY <1>1, MatchInvariant, PTL

(***************************************************************************)
(* Nobody without chips is dealt into the next hand.                       *)
(***************************************************************************)
LEMMA EliminationsInvariant == Spec => []Eliminations
<1>1. Init => Eliminations
  <2>1. SUFFICES ASSUME Init PROVE OneAutoStart /\ BrokeAreKnown
    BY DEF Eliminations
  <2>2. /\ gameEvents = <<>> /\ loop = "idle" /\ game.phase = "none" /\ ~game.timer
    BY <2>1 DEF Init, NoGame
  <2>3. DOMAIN gameEvents = {}
    BY <2>2
  <2>4. QED
    BY <2>2, <2>3 DEF OneAutoStart, BrokeAreKnown
<1>2. MatchInv /\ MatchInv' /\ Eliminations /\ [Next]_vars => Eliminations'
  <2>1. SUFFICES ASSUME MatchInv, MatchInv', Eliminations, [Next]_vars PROVE Eliminations'
    OBVIOUS
  <2>2. CASE Next
    BY <2>1, <2>2, EliminationsStep DEF MatchInv
  <2>3. CASE UNCHANGED vars
    <3>1. UNCHANGED <<game, loop, gameEvents, table, astray>>
      BY <2>3 DEF vars, memory, ghosts
    <3>2. \A p : Named(p)' <=> Named(p)
      BY <3>1 DEF Named
    <3>3. OneAutoStart => OneAutoStart'
      BY <3>1 DEF OneAutoStart
    <3>4. BrokeAreKnown => BrokeAreKnown'
      BY <3>1, <3>2 DEF BrokeAreKnown
    <3>5. QED
      BY <2>1, <3>1, <3>3, <3>4 DEF Eliminations
  <2>4. QED
    BY <2>1, <2>2, <2>3
<1>3. QED
  BY <1>1, <1>2, MatchInvariant, PTL DEF Spec

LEMMA DealtStep ==
    ASSUME MatchInv, Eliminations, Next,
           game.phase = "SHOWDOWN", game'.phase = "betting", ~astray'
    PROVE  \A p \in DOMAIN game'.chips : game'.chips[p] > 0
<1>1. Types /\ Down /\ OneStart /\ game \in GameType(loads)
  BY DEF MatchInv, Core, Types
<1>2. ~Steady /\ ~FinishHand
  BY DEF Steady, FinishHand
<1>3. ~Load
  BY <1>1 DEF Load, Down, Forgotten, NoGame
<1>4. ~Ends /\ ~CloseTable
  BY DEF Ends, ForgetMemory, CloseTable, NoGame
<1>5. ~FirstHand
  BY <1>1 DEF FirstHand, StartGame, OneStart
<1>6. TakesStartHand /\ StartNewHand /\ (LoopDeals \/ \E i \in StarterIds : StarterDeals(i))
  BY <1>1, <1>2, <1>3, <1>4, <1>5, HandsOrSteady DEF NewHand
<1>7. LoopDeals
  BY <1>6 DEF StarterDeals
<1>8. loop = "starting" /\ ~astray
  BY <1>3, <1>7, AstrayStays DEF LoopDeals
<1>9. \A p \in DOMAIN game.chips : game.chips[p] > 0
  BY <1>8 DEF Eliminations, BrokeAreKnown
<1>10. game'.chips = game.chips
  BY <1>1, <1>6 DEF StartNewHand, GameType
<1>11. QED
  BY <1>9, <1>10

(* After a showdown the auto-start comes last of the events of the hand,   *)
(* and the loop does not start the next hand before it has taken those who *)
(* lost their chips out of the game; nobody is dealt in without any, unless *)
(* an event was dropped, a prune was refused, or a resume that came late   *)
(* dealt the hand (stateShowdown, handleAutoStart).                        *)
THEOREM BrokeNeverDealt == Spec => BrokeIsNotDealt
<1>1. MatchInv /\ Eliminations /\ [Next]_vars
      => [game.phase = "SHOWDOWN" /\ game'.phase = "betting" /\ ~astray'
          => \A p \in DOMAIN game'.chips : game'.chips[p] > 0]_vars
  <2>1. SUFFICES ASSUME MatchInv, Eliminations, [Next]_vars, vars' # vars,
                        game.phase = "SHOWDOWN", game'.phase = "betting", ~astray'
                 PROVE  \A p \in DOMAIN game'.chips : game'.chips[p] > 0
    OBVIOUS
  <2>2. QED
    BY <2>1, DealtStep
<1>2. QED
  BY <1>1, MatchInvariant, EliminationsInvariant, PTL DEF Spec, BrokeIsNotDealt
================================================================================
