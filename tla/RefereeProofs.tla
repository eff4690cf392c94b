---------------------------- MODULE RefereeProofs ----------------------------
(***************************************************************************)
(* A started match can be settled and its settlement pays the winner, for  *)
(* any number of seats, players, escrows, streams and starts, as long as   *)
(* no two requests overlap in the three ways that Overlaps names           *)
(* (MayOverlap = {}); one escrow may have any number of streams at a time. *)
(*                                                                         *)
(* The argument is about the stakes: the escrows that back the users of    *)
(* the table.  From the first stream that prepares to the settlement or    *)
(* the next departure every seat is backed and the stakes do not change,   *)
(* so whatever is signed is signed over the same inputs.                   *)
(***************************************************************************)
EXTENDS Referee, FiniteSetTheorems, PotsProofs, TLAPS

\* the escrow e backs the user of seat s
Backs(s, e) == /\ users[Owner[e]] # None
               /\ users[Owner[e]].escrow = e /\ users[Owner[e]].seat = s

Stakes == {e \in Escrows : users[Owner[e]] # None /\ users[Owner[e]].escrow = e}

Full == \A s \in Seats : \E e \in Escrows : Backs(s, e)

\* what a roster says is true of the table
True(roster) == \A s \in Seats : roster[s] # None => roster[s] \in Escrows /\ Backs(s, roster[s])

\* the seats whose drafts have been built
InDone(s) == \/ s \in referee.complete
             \/ \E h \in Handlers : streams[h].at \in Later /\ streams[h].seat = s

Leaving == \E p \in Players : calls[p].at \in {"clearing", "removing", "resetting"}
Torn    == \E p \in Players : calls[p].at \in {"removing", "resetting"}

UsersOK ==
  /\ \A p, q \in Players :
       users[p] # None /\ users[q] # None /\ users[p].seat = users[q].seat => p = q
  /\ \A p \in Players :
       users[p] # None /\ users[p].escrow # None =>
         Owner[users[p].escrow] = p /\ users[p].funded
  /\ \A p \in Players :
       users[p] # None /\ users[p].ready /\ users[p].escrow = None =>
         calls[p].at = "removing"

CallsOK ==
  \A p \in Players :
    calls[p].at = "binding" =>
      /\ users[p] # None /\ users[p].seat = calls[p].seat
      /\ calls[p].escrow \in Escrows /\ Owner[calls[p].escrow] = p

\* a stream keeps its seat, and what it has seen of the table is still true
StreamTrue(st) ==
  /\ st.at # "idle" => st.escrow \in Escrows /\ Backs(st.seat, st.escrow)
  /\ st.at = "snapped" => st.snap[st.seat] = st.escrow /\ True(st.snap)

StreamsOK == \A h \in Handlers : StreamTrue(streams[h])

\* everything that has been prepared is about the stakes
Prepared ==
  /\ \A h \in Handlers :
       /\ streams[h].at \in Later =>
            Full /\ referee.gamma /\ streams[h].draft = Stakes
       /\ streams[h].at \in {"signed", "closing"} =>
            referee.presigns.sig[streams[h].escrow] = Stakes
  /\ \A e \in Escrows : referee.presigns.sig[e] # {} =>
       Full /\ e \in Stakes /\ referee.presigns.sig[e] = Stakes
  /\ referee.complete # {} => Full /\ referee.gamma
  /\ \A s \in Seats, e \in Escrows :
       Backs(s, e) => /\ s \in referee.complete => referee.presigns.sig[e] = Stakes
                      /\ InDone(s) => session[e].seat = s

\* the roster in use: once everybody has come the frozen one is the table's,
\* and a live roster that misses a seat misses it visibly
Rosters ==
  /\ (\A s \in Seats : InDone(s)) =>
       True(referee.frozen) /\ \A s \in Seats : referee.frozen[s] # None
  /\ (\E s \in Seats : InDone(s)) /\ (\E s \in Seats : referee.match[s] = None) =>
       \E s \in Seats : referee.match[s] # None /\ ~InDone(s)

PhaseOK ==
  /\ phase \in {"open", "playing"} => settlement.at = "none"
  /\ phase = "over" => settlement.at # "none"
  /\ phase = "playing" \/ settlement.at # "none" => ~Leaving
  /\ \/ phase = "playing"
     \/ phase = "open" /\ starts > 0
     \/ settlement.at \notin {"none", "paid"}
     => \A s \in Seats : s \in referee.complete
  /\ phase = "playing" => settlement.players = Seated

SettlementOK ==
  /\ settlement.at # "paid" =>
       paid = None /\ \A e \in Escrows : session[e].funding = "ready"
  /\ settlement.at \in {"ended", "try", "bundle"} =>
       /\ settlement.winner \in Players /\ users[settlement.winner] # None
       /\ settlement.seat = users[settlement.winner].seat
  /\ settlement.at = "send" =>
       /\ \A e \in settlement.draft : settlement.sig[e] = settlement.draft
       /\ \E e \in settlement.draft :
            /\ settlement.branch = Index(settlement.draft, e)
            /\ settlement.winner = Owner[e]
       /\ IsFiniteSet(settlement.draft)
  /\ paid # None => paid = settlement.winner

ReadyOK ==
  /\ Torn => \A p \in Players :
               users[p] # None /\ users[p].escrow # None =>
                 referee.match[users[p].seat] # None
  /\ ReadyMatchIsStarting

RefereeInv ==
  /\ TypeOK /\ Overlaps = {}
  /\ UsersOK /\ CallsOK /\ StreamsOK /\ PhaseOK /\ SettlementOK /\ ReadyOK
  /\ ~Torn /\ settlement.at # "paid" => Prepared /\ Rosters


-----------------------------------------------------------------------------
(* The constants and the operators.                                        *)

LEMMA Numbers ==
  /\ None \notin Escrows /\ None \notin Seats /\ None \notin Players
  /\ 0 \in Seats /\ 1 \in Seats /\ Seats \subseteq Nat
  /\ \A e \in Escrows : Owner[e] \in Players
<1>1. MaxPlayers \in Nat /\ MaxPlayers > 1 /\ Escrows \subseteq Nat
      /\ Owner \in [Escrows -> Players] /\ None \notin Players /\ None \notin Nat
  BY ConstantsAssumption
<1>2. 0 \in Seats /\ 1 \in Seats /\ Seats \subseteq Nat
  BY <1>1 DEF Seats
<1>3. QED
  BY <1>1, <1>2

\* What it means that nothing overlaps.
Alone ==
  /\ starts > 0 => ~Leaving
  /\ \A h \in Handlers : streams[h].at # "idle" => ~Leaving
  /\ \A e \in Escrows :
       users[Owner[e]] # None /\ users[Owner[e]].escrow \notin {None, e} =>
         /\ \A d \in Escrows : e \notin referee.presigns.sig[d]
         /\ \A h \in Handlers :
              /\ streams[h].at # "idle" => streams[h].escrow # e
              /\ e \notin streams[h].draft
              /\ \A s \in Seats : streams[h].snap[s] # e
  /\ \A h \in Handlers :
       streams[h].at = "snapped" /\ (\E s \in Seats : streams[h].snap[s] = None) =>
         ~InDone(streams[h].seat)

LEMMA NothingOverlaps == (Overlaps = {} => Alone) /\ (Overlaps' = {} => Alone')
<1>1. Overlaps = {} => ~LeaveOverlaps /\ ~SwitchOverlaps /\ ~StaleOverlaps
  BY DEF Overlaps
<1>2. Overlaps' = {} => ~LeaveOverlaps' /\ ~SwitchOverlaps' /\ ~StaleOverlaps'
  BY DEF Overlaps
<1>3. ~LeaveOverlaps /\ ~SwitchOverlaps /\ ~StaleOverlaps => Alone
  BY Numbers DEF LeaveOverlaps, SwitchOverlaps, StaleOverlaps, Alone, Leaving, EscrowsOf,
     SeatsOf, InDone
<1>4. ~LeaveOverlaps' /\ ~SwitchOverlaps' /\ ~StaleOverlaps' => Alone'
  BY Numbers DEF LeaveOverlaps, SwitchOverlaps, StaleOverlaps, Alone, Leaving, EscrowsOf,
     SeatsOf, InDone
<1>5. QED
  BY <1>1, <1>2, <1>3, <1>4

\* Seats are not shared and an escrow backs its owner only.
SeatedWell(us) ==
  /\ us \in [Players -> User \cup {None}]
  /\ \A p, q \in Players : us[p] # None /\ us[q] # None /\ us[p].seat = us[q].seat => p = q

LEMMA RosterOfTable ==
  ASSUME NEW us, SeatedWell(us)
  PROVE  /\ TableRoster(us) \in Roster
         /\ \A p \in Players : us[p] # None => TableRoster(us)[us[p].seat] = us[p].escrow
         /\ \A s \in Seats : TableRoster(us)[s] # None =>
              \E p \in Players : /\ us[p] # None /\ us[p].seat = s
                                 /\ TableRoster(us)[s] = us[p].escrow
<1> DEFINE here(s) == {p \in Players : us[p] # None /\ us[p].seat = s}
<1>1. \A s \in Seats : here(s) # {} => (CHOOSE p \in here(s) : TRUE) \in here(s)
  OBVIOUS
<1>2. \A p \in Players : us[p] # None => us[p] \in User /\ us[p].seat \in Seats
  BY DEF SeatedWell, User
<1>3. \A p \in Players : us[p] # None => here(us[p].seat) = {p}
  BY <1>2 DEF SeatedWell
<1>4. TableRoster(us) = [s \in Seats |-> IF here(s) = {} THEN None
                                         ELSE us[CHOOSE p \in here(s) : TRUE].escrow]
  BY DEF TableRoster
<1>5. TableRoster(us) \in Roster
  BY <1>1, <1>2, <1>4 DEF Roster, User
<1>6. ASSUME NEW p \in Players, us[p] # None
      PROVE  TableRoster(us)[us[p].seat] = us[p].escrow
  <2>1. (CHOOSE q \in here(us[p].seat) : TRUE) = p
    BY <1>3, <1>6
  <2>2. QED
    BY <1>2, <1>3, <1>4, <1>6, <2>1
<1>7. ASSUME NEW s \in Seats, TableRoster(us)[s] # None
      PROVE  \E p \in Players : /\ us[p] # None /\ us[p].seat = s
                                /\ TableRoster(us)[s] = us[p].escrow
  BY <1>1, <1>4, <1>7
<1>8. QED
  BY <1>5, <1>6, <1>7

\* A set of seats has a largest one.
LEMMA LargestSeat ==
  ASSUME NEW S \in SUBSET Seats, S # {}
  PROVE  \E t \in S : \A u \in S : u <= t
<1> DEFINE T == {MaxPlayers - t : t \in S}
<1>1. MaxPlayers \in Nat
  BY ConstantsAssumption
<1>2. \A t \in S : t \in Nat /\ MaxPlayers - t \in Nat
  BY <1>1 DEF Seats
<1>3. T \in SUBSET Nat /\ T # {}
  BY <1>2
<1>4. Min(T) \in T /\ \A y \in T : Min(T) <= y
  <2> HIDE DEF T
  <2>1. QED
    BY <1>3, MinOfNats
<1>5. PICK t \in S : Min(T) = MaxPlayers - t
  BY <1>4
<1>6. ASSUME NEW u \in S PROVE u <= t
  <2>1. MaxPlayers - t <= MaxPlayers - u
    BY <1>4, <1>5
  <2>2. QED
    BY <1>1, <1>2, <2>1
<1>7. QED
  BY <1>6

\* A frozen roster is a roster, and where every session names the seat of its
\* escrow it is the one that was frozen.
LEMMA FrozenRoster ==
  ASSUME NEW roster \in Roster, NEW ses,
         SeatsOf(roster) = Seats
  PROVE  /\ Freeze(roster, ses) \in Roster
         /\ (\A s \in Seats : ses[roster[s]].seat = s) => Freeze(roster, ses) = roster
<1> DEFINE here(s) == {t \in SeatsOf(roster) : ses[roster[t]].seat = s}
           pick(s) == CHOOSE t \in here(s) : \A u \in here(s) : u <= t
<1>1. Freeze(roster, ses) = [s \in Seats |-> IF here(s) = {} THEN None ELSE roster[pick(s)]]
  BY DEF Freeze
<1>2. ASSUME NEW s \in Seats, here(s) # {} PROVE pick(s) \in here(s)
  <2>1. here(s) \subseteq Seats /\ IsFiniteSet(Seats)
    BY ConstantsAssumption, FS_Interval DEF Seats
  <2>2. \E t \in here(s) : \A u \in here(s) : u <= t
    BY <1>2, <2>1, ConstantsAssumption, LargestSeat
  <2>3. QED
    BY <2>2
<1>3. Freeze(roster, ses) \in Roster
  BY <1>1, <1>2 DEF Roster, SeatsOf
<1>4. ASSUME \A s \in Seats : ses[roster[s]].seat = s PROVE Freeze(roster, ses) = roster
  <2>1. \A s \in Seats : here(s) = {s}
    BY <1>4
  <2>2. \A s \in Seats : pick(s) = s
    BY <1>2, <2>1
  <2>3. QED
    BY <1>1, <2>1, <2>2 DEF Roster
<1>5. QED
  BY <1>3, <1>4

\* When everybody is ready every seat is taken, by a user who has an escrow.
LEMMA ReadyTable ==
  ASSUME NEW us, SeatedWell(us), AllReady(us)
  PROVE  /\ \A s \in Seats : \E p \in Players :
              us[p] # None /\ us[p].seat = s /\ us[p].escrow # None
         /\ \A p \in Players : us[p] # None => us[p].ready /\ us[p].escrow # None
<1> DEFINE seated == {p \in Players : us[p] # None}
           taken == {us[p].seat : p \in seated}
           who == [s \in taken |-> CHOOSE p \in seated : us[p].seat = s]
<1>1. \A p \in seated : us[p].seat \in Seats
  BY DEF SeatedWell, User
<1>2. taken \in SUBSET Seats
  BY <1>1
<1>3. \A p \in seated : (CHOOSE q \in seated : us[q].seat = us[p].seat) = p
  BY DEF SeatedWell
<1>4. who \in Surjection(taken, seated)
  <2>1. \A p \in seated : us[p].seat \in taken /\ who[us[p].seat] = p
    BY <1>3
  <2>2. who \in [taken -> seated]
    BY <1>3
  <2>3. QED
    BY <2>1, <2>2 DEF Surjection
<1>5. IsFiniteSet(Seats) /\ Cardinality(Seats) = MaxPlayers
  <2>1. MaxPlayers \in Nat /\ MaxPlayers > 1
    BY ConstantsAssumption
  <2>2. QED
    BY <2>1, FS_Interval DEF Seats
<1>6. IsFiniteSet(taken) /\ Cardinality(taken) <= Cardinality(Seats)
      /\ (Cardinality(Seats) = Cardinality(taken) => Seats = taken)
  <2> HIDE DEF taken
  <2>1. QED
    BY <1>2, <1>5, FS_Subset
<1>7. Cardinality(seated) <= Cardinality(taken)
  <2> HIDE DEF taken, seated, who
  <2>1. QED
    BY <1>4, <1>6, FS_Surjection
<1>8. /\ Cardinality(seated) = MaxPlayers
      /\ \A p \in seated : us[p].ready /\ us[p].escrow # None
  BY DEF AllReady
<1>9. Cardinality(taken) \in Nat /\ MaxPlayers \in Nat
  BY <1>6, FS_CardinalityType, ConstantsAssumption
<1>10. Seats = taken
  <2> HIDE DEF taken, seated
  <2>1. QED
    BY <1>5, <1>6, <1>7, <1>8, <1>9
<1>11. QED
  BY <1>8, <1>10

\* Two escrows of a draft have different indices.
LEMMA IndexOrders ==
  ASSUME NEW D \in SUBSET Escrows, IsFiniteSet(D), NEW e \in D
  PROVE  /\ Index(D, e) \in Nat
         /\ \A f \in D : Index(D, f) = Index(D, e) => f = e
<1>1. Escrows \subseteq Nat
  BY ConstantsAssumption
<1>2. \A x \in D : x \in Nat
  BY <1>1
<1> DEFINE Below(x) == {y \in D : y < x}
<1>3. ASSUME NEW x \in D
      PROVE  IsFiniteSet(Below(x)) /\ Index(D, x) = Cardinality(Below(x))
             /\ Cardinality(Below(x)) \in Nat
  <2>1. IsFiniteSet(Below(x))
    BY FS_Subset
  <2>2. QED
    BY <2>1, FS_CardinalityType DEF Index
<1>4. ASSUME NEW x \in D, NEW y \in D, x < y
      PROVE  Index(D, x) # Index(D, y)
  <2>1. Below(x) \in SUBSET Below(y)
    BY <1>2, <1>4
  <2>2. x \in Below(y) /\ x \notin Below(x)
    BY <1>2, <1>4
  <2>3. Below(x) # Below(y)
    BY <2>2
  <2>4. Cardinality(Below(y)) # Cardinality(Below(x))
    <3> HIDE DEF Below
    <3>1. QED
      BY <1>3, <2>1, <2>3, FS_Subset
  <2>5. QED
    BY <1>3, <2>4
<1>5. ASSUME NEW f \in D, Index(D, f) = Index(D, e) PROVE f = e
  <2>1. f < e \/ e < f \/ e = f
    BY <1>2
  <2>2. QED
    BY <1>4, <1>5, <2>1
<1>6. QED
  BY <1>3, <1>5

\* A roster that is true of the table and misses no seat holds the stakes.
LEMMA RosterHoldsStakes ==
  ASSUME users \in [Players -> User \cup {None}], UsersOK,
         NEW r \in Roster, True(r), \A s \in Seats : r[s] # None
  PROVE  /\ EscrowsOf(r) = Stakes /\ SeatsOf(r) = Seats
         /\ IsFiniteSet(Stakes) /\ Cardinality(Stakes) <= MaxPlayers
<1>1. \A e \in Stakes : e \in Escrows /\ users[Owner[e]].seat \in Seats
                        /\ r[users[Owner[e]].seat] = e
  <2>1. TAKE e \in Stakes
  <2>2. e \in Escrows /\ users[Owner[e]] # None /\ users[Owner[e]].escrow = e
        /\ Owner[e] \in Players
    BY Numbers DEF Stakes
  <2>3. users[Owner[e]] \in User /\ users[Owner[e]].seat \in Seats
    BY <2>2 DEF User
  <2> DEFINE x == r[users[Owner[e]].seat]
  <2>4. x \in Escrows /\ Backs(users[Owner[e]].seat, x) /\ Owner[x] \in Players
    BY <2>3, Numbers DEF True
  <2>5. Owner[x] = Owner[e]
    BY <2>2, <2>4 DEF UsersOK, Backs
  <2>6. QED
    BY <2>2, <2>3, <2>4, <2>5 DEF Backs
<1>2. \A s \in Seats : r[s] \in Stakes
  BY DEF True, Backs, Stakes
<1>3. EscrowsOf(r) = Stakes
  BY <1>1, <1>2 DEF EscrowsOf
<1>4. IsFiniteSet(Stakes) /\ Cardinality(Stakes) <= MaxPlayers
  <2>1. r \in Surjection(Seats, Stakes)
    BY <1>1, <1>2 DEF Surjection, Roster
  <2>2. IsFiniteSet(Seats) /\ Cardinality(Seats) = MaxPlayers
    <3>1. MaxPlayers \in Nat /\ MaxPlayers > 1
      BY ConstantsAssumption
    <3>2. QED
      BY <3>1, FS_Interval DEF Seats
  <2>3. QED
    BY <2>1, <2>2, FS_Surjection
<1>5. QED
  BY <1>3, <1>4 DEF SeatsOf

\* The roster of the table is true of it.
LEMMA TableRosterTrue ==
  ASSUME users \in [Players -> User \cup {None}], UsersOK
  PROVE  /\ SeatedWell(users) /\ TableRoster(users) \in Roster /\ True(TableRoster(users))
         /\ \A e \in Escrows, s \in Seats : Backs(s, e) => TableRoster(users)[s] = e
<1>1. SeatedWell(users)
  BY DEF SeatedWell, UsersOK
<1> DEFINE r == TableRoster(users)
<1>2. /\ r \in Roster
      /\ \A p \in Players : users[p] # None => r[users[p].seat] = users[p].escrow
      /\ \A s \in Seats : r[s] # None =>
           \E p \in Players : /\ users[p] # None /\ users[p].seat = s
                              /\ r[s] = users[p].escrow
  BY <1>1, RosterOfTable
<1>3. ASSUME NEW s \in Seats, r[s] # None PROVE r[s] \in Escrows /\ Backs(s, r[s])
  <2>1. PICK p \in Players : users[p] # None /\ users[p].seat = s /\ r[s] = users[p].escrow
    BY <1>2, <1>3
  <2>2. Owner[r[s]] = p
    BY <1>3, <2>1 DEF UsersOK
  <2>3. r[s] \in Escrows
    BY <1>2, <1>3 DEF Roster
  <2>4. QED
    BY <2>1, <2>2, <2>3 DEF Backs
<1>4. QED
  BY <1>1, <1>2, <1>3, Numbers DEF True, Backs

-----------------------------------------------------------------------------
(* Types.                                                                  *)

LEMMA NothingTyped ==
  /\ NoRoster \in Roster /\ NoPresigns \in Presigns
  /\ NoStream \in Stream /\ Idle \in Call
  /\ \A r \in RefereeState : Cleared(r) \in RefereeState
<1>1. NoRoster \in Roster /\ NoPresigns \in Presigns
  BY DEF NoRoster, Roster, NoPresigns, Presigns, Draft
<1>2. NoStream \in Stream /\ Idle \in Call
  BY <1>1, Numbers DEF NoStream, Stream, Idle, Call, Draft
<1>3. \A r \in RefereeState : Cleared(r) \in RefereeState
  BY <1>1 DEF Cleared, RefereeState
<1>4. QED
  BY <1>1, <1>2, <1>3

LEMMA LobbyTyped ==
  ASSUME TypeOK, UsersOK, NEW p \in Players,
         \/ JoinTable(p) \/ SetPlayerReady(p) \/ SetPlayerUnready(p)
         \/ LeaveTable(p) \/ LeaveClear(p) \/ LeaveRemove(p) \/ LeaveReset(p)
         \/ GameOver(p)
  PROVE  TypeOK'
<1>1. CASE JoinTable(p)
  <2>1. PICK s \in Seats : users' = [users EXCEPT ![p] =
          [seat |-> s, ready |-> FALSE, escrow |-> None, funded |-> FALSE,
           presigned |-> FALSE]]
    <3>1. FreeSeats \subseteq Seats /\ FreeSeats # {}
      BY <1>1 DEF JoinTable, FreeSeats
    <3>2. \E s \in FreeSeats : \A t \in FreeSeats : s <= t
      BY <3>1, Numbers, LeastNat
    <3>3. QED
      BY <1>1, <3>1, <3>2 DEF JoinTable
  <2>2. joins' \in 0 .. MaxJoins
    BY <1>1, ConstantsAssumption DEF JoinTable, TypeOK
  <2>3. users' \in [Players -> User \cup {None}]
    BY <2>1 DEF TypeOK, User
  <2>4. QED
    BY <1>1, <2>2, <2>3 DEF JoinTable, TypeOK
<1>2. CASE SetPlayerReady(p)
  <2>1. starts' \in 0 .. MaxStarts
    BY <1>2, ConstantsAssumption DEF SetPlayerReady, StartsAfter, TypeOK
  <2>2. users' \in [Players -> User \cup {None}]
    BY <1>2 DEF SetPlayerReady, TypeOK, User
  <2>3. session' \in [Escrows -> Session]
    BY <1>2 DEF SetPlayerReady, TypeOK, User, Session
  <2>4. QED
    BY <1>2, <2>1, <2>2, <2>3 DEF SetPlayerReady, TypeOK
<1>3. CASE SetPlayerUnready(p)
  BY <1>3 DEF SetPlayerUnready, TypeOK, User
<1>4. CASE LeaveTable(p)
  BY <1>4 DEF LeaveTable, TypeOK, User, Call
<1>5. CASE LeaveClear(p)
  <2>1. /\ users' \in [Players -> User \cup {None}]
        /\ calls' \in [Players -> Call]
    <3>1. /\ users' \in {users, [users EXCEPT ![p].escrow = None, ![p].funded = FALSE]}
          /\ calls' = [calls EXCEPT ![p].at = "removing"]
          /\ users' # users => users[p] # None
      BY <1>5 DEF LeaveClear
    <3>2. users' \in [Players -> User \cup {None}]
      <4>1. CASE users' = users
        BY <4>1 DEF TypeOK
      <4>2. CASE users' # users
        <5>1. users[p] \in User
          BY <3>1, <4>2 DEF TypeOK
        <5>2. [users[p] EXCEPT !.escrow = None, !.funded = FALSE] \in User
          BY <5>1 DEF User
        <5>3. users' = [users EXCEPT ![p] = [users[p] EXCEPT !.escrow = None,
                                                             !.funded = FALSE]]
          BY <3>1, <4>2, <5>1 DEF TypeOK, User
        <5>4. QED
          BY <5>2, <5>3 DEF TypeOK
      <4>3. QED
        BY <4>1, <4>2
    <3>3. calls' \in [Players -> Call]
      BY <3>1 DEF TypeOK, Call
    <3>4. QED
      BY <3>2, <3>3
  <2>2. SeatedWell(users')
    <3>1. /\ users' \in {users, [users EXCEPT ![p].escrow = None, ![p].funded = FALSE]}
          /\ users' # users => users[p] # None
      BY <1>5 DEF LeaveClear
    <3>2. \A q \in Players : users'[q] # None =>
            users[q] # None /\ users'[q].seat = users[q].seat
      <4>1. CASE users' = users
        BY <4>1
      <4>2. CASE users' # users
        <5>1. users[p] \in User /\ users[p] # None
          BY <3>1, <4>2 DEF TypeOK
        <5>2. PICK u : u = [users[p] EXCEPT !.escrow = None, !.funded = FALSE]
          OBVIOUS
        <5>3. u.seat = users[p].seat
          BY <5>1, <5>2 DEF User
        <5>4. users' = [users EXCEPT ![p] = u]
          BY <3>1, <4>2, <5>1, <5>2 DEF TypeOK, User
        <5>5. QED
          BY <5>1, <5>3, <5>4 DEF TypeOK
      <4>3. QED
        BY <4>1, <4>2
    <3>3. QED
      BY <2>1, <3>2 DEF UsersOK, SeatedWell
  <2>3. referee' \in RefereeState
    <3>1. TableRoster(users') \in Roster
      BY <2>2, RosterOfTable
    <3>2. QED
      BY <1>5, <3>1 DEF LeaveClear, TypeOK, RefereeState
  <2>4. session' \in [Escrows -> Session]
    <3>1. PICK b : b = referee.match[calls[p].seat]
      OBVIOUS
    <3>2. b \in Escrows \cup {None}
      BY <3>1 DEF TypeOK, RefereeState, Roster, Call
    <3>3. \/ session' = session
          \/ b # None /\ session' = [session EXCEPT ![b].seat = 0]
      BY <1>5, <3>1 DEF LeaveClear
    <3>4. session \in [Escrows -> Session]
      BY DEF TypeOK
    <3>5. QED
      BY <3>2, <3>3, <3>4, Numbers DEF Session
  <2>5. QED
    BY <1>5, <2>1, <2>3, <2>4 DEF LeaveClear, TypeOK
<1>6. CASE LeaveRemove(p)
  BY <1>6 DEF LeaveRemove, TypeOK, Call
<1>7. CASE LeaveReset(p)
  <2>1. /\ users' \in [Players -> User \cup {None}]
        /\ calls' \in [Players -> Call]
    BY <1>7, NothingTyped DEF LeaveReset, TypeOK, User
  <2>2. referee' \in RefereeState
    BY <1>7, NothingTyped DEF LeaveReset, TypeOK
  <2>3. QED
    BY <1>7, <2>1, <2>2 DEF LeaveReset, TypeOK
<1>8. CASE GameOver(p)
  BY <1>8 DEF GameOver, TypeOK, User, Settlement
<1>9. QED
  BY <1>1, <1>2, <1>3, <1>4, <1>5, <1>6, <1>7, <1>8

LEMMA BindTyped ==
  ASSUME TypeOK, CallsOK, NEW p \in Players, NEW e \in Escrows,
         BindEscrow(p, e) \/ BindRefused(p, e) \/ BindWrite(p)
  PROVE  TypeOK'
<1>1. CASE BindEscrow(p, e) \/ BindRefused(p, e)
  <2>1. session' \in [Escrows -> Session]
    BY <1>1 DEF BindEscrow, BindRefused, TypeOK, User, Session
  <2>2. calls' \in [Players -> Call]
    BY <1>1 DEF BindEscrow, BindRefused, TypeOK, User, Call
  <2>3. QED
    BY <1>1, <2>1, <2>2 DEF BindEscrow, BindRefused, TypeOK
<1>2. CASE BindWrite(p)
  <2>1. calls[p].escrow \in Escrows /\ calls[p].seat \in Seats
    BY <1>2 DEF BindWrite, CallsOK, TypeOK, Call
  <2>2. referee' \in RefereeState
    BY <1>2, <2>1 DEF BindWrite, TypeOK, RefereeState, Roster
  <2>3. users' \in [Players -> User \cup {None}] /\ calls' \in [Players -> Call]
    BY <1>2, <2>1, NothingTyped DEF BindWrite, SendEscrowBound, TypeOK, User
  <2>4. QED
    BY <1>2, <2>2, <2>3 DEF BindWrite, TypeOK
<1>3. QED
  BY <1>1, <1>2

LEMMA StreamTyped ==
  ASSUME TypeOK, UsersOK, StreamsOK, NEW h \in Handlers,
         \/ (\E e \in Escrows : StreamHello(h, e))
         \/ StreamSnapshot(h) \/ StreamPrepare(h) \/ PresigMap(h)
         \/ PresigStore(h) \/ StreamEOF(h) \/ StreamDone(h) \/ StreamBroken(h)
  PROVE  TypeOK'
<1>0. streams[h].at # "idle" =>
        streams[h].escrow \in Escrows /\ Owner[streams[h].escrow] \in Players
  BY Numbers DEF StreamsOK, StreamTrue
<1>1. ASSUME NEW e \in Escrows, StreamHello(h, e) PROVE TypeOK'
  <2>0. Owner[e] \in Players
    BY Numbers
  <2>1. opened' \in 0 .. MaxStreams
    <3>1. opened' = opened + 1 /\ opened < MaxStreams
      BY <1>1 DEF StreamHello
    <3>2. opened \in 0 .. MaxStreams /\ MaxStreams \in Nat
      BY ConstantsAssumption DEF TypeOK
    <3>3. QED
      BY <3>1, <3>2
  <2>2. users[Owner[e]] \in User
    BY <1>1, <2>0 DEF StreamHello, TypeOK
  <2>3. users' \in [Players -> User \cup {None}]
    BY <1>1, <2>0, <2>2 DEF StreamHello, SendEscrowBound, TypeOK, User
  <2>4. [NoStream EXCEPT !.at = "bound", !.escrow = e, !.seat = users[Owner[e]].seat] \in Stream
    BY <2>2, NothingTyped DEF Stream, User
  <2>5. streams' \in [Handlers -> Stream]
    BY <1>1, <2>4 DEF StreamHello, TypeOK
  <2>6. QED
    BY <1>1, <2>1, <2>3, <2>5 DEF StreamHello, TypeOK
<1>2. CASE StreamSnapshot(h)
  <2>1. TableRoster(users) \in Roster
    BY TableRosterTrue DEF TypeOK
  <2>2. streams' \in [Handlers -> Stream]
    <3>1. PICK roster \in Roster : roster = TableRoster(users)
      BY <2>1
    <3>2. streams' = [streams EXCEPT ![h].at = "snapped", ![h].snap = roster]
      BY <1>2, <3>1 DEF StreamSnapshot
    <3>3. streams \in [Handlers -> Stream]
      BY DEF TypeOK
    <3>4. QED
      BY <3>2, <3>3 DEF Stream
  <2>3. QED
    BY <1>2, <2>2 DEF StreamSnapshot, TypeOK
<1>3. CASE StreamPrepare(h)
  <2>1. session' \in [Escrows -> Session]
    <3>1. session' = [session EXCEPT ![streams[h].escrow].seat = streams[h].seat]
      BY <1>3 DEF StreamPrepare
    <3>2. streams[h].seat \in Seats /\ session \in [Escrows -> Session]
      BY DEF TypeOK, Stream
    <3>3. QED
      BY <3>1, <3>2 DEF Session
  <2>2. streams[h].snap \in Roster /\ EscrowsOf(streams[h].snap) \in Draft
    BY DEF TypeOK, Stream, EscrowsOf, Roster, Draft
  <2>3. SeatsOf(streams[h].snap) = Seats => Freeze(streams[h].snap, session') \in Roster
    BY <2>2, FrozenRoster
  <2>4. referee' \in RefereeState
    <3>1. PICK roster : roster = streams[h].snap
      OBVIOUS
    <3>2. \/ SeatsOf(roster) = Seats
             /\ referee' = [referee EXCEPT !.match = roster, !.gamma = TRUE,
                                           !.frozen = Freeze(roster, session')]
          \/ referee' = [referee EXCEPT !.match = roster]
      BY <1>3, <3>1 DEF StreamPrepare
    <3>3. referee \in RefereeState
      BY DEF TypeOK
    <3>4. QED
      BY <2>2, <2>3, <3>1, <3>2, <3>3 DEF RefereeState
  <2>5. streams' \in [Handlers -> Stream]
    BY <1>3, <2>2, NothingTyped DEF StreamPrepare, EndStream, TypeOK, Stream
  <2>6. QED
    BY <1>3, <2>1, <2>4, <2>5 DEF StreamPrepare, TypeOK
<1>4. CASE PresigMap(h)
  <2>1. referee' \in RefereeState
    BY <1>4 DEF PresigMap, TypeOK, RefereeState, Presigns
  <2>2. streams' \in [Handlers -> Stream]
    BY <1>4 DEF PresigMap, TypeOK, Stream
  <2>3. QED
    BY <1>4, <2>1, <2>2 DEF PresigMap, TypeOK
<1>5. CASE PresigStore(h)
  <2>1. referee' \in RefereeState
    <3>1. streams[h].draft \in Draft
      BY DEF TypeOK, Stream
    <3>2. referee.presigns.sig \in [Escrows -> Draft] /\ referee.presigns \in Presigns
      BY DEF TypeOK, RefereeState, Presigns
    <3>3. PICK e, D : e = streams[h].escrow /\ D = streams[h].draft
      OBVIOUS
    <3>4. [referee.presigns EXCEPT !.sig[e] = D] \in Presigns
      BY <3>1, <3>2, <3>3 DEF Presigns
    <3>5. referee' = referee
          \/ referee' = [referee EXCEPT !.presigns = [@ EXCEPT !.sig[e] = D]]
      BY <1>5, <3>3 DEF PresigStore
    <3>6. QED
      BY <3>4, <3>5 DEF TypeOK, RefereeState
  <2>2. streams' \in [Handlers -> Stream]
    BY <1>5 DEF PresigStore, TypeOK, Stream
  <2>3. QED
    BY <1>5, <2>1, <2>2 DEF PresigStore, TypeOK
<1>6. CASE StreamEOF(h)
  <2>1. referee' \in RefereeState
    BY <1>6 DEF StreamEOF, TypeOK, RefereeState, Stream
  <2>2. streams' \in [Handlers -> Stream]
    BY <1>6 DEF StreamEOF, TypeOK, Stream
  <2>3. QED
    BY <1>6, <2>1, <2>2 DEF StreamEOF, TypeOK
<1>7. CASE StreamDone(h) \/ StreamBroken(h)
  <2>1. streams' \in [Handlers -> Stream]
    BY <1>7, NothingTyped DEF StreamDone, StreamBroken, EndStream, TypeOK
  <2>2. starts' \in 0 .. MaxStarts
    BY <1>7, ConstantsAssumption DEF StreamDone, StreamBroken, StartsAfter, TypeOK
  <2>3. users' \in [Players -> User \cup {None}]
    <3>1. PICK p \in Players : p = Owner[streams[h].escrow]
      BY <1>0, <1>7 DEF StreamDone, StreamBroken
    <3>2. users[p] # None => [users[p] EXCEPT !.presigned = TRUE] \in User
      BY DEF TypeOK, User
    <3>3. \/ users' = users
          \/ /\ users[p] # None
             /\ users' = [users EXCEPT ![p] = [users[p] EXCEPT !.presigned = TRUE]]
      BY <1>7, <3>1 DEF StreamDone, StreamBroken
    <3>4. QED
      BY <3>2, <3>3 DEF TypeOK
  <2>4. QED
    BY <1>7, <2>1, <2>2, <2>3 DEF StreamDone, StreamBroken, TypeOK
<1>8. QED
  BY <1>1, <1>2, <1>3, <1>4, <1>5, <1>6, <1>7

LEMMA EndTyped ==
  ASSUME TypeOK,
         \/ StartGame \/ HandleGameEnded \/ RemoveTable \/ TrySettlement
         \/ BroadcastFails
  PROVE  TypeOK'
<1>1. CASE StartGame
  <2>1. starts' \in 0 .. MaxStarts
    BY <1>1, ConstantsAssumption DEF StartGame, TypeOK
  <2>2. settlement' \in Settlement
    BY <1>1 DEF StartGame, TypeOK, Settlement, Seated
  <2>3. QED
    BY <1>1, <2>1, <2>2 DEF StartGame, TypeOK
<1>2. CASE HandleGameEnded
  <2>1. referee' \in RefereeState
    BY <1>2 DEF HandleGameEnded, TypeOK, RefereeState
  <2>2. settlement' \in Settlement
    BY <1>2 DEF HandleGameEnded, TypeOK, Settlement
  <2>3. QED
    BY <1>2, <2>1, <2>2 DEF HandleGameEnded, TypeOK
<1>3. CASE RemoveTable
  BY <1>3 DEF RemoveTable, TypeOK
<1>4. CASE TrySettlement \/ BroadcastFails
  <2>1. settlement' \in Settlement
    BY <1>4 DEF TrySettlement, BroadcastFails, TypeOK, Settlement
  <2>2. QED
    BY <1>4, <2>1 DEF TrySettlement, BroadcastFails, TypeOK
<1>5. QED
  BY <1>1, <1>2, <1>3, <1>4

-----------------------------------------------------------------------------
(* How the users may change.                                               *)

\* Nobody moves and nobody loses an escrow.
SeatsStay ==
  \A p \in Players :
    /\ users'[p] = None <=> users[p] = None
    /\ users[p] # None =>
         /\ users'[p].seat = users[p].seat
         /\ users'[p].escrow = users[p].escrow \/ users'[p].escrow # None

\* Nobody changes the escrow either.
SameSeats ==
  \A p \in Players :
    /\ users'[p] = None <=> users[p] = None
    /\ users[p] # None => /\ users'[p].seat = users[p].seat
                          /\ users'[p].escrow = users[p].escrow

LEMMA SameUsersSame == UNCHANGED users => SameSeats
  BY DEF SameSeats

LEMMA SameSeatsStay == SameSeats => SeatsStay
  BY DEF SameSeats, SeatsStay

LEMMA SameSeatsKeep ==
  ASSUME SameSeats
  PROVE  /\ Stakes' = Stakes /\ Full' = Full
         /\ \A s \in Seats, e \in Escrows : Backs(s, e)' <=> Backs(s, e)
<1>1. \A s \in Seats, e \in Escrows : Backs(s, e)' <=> Backs(s, e)
  BY Numbers DEF SameSeats, Backs
<1>2. Stakes' = Stakes
  BY Numbers DEF SameSeats, Stakes
<1>3. Full' = Full
  BY <1>1 DEF Full
<1>4. QED
  BY <1>1, <1>2, <1>3

\* An escrow in use goes on backing its seat.
LEMMA UsedBacks ==
  ASSUME SeatsStay, Alone', NEW s, NEW e \in Escrows, Backs(s, e),
         \/ \E d \in Escrows : e \in referee'.presigns.sig[d]
         \/ \E h \in Handlers : \/ streams'[h].at # "idle" /\ streams'[h].escrow = e
                                \/ e \in streams'[h].draft
                                \/ \E t \in Seats : streams'[h].snap[t] = e
  PROVE  Backs(s, e)'
<1>1. Owner[e] \in Players /\ e # None
  BY Numbers
<1>2. users'[Owner[e]] # None /\ users'[Owner[e]].seat = s
  BY <1>1 DEF SeatsStay, Backs
<1>3. users'[Owner[e]].escrow = e
  <2>1. users'[Owner[e]].escrow = e \/ users'[Owner[e]].escrow # None
    BY <1>1 DEF SeatsStay, Backs
  <2>2. users'[Owner[e]].escrow \in {None, e}
    BY <1>2 DEF Alone
  <2>3. QED
    BY <1>1, <2>1, <2>2
<1>4. QED
  BY <1>2, <1>3 DEF Backs

\* Once something has been signed or drafted no seat changes its escrow.
LEMMA StakesStay ==
  ASSUME users \in [Players -> User \cup {None}], UsersOK, UsersOK',
         Full, SeatsStay, Alone',
         \/ \E h \in Handlers : streams'[h].draft = Stakes
         \/ \E d \in Escrows : referee'.presigns.sig[d] = Stakes
  PROVE  SameSeats
<1> SUFFICES ASSUME NEW p \in Players, users[p] # None
             PROVE  users'[p].escrow = users[p].escrow
  BY DEF SeatsStay, SameSeats
<1>1. users[p].seat \in Seats
  BY DEF User
<1>2. PICK e \in Escrows : Backs(users[p].seat, e)
  BY <1>1 DEF Full
<1>3. Owner[e] = p
  BY <1>2, Numbers DEF UsersOK, Backs
<1>4. e \in Stakes
  BY <1>2 DEF Backs, Stakes
<1>5. Backs(users[p].seat, e)'
  <2>1. Backs(users[p].seat, e)
    BY <1>2
  <2>2. PICK s : s = users[p].seat
    OBVIOUS
  <2>3. Backs(s, e)'
    BY <1>4, <2>1, <2>2, UsedBacks
  <2>4. users'[p].seat = users[p].seat
    BY DEF SeatsStay
  <2>5. QED
    BY <2>2, <2>3, <2>4, <1>3 DEF Backs
<1>6. QED
  BY <1>2, <1>3, <1>5 DEF Backs

LEMMA UsersChange ==
  ASSUME TypeOK, UsersOK, CallsOK, StreamsOK
  PROVE  /\ \A p \in Players :
              SetPlayerReady(p) \/ SetPlayerUnready(p) \/ LeaveReset(p) => SameSeats
         /\ \A p \in Players : BindWrite(p) => SeatsStay
         /\ \A h \in Handlers : StreamDone(h) => SameSeats
         /\ \A h \in Handlers, e \in Escrows : StreamHello(h, e) => SeatsStay
<1>1. ASSUME NEW p \in Players, SetPlayerReady(p) \/ SetPlayerUnready(p) PROVE SameSeats
  <2>1. PICK b \in BOOLEAN : /\ users[p] # None
                             /\ users' = [users EXCEPT ![p].ready = b]
    BY <1>1 DEF SetPlayerReady, SetPlayerUnready
  <2>2. users[p] \in User /\ users'[p] = [users[p] EXCEPT !.ready = b]
        /\ \A q \in Players : q # p => users'[q] = users[q]
    BY <2>1 DEF TypeOK
  <2>3. [users[p] EXCEPT !.ready = b] # None
    BY <2>2, NoneAssumption DEF User
  <2>4. QED
    BY <2>1, <2>2, <2>3 DEF SameSeats, User
<1>2. ASSUME NEW p \in Players, LeaveReset(p) PROVE SameSeats
  <2>1. \A q \in Players : users'[q] = IF users[q] = None THEN None
                                 ELSE [users[q] EXCEPT !.presigned = FALSE]
    BY <1>2 DEF LeaveReset
  <2>2. \A q \in Players : users[q] # None =>
          users[q] \in User /\ [users[q] EXCEPT !.presigned = FALSE] \in User
    BY DEF TypeOK, User
  <2>3. QED
    BY <2>1, <2>2, NoneAssumption DEF SameSeats, User
<1>3. ASSUME NEW p \in Players, BindWrite(p) PROVE SeatsStay
  <2>1. calls[p].escrow \in Escrows /\ calls[p].escrow # None
    BY <1>3, Numbers DEF BindWrite, CallsOK
  <2>2. CASE UNCHANGED users
    BY <2>2, SameUsersSame, SameSeatsStay
  <2>3. CASE users[p] # None /\ SendEscrowBound(p, calls[p].escrow)
    <3>1. users[p] \in User
          /\ users'[p] = [users[p] EXCEPT !.escrow = calls[p].escrow, !.funded = TRUE]
          /\ \A q \in Players : q # p => users'[q] = users[q]
      BY <2>3 DEF TypeOK, SendEscrowBound
    <3>2. users'[p] # None /\ users'[p].seat = users[p].seat /\ users'[p].escrow = calls[p].escrow
      BY <2>1, <3>1, NoneAssumption DEF User
    <3>3. QED
      BY <2>1, <2>3, <3>1, <3>2 DEF SeatsStay
  <2>4. QED
    BY <1>3, <2>2, <2>3 DEF BindWrite
<1>4. ASSUME NEW h \in Handlers, StreamDone(h) PROVE SameSeats
  <2>1. CASE UNCHANGED users
    BY <2>1, SameUsersSame
  <2>2. PICK p \in Players : p = Owner[streams[h].escrow]
    BY <1>4, Numbers DEF StreamDone, StreamsOK, StreamTrue
  <2>3. CASE users[p] # None /\ users' = [users EXCEPT ![p].presigned = TRUE]
    <3>1. users[p] \in User
          /\ users'[p] = [users[p] EXCEPT !.presigned = TRUE]
          /\ \A q \in Players : q # p => users'[q] = users[q]
      BY <2>3 DEF TypeOK
    <3>2. users'[p] # None
      BY <3>1, NoneAssumption DEF User
    <3>3. QED
      BY <2>3, <3>1, <3>2 DEF SameSeats, User
  <2>4. QED
    BY <1>4, <2>1, <2>2, <2>3 DEF StreamDone
<1>5. ASSUME NEW h \in Handlers, NEW e \in Escrows, StreamHello(h, e) PROVE SeatsStay
  <2>1. Owner[e] \in Players /\ users[Owner[e]] # None /\ users[Owner[e]] \in User
        /\ users'[Owner[e]] = [users[Owner[e]] EXCEPT !.escrow = e, !.funded = TRUE]
        /\ \A q \in Players : q # Owner[e] => users'[q] = users[q]
    BY <1>5, Numbers DEF StreamHello, SendEscrowBound, TypeOK
  <2>2. users'[Owner[e]] # None /\ users'[Owner[e]].seat = users[Owner[e]].seat
        /\ users'[Owner[e]].escrow = e /\ e # None
    <3>1. PICK u \in User : u = users[Owner[e]]
      BY <2>1
    <3>2. /\ [u EXCEPT !.escrow = e, !.funded = TRUE] \in User
          /\ [u EXCEPT !.escrow = e, !.funded = TRUE].seat = u.seat
          /\ [u EXCEPT !.escrow = e, !.funded = TRUE].escrow = e
      BY DEF User
    <3>3. users'[Owner[e]] = [u EXCEPT !.escrow = e, !.funded = TRUE]
      BY <2>1, <3>1
    <3>4. QED
      BY <3>1, <3>2, <3>3, Numbers, NoneAssumption
  <2>3. QED
    BY <2>1, <2>2 DEF SeatsStay
<1>6. QED
  BY <1>1, <1>2, <1>3, <1>4, <1>5

-----------------------------------------------------------------------------
(* The steps, and what they keep of users, calls and streams.              *)

LeaveStep(p) == LeaveClear(p) \/ LeaveRemove(p) \/ LeaveReset(p)
LobbyStep(p) == SetPlayerReady(p) \/ SetPlayerUnready(p)
BindStep(e)  == BindEscrow(Owner[e], e) \/ BindRefused(Owner[e], e)
StreamStep(h) ==
  \/ \E e \in Escrows : StreamHello(h, e)
  \/ StreamSnapshot(h) \/ StreamPrepare(h) \/ PresigMap(h)
  \/ PresigStore(h) \/ StreamEOF(h) \/ StreamDone(h) \/ StreamBroken(h)
EndStep ==
  \/ StartGame \/ (\E p \in Players : GameOver(p)) \/ HandleGameEnded \/ RemoveTable
  \/ TrySettlement \/ GetFinalizeBundle \/ Broadcast \/ BroadcastFails

Step ==
  \/ \E p \in Players : \/ JoinTable(p) \/ LeaveTable(p) \/ BindWrite(p)
                        \/ LobbyStep(p) \/ LeaveStep(p)
  \/ \E e \in Escrows : BindStep(e)
  \/ \E h \in Handlers : StreamStep(h)
  \/ EndStep

LEMMA NextIsStep ==
  ASSUME MayOverlap = {}, Next
  PROVE  Step /\ Overlaps' = {}
<1>1. Explored => Overlaps' = {}
  BY DEF Explored
<1>2. Explored
  BY DEF Next
<1>3. Step
  BY DEF Next, Step, LobbyStep, LeaveStep, BindStep, StreamStep, EndStep
<1>4. QED
  BY <1>1, <1>2, <1>3

LEMMA QuietUsers ==
  /\ \A e \in Escrows : BindStep(e) => UNCHANGED users
  /\ \A h \in Handlers : StreamStep(h) =>
       UNCHANGED calls /\ (UNCHANGED users \/ StreamDone(h) \/ \E e \in Escrows : StreamHello(h, e))
  /\ EndStep => UNCHANGED <<users, calls>>
<1>1. \A e \in Escrows : BindStep(e) => UNCHANGED users
  BY DEF BindStep, BindEscrow, BindRefused
<1>2. \A h \in Handlers : StreamStep(h) =>
       UNCHANGED calls /\ (UNCHANGED users \/ StreamDone(h) \/ \E e \in Escrows : StreamHello(h, e))
  BY DEF StreamStep, StreamHello, StreamSnapshot, StreamPrepare, PresigMap, PresigStore,
         StreamEOF, StreamDone, StreamBroken
<1>3. EndStep => UNCHANGED <<users, calls>>
  BY DEF EndStep, StartGame, GameOver, HandleGameEnded, RemoveTable, TrySettlement,
         GetFinalizeBundle, Broadcast, BroadcastFails
<1>4. QED
  BY <1>1, <1>2, <1>3

\* Who joins takes a free seat.
LEMMA JoinSeat ==
  ASSUME TypeOK, NEW p \in Players, JoinTable(p)
  PROVE  \E s \in Seats :
           /\ \A q \in Players : users[q] # None => users[q].seat # s
           /\ users' = [users EXCEPT ![p] =
                [seat |-> s, ready |-> FALSE, escrow |-> None, funded |-> FALSE,
                 presigned |-> FALSE]]
<1>1. FreeSeats \subseteq Seats /\ FreeSeats # {}
  BY DEF JoinTable, FreeSeats
<1>2. \E s \in FreeSeats : \A t \in FreeSeats : s <= t
  BY <1>1, Numbers, LeastNat
<1>3. PICK s \in FreeSeats : users' = [users EXCEPT ![p] =
        [seat |-> s, ready |-> FALSE, escrow |-> None, funded |-> FALSE,
         presigned |-> FALSE]]
  BY <1>2 DEF JoinTable
<1>4. \A q \in Players : users[q] # None => users[q].seat # s
  BY <1>3 DEF FreeSeats, Seated
<1>5. QED
  BY <1>1, <1>3, <1>4

\* One user's entry changes.
LEMMA OneUser ==
  ASSUME TypeOK, UsersOK, NEW p \in Players, NEW u \in User, users[p] # None,
         users' = [users EXCEPT ![p] = u],
         u.seat = users[p].seat,
         u.escrow # None => Owner[u.escrow] = p /\ u.funded,
         u.ready /\ u.escrow = None => calls'[p].at = "removing",
         \A q \in Players : q # p /\ calls[q].at = "removing" => calls'[q].at = "removing"
  PROVE  UsersOK'
<1>1. users'[p] = u /\ u # None /\ \A q \in Players : q # p => users'[q] = users[q]
  BY NoneAssumption DEF TypeOK
<1>2. \A q \in Players : (users'[q] = None <=> users[q] = None)
        /\ (users[q] # None => users'[q].seat = users[q].seat)
  BY <1>1
<1>3. \A q, r \in Players :
        users'[q] # None /\ users'[r] # None /\ users'[q].seat = users'[r].seat => q = r
  BY <1>2 DEF UsersOK
<1>4. \A q \in Players :
        users'[q] # None /\ users'[q].escrow # None =>
          Owner[users'[q].escrow] = q /\ users'[q].funded
  BY <1>1 DEF UsersOK
<1>5. \A q \in Players :
        users'[q] # None /\ users'[q].ready /\ users'[q].escrow = None =>
          calls'[q].at = "removing"
  BY <1>1 DEF UsersOK
<1>6. QED
  BY <1>3, <1>4, <1>5 DEF UsersOK

LEMMA UsersKept ==
  ASSUME RefereeInv, Step
  PROVE  UsersOK'
<1>0. TypeOK /\ UsersOK /\ CallsOK /\ StreamsOK
  BY DEF RefereeInv
<1>1. ASSUME NEW p \in Players, JoinTable(p) PROVE UsersOK'
  <2>1. PICK s \in Seats :
          /\ \A q \in Players : users[q] # None => users[q].seat # s
          /\ users' = [users EXCEPT ![p] =
               [seat |-> s, ready |-> FALSE, escrow |-> None, funded |-> FALSE,
                presigned |-> FALSE]]
    BY <1>0, <1>1, JoinSeat
  <2>2. /\ users'[p].seat = s /\ ~users'[p].ready /\ users'[p].escrow = None
        /\ \A q \in Players : q # p => users'[q] = users[q]
    BY <1>0, <2>1 DEF TypeOK
  <2>3. UNCHANGED calls
    BY <1>1 DEF JoinTable
  <2>4. QED
    BY <1>0, <2>1, <2>2, <2>3 DEF UsersOK
<1>2. ASSUME NEW p \in Players, LobbyStep(p) PROVE UsersOK'
  <2>1. PICK b \in BOOLEAN : /\ users[p] # None /\ (b => users[p].escrow # None)
                             /\ users' = [users EXCEPT ![p] = [users[p] EXCEPT !.ready = b]]
                             /\ UNCHANGED calls
    BY <1>2 DEF LobbyStep, SetPlayerReady, SetPlayerUnready
  <2>2. users[p] \in User
    BY <1>0, <2>1 DEF TypeOK
  <2>3. PICK u \in User : u = [users[p] EXCEPT !.ready = b]
    BY <2>2 DEF User
  <2>4. u.seat = users[p].seat /\ u.escrow = users[p].escrow /\ u.funded = users[p].funded
        /\ u.ready = b
    BY <2>2, <2>3 DEF User
  <2>5. QED
    BY <1>0, <2>1, <2>3, <2>4, OneUser DEF UsersOK
<1>3. ASSUME NEW p \in Players, LeaveClear(p) PROVE UsersOK'
  <2>1. /\ calls[p].at = "clearing" /\ calls' = [calls EXCEPT ![p].at = "removing"]
        /\ users' = users
           \/ (users[p] # None
               /\ users' = [users EXCEPT ![p] = [users[p] EXCEPT !.escrow = None, !.funded = FALSE]])
    BY <1>3 DEF LeaveClear
  <2>2. calls'[p].at = "removing" /\ \A q \in Players : q # p => calls'[q] = calls[q]
    BY <1>0, <2>1 DEF TypeOK, Call
  <2>3. CASE users' = users
    BY <1>0, <2>1, <2>2, <2>3 DEF UsersOK
  <2>4. CASE users[p] # None
             /\ users' = [users EXCEPT ![p] = [users[p] EXCEPT !.escrow = None, !.funded = FALSE]]
    <3>1. users[p] \in User
      BY <1>0, <2>4 DEF TypeOK
    <3>2. PICK u \in User : u = [users[p] EXCEPT !.escrow = None, !.funded = FALSE]
      BY <3>1 DEF User
    <3>3. u.seat = users[p].seat /\ u.escrow = None
      BY <3>1, <3>2 DEF User
    <3>4. QED
      BY <1>0, <2>2, <2>4, <3>2, <3>3, OneUser
  <2>5. QED
    BY <2>1, <2>3, <2>4
<1>4. ASSUME NEW p \in Players, LeaveRemove(p) PROVE UsersOK'
  <2>1. users'[p] = None /\ (\A q \in Players : q # p => users'[q] = users[q])
        /\ (\A q \in Players : q # p => calls'[q] = calls[q])
    BY <1>0, <1>4 DEF LeaveRemove, TypeOK
  <2>2. QED
    BY <1>0, <2>1 DEF UsersOK
<1>5. ASSUME NEW p \in Players, LeaveReset(p) PROVE UsersOK'
  <2>1. /\ \A q \in Players : users'[q] = IF users[q] = None THEN None
                                          ELSE [users[q] EXCEPT !.presigned = FALSE]
        /\ calls[p].at = "resetting"
        /\ \A q \in Players : q # p => calls'[q] = calls[q]
    BY <1>0, <1>5 DEF LeaveReset, TypeOK
  <2>2. \A q \in Players : users[q] # None => users[q] \in User
    BY <1>0 DEF TypeOK
  <2>3. \A q \in Players : users'[q] # None =>
          /\ users[q] # None /\ users'[q].seat = users[q].seat
          /\ users'[q].escrow = users[q].escrow /\ users'[q].ready = users[q].ready
          /\ users'[q].funded = users[q].funded
    <3>1. TAKE q \in Players
    <3>2. HAVE users'[q] # None
    <3>3. PICK u \in User : u = users[q]
      BY <2>1, <2>2, <3>2
    <3>4. users'[q] = [u EXCEPT !.presigned = FALSE]
      BY <2>1, <3>2, <3>3
    <3>5. QED
      BY <3>3, <3>4, NoneAssumption DEF User
  <2>4. \A q \in Players : calls[q].at = "removing" => calls'[q].at = "removing"
    BY <2>1
  <2> HIDE DEF UsersOK
  <2>5. UsersOK
    BY <1>0
  <2>6. \A q, r \in Players :
          users'[q] # None /\ users'[r] # None /\ users'[q].seat = users'[r].seat => q = r
    BY <2>3, <2>5 DEF UsersOK
  <2>7. \A q \in Players : users'[q] # None /\ users'[q].escrow # None =>
          Owner[users'[q].escrow] = q /\ users'[q].funded
    BY <2>3, <2>5 DEF UsersOK
  <2>8. \A q \in Players :
          users'[q] # None /\ users'[q].ready /\ users'[q].escrow = None =>
            calls'[q].at = "removing"
    BY <2>3, <2>4, <2>5 DEF UsersOK
  <2>9. QED
    BY <2>6, <2>7, <2>8 DEF UsersOK
<1>6. ASSUME NEW p \in Players, LeaveTable(p) PROVE UsersOK'
  BY <1>0, <1>6 DEF LeaveTable, UsersOK, TypeOK
<1>7. ASSUME NEW e \in Escrows, BindStep(e) PROVE UsersOK'
  <2>1. UNCHANGED users /\ \A q \in Players : calls'[q] = calls[q] \/ calls[q].at = "idle"
    BY <1>0, <1>7 DEF BindStep, BindEscrow, BindRefused, TypeOK
  <2>2. QED
    BY <1>0, <2>1 DEF UsersOK
<1>8. ASSUME NEW p \in Players, BindWrite(p) PROVE UsersOK'
  <2>1. /\ calls[p].at = "binding" /\ \A q \in Players : q # p => calls'[q] = calls[q]
        /\ calls[p].escrow \in Escrows /\ Owner[calls[p].escrow] = p /\ users[p] # None
    BY <1>0, <1>8 DEF BindWrite, TypeOK, CallsOK
  <2>2. CASE UNCHANGED users
    BY <1>0, <2>1, <2>2 DEF UsersOK
  <2>3. CASE SendEscrowBound(p, calls[p].escrow)
    <3>1. PICK u \in User : u = [users[p] EXCEPT !.escrow = calls[p].escrow, !.funded = TRUE]
      BY <1>0, <2>1 DEF TypeOK, User
    <3>2. u.seat = users[p].seat /\ u.escrow = calls[p].escrow /\ u.funded /\ u.escrow # None
      BY <1>0, <2>1, <3>1, Numbers DEF TypeOK, User
    <3>3. users' = [users EXCEPT ![p] = u]
      BY <2>3, <3>1 DEF SendEscrowBound
    <3>4. QED
      BY <1>0, <2>1, <3>2, <3>3, OneUser
  <2>4. QED
    BY <1>8, <2>2, <2>3 DEF BindWrite
<1>9. ASSUME NEW h \in Handlers, StreamStep(h) PROVE UsersOK'
  <2>0. UNCHANGED calls
    BY <1>9, QuietUsers
  <2>1. CASE UNCHANGED users
    BY <1>0, <2>0, <2>1 DEF UsersOK
  <2>2. ASSUME NEW e \in Escrows, StreamHello(h, e) PROVE UsersOK'
    <3>1. Owner[e] \in Players /\ e # None /\ users[Owner[e]] # None
      BY <2>2, Numbers DEF StreamHello
    <3>2. PICK u \in User : u = [users[Owner[e]] EXCEPT !.escrow = e, !.funded = TRUE]
      BY <1>0, <3>1 DEF TypeOK, User
    <3>3. u.seat = users[Owner[e]].seat /\ u.escrow = e /\ u.funded
      BY <1>0, <3>1, <3>2 DEF TypeOK, User
    <3>4. users' = [users EXCEPT ![Owner[e]] = u]
      BY <2>2, <3>2 DEF StreamHello, SendEscrowBound
    <3>5. QED
      BY <1>0, <2>0, <3>1, <3>3, <3>4, OneUser
  <2>3. CASE StreamDone(h) /\ ~UNCHANGED users
    <3>1. PICK p \in Players : p = Owner[streams[h].escrow]
      BY <1>0, <2>3, Numbers DEF StreamDone, StreamsOK, StreamTrue
    <3>2. users[p] # None
          /\ users' = [users EXCEPT ![p] = [users[p] EXCEPT !.presigned = TRUE]]
      BY <2>3, <3>1 DEF StreamDone
    <3>3. PICK u \in User : u = [users[p] EXCEPT !.presigned = TRUE]
      BY <1>0, <3>2 DEF TypeOK, User
    <3>4. u.seat = users[p].seat /\ u.escrow = users[p].escrow
          /\ u.funded = users[p].funded /\ u.ready = users[p].ready
      BY <1>0, <3>2, <3>3 DEF TypeOK, User
    <3>5. QED
      BY <1>0, <2>0, <3>2, <3>3, <3>4, OneUser DEF UsersOK
  <2>4. QED
    BY <1>9, <2>1, <2>2, <2>3, QuietUsers
<1>10. CASE EndStep
  BY <1>0, <1>10, QuietUsers DEF UsersOK
<1>11. QED
  BY <1>1, <1>2, <1>3, <1>4, <1>5, <1>6, <1>7, <1>8, <1>9, <1>10 DEF Step, LeaveStep

LEMMA CallsKept ==
  ASSUME RefereeInv, Step
  PROVE  CallsOK'
<1>0. TypeOK /\ UsersOK /\ CallsOK /\ StreamsOK
  BY DEF RefereeInv
<1>1. ASSUME NEW p \in Players, JoinTable(p) PROVE CallsOK'
  <2>1. UNCHANGED calls /\ users[p] = None /\ \A q \in Players : q # p => users'[q] = users[q]
    BY <1>0, <1>1 DEF JoinTable, TypeOK
  <2>2. QED
    BY <1>0, <2>1 DEF CallsOK
<1>2. ASSUME NEW p \in Players, LobbyStep(p) PROVE CallsOK'
  <2>1. SameSeats /\ UNCHANGED calls
    BY <1>0, <1>2, UsersChange DEF LobbyStep, SetPlayerReady, SetPlayerUnready
  <2>2. QED
    BY <1>0, <2>1 DEF SameSeats, CallsOK
<1>3. ASSUME NEW p \in Players, LeaveClear(p) \/ LeaveRemove(p) \/ LeaveTable(p) PROVE CallsOK'
  <2>1. /\ calls'[p].at # "binding"
        /\ \A q \in Players : q # p => calls'[q] = calls[q] /\ users'[q] = users[q]
    BY <1>0, <1>3 DEF LeaveClear, LeaveRemove, LeaveTable, TypeOK, Call
  <2>2. QED
    BY <1>0, <2>1 DEF CallsOK
<1>4. ASSUME NEW p \in Players, LeaveReset(p) PROVE CallsOK'
  <2>1. SameSeats /\ calls'[p].at # "binding"
        /\ \A q \in Players : q # p => calls'[q] = calls[q]
    BY <1>0, <1>4, UsersChange DEF LeaveReset, TypeOK, Idle
  <2>2. QED
    BY <1>0, <2>1 DEF SameSeats, CallsOK
<1>5. ASSUME NEW e \in Escrows, BindStep(e) PROVE CallsOK'
  <2>1. CASE BindEscrow(Owner[e], e)
    <3>1. Owner[e] \in Players /\ users[Owner[e]] # None /\ UNCHANGED users
          /\ calls'[Owner[e]].escrow = e /\ calls'[Owner[e]].seat = users[Owner[e]].seat
          /\ \A q \in Players : q # Owner[e] => calls'[q] = calls[q]
      BY <1>0, <2>1, Numbers DEF BindEscrow, TypeOK, Call
    <3>2. QED
      BY <1>0, <3>1 DEF CallsOK
  <2>2. CASE BindRefused(Owner[e], e)
    BY <1>0, <2>2 DEF BindRefused, CallsOK
  <2>3. QED
    BY <1>5, <2>1, <2>2 DEF BindStep
<1>6. ASSUME NEW p \in Players, BindWrite(p) PROVE CallsOK'
  <2>1. SeatsStay /\ calls'[p].at # "binding"
        /\ \A q \in Players : q # p => calls'[q] = calls[q]
    BY <1>0, <1>6, UsersChange DEF BindWrite, TypeOK, Idle
  <2>2. QED
    BY <1>0, <2>1 DEF SeatsStay, CallsOK
<1>7. ASSUME NEW h \in Handlers, StreamStep(h) PROVE CallsOK'
  <2>1. UNCHANGED calls /\ SeatsStay
    BY <1>0, <1>7, QuietUsers, UsersChange, SameUsersSame, SameSeatsStay
  <2>2. QED
    BY <1>0, <2>1 DEF SeatsStay, CallsOK
<1>8. CASE EndStep
  BY <1>0, <1>8, QuietUsers DEF CallsOK
<1>9. QED
  BY <1>1, <1>2, <1>3, <1>4, <1>5, <1>6, <1>7, <1>8 DEF Step, LeaveStep

LEMMA StreamsNext ==
  ASSUME \A h \in Handlers : \E st : st = streams'[h] /\ StreamTrue(st)'
  PROVE  StreamsOK'
<1>1. ASSUME NEW h \in Handlers PROVE StreamTrue(streams[h])'
  <2>1. PICK st : st = streams'[h] /\ StreamTrue(st)'
    OBVIOUS
  <2>2. QED
    BY <2>1 DEF StreamTrue, Backs, True
<1>2. QED
  BY <1>1 DEF StreamsOK

\* A stream that goes on as it was, or further, keeps its seat if users stay.
LEMMA StreamStays ==
  ASSUME SeatsStay, Alone', NEW h \in Handlers, NEW st, NEW old,
         st = streams'[h], StreamTrue(old),
         \/ st = old
         \/ st.at = "idle"
         \/ /\ st.at # "snapped" /\ old.at # "idle"
            /\ st.seat = old.seat /\ st.escrow = old.escrow
  PROVE  StreamTrue(st)'
<1>1. ASSUME st.at # "idle" PROVE st.escrow \in Escrows /\ Backs(st.seat, st.escrow)'
  <2>1. PICK e, s : e = st.escrow /\ s = st.seat
    OBVIOUS
  <2>2. e \in Escrows /\ Backs(s, e)
    BY <1>1, <2>1 DEF StreamTrue
  <2>3. Backs(s, e)'
    BY <1>1, <2>1, <2>2, UsedBacks
  <2>4. QED
    BY <2>1, <2>2, <2>3
<1>2. ASSUME st.at = "snapped" PROVE st.snap[st.seat] = st.escrow /\ True(st.snap)'
  <2>1. st.snap[st.seat] = st.escrow /\ True(st.snap)
    BY <1>2 DEF StreamTrue
  <2>2. ASSUME NEW s \in Seats, st.snap[s] # None
        PROVE  st.snap[s] \in Escrows /\ Backs(s, st.snap[s])'
    <3>1. PICK x : x = st.snap[s]
      OBVIOUS
    <3>2. x \in Escrows /\ Backs(s, x)
      BY <2>1, <2>2, <3>1 DEF True
    <3>3. Backs(s, x)'
      BY <3>1, <3>2, UsedBacks
    <3>4. QED
      BY <3>1, <3>2, <3>3
  <2>3. QED
    BY <2>1, <2>2 DEF True
<1>3. QED
  BY <1>1, <1>2 DEF StreamTrue

LEMMA StreamsStay ==
  ASSUME StreamsOK, SeatsStay, Alone',
         \A h \in Handlers : streams'[h] = streams[h] \/ streams'[h].at = "idle"
                             \/ (/\ streams'[h].at # "snapped" /\ streams[h].at # "idle"
                                 /\ streams'[h].seat = streams[h].seat
                                 /\ streams'[h].escrow = streams[h].escrow)
  PROVE  StreamsOK'
<1>1. ASSUME NEW h \in Handlers PROVE \E st : st = streams'[h] /\ StreamTrue(st)'
  <2>1. PICK old, st : old = streams[h] /\ st = streams'[h]
    OBVIOUS
  <2>2. StreamTrue(old)
    BY <2>1 DEF StreamsOK
  <2>3. StreamTrue(st)'
    BY <2>1, <2>2, StreamStays
  <2>4. QED
    BY <2>1, <2>3
<1>2. QED
  BY <1>1, StreamsNext

LEMMA StreamsKept ==
  ASSUME RefereeInv, Step, Overlaps' = {}
  PROVE  StreamsOK'
<1>0. TypeOK /\ UsersOK /\ CallsOK /\ StreamsOK /\ Alone /\ Alone'
  BY NothingOverlaps DEF RefereeInv
<1>1. ASSUME NEW p \in Players, JoinTable(p) PROVE StreamsOK'
  <2>1. UNCHANGED streams /\ users[p] = None /\ \A q \in Players : q # p => users'[q] = users[q]
    BY <1>0, <1>1 DEF JoinTable, TypeOK
  <2>2. ASSUME NEW s, NEW e \in Escrows, Backs(s, e) PROVE Backs(s, e)'
    BY <2>1, <2>2, Numbers DEF Backs
  <2>3. ASSUME NEW h \in Handlers PROVE \E st : st = streams'[h] /\ StreamTrue(st)'
    <3>1. PICK st : st = streams[h] /\ st = streams'[h] /\ StreamTrue(st)
      BY <1>0, <2>1 DEF StreamsOK
    <3>2. StreamTrue(st)'
      BY <2>2, <3>1 DEF StreamTrue, True
    <3>3. QED
      BY <3>1, <3>2
  <2>4. QED
    BY <2>3, StreamsNext
<1>2. ASSUME NEW p \in Players, LeaveStep(p) PROVE StreamsOK'
  <2>1. Leaving /\ UNCHANGED streams
    BY <1>2 DEF LeaveStep, LeaveClear, LeaveRemove, LeaveReset, Leaving
  <2>2. \A h \in Handlers : streams'[h].at = "idle"
    BY <1>0, <2>1 DEF Alone
  <2>3. QED
    BY <2>2 DEF StreamsOK, StreamTrue
<1>3. ASSUME NEW p \in Players, LobbyStep(p) \/ BindWrite(p) \/ LeaveTable(p) PROVE StreamsOK'
  <2>1. SeatsStay /\ UNCHANGED streams
    BY <1>0, <1>3, UsersChange, SameSeatsStay, SameUsersSame
       DEF LobbyStep, SetPlayerReady, SetPlayerUnready, BindWrite, LeaveTable
  <2>2. QED
    BY <1>0, <2>1, StreamsStay
<1>4. ASSUME NEW e \in Escrows, BindStep(e) PROVE StreamsOK'
  <2>1. UNCHANGED <<users, streams>>
    BY <1>4 DEF BindStep, BindEscrow, BindRefused
  <2>2. QED
    BY <1>0, <2>1, StreamsStay, SameUsersSame, SameSeatsStay
<1>5. CASE EndStep
  <2>1. UNCHANGED <<users, streams>>
    BY <1>5 DEF EndStep, StartGame, GameOver, HandleGameEnded, RemoveTable, TrySettlement,
         GetFinalizeBundle, Broadcast, BroadcastFails
  <2>2. QED
    BY <1>0, <2>1, StreamsStay, SameUsersSame, SameSeatsStay
<1>6. ASSUME NEW h \in Handlers, NEW e \in Escrows, StreamHello(h, e) PROVE StreamsOK'
  <2>1. Owner[e] \in Players /\ users[Owner[e]] # None /\ users[Owner[e]] \in User
        /\ users'[Owner[e]] = [users[Owner[e]] EXCEPT !.escrow = e, !.funded = TRUE]
        /\ streams' = [streams EXCEPT ![h] = [NoStream EXCEPT !.at = "bound", !.escrow = e,
                                              !.seat = users[Owner[e]].seat]]
    BY <1>0, <1>6, Numbers DEF StreamHello, SendEscrowBound, TypeOK
  <2>2. SeatsStay
    BY <1>0, <1>6, UsersChange
  <2>3. ASSUME NEW g \in Handlers, g # h PROVE \E st : st = streams'[g] /\ StreamTrue(st)'
    <3>1. PICK st : st = streams[g] /\ st = streams'[g] /\ StreamTrue(st)
      BY <1>0, <2>1, <2>3 DEF TypeOK, StreamsOK
    <3>2. StreamTrue(st)'
      BY <1>0, <2>2, <3>1, StreamStays
    <3>3. QED
      BY <3>1, <3>2
  <2>4. PICK s, st : s = users[Owner[e]].seat /\ st = streams'[h]
    OBVIOUS
  <2>5. st.at = "bound" /\ st.seat = s /\ st.escrow = e
    BY <1>0, <2>1, <2>4 DEF TypeOK, NoStream
  <2>6. Backs(s, e)'
    <3>1. users'[Owner[e]].escrow = e
      BY <2>1 DEF User
    <3>2. users'[Owner[e]] # None /\ users'[Owner[e]].seat = s
      BY <2>1, <2>2, <2>4 DEF SeatsStay
    <3>3. QED
      BY <3>1, <3>2 DEF Backs
  <2>7. StreamTrue(st)'
    BY <2>5, <2>6 DEF StreamTrue
  <2>8. QED
    BY <2>3, <2>4, <2>7, StreamsNext
<1>7. ASSUME NEW h \in Handlers, StreamSnapshot(h) PROVE StreamsOK'
  <2>1. streams[h].at = "bound" /\ UNCHANGED users
        /\ streams' = [streams EXCEPT ![h].at = "snapped", ![h].snap = TableRoster(users)]
    BY <1>7 DEF StreamSnapshot
  <2>2. PICK e, s : e = streams[h].escrow /\ s = streams[h].seat
    OBVIOUS
  <2>3. /\ True(TableRoster(users)) /\ e \in Escrows /\ s \in Seats /\ Backs(s, e)
        /\ TableRoster(users)[s] = e
    BY <1>0, <2>1, <2>2, TableRosterTrue DEF StreamsOK, StreamTrue, TypeOK, Stream
  <2>4. PICK st : st = streams'[h]
    OBVIOUS
  <2>5. st.at = "snapped" /\ st.snap = TableRoster(users) /\ st.seat = s /\ st.escrow = e
    BY <1>0, <2>1, <2>2, <2>4 DEF TypeOK, Stream
  <2>6. StreamTrue(st)
    BY <2>3, <2>5 DEF StreamTrue
  <2>7. SeatsStay
    BY <2>1, SameUsersSame, SameSeatsStay
  <2>8. StreamTrue(st)'
    BY <1>0, <2>4, <2>6, <2>7, StreamStays
  <2>9. ASSUME NEW g \in Handlers, g # h PROVE \E sd : sd = streams'[g] /\ StreamTrue(sd)'
    <3>1. PICK sd : sd = streams[g] /\ sd = streams'[g] /\ StreamTrue(sd)
      BY <1>0, <2>1, <2>9 DEF TypeOK, StreamsOK
    <3>2. StreamTrue(sd)'
      BY <1>0, <2>7, <3>1, StreamStays
    <3>3. QED
      BY <3>1, <3>2
  <2>10. QED
    BY <2>4, <2>8, <2>9, StreamsNext
<1>8. ASSUME NEW h \in Handlers, StreamStep(h), ~StreamSnapshot(h),
             \A e \in Escrows : ~StreamHello(h, e)
      PROVE  StreamsOK'
  <2>1. SeatsStay
    BY <1>0, <1>8, QuietUsers, UsersChange, SameUsersSame, SameSeatsStay
  <2>2. \A g \in Handlers : g # h => streams'[g] = streams[g]
    BY <1>0, <1>8 DEF StreamStep, StreamPrepare, PresigMap, PresigStore, StreamEOF, StreamDone,
         StreamBroken, EndStream, TypeOK
  <2>3. streams'[h] = streams[h] \/ streams'[h].at = "idle"
        \/ (/\ streams'[h].at # "snapped" /\ streams[h].at # "idle"
            /\ streams'[h].seat = streams[h].seat /\ streams'[h].escrow = streams[h].escrow)
    BY <1>0, <1>8 DEF StreamStep, StreamPrepare, PresigMap, PresigStore, StreamEOF, StreamDone,
         StreamBroken, EndStream, TypeOK, Stream, NoStream
  <2>4. QED
    BY <1>0, <2>1, <2>2, <2>3, StreamsStay
<1>9. QED
  BY <1>1, <1>2, <1>3, <1>4, <1>5, <1>6, <1>7, <1>8 DEF Step, StreamStep

-----------------------------------------------------------------------------
(* What is known once everybody has come.                                  *)

\* All seats are backed once presigning is complete over the live roster.
LEMMA CompleteMatch ==
  ASSUME TypeOK, Rosters, PresigningComplete(referee)
  PROVE  \A s \in Seats : s \in referee.complete
<1>1. referee.match \in Roster
  BY DEF TypeOK, RefereeState
<1>2. SeatsOf(referee.match) # {} /\ SeatsOf(referee.match) \subseteq referee.complete
  <2>1. Cardinality({}) = 0
    BY FS_EmptySet
  <2>2. QED
    BY <2>1 DEF PresigningComplete
<1>3. \E s \in Seats : InDone(s)
  BY <1>2 DEF InDone, SeatsOf
<1>4. \A s \in Seats : referee.match[s] # None
  BY <1>2, <1>3 DEF Rosters, InDone, SeatsOf
<1>5. QED
  BY <1>2, <1>4 DEF SeatsOf

\* When everybody has come the frozen roster holds the stakes, everybody has
\* signed for them, and the branch of a seat is that of the escrow backing it.
LEMMA EverybodyHasCome ==
  ASSUME TypeOK, UsersOK, Prepared, Rosters,
         \A s \in Seats : s \in referee.complete
  PROVE  /\ SettlementRoster(referee) = referee.frozen
         /\ SeatsOf(referee.frozen) = Seats /\ EscrowsOf(referee.frozen) = Stakes
         /\ SeatsOf(referee.match) = Seats /\ referee.gamma
         /\ IsFiniteSet(Stakes) /\ Cardinality(Stakes) <= MaxPlayers
         /\ \A e \in Escrows : referee.presigns.sig[e] = IF e \in Stakes THEN Stakes ELSE {}
         /\ \A p \in Players : users[p] # None =>
              \E e \in Stakes :
                /\ Owner[e] = p
                /\ BranchesOfSeat(referee.frozen, users[p].seat) = {Index(Stakes, e)}
<1>1. referee.match \in Roster /\ referee.frozen \in Roster
      /\ users \in [Players -> User \cup {None}]
      /\ referee.presigns.sig \in [Escrows -> Draft]
  BY DEF TypeOK, RefereeState, Presigns
<1>2. \A s \in Seats : InDone(s)
  BY DEF InDone
<1>3. True(referee.frozen) /\ \A s \in Seats : referee.frozen[s] # None
  BY <1>2 DEF Rosters
<1>4. \A s \in Seats : referee.match[s] # None
  BY <1>2, Numbers DEF Rosters
<1>5. EscrowsOf(referee.frozen) = Stakes /\ SeatsOf(referee.frozen) = Seats
      /\ IsFiniteSet(Stakes) /\ Cardinality(Stakes) <= MaxPlayers
  BY <1>1, <1>3, RosterHoldsStakes
<1>6. SettlementRoster(referee) = referee.frozen
  <2>1. referee.frozen # NoRoster
    BY <1>3, Numbers DEF NoRoster
  <2>2. QED
    BY <2>1 DEF SettlementRoster
<1>7. SeatsOf(referee.match) = Seats
  BY <1>4 DEF SeatsOf
<1>8. referee.gamma /\ Full
  BY Numbers DEF Prepared
<1>9. \A e \in Stakes : /\ e \in Escrows /\ Owner[e] \in Players
                        /\ users[Owner[e]].seat \in Seats /\ Backs(users[Owner[e]].seat, e)
  <2>1. TAKE e \in Stakes
  <2>2. e \in Escrows /\ Owner[e] \in Players /\ users[Owner[e]] # None
        /\ users[Owner[e]].escrow = e
    BY Numbers DEF Stakes
  <2>3. QED
    BY <1>1, <2>2 DEF Backs, User
<1>10. \A e \in Stakes : /\ referee.presigns.sig[e] = Stakes
                         /\ session[e].seat = users[Owner[e]].seat
  <2>1. TAKE e \in Stakes
  <2>2. PICK s \in Seats : s = users[Owner[e]].seat /\ Backs(s, e) /\ e \in Escrows
    BY <1>9
  <2>3. QED
    BY <1>2, <2>2 DEF Prepared
<1>11. \A e \in Escrows : referee.presigns.sig[e] = IF e \in Stakes THEN Stakes ELSE {}
  BY <1>10 DEF Prepared
<1>12. ASSUME NEW p \in Players, users[p] # None
       PROVE  \E e \in Stakes :
                /\ Owner[e] = p
                /\ BranchesOfSeat(referee.frozen, users[p].seat) = {Index(Stakes, e)}
  <2>1. users[p].seat \in Seats
    BY <1>1, <1>12 DEF User
  <2>2. PICK e \in Escrows : Backs(users[p].seat, e)
    BY <1>8, <2>1 DEF Full
  <2>3. Owner[e] = p /\ e \in Stakes
    BY <1>12, <2>2, Numbers DEF UsersOK, Backs, Stakes
  <2>4. \A x \in Stakes : session[x].seat = users[p].seat <=> x = e
    <3>1. TAKE x \in Stakes
    <3>2. users[Owner[x]] # None /\ Owner[x] \in Players /\ users[Owner[x]].escrow = x
      BY <1>9 DEF Backs
    <3>3. session[x].seat = users[p].seat => Owner[x] = p
      BY <1>10, <1>12, <3>2 DEF UsersOK
    <3>4. QED
      BY <1>10, <2>2, <2>3, <3>2, <3>3 DEF Backs
  <2>5. BranchesOfSeat(referee.frozen, users[p].seat) = {Index(Stakes, e)}
    BY <1>5, <2>3, <2>4 DEF BranchesOfSeat
  <2>6. QED
    BY <2>3, <2>5
<1>13. QED
  BY <1>5, <1>6, <1>7, <1>8, <1>11, <1>12

\* The index of an escrow of the stakes is a branch.
LEMMA IndexIsBranch ==
  ASSUME IsFiniteSet(Stakes), Cardinality(Stakes) <= MaxPlayers, NEW e \in Stakes
  PROVE  Index(Stakes, e) \in Branches
<1> DEFINE Below == {x \in Stakes : x < e}
<1>1. e \in Nat /\ MaxPlayers \in Nat
  BY ConstantsAssumption DEF Stakes
<1>2. Below \in SUBSET Stakes /\ e \notin Below
  BY <1>1
<1>3. Below # Stakes
  BY <1>2
<1>4. /\ IsFiniteSet(Below) /\ Cardinality(Below) \in Nat /\ Cardinality(Stakes) \in Nat
      /\ Cardinality(Below) < Cardinality(Stakes)
  <2> HIDE DEF Below
  <2>1. IsFiniteSet(Below) /\ Cardinality(Below) <= Cardinality(Stakes)
        /\ Cardinality(Below) # Cardinality(Stakes)
    BY <1>2, <1>3, FS_Subset
  <2>2. Cardinality(Below) \in Nat /\ Cardinality(Stakes) \in Nat
    BY <2>1, FS_CardinalityType
  <2>3. QED
    BY <2>1, <2>2
<1>5. Index(Stakes, e) = Cardinality(Below)
  BY DEF Index
<1> HIDE DEF Below
<1>6. QED
  BY <1>1, <1>4, <1>5 DEF Branches

-----------------------------------------------------------------------------
(* The phases and the settlement.                                          *)

\* A step that leaves the phase and the settlement alone.
LEMMA PhaseStays ==
  ASSUME PhaseOK, UNCHANGED <<phase, settlement>>,
         Leaving' => Leaving \/ phase = "open",
         phase = "playing" => Seated' = Seated,
         \A s \in Seats : s \in referee.complete => s \in referee'.complete,
         phase = "open" /\ starts' > 0 => starts > 0 \/ \A s \in Seats : s \in referee'.complete
  PROVE  PhaseOK'
  BY DEF PhaseOK

LEMMA StayingSeated == SeatsStay => Seated' = Seated
  BY DEF SeatsStay, Seated

LEMMA PhaseKept ==
  ASSUME RefereeInv, Step, Overlaps' = {}
  PROVE  PhaseOK'
<1>0. /\ TypeOK /\ UsersOK /\ CallsOK /\ StreamsOK /\ PhaseOK /\ SettlementOK
      /\ Alone /\ Alone'
  BY NothingOverlaps DEF RefereeInv
<1>1. ASSUME NEW p \in Players, JoinTable(p) PROVE PhaseOK'
  BY <1>0, <1>1, PhaseStays DEF JoinTable, Leaving
<1>2. ASSUME SameSeats, UNCHANGED <<phase, settlement, referee, calls>>,
             starts' = starts \/ starts' = StartsAfter(users', referee)
      PROVE  PhaseOK'
  <2>1. Seated' = Seated
    BY <1>2, SameSeatsStay, StayingSeated
  <2>2. ASSUME phase = "open", starts' > 0, ~(starts > 0)
        PROVE  \A s \in Seats : s \in referee.complete
    <3>1. PresigningComplete(referee)
      BY <1>2, <2>2 DEF StartsAfter
    <3>2. ~Torn
      BY <1>0, <1>2, <2>2 DEF Alone, Leaving, Torn
    <3>3. Rosters
      BY <1>0, <2>2, <3>2 DEF RefereeInv, PhaseOK
    <3>4. QED
      BY <1>0, <3>1, <3>3, CompleteMatch
  <2>3. QED
    BY <1>0, <1>2, <2>1, <2>2, PhaseStays DEF Leaving
<1>3. ASSUME NEW p \in Players, LobbyStep(p) PROVE PhaseOK'
  BY <1>0, <1>2, <1>3, UsersChange DEF LobbyStep, SetPlayerReady, SetPlayerUnready
<1>4. ASSUME NEW p \in Players, LeaveTable(p) PROVE PhaseOK'
  <2>1. Seated' = Seated
    BY <1>4 DEF LeaveTable, Seated
  <2>2. QED
    BY <1>0, <1>4, <2>1, PhaseStays DEF LeaveTable
<1>5. ASSUME NEW p \in Players, LeaveStep(p) PROVE PhaseOK'
  <2>1. Leaving
    BY <1>5 DEF LeaveStep, LeaveClear, LeaveRemove, LeaveReset, Leaving
  <2>2. settlement.at = "none" /\ phase \notin {"playing", "over"} /\ ~(starts > 0)
    BY <1>0, <2>1 DEF PhaseOK, Alone
  <2>3. UNCHANGED <<settlement, starts>> /\ phase' \in {phase, "removed"}
    BY <1>5 DEF LeaveStep, LeaveClear, LeaveRemove, LeaveReset
  <2>4. QED
    BY <2>2, <2>3 DEF PhaseOK
<1>6. ASSUME NEW p \in Players, BindWrite(p) PROVE PhaseOK'
  <2>1. Seated' = Seated
    BY <1>0, <1>6, UsersChange, StayingSeated
  <2>2. Leaving' => Leaving
    BY <1>0, <1>6 DEF BindWrite, Leaving, Idle, TypeOK
  <2>3. referee'.complete = referee.complete
    BY <1>0, <1>6 DEF BindWrite, TypeOK, RefereeState
  <2>4. QED
    BY <1>0, <1>6, <2>1, <2>2, <2>3, PhaseStays DEF BindWrite
<1>7. ASSUME NEW e \in Escrows, BindStep(e) PROVE PhaseOK'
  <2>1. Leaving' => Leaving
    BY <1>0, <1>7 DEF BindStep, BindEscrow, BindRefused, Leaving, TypeOK
  <2>2. Seated' = Seated
    BY <1>7 DEF BindStep, BindEscrow, BindRefused, Seated
  <2>3. QED
    BY <1>0, <1>7, <2>1, <2>2, PhaseStays DEF BindStep, BindEscrow, BindRefused
<1>8. ASSUME NEW h \in Handlers, StreamDone(h) PROVE PhaseOK'
  BY <1>0, <1>2, <1>8, UsersChange DEF StreamDone
<1>9. ASSUME NEW h \in Handlers, StreamStep(h), ~StreamDone(h) PROVE PhaseOK'
  <2>1. Seated' = Seated
    BY <1>0, <1>9, QuietUsers, UsersChange, SameUsersSame, SameSeatsStay, StayingSeated
  <2>2. \A s \in Seats : s \in referee.complete => s \in referee'.complete
    <3>0. referee \in RefereeState
      BY <1>0 DEF TypeOK
    <3>1. CASE UNCHANGED referee
      BY <3>1
    <3>2. CASE StreamPrepare(h)
      BY <3>0, <3>2 DEF StreamPrepare, RefereeState
    <3>3. CASE PresigMap(h)
      BY <3>0, <3>3 DEF PresigMap, RefereeState
    <3>4. CASE PresigStore(h)
      BY <3>0, <3>4 DEF PresigStore, RefereeState
    <3>5. CASE StreamEOF(h)
      BY <3>0, <3>5 DEF StreamEOF, RefereeState
    <3>6. QED
      BY <1>9, <3>1, <3>2, <3>3, <3>4, <3>5
         DEF StreamStep, StreamHello, StreamSnapshot, StreamBroken
  <2>3. UNCHANGED <<phase, settlement, starts, calls>>
    BY <1>9 DEF StreamStep, StreamHello, StreamSnapshot, StreamPrepare, PresigMap,
         PresigStore, StreamEOF, StreamBroken
  <2>4. QED
    BY <1>0, <2>1, <2>2, <2>3, PhaseStays DEF Leaving
<1>10. CASE StartGame
  <2>1. starts > 0 /\ ~Leaving /\ starts \in Nat
    BY <1>0, <1>10, ConstantsAssumption DEF StartGame, Alone, TypeOK
  <2>2. Leaving' <=> Leaving
    BY <1>10 DEF StartGame, Leaving
  <2>3. Seated' = Seated /\ UNCHANGED referee
    BY <1>10 DEF StartGame, Seated
  <2>4. CASE phase' = "playing"
    <3>1. settlement' = [settlement EXCEPT !.players = Seated]
          /\ (phase = "playing" \/ phase = "open")
      BY <1>10, <2>4 DEF StartGame
    <3>2. settlement'.at = settlement.at /\ settlement'.players = Seated
      BY <1>0, <3>1 DEF TypeOK, Settlement
    <3>3. \A s \in Seats : s \in referee.complete
      BY <1>0, <2>1, <3>1 DEF PhaseOK
    <3>4. QED
      BY <1>0, <2>1, <2>2, <2>3, <2>4, <3>1, <3>2, <3>3 DEF PhaseOK
  <2>5. CASE phase' # "playing"
    <3>1. UNCHANGED <<phase, settlement>>
      BY <1>10, <2>5 DEF StartGame
    <3>2. QED
      BY <1>0, <2>1, <2>2, <2>3, <3>1, PhaseStays
  <2>6. QED
    BY <2>4, <2>5
<1>11. ASSUME NEW p \in Players, GameOver(p) PROVE PhaseOK'
  <2>1. phase = "playing" /\ phase' = "over" /\ settlement'.at = "ended"
        /\ UNCHANGED <<calls, referee>>
    BY <1>0, <1>11 DEF GameOver, TypeOK, Settlement
  <2>2. QED
    BY <1>0, <2>1 DEF PhaseOK, Leaving
<1>12. CASE RemoveTable
  <2>1. Seated' = Seated
    BY <1>12 DEF RemoveTable, Seated
  <2>2. QED
    BY <1>0, <1>12, <2>1 DEF RemoveTable, PhaseOK, Leaving
<1>13. CASE HandleGameEnded \/ TrySettlement \/ GetFinalizeBundle \/ BroadcastFails \/ Broadcast
  <2>1. /\ settlement.at \notin {"none", "paid"} /\ settlement'.at # "none"
        /\ UNCHANGED <<phase, calls>>
        /\ settlement'.at # "paid" => referee'.complete = referee.complete
    BY <1>0, <1>13 DEF HandleGameEnded, TrySettlement, GetFinalizeBundle, BroadcastFails,
         Broadcast, TypeOK, Settlement, RefereeState
  <2>2. QED
    BY <1>0, <2>1 DEF PhaseOK, Leaving
<1>14. QED
  BY <1>1, <1>3, <1>4, <1>5, <1>6, <1>7, <1>8, <1>9, <1>10, <1>11, <1>12, <1>13
     DEF Step, EndStep

\* Until the settlement is accepted only the seats of the sessions change.
LEMMA FundingStays ==
  ASSUME TypeOK, Step, ~Broadcast
  PROVE  \A e \in Escrows : session'[e].funding = session[e].funding
<1> DEFINE Good == \A e \in Escrows : session'[e].funding = session[e].funding
<1>1. ASSUME NEW d, NEW s, session' = [session EXCEPT ![d].seat = s] PROVE Good
  BY <1>1 DEF TypeOK, Session
<1>2. UNCHANGED session => Good
  OBVIOUS
<1>3. ASSUME NEW p \in Players, SetPlayerReady(p) PROVE Good
  BY <1>1, <1>3 DEF SetPlayerReady
<1>4. ASSUME NEW p \in Players, LeaveClear(p) PROVE Good
  BY <1>1, <1>2, <1>4 DEF LeaveClear
<1>5. ASSUME NEW p \in Players,
             JoinTable(p) \/ LeaveTable(p) \/ BindWrite(p) \/ SetPlayerUnready(p)
               \/ LeaveRemove(p) \/ LeaveReset(p)
      PROVE  Good
  BY <1>2, <1>5 DEF JoinTable, LeaveTable, BindWrite, SetPlayerUnready, LeaveRemove, LeaveReset
<1>6. ASSUME NEW e \in Escrows, BindStep(e) PROVE Good
  BY <1>1, <1>6 DEF BindStep, BindEscrow, BindRefused
<1>7. ASSUME NEW h \in Handlers, StreamPrepare(h) PROVE Good
  BY <1>1, <1>7 DEF StreamPrepare
<1>8. ASSUME NEW h \in Handlers, StreamStep(h), ~StreamPrepare(h) PROVE Good
  BY <1>2, <1>8 DEF StreamStep, StreamHello, StreamSnapshot, PresigMap, PresigStore,
     StreamEOF, StreamDone, StreamBroken
<1>9. ASSUME EndStep PROVE Good
  BY <1>2, <1>9 DEF EndStep, StartGame, GameOver, HandleGameEnded, RemoveTable,
     TrySettlement, GetFinalizeBundle, BroadcastFails
<1> HIDE DEF Good
<1>10. Good
  <2>1. ASSUME NEW p \in Players, LobbyStep(p) \/ LeaveStep(p) PROVE Good
    BY <1>3, <1>4, <1>5, <2>1 DEF LobbyStep, LeaveStep
  <2>2. ASSUME NEW h \in Handlers, StreamStep(h) PROVE Good
    BY <1>7, <1>8, <2>2
  <2>3. QED
    BY <1>5, <1>6, <1>9, <2>1, <2>2 DEF Step
<1>11. QED
  BY <1>10 DEF Good

\* The settlement is what the end of the game has left it.
LEMMA SettlementStays ==
  ASSUME SettlementOK, UNCHANGED paid,
         \A e \in Escrows : session'[e].funding = session[e].funding,
         settlement' = settlement,
         settlement.at \in {"ended", "try", "bundle"} => SeatsStay
  PROVE  SettlementOK'
  BY DEF SettlementOK, SeatsStay

\* What finds the end of the game settles it.
LEMMA EndsWell ==
  ASSUME RefereeInv, settlement.at \in {"ended", "try", "bundle", "send"}
  PROVE  /\ Prepared /\ Rosters /\ \A s \in Seats : s \in referee.complete
<1>1. ~Leaving /\ \A s \in Seats : s \in referee.complete
  BY DEF RefereeInv, PhaseOK
<1>2. ~Torn
  BY <1>1 DEF Leaving, Torn
<1>3. QED
  BY <1>1, <1>2 DEF RefereeInv

\* The checks of trySettlementBroadcast pass.
LEMMA LiveRosterReady ==
  ASSUME RefereeInv, settlement.at \in {"try", "bundle"}
  PROVE  /\ MatchReady(referee.match) /\ PresigningComplete(referee)
         /\ MatchReady(SettlementRoster(referee))
<1>1. TypeOK /\ UsersOK /\ Prepared /\ Rosters
      /\ (\A s \in Seats : s \in referee.complete)
      /\ \A e \in Escrows : session[e].funding = "ready"
  BY EndsWell DEF RefereeInv, SettlementOK
<1>2. SeatsOf(referee.match) = Seats /\ SettlementRoster(referee) = referee.frozen
      /\ SeatsOf(referee.frozen) = Seats
  BY <1>1, EverybodyHasCome
<1>3. Cardinality(Seats) >= 2
  <2>1. MaxPlayers \in Nat /\ MaxPlayers > 1
    BY ConstantsAssumption
  <2>2. QED
    BY <2>1, FS_Interval DEF Seats
<1>4. EscrowsOf(referee.match) \subseteq Escrows /\ EscrowsOf(referee.frozen) \subseteq Escrows
  BY <1>1 DEF TypeOK, RefereeState, Roster, EscrowsOf
<1>5. QED
  BY <1>1, <1>2, <1>3, <1>4 DEF MatchReady, PresigningComplete, Funded

\* GetFinalizeBundle returns the one draft, fully signed, and the branch that
\* pays the winner.
LEMMA BundlePays ==
  ASSUME RefereeInv, GetFinalizeBundle
  PROVE  \E e \in Stakes :
           /\ settlement' = [settlement EXCEPT !.at = "send", !.branch = Index(Stakes, e),
                               !.draft = Stakes, !.sig = referee.presigns.sig]
           /\ settlement.winner = Owner[e]
           /\ \A d \in Stakes : referee.presigns.sig[d] = Stakes
           /\ IsFiniteSet(Stakes) /\ Index(Stakes, e) \in Branches
<1>1. settlement.at = "bundle"
  BY DEF GetFinalizeBundle
<1>2. TypeOK /\ UsersOK /\ Prepared /\ Rosters
      /\ (\A s \in Seats : s \in referee.complete)
      /\ settlement.winner \in Players /\ users[settlement.winner] # None
      /\ settlement.seat = users[settlement.winner].seat
  BY <1>1, EndsWell DEF RefereeInv, SettlementOK
<1> DEFINE roster == SettlementRoster(referee)
           sig == referee.presigns.sig
           signers == {e \in Escrows : sig[e] # {}}
           branches == BranchesOfSeat(roster, settlement.seat)
<1>3. /\ roster = referee.frozen /\ referee.gamma
      /\ EscrowsOf(roster) = Stakes
      /\ IsFiniteSet(Stakes) /\ Cardinality(Stakes) <= MaxPlayers
      /\ \A e \in Escrows : sig[e] = IF e \in Stakes THEN Stakes ELSE {}
  BY <1>2, EverybodyHasCome
<1>4. PICK e \in Stakes : Owner[e] = settlement.winner /\ branches = {Index(Stakes, e)}
  BY <1>2, <1>3, EverybodyHasCome
<1>5. MatchReady(roster)
  BY <1>1, LiveRosterReady
<1>6. Stakes \subseteq Escrows
  BY DEF Stakes
<1>7. signers = Stakes
  BY <1>3, <1>6
<1>8. \A d \in Stakes : sig[d] = Stakes
  BY <1>3, <1>6
<1>9. Index(Stakes, e) \in Branches
  BY <1>3, IndexIsBranch
<1> DEFINE b == CHOOSE i \in branches : \A j \in branches : i <= j
<1>10. b = Index(Stakes, e)
  <2>1. Index(Stakes, e) <= Index(Stakes, e)
    BY <1>9, ConstantsAssumption DEF Branches
  <2>2. QED
    BY <1>4, <2>1
<1>11. \E d \in signers : settlement' = [settlement EXCEPT !.at = "send", !.branch = b,
                                           !.draft = sig[d], !.sig = sig]
  <2>1. ~(~MatchReady(roster) \/ branches = {} \/ ~referee.gamma
          \/ Cardinality(signers) # Cardinality(EscrowsOf(roster)))
    BY <1>3, <1>4, <1>5, <1>7
  <2>2. QED
    BY <2>1 DEF GetFinalizeBundle
<1>12. settlement' = [settlement EXCEPT !.at = "send", !.branch = Index(Stakes, e),
                        !.draft = Stakes, !.sig = sig]
  BY <1>7, <1>8, <1>10, <1>11
<1>13. QED
  BY <1>3, <1>4, <1>8, <1>9, <1>12

LEMMA SettlementKept ==
  ASSUME RefereeInv, Step, Overlaps' = {}
  PROVE  SettlementOK'
<1>0. /\ TypeOK /\ UsersOK /\ CallsOK /\ StreamsOK /\ PhaseOK /\ SettlementOK
      /\ Alone'
  BY NothingOverlaps DEF RefereeInv
<1>1. settlement \in Settlement
  BY <1>0 DEF TypeOK
<1>2. ASSUME ~EndStep PROVE SettlementOK'
  <2>1. UNCHANGED <<settlement, paid>>
    BY <1>2 DEF Step, LobbyStep, LeaveStep, BindStep, StreamStep, JoinTable, SetPlayerReady,
         SetPlayerUnready, LeaveTable, LeaveClear, LeaveRemove, LeaveReset, BindWrite,
         BindEscrow, BindRefused, StreamHello, StreamSnapshot, StreamPrepare, PresigMap,
         PresigStore, StreamEOF, StreamDone, StreamBroken
  <2>2. \A e \in Escrows : session'[e].funding = session[e].funding
    BY <1>0, <1>2, FundingStays DEF EndStep
  <2>3. ASSUME settlement.at # "none" PROVE SeatsStay
    <3>1. ~Leaving /\ phase \notin {"open", "playing"}
      BY <1>0, <2>3 DEF PhaseOK
    <3>2. ASSUME NEW p \in Players PROVE ~JoinTable(p) /\ ~LeaveStep(p)
      BY <3>1 DEF JoinTable, LeaveStep, LeaveClear, LeaveRemove, LeaveReset, Leaving
    <3>3. ASSUME NEW p \in Players, LeaveTable(p) \/ BindWrite(p) \/ LobbyStep(p) PROVE SeatsStay
      BY <1>0, <3>3, UsersChange, SameUsersSame, SameSeatsStay DEF LeaveTable, LobbyStep
    <3>4. ASSUME NEW e \in Escrows, BindStep(e) PROVE SeatsStay
      BY <3>4, QuietUsers, SameUsersSame, SameSeatsStay
    <3>5. ASSUME NEW h \in Handlers, StreamStep(h) PROVE SeatsStay
      BY <1>0, <3>5, QuietUsers, UsersChange, SameUsersSame, SameSeatsStay
    <3>6. QED
      BY <1>2, <3>2, <3>3, <3>4, <3>5 DEF Step
  <2>4. QED
    BY <1>0, <2>1, <2>2, <2>3, SettlementStays
<1>4. CASE StartGame
  <2>1. settlement' = settlement \/ (settlement.at = "none" /\ settlement'.at = "none"
                                     /\ settlement'.winner = settlement.winner)
    BY <1>0, <1>1, <1>4 DEF StartGame, PhaseOK, Settlement
  <2>2. UNCHANGED paid /\ SeatsStay /\ \A e \in Escrows : session'[e].funding = session[e].funding
    <3>1. UNCHANGED <<users, paid, session>>
      BY <1>4 DEF StartGame
    <3>2. QED
      BY <3>1, SameUsersSame, SameSeatsStay
  <2>3. CASE settlement' = settlement
    BY <1>0, <2>2, <2>3, SettlementStays
  <2>4. CASE settlement.at = "none" /\ settlement'.at = "none"
             /\ settlement'.winner = settlement.winner
    BY <1>0, <2>2, <2>4 DEF SettlementOK
  <2>5. QED
    BY <2>1, <2>3, <2>4
<1>5. ASSUME NEW p \in Players, GameOver(p) PROVE SettlementOK'
  <2>1. settlement.at = "none" /\ users[p] # None /\ UNCHANGED <<users, paid, session>>
    BY <1>0, <1>5 DEF GameOver, PhaseOK, Seated
  <2>2. settlement'.at = "ended" /\ settlement'.winner = p /\ settlement'.seat = users[p].seat
    BY <1>1, <1>5, <2>1 DEF GameOver, Settlement
  <2>3. QED
    BY <1>0, <2>1, <2>2 DEF SettlementOK
<1>6. CASE HandleGameEnded
  <2>1. settlement.at = "ended" /\ settlement.seat # None /\ UNCHANGED <<users, paid, session>>
    <3>1. settlement.at = "ended" /\ UNCHANGED <<users, paid, session>>
      BY <1>6 DEF HandleGameEnded
    <3>2. settlement.winner \in Players /\ users[settlement.winner] # None
          /\ settlement.seat = users[settlement.winner].seat
      BY <1>0, <3>1 DEF SettlementOK
    <3>3. settlement.seat \in Seats
      BY <1>0, <3>2 DEF TypeOK, User
    <3>4. QED
      BY <3>1, <3>3, Numbers
  <2>2. settlement'.at = "try" /\ settlement'.winner = settlement.winner
        /\ settlement'.seat = settlement.seat
    BY <1>1, <1>6, <2>1 DEF HandleGameEnded, Settlement
  <2>3. QED
    BY <1>0, <2>1, <2>2 DEF SettlementOK
<1>7. CASE RemoveTable
  BY <1>0, <1>7 DEF RemoveTable, SettlementOK
<1>8. CASE TrySettlement
  <2>1. settlement.at = "try" /\ UNCHANGED <<users, paid, session>>
    BY <1>8 DEF TrySettlement
  <2>2. MatchReady(referee.match) /\ PresigningComplete(referee)
    BY <2>1, LiveRosterReady
  <2>3. settlement'.at = "bundle" /\ settlement'.winner = settlement.winner
        /\ settlement'.seat = settlement.seat
    BY <1>1, <1>8, <2>2 DEF TrySettlement, Settlement
  <2>4. QED
    BY <1>0, <2>1, <2>3 DEF SettlementOK
<1>9. CASE GetFinalizeBundle
  <2>1. PICK e \in Stakes :
           /\ settlement' = [settlement EXCEPT !.at = "send", !.branch = Index(Stakes, e),
                               !.draft = Stakes, !.sig = referee.presigns.sig]
           /\ settlement.winner = Owner[e]
           /\ \A d \in Stakes : referee.presigns.sig[d] = Stakes
           /\ IsFiniteSet(Stakes) /\ Index(Stakes, e) \in Branches
    BY <1>9, BundlePays
  <2>2. PICK D, i, sig : D = Stakes /\ i = Index(Stakes, e) /\ sig = referee.presigns.sig
    OBVIOUS
  <2>3. settlement'.at = "send" /\ settlement'.branch = i
        /\ settlement'.draft = D /\ settlement'.sig = sig
        /\ settlement'.winner = settlement.winner
    BY <1>1, <2>1, <2>2 DEF Settlement
  <2>4. /\ \A d \in D : sig[d] = D
        /\ e \in D /\ i = Index(D, e) /\ settlement.winner = Owner[e] /\ IsFiniteSet(D)
    BY <2>1, <2>2
  <2>5. UNCHANGED <<paid, session>> /\ settlement.at = "bundle"
    BY <1>9 DEF GetFinalizeBundle
  <2>6. QED
    BY <1>0, <2>3, <2>4, <2>5 DEF SettlementOK
<1>10. CASE BroadcastFails
  <2>1. settlement'.at = "failed" /\ settlement'.winner = settlement.winner
        /\ settlement.at = "send" /\ UNCHANGED <<paid, session>>
    BY <1>1, <1>10 DEF BroadcastFails, Settlement
  <2>2. QED
    BY <1>0, <2>1 DEF SettlementOK
<1>11. CASE Broadcast
  <2>1. settlement.at = "send" /\ settlement'.at = "paid"
        /\ settlement'.winner = settlement.winner
        /\ paid' = Payee(settlement.draft, settlement.branch)
    BY <1>1, <1>11 DEF Broadcast, Settlement
  <2>2. PICK e \in settlement.draft : settlement.branch = Index(settlement.draft, e)
                                      /\ settlement.winner = Owner[e]
    BY <1>0, <2>1 DEF SettlementOK
  <2>3. settlement.draft \in SUBSET Escrows /\ IsFiniteSet(settlement.draft)
    BY <1>0, <1>1, <2>1 DEF SettlementOK, Settlement, Draft
  <2>4. \A f \in settlement.draft : Index(settlement.draft, f) = settlement.branch => f = e
    BY <2>2, <2>3, IndexOrders
  <2>5. paid' = settlement.winner
    BY <2>1, <2>2, <2>4 DEF Payee
  <2>6. QED
    BY <1>0, <2>1, <2>5 DEF SettlementOK
<1>12. QED
  BY <1>2, <1>4, <1>5, <1>6, <1>7, <1>8, <1>9, <1>10, <1>11 DEF EndStep

LEMMA TypeKept ==
  ASSUME RefereeInv, Step
  PROVE  TypeOK'
<1>0. TypeOK /\ UsersOK /\ CallsOK /\ StreamsOK /\ SettlementOK
  BY DEF RefereeInv
<1>1. CASE GetFinalizeBundle
  <2>1. PICK e \in Stakes :
          /\ settlement' = [settlement EXCEPT !.at = "send", !.branch = Index(Stakes, e),
                              !.draft = Stakes, !.sig = referee.presigns.sig]
          /\ Index(Stakes, e) \in Branches
    BY <1>1, BundlePays
  <2>2. Stakes \in Draft /\ referee.presigns.sig \in [Escrows -> Draft]
    BY <1>0 DEF Stakes, Draft, TypeOK, RefereeState, Presigns
  <2>3. PICK D, i, sig : /\ D = Stakes /\ i = Index(Stakes, e) /\ sig = referee.presigns.sig
                         /\ D \in Draft /\ i \in Branches /\ sig \in [Escrows -> Draft]
    BY <2>1, <2>2
  <2>4. settlement \in Settlement
        /\ settlement' = [settlement EXCEPT !.at = "send", !.branch = i, !.draft = D, !.sig = sig]
    BY <1>0, <2>1, <2>3 DEF TypeOK
  <2>5. settlement' \in Settlement
    BY <2>3, <2>4 DEF Settlement
  <2>6. QED
    BY <1>0, <1>1, <2>5 DEF GetFinalizeBundle, TypeOK
<1>2. CASE Broadcast
  <2>1. settlement' \in Settlement
    BY <1>0, <1>2 DEF Broadcast, TypeOK, Settlement
  <2>2. referee' \in RefereeState
    <3>1. Cleared(referee) \in RefereeState /\ NoRoster \in Roster
      BY <1>0, NothingTyped DEF TypeOK
    <3>2. QED
      BY <1>2, <3>1 DEF Broadcast, RefereeState
  <2>3. session' \in [Escrows -> Session]
    BY <1>0, <1>2, Numbers DEF Broadcast, TypeOK, Session
  <2>4. paid' \in Players
    <3>1. settlement \in Settlement /\ settlement.at = "send"
          /\ paid' = Payee(settlement.draft, settlement.branch)
      BY <1>0, <1>2 DEF Broadcast, TypeOK
    <3>2. settlement.draft \subseteq Escrows
      BY <3>1 DEF Settlement, Draft
    <3>3. \E e \in settlement.draft : Index(settlement.draft, e) = settlement.branch
      BY <1>0, <3>1 DEF SettlementOK
    <3>4. QED
      BY <3>1, <3>2, <3>3, Numbers DEF Payee
  <2>5. QED
    BY <1>0, <1>2, <2>1, <2>2, <2>3, <2>4 DEF Broadcast, TypeOK
<1>3. ASSUME NEW p \in Players, GameOver(p) PROVE TypeOK'
  BY <1>0, <1>3, LobbyTyped
<1>4. CASE EndStep
  BY <1>0, <1>1, <1>2, <1>3, <1>4, EndTyped DEF EndStep
<1>5. ASSUME NEW p \in Players,
             JoinTable(p) \/ LeaveTable(p) \/ BindWrite(p) \/ LobbyStep(p) \/ LeaveStep(p)
      PROVE  TypeOK'
  <2>1. CASE BindWrite(p)
    <3>1. calls[p].escrow \in Escrows
      BY <1>0, <2>1 DEF BindWrite, CallsOK
    <3>2. QED
      BY <1>0, <2>1, <3>1, BindTyped
  <2>2. CASE JoinTable(p) \/ LeaveTable(p) \/ LobbyStep(p) \/ LeaveStep(p)
    BY <1>0, <2>2, LobbyTyped DEF LobbyStep, LeaveStep
  <2>3. QED
    BY <1>5, <2>1, <2>2
<1>6. ASSUME NEW e \in Escrows, BindStep(e) PROVE TypeOK'
  <2>1. Owner[e] \in Players
    BY Numbers
  <2>2. QED
    BY <1>0, <1>6, <2>1, BindTyped DEF BindStep
<1>7. ASSUME NEW h \in Handlers, StreamStep(h) PROVE TypeOK'
  BY <1>0, <1>7, StreamTyped DEF StreamStep
<1>8. QED
  BY <1>4, <1>5, <1>6, <1>7 DEF Step

-----------------------------------------------------------------------------
(* What has been prepared stays about the stakes.                          *)

\* Only one escrow backs a seat, and a seat can be backed by one in use.
LEMMA OneBacker ==
  ASSUME UsersOK, NEW s, NEW d \in Escrows, NEW e \in Escrows, Backs(s, d), Backs(s, e)
  PROVE  d = e
  BY Numbers DEF UsersOK, Backs

\* Either preparation has not begun, or the stakes are fixed by a draft.
LEMMA BegunOrNot ==
  ASSUME Prepared, TypeOK
  PROVE  \/ /\ referee.complete = {}
            /\ \A h \in Handlers : streams[h].at \notin Later
            /\ \A e \in Escrows : referee.presigns.sig[e] = {}
         \/ /\ Full
            /\ \/ \E h \in Handlers : streams[h].at \in Later /\ streams[h].draft = Stakes
               \/ \E d \in Escrows : referee.presigns.sig[d] = Stakes
<1>1. ASSUME referee.complete # {}
      PROVE  Full /\ \E d \in Escrows : referee.presigns.sig[d] = Stakes
  <2>1. PICK s \in Seats : s \in referee.complete
    BY <1>1 DEF TypeOK, RefereeState
  <2>2. Full
    BY <1>1 DEF Prepared
  <2>3. PICK d \in Escrows : Backs(s, d)
    BY <2>2 DEF Full
  <2>4. QED
    BY <2>1, <2>2, <2>3 DEF Prepared
<1>2. QED
  BY <1>1 DEF Prepared

LEMMA NothingBegun ==
  ASSUME referee'.complete = {},
         \A h \in Handlers : streams'[h].at \notin Later,
         \A e \in Escrows : referee'.presigns.sig[e] = {}
  PROVE  Prepared' /\ Rosters'
<1>1. \A s : ~InDone(s)'
  BY DEF InDone
<1>2. Prepared'
  BY <1>1 DEF Prepared, Later
<1>3. Rosters'
  BY <1>1, Numbers DEF Rosters
<1>4. QED
  BY <1>2, <1>3

\* What keeps the preparation: nobody moves, no stream goes on, and a session
\* is given no other seat than that of its escrow.
LEMMA PreparedKeep ==
  ASSUME Prepared, SameSeats,
         \A h \in Handlers : streams'[h] = streams[h] \/ streams'[h].at \notin Later,
         \A e \in Escrows : \/ session'[e].seat = session[e].seat
                            \/ \A s \in Seats : Backs(s, e) => session'[e].seat = s,
         referee'.complete = referee.complete, referee'.gamma = referee.gamma,
         referee'.presigns.sig = referee.presigns.sig
  PROVE  Prepared' /\ \A s : InDone(s)' => InDone(s)
<1>1. /\ Stakes' = Stakes /\ Full' = Full
      /\ \A s \in Seats, e \in Escrows : Backs(s, e)' <=> Backs(s, e)
  BY SameSeatsKeep
<1>2. \A s : InDone(s)' => InDone(s)
  BY DEF InDone
<1>3. /\ \A h \in Handlers :
           /\ streams'[h].at \in Later =>
                Full' /\ referee'.gamma /\ streams'[h].draft = Stakes'
           /\ streams'[h].at \in {"signed", "closing"} =>
                referee'.presigns.sig[streams'[h].escrow] = Stakes'
      /\ \A e \in Escrows : referee'.presigns.sig[e] # {} =>
           Full' /\ e \in Stakes' /\ referee'.presigns.sig[e] = Stakes'
  BY <1>1 DEF Prepared, Later
<1>4. ASSUME NEW s \in Seats, NEW e \in Escrows, Backs(s, e)'
      PROVE  /\ s \in referee'.complete => referee'.presigns.sig[e] = Stakes'
             /\ InDone(s)' => session'[e].seat = s
  BY <1>1, <1>2, <1>4 DEF Prepared
<1>5. referee'.complete # {} => Full' /\ referee'.gamma
  BY <1>1 DEF Prepared
<1>6. QED
  BY <1>2, <1>3, <1>4, <1>5 DEF Prepared

LEMMA RostersKeep ==
  ASSUME Rosters, SameSeats, \A s : InDone(s)' => InDone(s),
         referee'.match = referee.match, referee'.frozen = referee.frozen
  PROVE  Rosters'
<1>1. \A s \in Seats, e \in Escrows : Backs(s, e)' <=> Backs(s, e)
  BY SameSeatsKeep
<1>2. True(referee.frozen) => True(referee.frozen)'
  BY <1>1 DEF True
<1>3. QED
  BY <1>2 DEF Rosters

LEMMA QuietKeep ==
  ASSUME Prepared, Rosters, SameSeats,
         \A h \in Handlers : streams'[h] = streams[h] \/ streams'[h].at \in {"idle", "bound"},
         \A e \in Escrows : \/ session'[e].seat = session[e].seat
                            \/ \A s \in Seats : Backs(s, e) => session'[e].seat = s,
         referee'.match = referee.match, referee'.frozen = referee.frozen,
         referee'.complete = referee.complete, referee'.gamma = referee.gamma,
         referee'.presigns.sig = referee.presigns.sig
  PROVE  Prepared' /\ Rosters'
<1>1. Prepared' /\ \A s : InDone(s)' => InDone(s)
  BY PreparedKeep DEF Later
<1>2. QED
  BY <1>1, RostersKeep

\* A stream that goes on without changing its draft.
LEMMA LaterKeeps ==
  ASSUME Prepared, Rosters, UsersOK, StreamsOK, UNCHANGED <<users, session>>,
         NEW h \in Handlers, NEW e \in Escrows, NEW seat \in Seats, NEW st,
         e = streams[h].escrow, seat = streams[h].seat,
         streams'[h] = st, streams[h].at \in Later, Backs(seat, e),
         st.at \in Later, st.seat = seat, st.draft = streams[h].draft, st.escrow = e,
         \A g \in Handlers : g # h => streams'[g] = streams[g],
         referee'.match = referee.match, referee'.frozen = referee.frozen,
         referee'.gamma = referee.gamma,
         referee'.complete = referee.complete
           \/ (referee'.complete = referee.complete \cup {seat} /\ st.at = "closing"),
         \A d \in Escrows : d # e => referee'.presigns.sig[d] = referee.presigns.sig[d],
         referee'.presigns.sig[e] = referee.presigns.sig[e]
           \/ referee'.presigns.sig[e] = streams[h].draft,
         st.at \in {"signed", "closing"} => referee'.presigns.sig[e] = Stakes
  PROVE  Prepared' /\ Rosters'
<1>0. SameSeats
  BY SameUsersSame
<1>1. /\ Stakes' = Stakes /\ Full' = Full
      /\ \A s \in Seats, d \in Escrows : Backs(s, d)' <=> Backs(s, d)
  BY <1>0, SameSeatsKeep
<1>2. Full /\ referee.gamma /\ streams[h].draft = Stakes
  BY DEF Prepared
<1>3. e \in Stakes
  BY DEF Backs, Stakes
<1>4. \A s : InDone(s)' => InDone(s)
  BY DEF InDone
<1>5. ASSUME NEW d \in Escrows
      PROVE  /\ referee'.presigns.sig[d] # {} =>
                  Full' /\ d \in Stakes' /\ referee'.presigns.sig[d] = Stakes'
             /\ referee.presigns.sig[d] = Stakes => referee'.presigns.sig[d] = Stakes'
  <2>1. CASE d = e
    BY <1>1, <1>2, <1>3, <2>1 DEF Prepared
  <2>2. CASE d # e
    BY <1>1, <2>2 DEF Prepared
  <2>3. QED
    BY <2>1, <2>2
<1>6. ASSUME NEW g \in Handlers
      PROVE  /\ streams'[g].at \in Later =>
                  Full' /\ referee'.gamma /\ streams'[g].draft = Stakes'
             /\ streams'[g].at \in {"signed", "closing"} =>
                  referee'.presigns.sig[streams'[g].escrow] = Stakes'
  <2>1. CASE g = h
    BY <1>1, <1>2, <2>1
  <2>2. CASE g # h
    <3>1. PICK old : old = streams[g] /\ old = streams'[g]
      BY <2>2
    <3>2. old.at \in {"signed", "closing"} =>
            old.escrow \in Escrows /\ referee.presigns.sig[old.escrow] = Stakes
      <4>1. StreamTrue(old)
        BY <3>1 DEF StreamsOK
      <4>2. streams[g].at \in {"signed", "closing"} =>
              referee.presigns.sig[streams[g].escrow] = Stakes
        BY DEF Prepared
      <4>3. QED
        BY <3>1, <4>1, <4>2 DEF StreamTrue
    <3>3. old.at \in {"signed", "closing"} => referee'.presigns.sig[old.escrow] = Stakes'
      BY <1>5, <3>2
    <3>4. old.at \in Later => old.draft = Stakes
      BY <3>1 DEF Prepared
    <3>5. QED
      BY <1>1, <1>2, <3>1, <3>3, <3>4
  <2>3. QED
    BY <2>1, <2>2
<1>7. ASSUME NEW s \in Seats, NEW d \in Escrows, Backs(s, d)'
      PROVE  /\ s \in referee'.complete => referee'.presigns.sig[d] = Stakes'
             /\ InDone(s)' => session'[d].seat = s
  <2>1. Backs(s, d)
    BY <1>1, <1>7
  <2>2. InDone(s)' => session'[d].seat = s
    BY <1>4, <2>1 DEF Prepared
  <2>3. ASSUME s \in referee'.complete PROVE referee'.presigns.sig[d] = Stakes'
    <3>1. CASE s \in referee.complete
      <4>1. referee.presigns.sig[d] = Stakes
        BY <2>1, <3>1 DEF Prepared
      <4>2. QED
        BY <1>5, <4>1
    <3>2. CASE s \notin referee.complete
      <4>1. s = seat /\ st.at = "closing"
        BY <2>3, <3>2
      <4>2. d = e
        BY <2>1, <4>1, OneBacker
      <4>3. QED
        BY <1>1, <4>1, <4>2
    <3>3. QED
      BY <3>1, <3>2
  <2>4. QED
    BY <2>2, <2>3
<1>8. Prepared'
  BY <1>1, <1>2, <1>5, <1>6, <1>7 DEF Prepared
<1>9. QED
  BY <1>0, <1>4, <1>8, RostersKeep

\* The signatures of a stream: the maps, the signatures, the end.
LEMMA PresigKeeps ==
  ASSUME TypeOK, UsersOK, StreamsOK, Prepared, Rosters, NEW h \in Handlers,
         PresigMap(h) \/ PresigStore(h) \/ StreamEOF(h)
  PROVE  Prepared' /\ Rosters'
<1>1. referee \in RefereeState /\ referee.presigns \in Presigns /\ streams \in [Handlers -> Stream]
  BY DEF TypeOK, RefereeState
<1>2. PICK e \in Escrows, seat \in Seats, D \in Draft :
        /\ e = streams[h].escrow /\ seat = streams[h].seat /\ D = streams[h].draft
        /\ Backs(seat, e)
  BY <1>1 DEF PresigMap, PresigStore, StreamEOF, StreamsOK, StreamTrue, Stream
<1>3. \A g \in Handlers : g # h => streams'[g] = streams[g]
  BY <1>1 DEF PresigMap, PresigStore, StreamEOF
<1>4. PICK st : st = streams'[h]
  OBVIOUS
<1>5. CASE PresigMap(h)
  <2>1. streams[h].at = "signing" /\ st.at = "storing" /\ st.seat = seat
        /\ st.draft = D /\ st.escrow = e /\ UNCHANGED <<users, session>>
    BY <1>1, <1>2, <1>4, <1>5 DEF PresigMap, Stream
  <2>2. /\ referee'.match = referee.match /\ referee'.frozen = referee.frozen
        /\ referee'.gamma = referee.gamma /\ referee'.complete = referee.complete
        /\ referee'.presigns.sig = referee.presigns.sig
    BY <1>1, <1>5 DEF PresigMap, RefereeState, Presigns
  <2>3. QED
    BY <1>1, <1>2, <1>3, <1>4, <2>1, <2>2, LaterKeeps DEF Later
<1>6. CASE PresigStore(h) /\ referee.presigns.made
  <2>1. streams[h].at = "storing" /\ st.at = "signed" /\ st.seat = seat
        /\ st.draft = D /\ st.escrow = e /\ UNCHANGED <<users, session>>
    BY <1>1, <1>2, <1>4, <1>6 DEF PresigStore, Stream
  <2>2. referee' = [referee EXCEPT !.presigns.sig[e] = D]
    BY <1>2, <1>6 DEF PresigStore
  <2>3. /\ referee'.match = referee.match /\ referee'.frozen = referee.frozen
        /\ referee'.gamma = referee.gamma /\ referee'.complete = referee.complete
        /\ referee'.presigns.sig = [referee.presigns.sig EXCEPT ![e] = D]
    BY <1>1, <2>2 DEF RefereeState, Presigns
  <2>4. /\ \A d \in Escrows : d # e => referee'.presigns.sig[d] = referee.presigns.sig[d]
        /\ referee'.presigns.sig[e] = D
    BY <1>1, <2>3 DEF Presigns
  <2>5. D = Stakes
    BY <1>2, <2>1 DEF Prepared, Later
  <2>6. /\ streams[h].at \in Later /\ st.at \in Later /\ st.at = "signed"
        /\ UNCHANGED <<users, session>> /\ st.seat = seat
        /\ st.draft = streams[h].draft /\ st.escrow = e
        /\ referee'.presigns.sig[e] = Stakes /\ referee'.presigns.sig[e] = streams[h].draft
    BY <1>2, <2>1, <2>4, <2>5 DEF Later
  <2>7. /\ e = streams[h].escrow /\ seat = streams[h].seat
        /\ Backs(seat, e) /\ streams'[h] = st
    BY <1>2, <1>4
  <2>8. /\ referee'.match = referee.match /\ referee'.frozen = referee.frozen
        /\ referee'.gamma = referee.gamma /\ referee'.complete = referee.complete
    BY <2>3
  <2>9. QED
    BY <1>3, <2>4, <2>6, <2>7, <2>8, LaterKeeps
<1>7. CASE PresigStore(h) /\ ~referee.presigns.made
  BY <1>7, QuietKeep, SameUsersSame DEF PresigStore
<1>8. CASE StreamEOF(h)
  <2>1. streams[h].at = "signed" /\ st.at = "closing" /\ st.seat = seat
        /\ st.draft = D /\ st.escrow = e /\ UNCHANGED <<users, session>>
    BY <1>1, <1>2, <1>4, <1>8 DEF StreamEOF, Stream
  <2>2. /\ referee'.match = referee.match /\ referee'.frozen = referee.frozen
        /\ referee'.gamma = referee.gamma
        /\ referee'.complete = referee.complete \cup {seat}
        /\ referee'.presigns = referee.presigns
    BY <1>1, <1>2, <1>8 DEF StreamEOF, RefereeState
  <2>3. referee.presigns.sig[e] = Stakes
    BY <1>2, <2>1 DEF Prepared
  <2>4. QED
    BY <1>1, <1>2, <1>3, <1>4, <2>1, <2>2, <2>3, LaterKeeps DEF Later
<1>9. QED
  BY <1>5, <1>6, <1>7, <1>8

\* The roster a stream has read is complete, and is frozen.
LEMMA FullPrepareKeeps ==
  ASSUME TypeOK, UsersOK, StreamsOK, Prepared, Rosters,
         NEW h \in Handlers, NEW e \in Escrows, e = streams[h].escrow,
         streams[h].at = "snapped", UNCHANGED users,
         NEW roster \in Roster, roster = streams[h].snap, SeatsOf(roster) = Seats,
         session' = [session EXCEPT ![e].seat = streams[h].seat],
         referee' = [referee EXCEPT !.match = roster, !.gamma = TRUE,
                                    !.frozen = Freeze(roster, session')],
         streams' = [streams EXCEPT ![h].at = "signing", ![h].snap = NoRoster,
                                    ![h].draft = EscrowsOf(roster)]
  PROVE  Prepared' /\ Rosters'
<1>1. referee \in RefereeState /\ streams \in [Handlers -> Stream] /\ streams[h].seat \in Seats
      /\ session \in [Escrows -> Session] /\ users \in [Players -> User \cup {None}]
  BY DEF TypeOK, RefereeState, Stream
<1>2. PICK seat \in Seats : seat = streams[h].seat
  BY <1>1
<1>3. Backs(seat, e) /\ True(roster) /\ \A s \in Seats : roster[s] # None
  BY <1>2 DEF StreamsOK, StreamTrue, SeatsOf
<1>4. EscrowsOf(roster) = Stakes
  BY <1>1, <1>3, RosterHoldsStakes
<1>5. Full
  BY <1>3 DEF Full, True
<1>6. SameSeats /\ Stakes' = Stakes /\ Full' = Full
      /\ \A s \in Seats, d \in Escrows : Backs(s, d)' <=> Backs(s, d)
  BY SameUsersSame, SameSeatsKeep
<1>7. /\ streams'[h].at = "signing" /\ streams'[h].draft = Stakes /\ streams'[h].seat = seat
      /\ \A g \in Handlers : g # h => streams'[g] = streams[g]
  BY <1>1, <1>2, <1>4 DEF Stream
<1>8. /\ referee'.match = roster /\ referee'.gamma /\ referee'.frozen = Freeze(roster, session')
      /\ referee'.complete = referee.complete /\ referee'.presigns = referee.presigns
  BY <1>1 DEF RefereeState
<1>9. session'[e].seat = seat /\ \A d \in Escrows : d # e => session'[d] = session[d]
  BY <1>1, <1>2 DEF Session
<1>10. \A s : InDone(s)' => InDone(s) \/ s = seat
  BY <1>7, <1>8 DEF InDone
<1>11. /\ \A g \in Handlers :
            /\ streams'[g].at \in Later =>
                 Full' /\ referee'.gamma /\ streams'[g].draft = Stakes'
            /\ streams'[g].at \in {"signed", "closing"} =>
                 referee'.presigns.sig[streams'[g].escrow] = Stakes'
       /\ \A d \in Escrows : referee'.presigns.sig[d] # {} =>
            Full' /\ d \in Stakes' /\ referee'.presigns.sig[d] = Stakes'
  <2>1. ASSUME NEW g \in Handlers
        PROVE  /\ streams'[g].at \in Later =>
                    Full' /\ referee'.gamma /\ streams'[g].draft = Stakes'
               /\ streams'[g].at \in {"signed", "closing"} =>
                    referee'.presigns.sig[streams'[g].escrow] = Stakes'
    <3>1. CASE g = h
      BY <1>5, <1>6, <1>7, <1>8, <3>1
    <3>2. CASE g # h
      <4>1. PICK old : old = streams[g] /\ old = streams'[g]
        BY <1>7, <3>2
      <4>2. /\ old.at \in Later => old.draft = Stakes
            /\ old.at \in {"signed", "closing"} => referee.presigns.sig[old.escrow] = Stakes
        BY <4>1 DEF Prepared
      <4>3. QED
        BY <1>5, <1>6, <1>8, <4>1, <4>2
    <3>3. QED
      BY <3>1, <3>2
  <2>2. ASSUME NEW d \in Escrows, referee'.presigns.sig[d] # {}
        PROVE  Full' /\ d \in Stakes' /\ referee'.presigns.sig[d] = Stakes'
    BY <1>6, <1>8, <2>2 DEF Prepared
  <2>3. QED
    BY <2>1, <2>2
<1>12. ASSUME NEW s \in Seats, NEW d \in Escrows, Backs(s, d)
       PROVE  /\ s \in referee'.complete => referee'.presigns.sig[d] = Stakes
              /\ InDone(s)' => session'[d].seat = s
  <2>1. s \in referee'.complete => referee'.presigns.sig[d] = Stakes
    BY <1>8, <1>12 DEF Prepared
  <2>2. CASE d = e
    <3>1. s = seat
      BY <1>3, <1>12, <2>2 DEF Backs
    <3>2. QED
      BY <1>9, <2>1, <2>2, <3>1
  <2>3. CASE d # e
    <3>1. s # seat
      BY <1>3, <1>12, <2>3, OneBacker
    <3>2. InDone(s)' => session[d].seat = s
      BY <1>10, <1>12, <3>1 DEF Prepared
    <3>3. QED
      BY <1>9, <2>1, <2>3, <3>2
  <2>4. QED
    BY <2>2, <2>3
<1>13. Prepared'
  BY <1>5, <1>6, <1>8, <1>11, <1>12 DEF Prepared
<1>14. ASSUME \A s \in Seats : InDone(s)'
       PROVE  True(referee.frozen)' /\ \A s \in Seats : referee'.frozen[s] # None
  <2>1. \A s \in Seats : session'[roster[s]].seat = s
    BY <1>3, <1>12, <1>14 DEF True
  <2>2. referee'.frozen = roster
    BY <1>8, <2>1, FrozenRoster
  <2>3. QED
    BY <1>3, <1>6, <2>2 DEF True
<1>15. Rosters'
  BY <1>3, <1>8, <1>14 DEF Rosters
<1>16. QED
  BY <1>13, <1>15

\* The roster a stream has read misses a seat.
LEMMA PartialPrepareKeeps ==
  ASSUME TypeOK, UsersOK, StreamsOK, Alone, Prepared, Rosters,
         NEW h \in Handlers, NEW e \in Escrows, e = streams[h].escrow,
         streams[h].at = "snapped", UNCHANGED users,
         NEW roster \in Roster, roster = streams[h].snap, SeatsOf(roster) # Seats,
         session' = [session EXCEPT ![e].seat = streams[h].seat],
         referee' = [referee EXCEPT !.match = roster],
         EndStream(h)
  PROVE  Prepared' /\ Rosters'
<1>1. referee \in RefereeState /\ streams \in [Handlers -> Stream]
      /\ session \in [Escrows -> Session]
  BY DEF TypeOK
<1>2. PICK seat \in Seats : seat = streams[h].seat
  BY <1>1 DEF Stream
<1>3. Backs(seat, e) /\ roster[seat] = e
  BY <1>2 DEF StreamsOK, StreamTrue
<1>4. PICK t \in Seats : roster[t] = None
  BY DEF SeatsOf
<1>5. ~InDone(seat)
  BY <1>2, <1>4 DEF Alone
<1>6. /\ referee'.match = roster /\ referee'.frozen = referee.frozen
      /\ referee'.gamma = referee.gamma /\ referee'.complete = referee.complete
      /\ referee'.presigns = referee.presigns
  BY <1>1 DEF RefereeState
<1>7. streams'[h].at = "idle" /\ \A g \in Handlers : g # h => streams'[g] = streams[g]
  BY <1>1 DEF EndStream, NoStream
<1>8. session'[e].seat = seat /\ \A d \in Escrows : d # e => session'[d] = session[d]
  BY <1>1, <1>2 DEF Session
<1>9. SameSeats /\ \A s \in Seats, d \in Escrows : Backs(s, d)' <=> Backs(s, d)
  BY SameUsersSame, SameSeatsKeep
<1>10. \A s \in Seats : Backs(s, e) => session'[e].seat = s
  BY <1>3, <1>8 DEF Backs
<1>11. Prepared' /\ \A s : InDone(s)' => InDone(s)
  BY <1>6, <1>7, <1>8, <1>9, <1>10, PreparedKeep DEF Later
<1>12. True(referee.frozen) => True(referee.frozen)'
  BY <1>6, <1>9 DEF True
<1>13. referee'.match[seat] # None /\ ~InDone(seat)'
  BY <1>3, <1>5, <1>6, <1>11, Numbers
<1>14. Rosters'
  BY <1>6, <1>7, <1>11, <1>12, <1>13 DEF Rosters
<1>15. QED
  BY <1>11, <1>14

LEMMA PrepareKeeps ==
  ASSUME TypeOK, UsersOK, StreamsOK, Alone, Prepared, Rosters, NEW h \in Handlers,
         StreamPrepare(h), \A d \in Escrows : session[d].funding = "ready"
  PROVE  Prepared' /\ Rosters'
<1>1. PICK roster \in Roster : roster = streams[h].snap
  BY DEF TypeOK, Stream
<1>2. PICK e \in Escrows :
        /\ e = streams[h].escrow /\ streams[h].at = "snapped" /\ UNCHANGED users
        /\ session' = [session EXCEPT ![e].seat = streams[h].seat]
  BY DEF StreamPrepare, StreamsOK, StreamTrue
<1>3. CASE SeatsOf(roster) = Seats /\ MatchReady(roster)
  <2>1. /\ referee' = [referee EXCEPT !.match = roster, !.gamma = TRUE,
                                      !.frozen = Freeze(roster, session')]
        /\ streams' = [streams EXCEPT ![h].at = "signing", ![h].snap = NoRoster,
                                      ![h].draft = EscrowsOf(roster)]
    BY <1>1, <1>3 DEF StreamPrepare
  <2>2. QED
    BY <1>1, <1>2, <1>3, <2>1, FullPrepareKeeps
<1>4. CASE ~(SeatsOf(roster) = Seats /\ MatchReady(roster))
  <2>1. SeatsOf(roster) # Seats
    <3>1. Cardinality(Seats) >= 2
      <4>1. MaxPlayers \in Nat /\ MaxPlayers > 1
        BY ConstantsAssumption
      <4>2. QED
        BY <4>1, FS_Interval DEF Seats
    <3>2. EscrowsOf(roster) \subseteq Escrows
      BY DEF EscrowsOf, Roster
    <3>3. QED
      BY <1>4, <3>1, <3>2 DEF MatchReady, Funded
  <2>2. referee' = [referee EXCEPT !.match = roster] /\ EndStream(h)
    BY <1>1, <1>4 DEF StreamPrepare
  <2>3. QED
    BY <1>1, <1>2, <2>1, <2>2, PartialPrepareKeeps
<1>5. QED
  BY <1>3, <1>4

\* A departure under way stays one, and what is paid stays paid.
LEMMA PreparedBefore ==
  ASSUME RefereeInv, Step, ~Torn', settlement'.at # "paid",
         \A p \in Players : ~LeaveReset(p)
  PROVE  /\ Prepared /\ Rosters /\ ~Torn
         /\ \A e \in Escrows : session[e].funding = "ready"
<1>0. TypeOK /\ PhaseOK /\ SettlementOK /\ settlement \in Settlement
  BY DEF RefereeInv, TypeOK
<1>1. settlement.at # "paid"
  <2>1. CASE UNCHANGED settlement
    BY <2>1
  <2>2. CASE EndStep
    <3>1. CASE StartGame
      BY <1>0, <3>1 DEF StartGame, Settlement
    <3>2. ASSUME NEW p \in Players, GameOver(p) PROVE settlement.at # "paid"
      BY <1>0, <3>2 DEF GameOver, PhaseOK
    <3>3. CASE RemoveTable
      BY <3>3 DEF RemoveTable
    <3>4. CASE ~StartGame /\ ~RemoveTable /\ \A p \in Players : ~GameOver(p)
      BY <2>2, <3>4 DEF EndStep, HandleGameEnded, TrySettlement, GetFinalizeBundle, Broadcast,
         BroadcastFails
    <3>5. QED
      BY <3>1, <3>2, <3>3, <3>4
  <2>3. CASE ~EndStep
    <3>1. UNCHANGED settlement
      BY <2>3 DEF Step, LobbyStep, LeaveStep, BindStep, StreamStep, JoinTable, SetPlayerReady,
         SetPlayerUnready, LeaveTable, LeaveClear, LeaveRemove, LeaveReset, BindWrite,
         BindEscrow, BindRefused, StreamHello, StreamSnapshot, StreamPrepare, PresigMap,
         PresigStore, StreamEOF, StreamDone, StreamBroken
    <3>2. QED
      BY <3>1
  <2>4. QED
    BY <2>2, <2>3
<1>2. ASSUME NEW q \in Players, calls[q].at \in {"removing", "resetting"} PROVE FALSE
  <2>1. calls'[q].at \notin {"removing", "resetting"}
    BY DEF Torn
  <2>2. calls'[q] # calls[q]
    BY <1>2, <2>1
  <2>3. ASSUME NEW p \in Players, LeaveStep(p) PROVE FALSE
    <3>1. ~LeaveReset(p)
      OBVIOUS
    <3>2. CASE LeaveClear(p)
      BY <1>0, <1>2, <2>1, <3>2 DEF LeaveClear, TypeOK, Call
    <3>3. CASE LeaveRemove(p)
      BY <1>0, <1>2, <2>1, <3>3 DEF LeaveRemove, TypeOK, Call
    <3>4. QED
      BY <2>3, <3>1, <3>2, <3>3 DEF LeaveStep
  <2>4. ASSUME NEW p \in Players, JoinTable(p) \/ LobbyStep(p) PROVE FALSE
    BY <2>2, <2>4 DEF JoinTable, LobbyStep, SetPlayerReady, SetPlayerUnready
  <2>5. ASSUME NEW p \in Players, LeaveTable(p) \/ BindWrite(p) PROVE FALSE
    BY <1>0, <1>2, <2>2, <2>5 DEF LeaveTable, BindWrite, TypeOK
  <2>6. ASSUME NEW e \in Escrows, BindStep(e) PROVE FALSE
    BY <1>0, <1>2, <2>2, <2>6 DEF BindStep, BindEscrow, BindRefused, TypeOK
  <2>7. (\A h \in Handlers : ~StreamStep(h)) /\ ~EndStep
    BY <2>2, QuietUsers
  <2>8. QED
    BY <2>3, <2>4, <2>5, <2>6, <2>7 DEF Step
<1>3. ~Torn
  BY <1>2 DEF Torn
<1>4. QED
  BY <1>0, <1>1, <1>3 DEF RefereeInv, SettlementOK

\* Nobody moves, and a session gets no seat but that of its escrow.
LEMMA LobbyKeeps ==
  ASSUME TypeOK, UsersOK, CallsOK, StreamsOK, Prepared, Rosters, NEW p \in Players,
         LobbyStep(p) \/ LeaveTable(p)
  PROVE  Prepared' /\ Rosters'
<1>1. SameSeats /\ UNCHANGED <<streams, referee>>
  BY UsersChange, SameUsersSame
     DEF LobbyStep, SetPlayerReady, SetPlayerUnready, LeaveTable
<1>2. ASSUME NEW e \in Escrows
      PROVE  session'[e].seat = session[e].seat \/ \A s \in Seats : Backs(s, e) => session'[e].seat = s
  <2>1. CASE UNCHANGED session
    BY <2>1
  <2>2. CASE SetPlayerReady(p)
    <3>1. users[p] # None /\ users[p].escrow # None
          /\ (session' = session
              \/ session' = [session EXCEPT ![users[p].escrow].seat = users[p].seat])
      BY <2>2 DEF SetPlayerReady, TypeOK, Session
    <3>2. CASE e = users[p].escrow
      <4>1. Owner[e] = p
        BY <3>1, <3>2 DEF UsersOK
      <4>2. QED
        BY <3>1, <3>2, <4>1 DEF TypeOK, Session, Backs
    <3>3. CASE e # users[p].escrow
      BY <3>1, <3>3 DEF TypeOK
    <3>4. QED
      BY <3>2, <3>3
  <2>3. QED
    BY <2>1, <2>2 DEF LobbyStep, SetPlayerUnready, LeaveTable
<1>3. QED
  BY <1>1, <1>2, QuietKeep

LEMMA BindKeeps ==
  ASSUME TypeOK, Prepared, Rosters, NEW e \in Escrows, BindStep(e)
  PROVE  Prepared' /\ Rosters'
<1>1. SameSeats /\ UNCHANGED <<streams, referee>>
      /\ session' = [session EXCEPT ![e].seat = users[Owner[e]].seat]
  BY SameUsersSame DEF BindStep, BindEscrow, BindRefused
<1>2. ASSUME NEW d \in Escrows
      PROVE  session'[d].seat = session[d].seat \/ \A s \in Seats : Backs(s, d) => session'[d].seat = s
  BY <1>1 DEF TypeOK, Session, Backs
<1>3. QED
  BY <1>1, <1>2, QuietKeep

LEMMA WriteKeeps ==
  ASSUME TypeOK, UsersOK, UsersOK', CallsOK, StreamsOK, Prepared, Rosters, Alone',
         NEW p \in Players, BindWrite(p)
  PROVE  Prepared' /\ Rosters'
<1>1. referee \in RefereeState /\ referee.match \in Roster /\ calls[p].seat \in Seats
      /\ users \in [Players -> User \cup {None}]
  BY DEF TypeOK, RefereeState, Call
<1>2. PICK e \in Escrows, t \in Seats : e = calls[p].escrow /\ t = calls[p].seat
  BY <1>1 DEF BindWrite, CallsOK
<1>3. /\ referee'.match = [referee.match EXCEPT ![t] = e] /\ referee'.frozen = referee.frozen
      /\ referee'.gamma = referee.gamma /\ referee'.complete = referee.complete
      /\ referee'.presigns = referee.presigns /\ UNCHANGED <<streams, session>>
  BY <1>1, <1>2 DEF BindWrite, RefereeState
<1>4. SeatsStay
  BY UsersChange
<1>5. CASE /\ referee.complete = {}
           /\ \A h \in Handlers : streams[h].at \notin Later
           /\ \A d \in Escrows : referee.presigns.sig[d] = {}
  BY <1>3, <1>5, NothingBegun
<1>6. CASE /\ Full
           /\ \/ \E h \in Handlers : streams[h].at \in Later /\ streams[h].draft = Stakes
              \/ \E d \in Escrows : referee.presigns.sig[d] = Stakes
  <2>1. SameSeats
    BY <1>1, <1>3, <1>4, <1>6, StakesStay
  <2>2. Prepared' /\ \A s : InDone(s)' => InDone(s)
    BY <1>3, <2>1, PreparedKeep
  <2>3. True(referee.frozen) => True(referee.frozen)'
    BY <1>3, <2>1, SameSeatsKeep DEF True
  <2>4. \A s \in Seats : referee'.match[s] = None => referee.match[s] = None
    BY <1>1, <1>3, Numbers DEF Roster
  <2>5. \A s \in Seats : referee.match[s] # None => referee'.match[s] # None
    BY <1>1, <1>3, Numbers DEF Roster
  <2>6. Rosters'
    BY <1>3, <2>2, <2>3, <2>4, <2>5 DEF Rosters
  <2>7. QED
    BY <2>2, <2>6
<1>7. QED
  BY <1>5, <1>6, BegunOrNot

LEMMA HelloKeeps ==
  ASSUME TypeOK, UsersOK, UsersOK', CallsOK, StreamsOK, Prepared, Rosters, Alone',
         NEW h \in Handlers, NEW e \in Escrows, StreamHello(h, e)
  PROVE  Prepared' /\ Rosters'
<1>1. UNCHANGED <<session, referee>> /\ streams[h].at = "idle" /\ streams'[h].at = "bound"
      /\ \A g \in Handlers : g # h => streams'[g] = streams[g]
  BY DEF StreamHello, TypeOK, NoStream
<1>2. SeatsStay /\ users \in [Players -> User \cup {None}]
  BY UsersChange DEF TypeOK
<1>3. CASE /\ referee.complete = {}
           /\ \A g \in Handlers : streams[g].at \notin Later
           /\ \A d \in Escrows : referee.presigns.sig[d] = {}
  BY <1>1, <1>3, NothingBegun DEF Later
<1>4. CASE /\ Full
           /\ \/ \E g \in Handlers : streams[g].at \in Later /\ streams[g].draft = Stakes
              \/ \E d \in Escrows : referee.presigns.sig[d] = Stakes
  <2>1. \/ \E g \in Handlers : streams'[g].draft = Stakes
        \/ \E d \in Escrows : referee'.presigns.sig[d] = Stakes
    BY <1>1, <1>4 DEF Later
  <2>2. SameSeats
    BY <1>2, <1>4, <2>1, StakesStay
  <2>3. QED
    BY <1>1, <2>2, QuietKeep
<1>5. QED
  BY <1>3, <1>4, BegunOrNot

LEMMA SnapshotKeeps ==
  ASSUME TypeOK, Prepared, Rosters, NEW h \in Handlers, StreamSnapshot(h)
  PROVE  Prepared' /\ Rosters'
<1>1. UNCHANGED <<users, session, referee>> /\ streams'[h].at = "snapped"
      /\ \A g \in Handlers : g # h => streams'[g] = streams[g]
  BY DEF StreamSnapshot, TypeOK, Stream
<1>2. SameSeats
  BY <1>1, SameUsersSame
<1>3. Prepared' /\ \A s : InDone(s)' => InDone(s)
  BY <1>1, <1>2, PreparedKeep DEF Later
<1>4. QED
  BY <1>1, <1>2, <1>3, RostersKeep

\* Who joins takes a free seat, so nothing has been prepared.
LEMMA JoinKeeps ==
  ASSUME TypeOK, UsersOK, Prepared, NEW p \in Players, JoinTable(p)
  PROVE  Prepared' /\ Rosters'
<1>1. PICK s \in Seats : \A q \in Players : users[q] # None => users[q].seat # s
  BY JoinSeat
<1>2. ~Full
  BY <1>1, Numbers DEF Full, Backs
<1>3. UNCHANGED <<referee, streams>>
  BY DEF JoinTable
<1>4. QED
  BY <1>2, <1>3, BegunOrNot, NothingBegun

LEMMA PreparedKept ==
  ASSUME RefereeInv, Step, Overlaps' = {}, ~Torn', settlement'.at # "paid"
  PROVE  Prepared' /\ Rosters'
<1>0. TypeOK /\ UsersOK /\ CallsOK /\ StreamsOK /\ Alone /\ Alone' /\ UsersOK'
  BY NothingOverlaps, UsersKept DEF RefereeInv
<1>1. ASSUME NEW p \in Players, LeaveReset(p) PROVE Prepared' /\ Rosters'
  <2>1. Leaving /\ UNCHANGED streams
    BY <1>1 DEF LeaveReset, Leaving
  <2>2. \A h \in Handlers : streams'[h].at \notin Later
    BY <1>0, <2>1 DEF Alone, Later
  <2>3. referee'.complete = {} /\ referee'.presigns = NoPresigns
    BY <1>0, <1>1 DEF LeaveReset, Cleared, TypeOK, RefereeState
  <2>4. \A e \in Escrows : referee'.presigns.sig[e] = {}
    BY <2>3 DEF NoPresigns
  <2>5. QED
    BY <2>2, <2>3, <2>4, NothingBegun
<1>2. CASE \A p \in Players : ~LeaveReset(p)
  <2>0. Prepared /\ Rosters /\ \A e \in Escrows : session[e].funding = "ready"
    BY <1>2, PreparedBefore
  <2>1. ASSUME NEW p \in Players PROVE ~LeaveStep(p)
    <3>1. ~LeaveClear(p)
      BY <1>0 DEF LeaveClear, Torn, TypeOK, Call
    <3>2. ~LeaveRemove(p)
      BY <1>0 DEF LeaveRemove, Torn, TypeOK, Call
    <3>3. QED
      BY <1>2, <3>1, <3>2 DEF LeaveStep
  <2>2. ASSUME NEW p \in Players,
               JoinTable(p) \/ LobbyStep(p) \/ LeaveTable(p) \/ BindWrite(p)
        PROVE  Prepared' /\ Rosters'
    BY <1>0, <2>0, <2>2, JoinKeeps, LobbyKeeps, WriteKeeps
  <2>3. ASSUME NEW e \in Escrows, BindStep(e) PROVE Prepared' /\ Rosters'
    BY <1>0, <2>0, <2>3, BindKeeps
  <2>4. ASSUME NEW h \in Handlers, StreamDone(h) \/ StreamBroken(h) PROVE Prepared' /\ Rosters'
    <3>1. SameSeats /\ UNCHANGED <<session, referee>>
      BY <1>0, <2>4, UsersChange, SameUsersSame DEF StreamDone, StreamBroken
    <3>2. \A g \in Handlers : streams'[g] = streams[g] \/ streams'[g].at \in {"idle", "bound"}
      BY <1>0, <2>4 DEF StreamDone, StreamBroken, EndStream, NoStream, TypeOK
    <3>3. QED
      BY <2>0, <3>1, <3>2, QuietKeep
  <2>5. ASSUME NEW h \in Handlers, StreamStep(h) PROVE Prepared' /\ Rosters'
    <3>1. ASSUME NEW e \in Escrows, StreamHello(h, e) PROVE Prepared' /\ Rosters'
      BY <1>0, <2>0, <3>1, HelloKeeps
    <3>2. CASE StreamSnapshot(h)
      BY <1>0, <2>0, <3>2, SnapshotKeeps
    <3>3. CASE StreamPrepare(h)
      BY <1>0, <2>0, <3>3, PrepareKeeps
    <3>4. CASE PresigMap(h) \/ PresigStore(h) \/ StreamEOF(h)
      BY <1>0, <2>0, <3>4, PresigKeeps
    <3>5. QED
      BY <2>4, <2>5, <3>1, <3>2, <3>3, <3>4 DEF StreamStep
  <2>6. CASE EndStep
    <3>1. ~Broadcast
      BY <1>0 DEF Broadcast, TypeOK, Settlement
    <3>2. SameSeats /\ UNCHANGED <<session, streams>>
      BY <2>6, <3>1, QuietUsers, SameUsersSame DEF EndStep, StartGame, GameOver,
         HandleGameEnded, RemoveTable, TrySettlement, GetFinalizeBundle, BroadcastFails
    <3>3. /\ referee'.match = referee.match /\ referee'.frozen = referee.frozen
          /\ referee'.gamma = referee.gamma /\ referee'.complete = referee.complete
          /\ referee'.presigns = referee.presigns
      <4>1. CASE UNCHANGED referee
        BY <4>1
      <4>2. CASE HandleGameEnded
        BY <1>0, <4>2 DEF HandleGameEnded, TypeOK, RefereeState
      <4>3. QED
        BY <2>6, <3>1, <4>1, <4>2 DEF EndStep, StartGame, GameOver, RemoveTable,
           TrySettlement, GetFinalizeBundle, BroadcastFails
    <3>4. QED
      BY <2>0, <3>2, <3>3, QuietKeep
  <2>7. QED
    BY <2>1, <2>2, <2>3, <2>5, <2>6 DEF Step
<1>3. QED
  BY <1>1, <1>2

-----------------------------------------------------------------------------
(* No start is lost.                                                       *)

\* What holds of the rosters is known while the table is open, too.
LEMMA OpenMatch ==
  ASSUME RefereeInv, phase = "open", AllReady(users),
         SeatsOf(referee.match) \subseteq referee.complete, referee.complete # {}
  PROVE  (\A s \in Seats : s \in referee.complete) /\ PresigningComplete(referee)
<1>0. TypeOK /\ UsersOK /\ PhaseOK /\ ReadyOK /\ SeatedWell(users)
  BY DEF RefereeInv, SeatedWell, TypeOK, UsersOK
<1>1. SeatsOf(referee.match) = Seats
  <2>1. CASE Torn
    <3>1. \A p \in Players : users[p] # None /\ users[p].escrow # None =>
            referee.match[users[p].seat] # None
      BY <1>0, <2>1 DEF ReadyOK
    <3>2. \A s \in Seats : \E p \in Players :
            users[p] # None /\ users[p].seat = s /\ users[p].escrow # None
      BY <1>0, ReadyTable
    <3>3. QED
      BY <3>1, <3>2 DEF SeatsOf
  <2>2. CASE ~Torn
    <3>1. Rosters
      BY <1>0, <2>2 DEF RefereeInv, PhaseOK
    <3>2. PICK s \in Seats : s \in referee.complete
      BY <1>0 DEF TypeOK, RefereeState
    <3>3. InDone(s) /\ \A t \in Seats : referee.match[t] # None => InDone(t)
      BY <3>2 DEF InDone, SeatsOf
    <3>4. QED
      BY <3>1, <3>3 DEF Rosters, SeatsOf
  <2>3. QED
    BY <2>1, <2>2
<1>2. Cardinality(Seats) >= 2
  <2> HIDE DEF Seats
  <2>1. MaxPlayers \in Nat /\ MaxPlayers > 1
    BY ConstantsAssumption
  <2>2. Cardinality(0 .. MaxPlayers - 1) = MaxPlayers
    BY <2>1, FS_Interval
  <2>3. QED
    BY <2>1, <2>2 DEF Seats
<1>3. QED
  BY <1>1, <1>2 DEF PresigningComplete

LEMMA SomeoneIsComplete ==
  ASSUME NEW r, PresigningComplete(r)
  PROVE  SeatsOf(r.match) \subseteq r.complete /\ r.complete # {}
<1>1. Cardinality({}) = 0
  BY FS_EmptySet
<1>2. SeatsOf(r.match) # {}
  BY <1>1 DEF PresigningComplete
<1>3. QED
  BY <1>2 DEF PresigningComplete

\* Whoever is ready has bound an escrow, so a binding adds nobody to the ready.
LEMMA ReadyBefore ==
  ASSUME TypeOK, UsersOK, SeatsStay, ~Leaving, SeatedWell(users'), AllReady(users'),
         \A p \in Players : users[p] # None => users'[p].ready = users[p].ready
  PROVE  AllReady(users)
<1>1. {p \in Players : users'[p] # None} = {p \in Players : users[p] # None}
  BY DEF SeatsStay
<1>2. ASSUME NEW p \in Players, users[p] # None
      PROVE  users[p].ready /\ users[p].escrow # None /\ users[p].funded
  <2>1. users[p].ready
    BY <1>1, <1>2 DEF AllReady
  <2>2. users[p].escrow # None
    BY <1>2, <2>1 DEF UsersOK, Leaving
  <2>3. QED
    BY <1>2, <2>1, <2>2 DEF UsersOK
<1>3. Cardinality({p \in Players : users[p] # None}) = MaxPlayers
  BY <1>1 DEF AllReady
<1>4. QED
  BY <1>2, <1>3 DEF AllReady

\* A departure under way: every escrow in use is in the roster.
LEMMA TornKept ==
  ASSUME RefereeInv, Step, Overlaps' = {}, Torn'
  PROVE  \A q \in Players : users'[q] # None /\ users'[q].escrow # None =>
           referee'.match[users'[q].seat] # None
<1> DEFINE Good == \A q \in Players : users'[q] # None /\ users'[q].escrow # None =>
                     referee'.match[users'[q].seat] # None
<1>0. /\ TypeOK /\ UsersOK /\ CallsOK /\ StreamsOK /\ PhaseOK /\ ReadyOK /\ Alone /\ Alone'
      /\ UsersOK' /\ TypeOK'
  BY NothingOverlaps, UsersKept, TypeKept DEF RefereeInv
<1>1. ASSUME NEW p \in Players, LeaveClear(p) PROVE Good
  <2>1. referee'.match = TableRoster(users')
    BY <1>0, <1>1 DEF LeaveClear, TypeOK, RefereeState
  <2>2. SeatedWell(users')
    BY <1>0 DEF SeatedWell, TypeOK, UsersOK
  <2>3. \A q \in Players : users'[q] # None => TableRoster(users')[users'[q].seat] = users'[q].escrow
    BY <2>2, RosterOfTable
  <2>4. QED
    BY <2>1, <2>3
<1>2. ASSUME ~Torn, \A p \in Players : ~LeaveClear(p) PROVE FALSE
  <2>1. PICK q \in Players : calls'[q].at \in {"removing", "resetting"}
    BY DEF Torn
  <2>2. calls[q].at \notin {"removing", "resetting"} /\ calls'[q] # calls[q]
    BY <1>2, <2>1 DEF Torn
  <2>3. ASSUME NEW p \in Players, LeaveRemove(p) \/ LeaveReset(p) PROVE FALSE
    BY <1>2, <2>3 DEF LeaveRemove, LeaveReset, Torn
  <2>4. ASSUME NEW p \in Players, JoinTable(p) \/ LobbyStep(p) PROVE FALSE
    BY <2>2, <2>4 DEF JoinTable, LobbyStep, SetPlayerReady, SetPlayerUnready
  <2>5. ASSUME NEW p \in Players, LeaveTable(p) \/ BindWrite(p) PROVE FALSE
    BY <1>0, <2>1, <2>2, <2>5 DEF LeaveTable, BindWrite, TypeOK, Idle
  <2>6. ASSUME NEW e \in Escrows, BindStep(e) PROVE FALSE
    BY <1>0, <2>1, <2>2, <2>6 DEF BindStep, BindEscrow, BindRefused, TypeOK
  <2>7. (\A h \in Handlers : ~StreamStep(h)) /\ ~EndStep
    BY <2>2, QuietUsers
  <2>8. QED
    BY <1>2, <2>3, <2>4, <2>5, <2>6, <2>7 DEF Step, LeaveStep
<1>3. ASSUME Torn PROVE Leaving /\ \A q \in Players : users[q] # None /\ users[q].escrow # None =>
                                     referee.match[users[q].seat] # None
  BY <1>0, <1>3 DEF ReadyOK, Torn, Leaving
<1>4. ASSUME Torn, SameSeats, referee'.match = referee.match PROVE Good
  BY <1>3, <1>4 DEF SameSeats
<1>5. ASSUME Torn, NEW p \in Players, JoinTable(p) PROVE Good
  <2>1. /\ users'[p].escrow = None /\ \A q \in Players : q # p => users'[q] = users[q]
        /\ UNCHANGED referee
    BY <1>0, <1>5 DEF JoinTable, TypeOK
  <2>2. QED
    BY <1>3, <1>5, <2>1
<1>6. ASSUME Torn, NEW p \in Players, LobbyStep(p) \/ LeaveTable(p) PROVE Good
  <2>1. SameSeats /\ UNCHANGED referee
    BY <1>0, <1>6, UsersChange, SameUsersSame
       DEF LobbyStep, SetPlayerReady, SetPlayerUnready, LeaveTable
  <2>2. QED
    BY <1>4, <1>6, <2>1
<1>7. ASSUME Torn, NEW p \in Players, LeaveRemove(p) PROVE Good
  <2>1. /\ users'[p] = None /\ \A q \in Players : q # p => users'[q] = users[q]
        /\ UNCHANGED referee
    BY <1>0, <1>7 DEF LeaveRemove, TypeOK
  <2>2. QED
    BY <1>3, <1>7, <2>1
<1>8. ASSUME Torn, NEW p \in Players, LeaveReset(p) PROVE Good
  <2>1. SameSeats /\ referee'.match = referee.match
    BY <1>0, <1>8, UsersChange DEF LeaveReset, Cleared, TypeOK, RefereeState
  <2>2. QED
    BY <1>4, <1>8, <2>1
<1>9. ASSUME Torn, NEW p \in Players, BindWrite(p) PROVE Good
  <2>1. PICK e \in Escrows, t \in Seats : e = calls[p].escrow /\ t = calls[p].seat
    BY <1>0, <1>9 DEF BindWrite, CallsOK, TypeOK, Call
  <2>2. referee'.match = [referee.match EXCEPT ![t] = e] /\ referee.match \in Roster
    BY <1>0, <1>9, <2>1 DEF BindWrite, TypeOK, RefereeState
  <2>3. users[p] # None /\ users[p].seat = t /\ SeatsStay
    BY <1>0, <1>9, <2>1, UsersChange DEF BindWrite, CallsOK
  <2>4. \A s \in Seats : referee.match[s] # None => referee'.match[s] # None
    BY <2>2, Numbers DEF Roster
  <2>5. referee'.match[t] # None
    BY <2>2, Numbers DEF Roster
  <2>6. \A q \in Players : q # p => users'[q] = users[q]
    BY <1>0, <1>9 DEF BindWrite, SendEscrowBound, TypeOK
  <2>7. \A q \in Players : users[q] # None => users[q].seat \in Seats
    BY <1>0 DEF TypeOK, User
  <2>8. QED
    BY <1>3, <1>9, <2>3, <2>4, <2>5, <2>6, <2>7 DEF SeatsStay
<1>10. ASSUME Torn, NEW e \in Escrows, BindStep(e) PROVE Good
  BY <1>4, <1>10, SameUsersSame DEF BindStep, BindEscrow, BindRefused
<1>11. ASSUME Torn, NEW h \in Handlers, StreamStep(h) PROVE FALSE
  <2>1. UNCHANGED calls
    BY <1>11, QuietUsers
  <2>2. Leaving /\ Leaving'
    BY <1>3, <1>11, <2>1 DEF Leaving
  <2>3. streams[h].at = "idle" /\ streams'[h].at = "idle"
    BY <1>0, <2>2 DEF Alone
  <2>4. PICK e \in Escrows : StreamHello(h, e)
    BY <1>11, <2>3 DEF StreamStep, StreamSnapshot, StreamPrepare, PresigMap, PresigStore,
       StreamEOF, StreamDone, StreamBroken
  <2>5. streams'[h].at = "bound"
    BY <1>0, <2>4 DEF StreamHello, TypeOK, NoStream
  <2>6. QED
    BY <2>3, <2>5
<1>12. ASSUME Torn, EndStep PROVE FALSE
  <2>1. settlement.at = "none" /\ phase \notin {"playing", "over"} /\ ~(starts > 0)
    BY <1>0, <1>3, <1>12 DEF PhaseOK, Alone
  <2>2. QED
    BY <1>12, <2>1 DEF EndStep, StartGame, GameOver, HandleGameEnded, RemoveTable,
       TrySettlement, GetFinalizeBundle, Broadcast, BroadcastFails
<1> HIDE DEF Good
<1>13. Good
  <2>1. CASE \E p \in Players : LeaveClear(p)
    BY <1>1, <2>1
  <2>2. CASE Torn /\ \A p \in Players : ~LeaveClear(p)
    BY <1>5, <1>6, <1>7, <1>8, <1>9, <1>10, <1>11, <1>12, <2>2 DEF Step, LeaveStep
  <2>3. QED
    BY <1>2, <2>1, <2>2
<1>14. QED
  BY <1>13 DEF Good

\* The decision to start is taken by whoever makes the match ready.
LEMMA StartingKept ==
  ASSUME RefereeInv, Step, Overlaps' = {},
         phase' = "open", AllReady(users'), PresigningComplete(referee')
  PROVE  starts' > 0 \/ \E h \in Handlers : streams'[h].at = "closing"
<1> DEFINE Good == starts' > 0 \/ \E h \in Handlers : streams'[h].at = "closing"
<1>0. /\ TypeOK /\ UsersOK /\ CallsOK /\ StreamsOK /\ PhaseOK /\ ReadyOK /\ Alone /\ Alone'
      /\ UsersOK' /\ TypeOK' /\ SeatedWell(users) /\ SeatedWell(users')
  BY NothingOverlaps, UsersKept, TypeKept DEF RefereeInv, SeatedWell, TypeOK, UsersOK
<1>1. /\ SeatsOf(referee'.match) \subseteq referee'.complete /\ referee'.complete # {}
  BY SomeoneIsComplete
<1>2. ASSUME phase = "open", AllReady(users), PresigningComplete(referee)
      PROVE  starts > 0 \/ \E h \in Handlers : streams[h].at = "closing"
  BY <1>0, <1>2 DEF ReadyOK, ReadyMatchIsStarting
<1>3. ASSUME phase = "open", AllReady(users), PresigningComplete(referee), Leaving PROVE FALSE
  BY <1>0, <1>2, <1>3 DEF Alone
<1>4. ASSUME UNCHANGED phase, AllReady(users),
             SeatsOf(referee.match) \subseteq SeatsOf(referee'.match),
             referee'.complete = referee.complete, starts' = starts,
             \A h \in Handlers : streams[h].at = "closing" => streams'[h].at = "closing"
      PROVE  Good
  <2>1. PresigningComplete(referee)
    BY <1>1, <1>4, OpenMatch
  <2>2. QED
    BY <1>2, <1>4, <2>1
<1>5. ASSUME NEW p \in Players, JoinTable(p) \/ SetPlayerUnready(p) PROVE FALSE
  <2>1. users'[p] # None /\ ~users'[p].ready
    <3>1. CASE JoinTable(p)
      <4>1. PICK s \in Seats : users' = [users EXCEPT ![p] =
              [seat |-> s, ready |-> FALSE, escrow |-> None, funded |-> FALSE,
               presigned |-> FALSE]]
        BY <1>0, <3>1, JoinSeat
      <4>2. PICK u \in User :
              u = [seat |-> s, ready |-> FALSE, escrow |-> None, funded |-> FALSE,
                   presigned |-> FALSE]
        BY DEF User
      <4>3. u.ready = FALSE /\ users'[p] = u
        BY <1>0, <4>1, <4>2 DEF TypeOK
      <4>4. QED
        BY <4>3, NoneAssumption
    <3>2. CASE SetPlayerUnready(p)
      <4>1. users[p] # None /\ users[p] \in User
        BY <1>0, <3>2 DEF SetPlayerUnready, TypeOK
      <4>2. PICK u \in User : u = [users[p] EXCEPT !.ready = FALSE]
        BY <4>1 DEF User
      <4>3. u.ready = FALSE
        BY <4>1, <4>2 DEF User
      <4>4. users'[p] = u
        BY <1>0, <3>2, <4>2 DEF SetPlayerUnready, TypeOK
      <4>5. QED
        BY <4>3, <4>4, NoneAssumption
    <3>3. QED
      BY <1>5, <3>1, <3>2
  <2>2. QED
    BY <2>1 DEF AllReady
<1>6. ASSUME NEW p \in Players, SetPlayerReady(p) PROVE Good
  <2>1. starts' = starts + 1 /\ starts \in Nat
    BY <1>0, <1>6, ConstantsAssumption DEF SetPlayerReady, StartsAfter, TypeOK
  <2>2. QED
    BY <2>1
<1>7. ASSUME NEW p \in Players, LeaveTable(p) PROVE Good
  BY <1>4, <1>7 DEF LeaveTable
<1>8. ASSUME NEW p \in Players, LeaveClear(p) PROVE FALSE
  <2>1. Leaving /\ referee'.match = TableRoster(users') /\ referee'.complete = referee.complete
        /\ UNCHANGED phase
    BY <1>0, <1>8 DEF LeaveClear, Leaving, TypeOK, RefereeState
  <2>2. \A s \in Seats : referee'.match[s] # None
    <3>1. \A q \in Players : users'[q] # None => TableRoster(users')[users'[q].seat] = users'[q].escrow
      BY <1>0, RosterOfTable
    <3>2. \A s \in Seats : \E q \in Players :
            users'[q] # None /\ users'[q].seat = s /\ users'[q].escrow # None
      BY <1>0, ReadyTable
    <3>3. QED
      BY <2>1, <3>1, <3>2
  <2>3. SeatsOf(referee.match) \subseteq referee.complete
    BY <1>1, <2>1, <2>2 DEF SeatsOf
  <2>4. users' = users
    <3>1. users' = users \/ (users[p] # None
             /\ users' = [users EXCEPT ![p] = [users[p] EXCEPT !.escrow = None, !.funded = FALSE]])
      BY <1>8 DEF LeaveClear
    <3>2. ASSUME users[p] # None,
                 users' = [users EXCEPT ![p] = [users[p] EXCEPT !.escrow = None, !.funded = FALSE]]
          PROVE  FALSE
      <4>1. PICK u \in User : u = [users[p] EXCEPT !.escrow = None, !.funded = FALSE]
        BY <1>0, <3>2 DEF TypeOK, User
      <4>2. users'[p] = u /\ u # None /\ u.escrow = None
        BY <1>0, <3>2, <4>1, NoneAssumption DEF TypeOK, User
      <4>3. QED
        BY <4>2 DEF AllReady
    <3>3. QED
      BY <3>1, <3>2
  <2>5. QED
    BY <1>1, <1>3, <2>1, <2>3, <2>4, OpenMatch
<1>9. ASSUME NEW p \in Players, LeaveRemove(p) PROVE FALSE
  <2>1. Leaving /\ users' = [users EXCEPT ![p] = None] /\ UNCHANGED <<referee, phase>>
    BY <1>9 DEF LeaveRemove, Leaving
  <2>2. CASE users[p] = None
    <3>1. users' = users
      BY <1>0, <2>1, <2>2 DEF TypeOK
    <3>2. QED
      BY <1>3, <2>1, <3>1
  <2>3. CASE users[p] # None
    <3>1. users[p].seat \in Seats
      BY <1>0, <2>3 DEF TypeOK, User
    <3>2. PICK q \in Players : users'[q] # None /\ users'[q].seat = users[p].seat
      BY <1>0, <3>1, ReadyTable
    <3>3. q # p /\ users'[q] = users[q]
      BY <1>0, <2>1, <3>2 DEF TypeOK
    <3>4. QED
      BY <1>0, <2>3, <3>2, <3>3 DEF UsersOK
  <2>4. QED
    BY <2>2, <2>3
<1>10. ASSUME NEW p \in Players, LeaveReset(p) PROVE FALSE
  <2>1. referee'.complete = {}
    BY <1>0, <1>10 DEF LeaveReset, Cleared, TypeOK, RefereeState
  <2>2. QED
    BY <1>1, <2>1
<1>11. ASSUME NEW e \in Escrows, BindStep(e) PROVE Good
  BY <1>4, <1>11 DEF BindStep, BindEscrow, BindRefused
<1>12. ASSUME NEW p \in Players, BindWrite(p) PROVE Good
  <2>1. PICK e \in Escrows, t \in Seats : e = calls[p].escrow /\ t = calls[p].seat
    BY <1>0, <1>12 DEF BindWrite, CallsOK, TypeOK, Call
  <2>2. /\ referee'.match = [referee.match EXCEPT ![t] = e] /\ referee.match \in Roster
        /\ referee'.complete = referee.complete /\ UNCHANGED <<phase, starts, streams>>
    BY <1>0, <1>12, <2>1 DEF BindWrite, TypeOK, RefereeState
  <2>3. SeatsOf(referee.match) \subseteq SeatsOf(referee'.match)
    BY <2>2, Numbers DEF SeatsOf, Roster
  <2>4. SeatsStay
    BY <1>0, <1>12, UsersChange
  <2>5. \A q \in Players : q # p => users'[q] = users[q]
    BY <1>0, <1>12 DEF BindWrite, SendEscrowBound, TypeOK
  <2>6. users[p] # None /\ calls[p].at = "binding" /\ users'[p] # None
        /\ users'[p].ready = users[p].ready
    <3>1. users[p] # None /\ calls[p].at = "binding" /\ users[p] \in User
      BY <1>0, <1>12 DEF BindWrite, CallsOK, TypeOK
    <3>2. users' = users \/ SendEscrowBound(p, e)
      BY <1>12, <2>1 DEF BindWrite
    <3>3. SendEscrowBound(p, e) => users'[p] = [users[p] EXCEPT !.escrow = e, !.funded = TRUE]
      BY <1>0 DEF SendEscrowBound, TypeOK
    <3>4. [users[p] EXCEPT !.escrow = e, !.funded = TRUE].ready = users[p].ready
      BY <3>1 DEF User
    <3>5. QED
      BY <2>4, <3>1, <3>2, <3>3, <3>4 DEF SeatsStay
  <2>7. ASSUME NEW q \in Players, users[q] # None
        PROVE  users[q].ready /\ users[q].escrow # None /\ users[q].funded
    <3>1. users'[q] # None /\ users'[q].ready
      BY <2>4, <2>7 DEF SeatsStay, AllReady
    <3>2. CASE q = p
      BY <1>0, <2>6, <3>1, <3>2 DEF UsersOK
    <3>3. CASE q # p
      BY <2>5, <2>7, <3>1, <3>3 DEF AllReady
    <3>4. QED
      BY <3>2, <3>3
  <2>8. AllReady(users)
    <3>1. {q \in Players : users'[q] # None} = {q \in Players : users[q] # None}
      BY <2>4 DEF SeatsStay
    <3>2. QED
      BY <2>7, <3>1 DEF AllReady
  <2>9. QED
    BY <1>4, <2>2, <2>3, <2>8
<1>13. ASSUME NEW h \in Handlers, NEW e \in Escrows, StreamHello(h, e) PROVE Good
  <2>1. Owner[e] \in Players /\ users[Owner[e]] # None /\ users[Owner[e]] \in User
        /\ users'[Owner[e]] = [users[Owner[e]] EXCEPT !.escrow = e, !.funded = TRUE]
        /\ (\A q \in Players : q # Owner[e] => users'[q] = users[q])
        /\ streams[h].at = "idle" /\ UNCHANGED <<phase, starts, referee, calls>>
    BY <1>0, <1>13, Numbers DEF StreamHello, SendEscrowBound, TypeOK
  <2>2. streams'[h].at = "bound" /\ \A g \in Handlers : g # h => streams'[g] = streams[g]
    BY <1>0, <1>13 DEF StreamHello, TypeOK, NoStream
  <2>3. ~Leaving
    BY <1>0, <2>1, <2>2 DEF Alone, Leaving
  <2>4. users'[Owner[e]].ready = users[Owner[e]].ready
    BY <2>1 DEF User
  <2>5. AllReady(users)
    BY <1>0, <1>13, <2>1, <2>3, <2>4, ReadyBefore, UsersChange
  <2>6. \A g \in Handlers : streams[g].at = "closing" => streams'[g].at = "closing"
    BY <2>1, <2>2
  <2>7. QED
    BY <1>4, <2>1, <2>5, <2>6
<1>14. ASSUME NEW h \in Handlers,
              StreamSnapshot(h) \/ PresigMap(h) \/ PresigStore(h) \/ StreamBroken(h)
       PROVE  Good
  <2>1. \A g \in Handlers : streams[g].at = "closing" => streams'[g].at = "closing"
    BY <1>0, <1>14 DEF StreamSnapshot, PresigMap, PresigStore, StreamBroken, EndStream, TypeOK
  <2>2. UNCHANGED <<users, phase, starts>>
    BY <1>14 DEF StreamSnapshot, PresigMap, PresigStore, StreamBroken
  <2>3. referee'.match = referee.match /\ referee'.complete = referee.complete
    <3>1. referee \in RefereeState
      BY <1>0 DEF TypeOK
    <3>2. CASE UNCHANGED referee
      BY <3>2
    <3>3. CASE PresigMap(h)
      BY <3>1, <3>3 DEF PresigMap, RefereeState
    <3>4. CASE PresigStore(h)
      BY <3>1, <3>4 DEF PresigStore, RefereeState
    <3>5. QED
      BY <1>14, <3>2, <3>3, <3>4 DEF StreamSnapshot, StreamBroken
  <2>4. QED
    BY <1>4, <2>1, <2>2, <2>3
<1>15. ASSUME NEW h \in Handlers, StreamPrepare(h) PROVE Good
  <2>1. streams[h].at = "snapped" /\ UNCHANGED <<users, phase, starts>>
        /\ referee'.match = streams[h].snap /\ referee'.complete = referee.complete
    BY <1>0, <1>15 DEF StreamPrepare, TypeOK, RefereeState
  <2>2. \A g \in Handlers : streams[g].at = "closing" => streams'[g].at = "closing"
    BY <1>0, <1>15 DEF StreamPrepare, EndStream, TypeOK
  <2>3. PICK t \in Seats : t = streams[h].seat /\ streams[h].snap[t] \in Escrows
    BY <1>0, <2>1 DEF StreamsOK, StreamTrue, TypeOK, Stream
  <2>4. t \in referee.complete
    BY <1>1, <2>1, <2>3, Numbers DEF SeatsOf
  <2>5. \A s \in Seats : streams[h].snap[s] # None
    BY <1>0, <2>1, <2>3, <2>4 DEF Alone, InDone
  <2>6. SeatsOf(referee.match) \subseteq SeatsOf(referee'.match)
    BY <2>1, <2>5 DEF SeatsOf
  <2>7. QED
    BY <1>4, <2>1, <2>2, <2>6
<1>16. ASSUME NEW h \in Handlers, StreamEOF(h) PROVE Good
  <2>1. streams'[h].at = "closing"
    BY <1>0, <1>16 DEF StreamEOF, TypeOK, Stream
  <2>2. QED
    BY <2>1
<1>17. ASSUME NEW h \in Handlers, StreamDone(h) PROVE Good
  <2>1. streams[h].at = "closing" /\ UNCHANGED <<phase, referee>>
    BY <1>17 DEF StreamDone
  <2>2. users[Owner[streams[h].escrow]] # None
    BY <1>0, <2>1 DEF StreamsOK, StreamTrue, Backs
  <2>3. starts' = StartsAfter(users', referee)
    BY <1>17, <2>1, <2>2 DEF StreamDone
  <2>4. starts' = starts + 1 /\ starts \in Nat
    BY <1>0, <2>1, <2>3, ConstantsAssumption DEF StartsAfter, TypeOK
  <2>5. QED
    BY <2>4
<1>18. ASSUME EndStep PROVE FALSE
  <2>1. UNCHANGED users
    BY <1>18, QuietUsers
  <2>2. ~StartGame
    BY <2>1 DEF StartGame
  <2>3. (\A p \in Players : ~GameOver(p)) /\ ~RemoveTable
    BY DEF GameOver, RemoveTable
  <2>4. ~HandleGameEnded /\ ~TrySettlement /\ ~GetFinalizeBundle /\ ~Broadcast /\ ~BroadcastFails
    BY <1>0 DEF HandleGameEnded, TrySettlement, GetFinalizeBundle, Broadcast, BroadcastFails, PhaseOK
  <2>5. QED
    BY <1>18, <2>2, <2>3, <2>4 DEF EndStep
<1> HIDE DEF Good
<1>19. Good
  <2>1. ASSUME NEW p \in Players, LobbyStep(p) \/ LeaveStep(p) PROVE Good
    BY <1>5, <1>6, <1>8, <1>9, <1>10, <2>1 DEF LobbyStep, LeaveStep
  <2>2. ASSUME NEW h \in Handlers, StreamStep(h) PROVE Good
    BY <1>13, <1>14, <1>15, <1>16, <1>17, <2>2 DEF StreamStep
  <2>3. QED
    BY <1>5, <1>7, <1>11, <1>12, <1>18, <2>1, <2>2 DEF Step
<1>20. QED
  BY <1>19 DEF Good

-----------------------------------------------------------------------------
(* The theorems.                                                           *)

LEMMA StartsRight == Init => RefereeInv
<1> SUFFICES ASSUME Init PROVE RefereeInv
  OBVIOUS
<1>1. \A p \in Players : users[p] \in User /\ users[p].seat = Seating[p]
        /\ users[p].escrow = None /\ users[p].ready = FALSE
  BY ConstantsAssumption DEF Init, User, Seats
<1>2. TypeOK
  <2>1. referee \in RefereeState /\ streams \in [Handlers -> Stream] /\ calls \in [Players -> Call]
    BY NothingTyped DEF Init, RefereeState
  <2>2. settlement \in Settlement
    BY Numbers DEF Init, Settlement, Branches, Seats, Draft
  <2>3. session \in [Escrows -> Session]
    BY Numbers DEF Init, Session
  <2>4. users \in [Players -> User \cup {None}]
    BY <1>1 DEF Init
  <2>5. joins \in 0 .. MaxJoins /\ starts \in 0 .. MaxStarts /\ opened \in 0 .. MaxStreams
    BY ConstantsAssumption DEF Init
  <2>6. QED
    BY <2>1, <2>2, <2>3, <2>4, <2>5 DEF Init, TypeOK
<1>3. ~Leaving /\ ~Torn
  BY DEF Init, Idle, Leaving, Torn
<1>4. Overlaps = {}
  <2>1. ~LeaveOverlaps
    BY DEF Init, Idle, LeaveOverlaps
  <2>2. ~SwitchOverlaps
    BY <1>1, Numbers DEF SwitchOverlaps
  <2>3. ~StaleOverlaps
    BY DEF Init, NoStream, StaleOverlaps
  <2>4. QED
    BY <2>1, <2>2, <2>3 DEF Overlaps
<1>5. UsersOK
  BY <1>1, ConstantsAssumption DEF UsersOK
<1>6. CallsOK /\ StreamsOK
  BY DEF Init, Idle, NoStream, CallsOK, StreamsOK, StreamTrue
<1>7. PhaseOK /\ SettlementOK
  BY <1>3 DEF Init, PhaseOK, SettlementOK
<1>8. ReadyOK
  <2>1. ~AllReady(users)
    <3>1. ASSUME AllReady(users) PROVE FALSE
      <4>1. SeatedWell(users)
        BY <1>2, <1>5 DEF SeatedWell, TypeOK, UsersOK
      <4>2. PICK p \in Players : users[p].ready /\ users[p] # None
        BY <3>1, <4>1, ReadyTable, Numbers
      <4>3. QED
        BY <1>1, <4>2
    <3>2. QED
      BY <3>1
  <2>2. QED
    BY <1>3, <2>1 DEF ReadyOK, ReadyMatchIsStarting
<1>9. Prepared /\ Rosters
  <2>1. /\ referee.complete = {} /\ \A h \in Handlers : streams[h].at = "idle"
        /\ \A e \in Escrows : referee.presigns.sig[e] = {}
    BY DEF Init, NoStream, NoPresigns
  <2>2. \A s : ~InDone(s)
    BY <2>1 DEF InDone, Later
  <2>3. Prepared
    BY <2>1, <2>2 DEF Prepared, Later
  <2>4. Rosters
    BY <2>1, <2>2, Numbers DEF Rosters
  <2>5. QED
    BY <2>3, <2>4
<1>10. QED
  BY <1>2, <1>4, <1>5, <1>6, <1>7, <1>8, <1>9 DEF RefereeInv

LEMMA StepsRight ==
  ASSUME MayOverlap = {}, RefereeInv, [Next]_vars
  PROVE  RefereeInv'
<1>1. CASE UNCHANGED vars
  <2>1. TypeOK' /\ Overlaps' = {}
    BY <1>1 DEF vars, RefereeInv, TypeOK, Overlaps, LeaveOverlaps, SwitchOverlaps,
       StaleOverlaps
  <2>2. UsersOK' /\ CallsOK'
    BY <1>1 DEF vars, RefereeInv, UsersOK, CallsOK
  <2>3. StreamsOK'
    BY <1>1 DEF vars, RefereeInv, StreamsOK, StreamTrue, Backs, True
  <2>4. PhaseOK' /\ SettlementOK'
    BY <1>1 DEF vars, RefereeInv, PhaseOK, Leaving, Seated, SettlementOK
  <2>5. ReadyOK'
    BY <1>1 DEF vars, RefereeInv, ReadyOK, Torn, ReadyMatchIsStarting
  <2>6. ~Torn' /\ settlement'.at # "paid" => ~Torn /\ settlement.at # "paid"
    BY <1>1 DEF vars, Torn
  <2>7. Prepared => Prepared'
    BY <1>1 DEF vars, Prepared, Backs, InDone, Full, Stakes
  <2>8. Rosters => Rosters'
    BY <1>1 DEF vars, Rosters, Backs, InDone, Full, Stakes, True
  <2>9. QED
    BY <2>1, <2>2, <2>3, <2>4, <2>5, <2>6, <2>7, <2>8 DEF RefereeInv
<1>2. CASE Next
  <2>1. Step /\ Overlaps' = {}
    BY <1>2, NextIsStep
  <2>2. TypeOK' /\ UsersOK' /\ CallsOK' /\ StreamsOK'
    BY <2>1, TypeKept, UsersKept, CallsKept, StreamsKept
  <2>3. PhaseOK' /\ SettlementOK'
    BY <2>1, PhaseKept, SettlementKept
  <2>4. ReadyOK'
    BY <2>1, TornKept, StartingKept DEF ReadyOK, ReadyMatchIsStarting
  <2>5. ~Torn' /\ settlement'.at # "paid" => Prepared' /\ Rosters'
    BY <2>1, PreparedKept
  <2>6. QED
    BY <2>1, <2>2, <2>3, <2>4, <2>5 DEF RefereeInv
<1>3. QED
  BY <1>1, <1>2

\* The inductive invariant: until the settlement is accepted or a departure
\* takes a seat away, everything prepared by binding and presigning is about
\* the same stakes, and the sessions, rosters and flags agree with it.
THEOREM RefereeInvariant ==
  ASSUME MayOverlap = {} PROVE Spec => []RefereeInv
<1>1. Init => RefereeInv
  BY StartsRight
<1>2. RefereeInv /\ [Next]_vars => RefereeInv'
  BY StepsRight
<1>3. QED
  BY <1>1, <1>2, PTL DEF Spec

\* Every variable of the match keeps its type.
THEOREM RefereeTypeCorrect ==
  ASSUME MayOverlap = {} PROVE Spec => []TypeOK
<1>1. RefereeInv => TypeOK
  BY DEF RefereeInv
<1>2. QED
  BY <1>1, RefereeInvariant, PTL

\* While a match is played its settlement is already fixed: StartGame runs
\* only when every seat is backed, every backer has signed the one draft that
\* spends all the stakes, and every seat has a branch.
THEOREM StartedMatchAlwaysSettles ==
  ASSUME MayOverlap = {} PROVE Spec => []StartedMatchCanSettle
<1>1. ASSUME RefereeInv, phase = "playing" PROVE StartedMatchCanSettle
  <2>1. TypeOK /\ UsersOK /\ PhaseOK
    BY <1>1 DEF RefereeInv
  <2>2. ~Torn /\ settlement.at = "none" /\ \A s \in Seats : s \in referee.complete
    BY <1>1, <2>1 DEF PhaseOK, Leaving, Torn
  <2>3. Prepared /\ Rosters
    BY <1>1, <2>2 DEF RefereeInv
  <2>4. /\ SettlementRoster(referee) = referee.frozen
        /\ SeatsOf(referee.frozen) = Seats /\ EscrowsOf(referee.frozen) = Stakes
        /\ \A e \in Escrows : referee.presigns.sig[e] = IF e \in Stakes THEN Stakes ELSE {}
    BY <2>1, <2>2, <2>3, EverybodyHasCome
  <2>5. \A p \in Players : users[p] # None =>
          BranchesOfSeat(referee.frozen, users[p].seat) # {}
    BY <2>1, <2>2, <2>3, EverybodyHasCome
  <2>6. Signed(referee.frozen)
    BY <2>4 DEF Signed
  <2>7. QED
    BY <2>4, <2>5, <2>6 DEF StartedMatchCanSettle, Seated
<1>2. RefereeInv => StartedMatchCanSettle
  BY <1>1 DEF StartedMatchCanSettle
<1>3. QED
  BY <1>2, RefereeInvariant, PTL

\* The transaction the network accepts pays the player who won the game,
\* however seats, branches and outputs are ordered (trySettlementBroadcast).
THEOREM SettlementAlwaysPaysWinner ==
  ASSUME MayOverlap = {} PROVE Spec => []SettlementPaysWinner
<1>1. RefereeInv => SettlementPaysWinner
  BY DEF RefereeInv, SettlementOK, SettlementPaysWinner
<1>2. QED
  BY <1>1, RefereeInvariant, PTL

\* A match that is ready and presigned has a start under way: SetPlayerReady
\* and SettlementStream look at both conditions and one of them sees both.
THEOREM ReadyMatchAlwaysStarts ==
  ASSUME MayOverlap = {} PROVE Spec => []ReadyMatchIsStarting
<1>1. RefereeInv => ReadyMatchIsStarting
  BY DEF RefereeInv, ReadyOK
<1>2. QED
  BY <1>1, RefereeInvariant, PTL

\* Of the steps from the end of the game to SendRawTransaction only the node's
\* answer can fail: handleGameEnded, trySettlementBroadcast and
\* GetFinalizeBundle find all they look for.
THEOREM OnlyTheNodeEverRefuses ==
  ASSUME MayOverlap = {} PROVE Spec => OnlyTheNodeRefuses
<1> DEFINE Refused == settlement'.at = "failed" =>
             \/ settlement.at = "failed"
             \/ /\ settlement.at = "send"
                /\ Acceptable(settlement.draft, settlement.sig)
<1>1. ASSUME RefereeInv, Step PROVE Refused
  <2>1. TypeOK /\ SettlementOK /\ settlement \in Settlement
    BY <1>1 DEF RefereeInv, TypeOK
  <2>2. CASE UNCHANGED settlement
    BY <2>2
  <2>3. ASSUME EndStep PROVE Refused
    <3>1. CASE StartGame
      BY <2>1, <3>1 DEF StartGame, Settlement
    <3>2. ASSUME NEW p \in Players, GameOver(p) PROVE Refused
      BY <2>1, <3>2 DEF GameOver, Settlement
    <3>3. CASE HandleGameEnded
      <4>1. settlement.at = "ended" /\ settlement.seat # None
        <5>1. settlement.at = "ended"
          BY <3>3 DEF HandleGameEnded
        <5>2. settlement.seat \in Seats
          BY <2>1, <5>1 DEF SettlementOK, TypeOK, User
        <5>3. QED
          BY <5>1, <5>2, Numbers
      <4>2. settlement'.at = "try"
        BY <2>1, <3>3, <4>1 DEF HandleGameEnded, Settlement
      <4>3. QED
        BY <4>2
    <3>4. CASE TrySettlement
      <4>1. settlement.at = "try"
        BY <3>4 DEF TrySettlement
      <4>2. MatchReady(referee.match) /\ PresigningComplete(referee)
        BY <1>1, <4>1, LiveRosterReady
      <4>3. settlement'.at = "bundle"
        BY <2>1, <3>4, <4>2 DEF TrySettlement, Settlement
      <4>4. QED
        BY <4>3
    <3>5. CASE GetFinalizeBundle
      <4>1. PICK e \in Stakes :
              settlement' = [settlement EXCEPT !.at = "send", !.branch = Index(Stakes, e),
                               !.draft = Stakes, !.sig = referee.presigns.sig]
        BY <1>1, <3>5, BundlePays
      <4>2. settlement'.at = "send"
        BY <2>1, <4>1 DEF Settlement
      <4>3. QED
        BY <4>2
    <3>6. CASE Broadcast
      BY <2>1, <3>6 DEF Broadcast, Settlement
    <3>7. CASE BroadcastFails
      <4>1. settlement.at = "send" /\ settlement.draft \subseteq Escrows
        BY <2>1, <3>7 DEF BroadcastFails, Settlement, Draft
      <4>2. Acceptable(settlement.draft, settlement.sig)
        BY <2>1, <4>1 DEF SettlementOK, Acceptable
      <4>3. QED
        BY <4>1, <4>2
    <3>8. CASE RemoveTable
      BY <3>8 DEF RemoveTable
    <3>9. QED
      BY <2>3, <3>1, <3>2, <3>3, <3>4, <3>5, <3>6, <3>7, <3>8 DEF EndStep
  <2>4. ~EndStep => UNCHANGED settlement
    BY <1>1 DEF Step, LobbyStep, LeaveStep, BindStep, StreamStep, JoinTable, SetPlayerReady,
       SetPlayerUnready, LeaveTable, LeaveClear, LeaveRemove, LeaveReset, BindWrite,
       BindEscrow, BindRefused, StreamHello, StreamSnapshot, StreamPrepare, PresigMap,
       PresigStore, StreamEOF, StreamDone, StreamBroken
  <2>5. QED
    BY <2>2, <2>3, <2>4
<1>2. RefereeInv /\ [Next]_vars => [Refused]_vars
  BY <1>1, NextIsStep
<1>3. QED
  BY <1>2, RefereeInvariant, PTL DEF Spec, OnlyTheNodeRefuses
=============================================================================
