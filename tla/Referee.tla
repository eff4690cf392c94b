------------------------------ MODULE Referee ------------------------------
(***************************************************************************)
(* One buy-in match, from its seats to its settlement: the escrows bound   *)
(* to the seats, the presignatures every player gives for every possible   *)
(* winner, the start and end of the game, and the transaction that pays    *)
(* the winner.  It covers the RPC handlers of server/referee.go and        *)
(* server/lobby.go, the part of the table and of its users they change,    *)
(* and trySettlementBroadcast.                                             *)
(*                                                                         *)
(* A handler is not atomic: it looks at the table, at the escrow and at    *)
(* the referee's maps under three different locks.  Each handler is one    *)
(* action per stretch between the points where what it has read may go     *)
(* stale.  The game itself is one step from start to winner (see Hand).    *)
(*                                                                         *)
(* Escrows are numbers; their order is the order of their outputs          *)
(* (pkScript, txid, vout), in which branches are counted.  A draft is the  *)
(* set of escrows it spends: with the branch this fixes the transaction.   *)
(***************************************************************************)
EXTENDS Integers, FiniteSets, Sequences

CONSTANTS Players, Escrows, Owner, MaxPlayers, None,
          Seating,        \* the seat each player takes first
          Handlers,       \* bound: SettlementStream handlers at a time
          MaxJoins,       \* bound: seats taken again after a leave, in all
          MaxStreams,     \* bound: settlement streams opened in all
          MaxStarts,      \* bound: start goroutines alive at a time
          MayOverlap      \* bound: the overlapping requests explored

ASSUME ConstantsAssumption ==
  /\ MaxPlayers \in Nat /\ MaxPlayers > 1
  /\ Escrows \subseteq Nat
  /\ MaxJoins \in Nat /\ MaxStreams \in Nat /\ MaxStarts \in Nat
  /\ MayOverlap \subseteq {"leave", "switch", "stale"}
  /\ Owner \in [Escrows -> Players]
  /\ Seating \in [Players -> 0 .. MaxPlayers - 1]
  /\ \A p, q \in Players : Seating[p] = Seating[q] => p = q
  /\ None \notin Players \cup Nat

Seats    == 0 .. MaxPlayers - 1
Branches == 0 .. MaxPlayers - 1
Roster   == [Seats -> Escrows \cup {None}]

VARIABLES
  users,        \* Table.users
  joins,        \* seats taken again so far
  phase,        \* no game yet, game running, game over, table removed
  starts,       \* goroutines about to call StartGame
  session,      \* refereeEscrowSession of each escrow
  referee,      \* the maps under s.referee.mu for this match
  streams,      \* what each SettlementStream handler is doing
  opened,       \* streams opened so far
  calls,        \* BindEscrow or LeaveTable in progress for each player
  settlement,   \* the end of the game and trySettlementBroadcast
  paid,         \* who the accepted settlement paid
  crashed       \* the process died of a panic

vars == <<users, joins, phase, starts, session, referee, streams,
          opened, calls, settlement, paid, crashed>>

User == [seat : Seats, ready : BOOLEAN, escrow : Escrows \cup {None},
         funded : BOOLEAN, presigned : BOOLEAN]

ASSUME NoneAssumption == None \notin User

Session == [funding : {"ready", "spent"}, seat : Seats]

Draft == SUBSET Escrows

\* sig[e] is the draft whose branches the owner of e has signed, the empty
\* set when it has not; made says that the maps of the match exist
Presigns   == [made : BOOLEAN, sig : [Escrows -> Draft]]
NoPresigns == [made |-> FALSE, sig |-> [e \in Escrows |-> {}]]
NoRoster   == [s \in Seats |-> None]

RefereeState == [match : Roster, frozen : Roster, presigns : Presigns,
                 gamma : BOOLEAN, complete : SUBSET Seats, pending : BOOLEAN]

Stream == [at : {"idle", "bound", "snapped", "signing", "storing", "signed",
                 "closing"},
           escrow : Escrows \cup {None}, seat : Seats, snap : Roster, draft : Draft]

Call == [at : {"idle", "binding", "clearing", "removing", "resetting"},
         seat : Seats, escrow : Escrows \cup {None}]

Settlement ==
  [at : {"none", "ended", "try", "bundle", "send", "paid", "failed"},
   players : SUBSET Players, winner : Players \cup {None}, seat : Seats \cup {None},
   branch : Branches, draft : Draft, sig : [Escrows -> Draft]]

TypeOK ==
  /\ users \in [Players -> User \cup {None}]
  /\ joins \in 0 .. MaxJoins
  /\ phase \in {"open", "playing", "over", "removed"}
  /\ starts \in 0 .. MaxStarts
  /\ session \in [Escrows -> Session]
  /\ referee \in RefereeState
  /\ streams \in [Handlers -> Stream]
  /\ opened \in 0 .. MaxStreams
  /\ calls \in [Players -> Call]
  /\ settlement \in Settlement
  /\ paid \in Players \cup {None}
  /\ crashed \in BOOLEAN

-----------------------------------------------------------------------------
(* What the handlers read *)

Seated == {p \in Players : users[p] # None}

\* the escrows of a roster (readyEscrowsForSeats)
EscrowsOf(roster) == {roster[s] : s \in Seats} \ {None}
SeatsOf(roster)   == {s \in Seats : roster[s] # None}

\* ensureBoundFunding: only a ready escrow may back a seat
Funded(e) == session[e].funding = "ready"

MatchReady(roster) ==
  /\ Cardinality(SeatsOf(roster)) >= 2
  /\ \A e \in EscrowsOf(roster) : Funded(e)

\* the escrow of the user at each seat (rebuildMatchEscrowsFromTable)
TableRoster(us) ==
  [s \in Seats |->
    LET here == {p \in Players : us[p] # None /\ us[p].seat = s} IN
    IF here = {} THEN None ELSE us[CHOOSE p \in here : TRUE].escrow]

\* allSeatedPlayersReadyLocked: the flag funded was set at binding time
AllReady(us) ==
  LET seated == {p \in Players : us[p] # None} IN
  /\ Cardinality(seated) = MaxPlayers
  /\ \A p \in seated : us[p].ready /\ us[p].escrow # None /\ us[p].funded

\* Mutant: one seat is taken for all.
AnySeatPresigned(r) ==
  /\ Cardinality(SeatsOf(r.match)) >= 2
  /\ SeatsOf(r.match) \cap r.complete # {}

\* IsPresigningComplete, over the live roster
PresigningComplete(r) ==
  /\ Cardinality(SeatsOf(r.match)) >= 2
  /\ SeatsOf(r.match) \subseteq r.complete

\* applyUserEscrow: may the user change to this escrow?
MayRebind(u, e) ==
  u.escrow \in {None, e} \/ (phase = "open" /\ ~u.presigned)

\* freezeSettlementEscrows goes by the seat in the escrow session
Freeze(roster, ses) ==
  [s \in Seats |->
    LET here == {t \in SeatsOf(roster) : ses[roster[t]].seat = s} IN
    IF here = {} THEN None
    ELSE roster[CHOOSE t \in here : \A u \in here : u <= t]]

\* Mutant: counted from one.
IndexFromOne(draft, e) == Cardinality({x \in draft : x <= e})

\* the index of an escrow among those of a draft, in the order of outputs
Index(draft, e) == Cardinality({x \in draft : x < e})

\* who the draft of a branch pays (buildWTADrafts)
Payee(draft, branch) ==
  Owner[CHOOSE e \in draft : Index(draft, e) = branch]

\* the roster settlement goes by: the frozen one when there is one
SettlementRoster(r) == IF r.frozen # NoRoster THEN r.frozen ELSE r.match

\* Mutant: seats and branches are taken to be in the same order.
BranchIsSeat(roster, seat) == IF roster[seat] = None THEN {} ELSE {seat}

\* seatToBranchIndex: by the seat in the escrow session, in output order
BranchesOfSeat(roster, seat) ==
  {Index(EscrowsOf(roster), e) :
     e \in {x \in EscrowsOf(roster) : session[x].seat = seat}}

\* clearMatchPreparationState
Cleared(r) == [r EXCEPT !.frozen = NoRoster, !.presigns = NoPresigns,
                        !.gamma = FALSE, !.complete = {}, !.pending = FALSE]

\* maybeStartGameAfterPresign spawns a call of StartGame
StartsAfter(us, r) ==
  IF /\ phase = "open" /\ AllReady(us) /\ PresigningComplete(r)
  THEN starts + 1 ELSE starts

\* A seat is being given up while signatures are collected or the start of
\* the game is under way.
LeaveOverlaps ==
  /\ \E p \in Players :
       calls[p].at \in {"clearing", "removing", "resetting"}
  /\ starts > 0 \/ \E h \in Handlers : streams[h].at # "idle"

\* A player backs its seat with one escrow while another of its escrows is
\* already part of the preparation.
SwitchOverlaps ==
  \E e \in Escrows :
    LET u == users[Owner[e]] IN
    /\ u # None /\ u.escrow \notin {None, e}
    /\ \/ e \in EscrowsOf(referee.frozen)
       \/ \E d \in Escrows : e \in referee.presigns.sig[d]
       \/ \E h \in Handlers :
            \/ streams[h].at # "idle" /\ streams[h].escrow = e
            \/ e \in EscrowsOf(streams[h].snap) \cup streams[h].draft

\* a handler that has built its drafts
Later == {"signing", "storing", "signed", "closing"}

\* A handler holds a roster read before every seat was backed, while another
\* handler of its seat has passed it.
StaleOverlaps ==
  \E h \in Handlers :
    LET st == streams[h] IN
    /\ st.at = "snapped" /\ SeatsOf(st.snap) # Seats
    /\ \/ st.seat \in referee.complete
       \/ \E g \in Handlers : streams[g].at \in Later /\ streams[g].seat = st.seat

Overlaps == (IF LeaveOverlaps THEN {"leave"} ELSE {}) \cup
            (IF SwitchOverlaps THEN {"switch"} ELSE {}) \cup
            (IF StaleOverlaps THEN {"stale"} ELSE {})

-----------------------------------------------------------------------------
(* The lobby *)

Idle == [at |-> "idle", seat |-> 0, escrow |-> None]

FreeSeats == Seats \ {users[p].seat : p \in Seated}

\* JoinTable: the lowest free seat, before the game has started
JoinTable(p) ==
  /\ phase = "open" /\ users[p] = None /\ joins < MaxJoins
  /\ calls[p].at = "idle" /\ FreeSeats # {}
  /\ users' = [users EXCEPT ![p] =
       [seat |-> CHOOSE s \in FreeSeats : \A t \in FreeSeats : s <= t,
        ready |-> FALSE, escrow |-> None, funded |-> FALSE,
        presigned |-> FALSE]]
  /\ joins' = joins + 1
  /\ UNCHANGED <<phase, starts, session, referee, streams, opened,
                 calls, settlement, paid, crashed>>

\* Mutant: only the end of presigning starts the game.
ReadyOnly(p) ==
  /\ phase \in {"open", "playing"} /\ users[p] # None
  /\ users[p].escrow # None /\ Funded(users[p].escrow)
  /\ users' = [users EXCEPT ![p].ready = TRUE]
  /\ UNCHANGED <<joins, phase, starts, session, referee, streams, opened,
                 calls, settlement, paid, crashed>>

\* SetPlayerReady.  A table whose game is over does not answer.
SetPlayerReady(p) ==
  /\ phase \in {"open", "playing"} /\ users[p] # None
  /\ LET e == users[p].escrow IN
     /\ e # None /\ Funded(e)
     /\ session' = [session EXCEPT ![e].seat = IF @ = 0 THEN users[p].seat
                                               ELSE @]
  /\ users' = [users EXCEPT ![p].ready = TRUE]
  /\ StartsAfter(users', referee) <= MaxStarts
  /\ starts' = StartsAfter(users', referee)
  /\ UNCHANGED <<joins, phase, referee, streams, opened, calls, settlement,
                 paid, crashed>>

\* SetPlayerUnready
SetPlayerUnready(p) ==
  /\ phase \in {"open", "playing"} /\ users[p] # None /\ users[p].ready
  /\ users' = [users EXCEPT ![p].ready = FALSE]
  /\ UNCHANGED <<joins, phase, starts, session, referee, streams,
                 opened, calls, settlement, paid, crashed>>

\* Mutant: a running game does not reserve the seat.
LeaveAnyTime(p) ==
  /\ phase \in {"open", "playing"} /\ ~referee.pending
  /\ users[p] # None /\ calls[p].at = "idle"
  /\ calls' = [calls EXCEPT ![p] = [at |-> "clearing", escrow |-> None,
                                    seat |-> users[p].seat]]
  /\ UNCHANGED <<users, joins, phase, starts, session, referee,
                 streams, opened, settlement, paid, crashed>>

\* LeaveTable: no game and no settlement pending, so the seat is given up;
\* otherwise it is reserved and nothing here changes
LeaveTable(p) ==
  /\ phase = "open" /\ ~referee.pending
  /\ users[p] # None /\ calls[p].at = "idle"
  /\ calls' = [calls EXCEPT ![p] = [at |-> "clearing", escrow |-> None,
                                    seat |-> users[p].seat]]
  /\ UNCHANGED <<users, joins, phase, starts, session, referee,
                 streams, opened, settlement, paid, crashed>>

\* clearEscrowBindingForSeat: reset the user's escrow if that is allowed,
\* then make the roster that of the table
LeaveClear(p) ==
  /\ calls[p].at = "clearing" /\ phase \in {"open", "playing"}
  /\ LET seat == calls[p].seat
         bound == referee.match[seat]
         u == users[p] IN
     /\ users' = IF u # None /\ MayRebind(u, None)
                 THEN [users EXCEPT ![p].escrow = None, ![p].funded = FALSE]
                 ELSE users
     /\ referee' = [referee EXCEPT !.match = TableRoster(users')]
     /\ session' =
          IF bound # None /\ session[bound].seat = seat
          THEN [session EXCEPT ![bound].seat = 0]
          ELSE session
  /\ calls' = [calls EXCEPT ![p].at = "removing"]
  /\ UNCHANGED <<joins, phase, starts, streams, opened, settlement,
                 paid, crashed>>

\* Table.RemoveUser
LeaveRemove(p) ==
  /\ calls[p].at = "removing" /\ phase # "removed"
  /\ users' = [users EXCEPT ![p] = None]
  /\ calls' = [calls EXCEPT ![p].at = "resetting"]
  /\ UNCHANGED <<joins, phase, starts, session, referee, streams, opened,
                 settlement, paid, crashed>>

\* resetTablePreparationState, then maybeRemoveTable
LeaveReset(p) ==
  /\ calls[p].at = "resetting"
  /\ users' = [q \in Players |-> IF users[q] = None THEN None
                                 ELSE [users[q] EXCEPT !.presigned = FALSE]]
  /\ referee' = Cleared(referee)
  /\ phase' = IF phase = "open" /\ Seated = {} /\ referee.match = NoRoster
              THEN "removed" ELSE phase
  /\ calls' = [calls EXCEPT ![p] = Idle]
  /\ UNCHANGED <<joins, starts, session, streams, opened, settlement,
                 paid, crashed>>

-----------------------------------------------------------------------------
(* Binding an escrow *)

\* BindEscrow up to the check of what the seat is bound to.  The escrow
\* session is changed even when the check then refuses.
BindEscrow(p, e) ==
  /\ calls[p].at = "idle" /\ phase # "removed"
  /\ users[p] # None /\ Funded(e)
  /\ session' = [session EXCEPT ![e].seat = users[p].seat]
  /\ LET existing == referee.match[users[p].seat]
         begun == referee.presigns.made \/ referee.complete # {} IN
     /\ existing \in {None, e} \/ ~begun
     /\ calls' = [calls EXCEPT ![p] = [at |-> "binding", escrow |-> e,
                                       seat |-> users[p].seat]]
  /\ UNCHANGED <<users, joins, phase, starts, referee, streams,
                 opened, settlement, paid, crashed>>

BindRefused(p, e) ==
  /\ calls[p].at = "idle" /\ phase # "removed"
  /\ users[p] # None /\ Funded(e)
  /\ referee.match[users[p].seat] \notin {None, e}
  /\ referee.presigns.made \/ referee.complete # {}
  /\ session' = [session EXCEPT ![e].seat = users[p].seat]
  /\ UNCHANGED <<users, joins, phase, starts, referee, streams,
                 opened, calls, settlement, paid, crashed>>

\* SendEscrowBound, as the table applies it
SendEscrowBound(p, e) ==
  users' = [users EXCEPT ![p].escrow = e, ![p].funded = TRUE]

\* BindEscrow's write of the roster; a refusal by the table is only logged
BindWrite(p) ==
  /\ calls[p].at = "binding"
  /\ LET e == calls[p].escrow IN
     /\ referee' = [referee EXCEPT !.match[calls[p].seat] = e]
     /\ IF users[p] # None /\ phase \in {"open", "playing"}
             /\ MayRebind(users[p], e)
        THEN SendEscrowBound(p, e)
        ELSE UNCHANGED users
  /\ calls' = [calls EXCEPT ![p] = Idle]
  /\ UNCHANGED <<joins, phase, starts, session, streams, opened, settlement,
                 paid, crashed>>

-----------------------------------------------------------------------------
(* Presigning *)

NoStream == [at |-> "idle", escrow |-> None, seat |-> 0, snap |-> NoRoster,
             draft |-> {}]

EndStream(h) == streams' = [streams EXCEPT ![h] = NoStream]

\* SettlementStream up to SendEscrowBound: the escrow may back the seat.
\* Another handler of the same escrow may be running.
StreamHello(h, e) ==
  LET p == Owner[e] IN
  /\ streams[h].at = "idle" /\ opened < MaxStreams
  /\ phase \in {"open", "playing"} /\ users[p] # None /\ Funded(e)
  /\ \/ referee.match[users[p].seat] \in {None, e}
     \/ phase = "open" /\ ~users[p].presigned
  /\ MayRebind(users[p], e)
  /\ SendEscrowBound(p, e)
  /\ streams' = [streams EXCEPT ![h] = [NoStream EXCEPT !.at = "bound", !.escrow = e,
                                                        !.seat = users[p].seat]]
  /\ opened' = opened + 1
  /\ UNCHANGED <<joins, phase, starts, session, referee, calls, settlement,
                 paid, crashed>>

\* rebuildMatchEscrowsFromTable reads the table under the table's lock ...
StreamSnapshot(h) ==
  /\ streams[h].at = "bound"
  /\ streams' = [streams EXCEPT ![h].at = "snapped",
                                ![h].snap = TableRoster(users)]
  /\ UNCHANGED <<users, joins, phase, starts, session, referee,
                 opened, calls, settlement, paid, crashed>>

\* ... and writes the roster under the referee's; then, if every seat has a
\* funded escrow, the roster is frozen and the drafts are built
StreamPrepare(h) ==
  /\ streams[h].at = "snapped"
  /\ session' = [session EXCEPT ![streams[h].escrow].seat = streams[h].seat]
  /\ LET roster == streams[h].snap IN
     IF SeatsOf(roster) = Seats /\ MatchReady(roster)
     THEN /\ referee' = [referee EXCEPT !.match = roster, !.gamma = TRUE,
                                        !.frozen = Freeze(roster, session')]
          /\ streams' = [streams EXCEPT ![h].at = "signing",
                                        ![h].snap = NoRoster,
                                        ![h].draft = EscrowsOf(roster)]
     ELSE /\ referee' = [referee EXCEPT !.match = roster]
          /\ EndStream(h)
  /\ UNCHANGED <<users, joins, phase, starts, opened, calls,
                 settlement, paid, crashed>>

\* storePresigs, first section: make the maps of the match
PresigMap(h) ==
  /\ streams[h].at = "signing" /\ streams[h].escrow \in streams[h].draft
  /\ referee' = [referee EXCEPT !.presigns.made = TRUE]
  /\ streams' = [streams EXCEPT ![h].at = "storing"]
  /\ UNCHANGED <<users, joins, phase, starts, session, opened, calls,
                 settlement, paid, crashed>>

\* storePresigs, second section: write the signatures into the maps, a write
\* to a nil map if the match was cleared in between
PresigStore(h) ==
  /\ streams[h].at = "storing"
  /\ IF referee.presigns.made
     THEN /\ referee' = [referee EXCEPT !.presigns.sig[streams[h].escrow] = streams[h].draft]
          /\ streams' = [streams EXCEPT ![h].at = "signed"]
          /\ UNCHANGED crashed
     ELSE /\ crashed' = TRUE
          /\ UNCHANGED <<referee, streams>>
  /\ UNCHANGED <<users, joins, phase, starts, session, opened, calls,
                 settlement, paid>>

\* io.EOF: the client has seen every branch accepted and closes
StreamEOF(h) ==
  /\ streams[h].at = "signed"
  /\ referee' = [referee EXCEPT !.complete = @ \cup {streams[h].seat}]
  /\ streams' = [streams EXCEPT ![h].at = "closing"]
  /\ UNCHANGED <<users, joins, phase, starts, session, opened, calls,
                 settlement, paid, crashed>>

\* SetPlayerPresignComplete, then maybeStartGameAfterPresign.  The table goes
\* by the player, whoever sat down meanwhile.
StreamDone(h) ==
  /\ streams[h].at = "closing"
  /\ LET p == Owner[streams[h].escrow] IN
     IF users[p] # None /\ phase \in {"open", "playing"}
     THEN /\ users' = [users EXCEPT ![p].presigned = TRUE]
          /\ StartsAfter(users', referee) <= MaxStarts
          /\ starts' = StartsAfter(users', referee)
     ELSE UNCHANGED <<users, starts>>
  /\ EndStream(h)
  /\ UNCHANGED <<joins, phase, session, referee, opened, calls,
                 settlement, paid, crashed>>

\* the client goes away, or its signature is for another key
StreamBroken(h) ==
  /\ streams[h].at \in {"signing", "signed"}
  /\ EndStream(h)
  /\ UNCHANGED <<users, joins, phase, starts, session, referee,
                 opened, calls, settlement, paid, crashed>>

-----------------------------------------------------------------------------
(* The game and its settlement *)

\* Table.StartGame: it checks the players again, not whether a game exists
StartGame ==
  /\ starts > 0
  /\ starts' = starts - 1
  /\ phase' = IF phase \in {"open", "playing"} /\ AllReady(users)
              THEN "playing" ELSE phase
  /\ settlement' = IF phase' = "playing"
                   THEN [settlement EXCEPT !.players = Seated]
                   ELSE settlement
  /\ UNCHANGED <<users, joins, session, referee, streams, opened,
                 calls, paid, crashed>>

\* handleGameOver: one player has all the chips.  Its seat is looked up
\* among the users of the table.
GameOver(p) ==
  /\ phase = "playing" /\ p \in settlement.players
  /\ phase' = "over"
  /\ settlement' = [settlement EXCEPT !.at = "ended", !.winner = p,
       !.seat = IF users[p] = None THEN None ELSE users[p].seat]
  /\ UNCHANGED <<users, joins, starts, session, referee, streams,
                 opened, calls, paid, crashed>>

\* handleGameEnded, in a worker of the event pipeline
HandleGameEnded ==
  /\ settlement.at = "ended"
  /\ IF settlement.seat = None
     THEN /\ settlement' = [settlement EXCEPT !.at = "failed"]
          /\ UNCHANGED referee
     ELSE /\ settlement' = [settlement EXCEPT !.at = "try"]
          /\ referee' = [referee EXCEPT !.pending =
                           @ \/ referee.match # NoRoster]
  /\ UNCHANGED <<users, joins, phase, starts, session, streams,
                 opened, calls, paid, crashed>>

\* scheduleTableRemoval, a second after the game has ended
RemoveTable ==
  /\ phase = "over" /\ settlement.at # "ended"
  /\ phase' = "removed"
  /\ UNCHANGED <<users, joins, starts, session, referee, streams,
                 opened, calls, settlement, paid, crashed>>

\* trySettlementBroadcast: the live roster is ready and has presigned
TrySettlement ==
  /\ settlement.at = "try"
  /\ settlement' = [settlement EXCEPT !.at =
       IF MatchReady(referee.match) /\ PresigningComplete(referee)
       THEN "bundle" ELSE "failed"]
  /\ UNCHANGED <<users, joins, phase, starts, session, referee,
                 streams, opened, calls, paid, crashed>>

\* GetFinalizeBundle: as many signatures as escrows, over the draft of the
\* signature with the lowest input index
GetFinalizeBundle ==
  /\ settlement.at = "bundle"
  /\ LET roster == SettlementRoster(referee)
         branches == BranchesOfSeat(roster, settlement.seat)
         b == CHOOSE i \in branches : \A j \in branches : i <= j
         sig == referee.presigns.sig
         signers == {e \in Escrows : sig[e] # {}}
         first == {e \in signers : \A d \in signers :
                     Index(sig[e], e) <= Index(sig[d], d)} IN
     \/ /\ MatchReady(roster) /\ branches # {} /\ referee.gamma
        /\ Cardinality(signers) = Cardinality(EscrowsOf(roster))
        /\ \E e \in first :
             settlement' = [settlement EXCEPT !.at = "send", !.branch = b,
                                              !.draft = sig[e], !.sig = sig]
     \/ /\ \/ ~MatchReady(roster) \/ branches = {} \/ ~referee.gamma
           \/ Cardinality(signers) # Cardinality(EscrowsOf(roster))
        /\ settlement' = [settlement EXCEPT !.at = "failed"]
  /\ UNCHANGED <<users, joins, phase, starts, session, referee,
                 streams, opened, calls, paid, crashed>>

\* the network accepts a transaction whose every input is signed for it
Acceptable(draft, sig) ==
  \A e \in draft : sig[e] = draft /\ session[e].funding # "spent"

\* SendRawTransaction, then cleanupMatchState
Broadcast ==
  /\ settlement.at = "send" /\ Acceptable(settlement.draft, settlement.sig)
  /\ paid' = Payee(settlement.draft, settlement.branch)
  /\ settlement' = [settlement EXCEPT !.at = "paid"]
  /\ referee' = [Cleared(referee) EXCEPT !.match = NoRoster]
  /\ session' = [e \in Escrows |->
       IF e \in EscrowsOf(referee.match)
       THEN [funding |-> "spent", seat |-> 0]
       ELSE session[e]]
  /\ UNCHANGED <<users, joins, phase, starts, streams, opened, calls,
                 crashed>>

\* the node refuses or does not answer; the settlement is not tried again
BroadcastFails ==
  /\ settlement.at = "send"
  /\ settlement' = [settlement EXCEPT !.at = "failed"]
  /\ UNCHANGED <<users, joins, phase, starts, session, referee,
                 streams, opened, calls, paid, crashed>>

-----------------------------------------------------------------------------
Init ==
  /\ users = [p \in Players |->
       [seat |-> Seating[p], ready |-> FALSE, escrow |-> None,
        funded |-> FALSE, presigned |-> FALSE]]
  /\ joins = 0
  /\ phase = "open" /\ starts = 0
  /\ session = [e \in Escrows |->
       [funding |-> "ready", seat |-> 0]]
  /\ referee = [match |-> NoRoster, frozen |-> NoRoster,
                presigns |-> NoPresigns, gamma |-> FALSE, complete |-> {},
                pending |-> FALSE]
  /\ streams = [h \in Handlers |-> NoStream] /\ opened = 0
  /\ calls = [p \in Players |-> Idle]
  /\ settlement = [at |-> "none", players |-> {}, winner |-> None, seat |-> None,
                   branch |-> 0, draft |-> {}, sig |-> [e \in Escrows |-> {}]]
  /\ paid = None /\ crashed = FALSE

\* a process that lives, and the overlaps explored
Explored == ~crashed /\ Overlaps' \subseteq MayOverlap

Next ==
  \/ \E p \in Players :
       \/ JoinTable(p)        /\ Explored
       \/ SetPlayerReady(p)   /\ Explored
       \/ SetPlayerUnready(p) /\ Explored
       \/ LeaveTable(p)       /\ Explored
       \/ LeaveClear(p)       /\ Explored
       \/ LeaveRemove(p)      /\ Explored
       \/ LeaveReset(p)       /\ Explored
       \/ BindWrite(p)        /\ Explored
       \/ GameOver(p)         /\ Explored
  \/ \E e \in Escrows :
       \/ BindEscrow(Owner[e], e)  /\ Explored
       \/ BindRefused(Owner[e], e) /\ Explored
  \/ \E h \in Handlers :
       \/ \E e \in Escrows : StreamHello(h, e) /\ Explored
       \/ StreamSnapshot(h) /\ Explored
       \/ StreamPrepare(h)  /\ Explored
       \/ PresigMap(h)      /\ Explored
       \/ PresigStore(h)    /\ Explored
       \/ StreamEOF(h)      /\ Explored
       \/ StreamDone(h)     /\ Explored
       \/ StreamBroken(h)   /\ Explored
  \/ StartGame         /\ Explored
  \/ HandleGameEnded   /\ Explored
  \/ RemoveTable       /\ Explored
  \/ TrySettlement     /\ Explored
  \/ GetFinalizeBundle /\ Explored
  \/ Broadcast         /\ Explored
  \/ BroadcastFails    /\ Explored

Spec == Init /\ [][Next]_vars

-----------------------------------------------------------------------------
(* Properties *)

\* every player of the roster has signed the draft of every branch
Signed(roster) ==
  \A e \in Escrows :
    referee.presigns.sig[e] =
      IF e \in EscrowsOf(roster) THEN EscrowsOf(roster) ELSE {}

\* While a match is played its settlement is already fixed: every seat is
\* backed, each backer has signed the one draft that spends all the escrows,
\* nobody else's signature is kept, and whoever wins has a branch.  The start
\* of the game is decided from two maps and the users' flags, which binding,
\* streams and departures change separately.
StartedMatchCanSettle ==
  phase = "playing" =>
    LET roster == SettlementRoster(referee) IN
    /\ SeatsOf(roster) = Seats
    /\ Signed(roster)
    /\ \A p \in Seated : BranchesOfSeat(roster, users[p].seat) # {}

\* The settlement the network accepts pays the player who won the game,
\* although seats, branches and outputs are ordered differently and the seat
\* of a branch is looked up in the escrow's session.
SettlementPaysWinner ==
  paid # None => paid = settlement.winner

\* No start is lost: when everybody is ready and presigning is complete, a
\* start of the game is on its way or the handler that will ask for it is.
\* Readiness and presigning are reported by different calls, and each of them
\* must look at both.
ReadyMatchIsStarting ==
  phase = "open" /\ AllReady(users) /\ PresigningComplete(referee) =>
    \/ starts > 0
    \/ \E h \in Handlers : streams[h].at = "closing"

\* A finished match is settled unless the node refuses the transaction: no
\* check between the end of the game and SendRawTransaction fails, and what
\* is sent is fully signed and spends no spent output.
OnlyTheNodeRefuses ==
  [][settlement'.at = "failed" =>
       \/ settlement.at = "failed"
       \/ /\ settlement.at = "send"
          /\ Acceptable(settlement.draft, settlement.sig)]_vars

\* handlers.go:750: "Game should not have started without presigning."
StartedWithPresigning ==
  phase = "playing" => PresigningComplete(referee)

\* table.go:1757: an escrow is not changed "mid-presign or during an active
\* game", so the signatures of a running match are all over the same inputs.
OneSetOfInputs ==
  phase = "playing" =>
    \A e \in EscrowsOf(referee.match) :
      referee.presigns.sig[e] = EscrowsOf(referee.match)
=============================================================================
