------------------------------ MODULE Funding ------------------------------
(***************************************************************************)
(* How the server comes to believe that an escrow is funded: the deposits  *)
(* to one escrow script on the chain, the chain watcher, the subscription  *)
(* with its funding machine, and the calls that use what it concludes,     *)
(* from OpenEscrow and BindEscrow to the settlement that spends the        *)
(* deposit.                                                                *)
(*                                                                         *)
(* Every notification of the node is handled on a goroutine of its own,    *)
(* reads the chain one output at a time and sends its result, without      *)
(* waiting, into a bounded channel; so results may be late, out of order,  *)
(* dropped, or wrong when the node did not answer.  A restart loses        *)
(* everything but the chain.                                               *)
(*                                                                         *)
(* The state function of the funding machine is only a label: each state   *)
(* handles an update in the same way (runStateLoop).  A tracker that waits *)
(* for room in the inbox of its machine adds its capacity to the channel's *)
(* and is not told apart from it.                                          *)
(***************************************************************************)
EXTENDS Integers, FiniteSets, Sequences, FiniteSetsExt

CONSTANTS
  Outputs, Value,      \* possible deposits to the script and their amounts
  BuyIn, Csv, None,
  ChanCap,             \* capacity of a subscriber's channel (8 in the code)
  MaxTasks,            \* bound: notifications handled at a time
  MaxSubs,             \* bound: subscriptions between two restarts
  MaxMishaps           \* bound: unanswered calls to the node, restarts,
                       \* overlapping notifications, subscriptions after
                       \* the first, deposits after the first, all
                       \* counted together

ASSUME FundingAssumption ==
  /\ BuyIn \in Nat \ {0} /\ Csv \in Nat /\ Csv > 1
  /\ IsFiniteSet(Outputs) /\ None \notin Outputs
  /\ Value \in [Outputs -> Nat \ {0}]
  /\ ChanCap \in Nat \ {0} /\ MaxTasks \in Nat \ {0} /\ MaxSubs \in Nat \ {0}
  /\ MaxMishaps \in Nat

VARIABLES
  chain,     \* the deposits as the node knows them
  known,     \* ChainWatcher.known of the script
  subs,      \* the channels subscribed to the script
  tasks,     \* goroutines handling a notification of the node
  escrow,    \* the refereeEscrowSession
  call,      \* the OpenEscrow or BindEscrow in progress
  settle,    \* how far the settlement has come
  mishaps,   \* how many of these so far
  misled,    \* what the watcher last said will never be corrected
  late       \* when the settlement ended the subscription an update or a
             \* bind was under way, or a bind subscribed it again

vars == <<chain, known, subs, tasks, escrow, call, settle, mishaps,
          misled, late>>

Confs   == 0 .. Csv      \* more confirmations than Csv make no difference
Amounts == {BuyIn} \cup {Value[o] : o \in Outputs}
SubIds  == 1 .. MaxSubs
TaskIds == 1 .. MaxTasks

Deposit == [at : {"none", "unspent", "spent"}, confs : Confs]
Spent   == [at |-> "spent", confs |-> Csv]

DepositUpdate == [utxos : SUBSET Outputs, confs : Confs]
NoUpdate      == [utxos |-> {}, confs |-> 0]


Task   == [at : {"none", "tx", "matched", "block", "scan", "send"},
           todo : SUBSET Outputs, seen : SUBSET Outputs, confs : Confs]

\* Mutant: the least number of confirmations is sought from zero up.
TaskFromZero == [at |-> "none", todo |-> {}, seen |-> {}, confs |-> 0]

NoTask == [at |-> "none", todo |-> {}, seen |-> {}, confs |-> Csv]

FundingStates == {"UNFUNDED", "MEMPOOL", "READY", "CSV_MATURED", "SPENT",
                  "INVALID"}
Usable        == {"READY", "CSV_MATURED"}

\* what a machine found about an update, and against which amount
Decision   == [state : FundingStates \cup {"absent"}, amount : Amounts,
               update : DepositUpdate]
NoDecision == [state |-> "absent", amount |-> BuyIn, update |-> NoUpdate]

\* on: the watcher sends to it; mine: it feeds the present session;
\* tracked: trackEscrowFunding has started its machine; doing: what the
\* machine found and has not written yet
Sub   == [on : BOOLEAN, mine : BOOLEAN, tracked : BOOLEAN,
          queue : Seq(DepositUpdate), doing : Decision]
NoSub == [on |-> FALSE, mine |-> FALSE, tracked |-> FALSE, queue |-> <<>>,
          doing |-> NoDecision]

\* a SetPlayerReady that found the amount to be the buy-in; out: and the
\* output it took for the bound one; crossed: a bind has since written
\* another amount.
\* The first of several such calls to succeed is the only one with an
\* effect, so one of them is followed.
Asking   == [at : {"no", "compared", "looked"}, out : Outputs \cup {None},
             crossed : BOOLEAN]
NoAsking == [at |-> "no", out |-> None, crossed |-> FALSE]

\* judged: the amount its state was found against; tied: the seat of its
\* owner is bound to it; ready: and declared ready
Escrow   == [state : FundingStates \cup {"absent"}, amount : Amounts,
             judged : Amounts, had : BOOLEAN, latest : DepositUpdate,
             bound : Outputs \cup {None}, tied : BOOLEAN, asking : Asking,
             ready : BOOLEAN]
NoEscrow == [state |-> "absent", amount |-> BuyIn, judged |-> BuyIn,
             had |-> FALSE, latest |-> NoUpdate, bound |-> None,
             tied |-> FALSE, asking |-> NoAsking, ready |-> FALSE]

Call   == [at : {"idle", "found", "fetched", "checked"},
           out : Outputs \cup {None}, confs : Confs]
NoCall == [at |-> "idle", out |-> None, confs |-> 0]

TypeOK ==
  /\ chain \in [Outputs -> Deposit]
  /\ known \subseteq Outputs
  /\ subs \in [SubIds -> Sub]
  /\ \A i \in SubIds : Len(subs[i].queue) <= ChanCap + 1
  /\ tasks \in [TaskIds -> Task]
  /\ escrow \in Escrow
  /\ call \in Call
  /\ settle \in {"no", "sent", "detached", "done"}
  /\ mishaps \in 0 .. MaxMishaps
  /\ misled \in BOOLEAN /\ late \in BOOLEAN

Init ==
  /\ chain = [o \in Outputs |-> [at |-> "none", confs |-> 0]]
  /\ known = {}
  /\ subs = [i \in SubIds |-> NoSub]
  /\ tasks = [t \in TaskIds |-> NoTask]
  /\ escrow = NoEscrow
  /\ call = NoCall
  /\ settle = "no"
  /\ mishaps = 0
  /\ misled = FALSE /\ late = FALSE

-----------------------------------------------------------------------------
(* The chain, as the node tells it.  OnTxAccepted and OnBlockConnected     *)
(* start a goroutine each.                                                 *)

FreeTasks == {t \in TaskIds : tasks[t].at = "none"}

\* counts the events of which there are at most MaxMishaps
Mishaps(n) == /\ mishaps + n <= MaxMishaps
              /\ mishaps' = mishaps + n

CountIf(p) == IF p THEN 1 ELSE 0

Overlaps == CountIf(FreeTasks # TaskIds)

Spawn(task) == /\ FreeTasks # {}
               /\ tasks' = [tasks EXCEPT ![Min(FreeTasks)] = task]

\* somebody pays to the script; the node notifies the accepted transaction
Pay(o) ==
  /\ chain[o].at = "none"
  /\ chain' = [chain EXCEPT ![o].at = "unspent"]
  /\ Spawn([NoTask EXCEPT !.at = "tx", !.todo = {o}])
  /\ Mishaps(Overlaps + CountIf(\E x \in Outputs : chain[x].at # "none"))
  /\ UNCHANGED <<known, subs, escrow, call, settle, misled,
                 late>>

\* a block confirms what is in the mempool and deepens the rest
NewBlock ==
  /\ chain' = [o \in Outputs |->
       [chain[o] EXCEPT !.confs = IF chain[o].at = "unspent" /\ @ < Csv
                                  THEN @ + 1 ELSE @]]
  /\ Spawn([NoTask EXCEPT !.at = "block"])
  /\ Mishaps(Overlaps)
  /\ UNCHANGED <<known, subs, escrow, call, settle, misled,
                 late>>

\* the owner takes a matured deposit back; nobody is notified
Refund(o) ==
  /\ chain[o].at = "unspent" /\ chain[o].confs = Csv
  /\ chain' = [chain EXCEPT ![o] = Spent]
  /\ UNCHANGED <<known, subs, tasks, escrow, call, settle, mishaps,
                 misled, late>>

-----------------------------------------------------------------------------
(* The chain watcher *)

Subscribed == \E i \in SubIds : subs[i].on

\* Mutant: the send waits for room it does not have.
OfferAlways(q, u) == Append(q, u)

\* into a subscriber's channel without waiting
Offer(q, u) == IF Len(q) < ChanCap THEN Append(q, u) ELSE q

\* broadcastUpdate.  An update that names an output the watcher has given
\* up, or the report that nothing is left when it is dropped, is never put
\* right by a later block.
broadcastUpdate(u) ==
  /\ subs' = [i \in SubIds |->
       IF subs[i].on /\ subs[i].mine
       THEN [subs[i] EXCEPT !.queue = Offer(@, u)] ELSE subs[i]]
  /\ misled' = \/ misled
               \/ ~(u.utxos \subseteq known)
               \/ /\ known = {}
                  /\ \E i \in SubIds : /\ subs[i].on /\ subs[i].mine
                                       /\ Len(subs[i].queue) >= ChanCap

\* ProcessTxAcceptedHash fetches the transaction and looks for subscribers
TxFetch(t) ==
  /\ tasks[t].at = "tx"
  /\ tasks' = [tasks EXCEPT ![t] =
                 IF Subscribed THEN [@ EXCEPT !.at = "matched"] ELSE NoTask]
  /\ UNCHANGED <<chain, known, subs, escrow, call, settle, mishaps,
                 misled, late>>

\* the node does not answer: the deposit will never be looked for again
TxFetchFails(t) ==
  /\ tasks[t].at = "tx" /\ Mishaps(1)
  /\ tasks' = [tasks EXCEPT ![t] = NoTask]
  /\ misled' = TRUE
  /\ UNCHANGED <<chain, known, subs, escrow, call, settle, late>>

\* it enters the outputs, whether or not there still is a subscriber
TxRecord(t) ==
  /\ tasks[t].at = "matched"
  /\ known' = known \cup tasks[t].todo
  /\ tasks' = [tasks EXCEPT ![t] =
                 [NoTask EXCEPT !.at = "send", !.seen = known', !.confs = 0]]
  /\ UNCHANGED <<chain, subs, escrow, call, settle, mishaps, misled,
                 late>>

\* ProcessBlockConnected lists the outputs to look at
BlockList(t) ==
  /\ tasks[t].at = "block"
  /\ tasks' = [tasks EXCEPT ![t] =
       IF known = {} THEN NoTask
       ELSE [@ EXCEPT !.at = "scan", !.todo = known]]
  /\ UNCHANGED <<chain, known, subs, escrow, call, settle, mishaps,
                 misled, late>>

\* Mutant: a spent output stays known and is reported.
ScanKeepingSpent(t, o) ==
  /\ tasks[t].at = "scan" /\ o \in tasks[t].todo
  /\ tasks' = [tasks EXCEPT ![t].todo = @ \ {o}, ![t].seen = @ \cup {o},
                            ![t].confs = Min({@, chain[o].confs})]
  /\ UNCHANGED <<chain, known, subs, escrow, call, settle, mishaps,
                 misled, late>>

\* and asks the node for one after the other, forgetting those that are spent
ScanOutput(t, o) ==
  /\ tasks[t].at = "scan" /\ o \in tasks[t].todo
  /\ IF o \in known /\ chain[o].at = "unspent"
     THEN /\ tasks' = [tasks EXCEPT ![t].todo = @ \ {o},
                                    ![t].seen = @ \cup {o},
                                    ![t].confs = Min({@, chain[o].confs})]
          /\ known' = known
     ELSE /\ tasks' = [tasks EXCEPT ![t].todo = @ \ {o}]
          /\ known' = known \ {o}
  /\ UNCHANGED <<chain, subs, escrow, call, settle, mishaps, misled,
                 late>>

\* an output the node did not answer for counts as spent
ScanFails(t, o) ==
  /\ tasks[t].at = "scan" /\ o \in tasks[t].todo \cap known
  /\ Mishaps(1)
  /\ tasks' = [tasks EXCEPT ![t].todo = @ \ {o}]
  /\ known' = known \ {o}
  /\ misled' = (misled \/ chain[o].at = "unspent")
  /\ UNCHANGED <<chain, subs, escrow, call, settle, late>>

\* both end in a report of all that was seen
Report(t) ==
  /\ \/ tasks[t].at = "send"
     \/ (tasks[t].at = "scan" /\ tasks[t].todo = {})
  /\ broadcastUpdate(
       [utxos |-> tasks[t].seen,
        confs |-> IF tasks[t].seen = {} THEN 0 ELSE tasks[t].confs])
  /\ tasks' = [tasks EXCEPT ![t] = NoTask]
  /\ UNCHANGED <<chain, known, escrow, call, settle, mishaps, late>>

-----------------------------------------------------------------------------
(* The funding machine of a subscription *)

\* Mutant: several deposits are taken for one.
ClassifyAny(amount, had, u) ==
  IF u.utxos = {} THEN (IF had THEN "SPENT" ELSE "UNFUNDED")
  ELSE IF \A o \in u.utxos : Value[o] # amount THEN "INVALID"
  ELSE IF u.confs = 0 THEN "MEMPOOL"
  ELSE IF u.confs >= Csv THEN "CSV_MATURED" ELSE "READY"

\* classifyEscrowFundingState, one confirmation being required
Classify(amount, had, u) ==
  IF u.utxos = {} THEN (IF had THEN "SPENT" ELSE "UNFUNDED")
  ELSE IF Cardinality(u.utxos) > 1 \/ \E o \in u.utxos : Value[o] # amount THEN "INVALID"
  ELSE IF u.confs = 0 THEN "MEMPOOL"
  ELSE IF u.confs >= Csv THEN "CSV_MATURED" ELSE "READY"

\* evaluate, which reads the amount without the session's lock
Found(es, u) == [state |-> Classify(es.amount, es.had, u),
                 amount |-> es.amount, update |-> u]

\* updateFundingState: a usable state binds the output, any other
\* releases it
Decided(es, d) ==
  [es EXCEPT !.state = d.state, !.latest = d.update, !.judged = d.amount,
             !.had = @ \/ d.update.utxos # {},
             !.bound = IF d.state \in Usable
                       THEN CHOOSE o \in d.update.utxos : TRUE ELSE None]

\* trackEscrowFunding starts the machine on what the session knows already
TrackStart(i) ==
  /\ subs[i].mine /\ ~subs[i].tracked
  /\ subs' = [subs EXCEPT ![i].tracked = TRUE,
       ![i].queue = IF escrow.latest # NoUpdate \/ escrow.had
                    THEN <<escrow.latest>> \o @ ELSE @]
  /\ UNCHANGED <<chain, known, tasks, escrow, call, settle, mishaps,
                 misled, late>>

\* The machine looks at its next update.  Nobody closes the channel of a
\* subscription that has ended: what is in it is still handled.
Evaluate(i) ==
  /\ subs[i].tracked /\ subs[i].queue # <<>> /\ subs[i].doing = NoDecision
  /\ subs' = [subs EXCEPT ![i].queue = Tail(@),
                          ![i].doing = Found(escrow, Head(subs[i].queue))]
  /\ UNCHANGED <<chain, known, tasks, escrow, call, settle, mishaps, misled,
                 late>>

\* and writes what it found, a bind may have written in between
ApplyDecision(i) ==
  /\ subs[i].doing # NoDecision
  /\ escrow' = Decided(escrow, subs[i].doing)
  /\ subs' = [subs EXCEPT ![i].doing = NoDecision]
  /\ UNCHANGED <<chain, known, tasks, call, settle, mishaps, misled, late>>

-----------------------------------------------------------------------------
(* The referee's calls *)

UnusedSubs == {i \in SubIds : ~subs[i].on /\ ~subs[i].mine}
HasSub     == \E i \in SubIds : subs[i].on /\ subs[i].mine

\* subscribeEscrow, for the session found or for a new one; the machine of
\* a session that is replaced goes on without effect on this one
SubscribeTo(renew) ==
  LET kept == [i \in SubIds |->
                 IF renew THEN [NoSub EXCEPT !.on = subs[i].on] ELSE subs[i]]
  IN
  IF ~renew /\ HasSub THEN subs' = subs /\ mishaps' = mishaps
  ELSE /\ UnusedSubs # {}
       /\ subs' = [kept EXCEPT ![Min(UnusedSubs)] =
                     [NoSub EXCEPT !.on = TRUE, !.mine = TRUE]]
       /\ Mishaps(CountIf(UnusedSubs # SubIds))

\* OpenEscrow registers the session and subscribes it; before it returns
\* the address, nothing can have been paid to it
OpenEscrow ==
  /\ escrow.state = "absent" /\ call = NoCall
  /\ escrow' = [NoEscrow EXCEPT !.state = "UNFUNDED"]
  /\ SubscribeTo(TRUE)
  /\ UNCHANGED <<chain, known, tasks, call, settle, misled, late>>

Finds(o) == escrow.state # "absent" /\ (escrow.bound = o \/ escrow.latest.utxos = {o})

\* BindEscrow with an outpoint of a session the server has
BindFound(o) ==
  /\ call = NoCall /\ Finds(o)
  /\ SubscribeTo(FALSE)
  /\ call' = [NoCall EXCEPT !.at = "found", !.out = o]
  /\ late' = (late \/ settle = "detached")
  /\ UNCHANGED <<chain, known, tasks, escrow, settle, misled>>

\* BindEscrow with an outpoint it has not: what the node says of it, now,
\* makes a new session
BindRestored(o) ==
  /\ call = NoCall /\ ~Finds(o)
  /\ settle \in {"no", "done"}
  /\ chain[o].at = "unspent"
  /\ LET es == [NoEscrow EXCEPT !.amount = Value[o], !.had = TRUE]
     IN escrow' = Decided(es, Found(es, [utxos |-> {o},
                                         confs |-> chain[o].confs]))
  /\ SubscribeTo(TRUE)
  /\ call' = [NoCall EXCEPT !.at = "found", !.out = o]
  /\ settle' = "no" /\ late' = FALSE
  /\ UNCHANGED <<chain, known, tasks, misled>>

\* ensureBoundFunding
IsFunded(es) == /\ es.state = "READY" /\ es.bound # None
                /\ Value[es.bound] = es.amount

Tie(es) == IF IsFunded(es) THEN [es EXCEPT !.tied = TRUE] ELSE es

\* the amount must be the buy-in; with an output bound the seat is bound to
\* the escrow if it is funded
BindCheck ==
  /\ call.at = "found"
  /\ escrow' = IF escrow.amount = BuyIn THEN Tie(escrow) ELSE escrow
  /\ call' = NoCall
  /\ UNCHANGED <<chain, known, subs, tasks, settle, mishaps, misled, late>>

\* without one the node is asked
BindFetch ==
  /\ call.at = "found" /\ escrow.amount = BuyIn /\ escrow.bound = None
  /\ chain[call.out].at = "unspent"
  /\ call' = [call EXCEPT !.at = "fetched", !.confs = chain[call.out].confs]
  /\ UNCHANGED <<chain, known, subs, tasks, escrow, settle, mishaps, misled,
                 late>>

\* what it answered is written into the session, the amount included
BindStore ==
  /\ call.at = "fetched"
  /\ escrow' = [escrow EXCEPT !.bound = call.out, !.amount = Value[call.out],
                  !.latest = [utxos |-> {call.out}, confs |-> call.confs],
                  !.asking.crossed = @ \/ /\ escrow.asking.at # "no"
                                          /\ Value[call.out] # escrow.amount]
  /\ call' = [call EXCEPT !.at = "checked"]
  /\ UNCHANGED <<chain, known, subs, tasks, settle, mishaps, misled,
                 late>>

\* before it is looked at again
BindFinish ==
  /\ call.at = "checked"
  /\ escrow' = Tie(escrow)
  /\ call' = NoCall
  /\ UNCHANGED <<chain, known, subs, tasks, settle, mishaps, misled, late>>

\* Mutant: the amount of the escrow is not compared with the buy-in.
CompareNothing ==
  /\ escrow.tied /\ ~escrow.ready
  /\ escrow' = [escrow EXCEPT !.asking = [NoAsking EXCEPT !.at = "compared"]]
  /\ UNCHANGED <<chain, known, subs, tasks, call, settle, mishaps,
                 misled, late>>

\* SetPlayerReady compares the amount of the seat's escrow with the buy-in
ReadyCompare ==
  /\ escrow.tied /\ ~escrow.ready /\ escrow.amount = BuyIn
  /\ escrow' = [escrow EXCEPT !.asking = [NoAsking EXCEPT !.at = "compared"]]
  /\ UNCHANGED <<chain, known, subs, tasks, call, settle, mishaps,
                 misled, late>>

\* then ensureBoundFunding looks at state and output
ReadyLook ==
  /\ escrow.asking.at = "compared"
  /\ escrow.state = "READY" /\ escrow.bound # None
  /\ escrow' = [escrow EXCEPT !.asking.at = "looked",
                              !.asking.out = escrow.bound]
  /\ UNCHANGED <<chain, known, subs, tasks, call, settle, mishaps,
                 misled, late>>

\* and, without the lock, at the amount once more
ReadyEnsure ==
  /\ escrow.asking.at = "looked" /\ Value[escrow.asking.out] = escrow.amount
  /\ escrow' = [escrow EXCEPT !.ready = TRUE, !.asking = NoAsking]
  /\ UNCHANGED <<chain, known, subs, tasks, call, settle, mishaps,
                 misled, late>>

\* the settlement transaction is accepted by the node
SettlementBroadcast ==
  /\ settle = "no" /\ escrow.ready /\ IsFunded(escrow)
  /\ chain[escrow.bound].at = "unspent"
  /\ chain' = [chain EXCEPT ![escrow.bound] = Spent]
  /\ settle' = "sent"
  /\ UNCHANGED <<known, subs, tasks, escrow, call, mishaps, misled,
                 late>>

UpdateUnderWay ==
  \/ call.at # "idle"
  \/ \E i \in SubIds :
       subs[i].mine /\ \/ ~subs[i].tracked
                       \/ subs[i].queue # <<>> \/ subs[i].doing # NoDecision

\* Mutant: the escrow stays subscribed.
ResetDetachOnly ==
  /\ settle = "sent"
  /\ escrow' = [escrow EXCEPT !.tied = FALSE, !.ready = FALSE]
  /\ settle' = "detached"
  /\ late' = UpdateUnderWay
  /\ UNCHANGED <<chain, known, subs, tasks, call, mishaps, misled>>

\* resetEscrowState takes the escrow from its table and ends its
\* subscription; the last one to go takes what the watcher knows along
ResetDetach ==
  /\ settle = "sent"
  /\ escrow' = [escrow EXCEPT !.tied = FALSE, !.ready = FALSE]
  /\ subs' = [i \in SubIds |-> IF subs[i].mine THEN [subs[i] EXCEPT !.on = FALSE]
                               ELSE subs[i]]
  /\ known' = IF \E i \in SubIds : subs'[i].on THEN known ELSE {}
  /\ settle' = "detached"
  /\ late' = UpdateUnderWay
  /\ UNCHANGED <<chain, tasks, call, mishaps, misled>>

\* and marks it spent
ResetMark ==
  /\ settle = "detached"
  /\ escrow' = [escrow EXCEPT !.state = "SPENT", !.latest = NoUpdate,
                              !.bound = None]
  /\ settle' = "done"
  /\ UNCHANGED <<chain, known, subs, tasks, call, mishaps, misled,
                 late>>

\* the server restarts: escrows are kept in memory only
Restart ==
  /\ Mishaps(1)
  /\ known' = {} /\ subs' = [i \in SubIds |-> NoSub]
  /\ tasks' = [t \in TaskIds |-> NoTask]
  /\ escrow' = NoEscrow /\ call' = NoCall
  /\ settle' = "no" /\ misled' = FALSE /\ late' = FALSE
  /\ UNCHANGED chain

-----------------------------------------------------------------------------
Next ==
  \/ \E o \in Outputs : Pay(o)
  \/ NewBlock
  \/ \E o \in Outputs : Refund(o)
  \/ \E t \in TaskIds : TxFetch(t)
  \/ \E t \in TaskIds : TxFetchFails(t)
  \/ \E t \in TaskIds : TxRecord(t)
  \/ \E t \in TaskIds : BlockList(t)
  \/ \E t \in TaskIds, o \in Outputs : ScanOutput(t, o)
  \/ \E t \in TaskIds, o \in Outputs : ScanFails(t, o)
  \/ \E t \in TaskIds : Report(t)
  \/ \E i \in SubIds : TrackStart(i)
  \/ \E i \in SubIds : Evaluate(i)
  \/ \E i \in SubIds : ApplyDecision(i)
  \/ OpenEscrow
  \/ \E o \in Outputs : BindFound(o)
  \/ \E o \in Outputs : BindRestored(o)
  \/ BindCheck
  \/ BindFetch
  \/ BindStore
  \/ BindFinish
  \/ ReadyCompare
  \/ ReadyLook
  \/ ReadyEnsure
  \/ SettlementBroadcast
  \/ ResetDetach
  \/ ResetMark
  \/ Restart

\* Blocks keep coming, and goroutines that can go on do.
Fairness ==
  /\ WF_vars(NewBlock)
  /\ \A t \in TaskIds :
       /\ WF_vars(TxFetch(t)) /\ WF_vars(TxRecord(t)) /\ WF_vars(BlockList(t))
       /\ WF_vars(\E o \in Outputs : ScanOutput(t, o)) /\ WF_vars(Report(t))
  /\ \A i \in SubIds : /\ WF_vars(TrackStart(i))
                         /\ WF_vars(Evaluate(i)) /\ WF_vars(ApplyDecision(i))
  /\ WF_vars(ResetDetach) /\ WF_vars(ResetMark)

Spec == Init /\ [][Next]_vars /\ Fairness

-----------------------------------------------------------------------------
(* Properties *)

\* A state that lets an escrow be used binds the one output that was last
\* reported, which has the confirmations of the state, and the escrow's amount
\* or the amount the state was found against: reports come late and out of
\* order, and BindEscrow writes output and amount without asking the machine,
\* even between its look at the amount and its write (BindEscrow, evaluate,
\* updateFundingState).  Excepted from the confirmations: BindEscrow's answer,
\* of fewer, has been written below the state that another output had
\* (referee.go:674).
Needed(state) == IF state = "READY" THEN 1 ELSE Csv
Outrun        == escrow.latest.confs < Needed(escrow.state)
UsableIsBacked ==
  escrow.state \in Usable =>
    /\ escrow.bound # None /\ escrow.latest.utxos = {escrow.bound}
    /\ Value[escrow.bound] \in {escrow.amount, escrow.judged}
    /\ ~Outrun => chain[escrow.bound].confs >= Needed(escrow.state)

\* A seat becomes ready only on a deposit of the table's buy-in, although
\* the machine may change the state and the output at any moment of the call,
\* unless a bind has written another amount between the call's two looks at
\* it (SetPlayerReady, ensureBoundFunding, BindEscrow).
ReadySeatPaidBuyIn ==
  [][~escrow.ready /\ escrow'.ready /\ ~escrow.asking.crossed =>
       Value[escrow.asking.out] = BuyIn]_vars

\* Once the settlement is cleaned up its escrow is spent for good, whatever
\* happens to its script afterwards, unless an update or a bind was still
\* under way when its subscription ended (resetEscrowState, Subscribe).
SettledStaysSpent == settle = "done" /\ ~late => escrow.state = "SPENT"

\* A spent deposit is found out: the escrow of an output that the watcher
\* follows does not stay usable after the output is spent, unless the last
\* word on it was lost (ProcessBlockConnected, trackEscrowFunding).
Overtaken ==
  /\ escrow.state \in Usable /\ escrow.bound # None
  /\ chain[escrow.bound].at = "spent"
SpentIsNoticed ==
  (Overtaken /\ escrow.bound \in known /\ HasSub)
  ~> (~Overtaken \/ misled \/ ~HasSub)

\* A single deposit of the right amount makes its escrow usable, whatever
\* the order its notifications are handled in, unless the node did not
\* answer for it.
SoleDeposit(o) ==
  /\ chain[o].at = "unspent"
  /\ \A x \in Outputs \ {o} : chain[x].at = "none"
  /\ Value[o] = escrow.amount
DepositIsNoticed ==
  (\E o \in known : SoleDeposit(o) /\ HasSub)
  ~> (\/ escrow.state \in Usable \/ ~(\E o \in known : SoleDeposit(o))
      \/ misled \/ ~HasSub)
=============================================================================
