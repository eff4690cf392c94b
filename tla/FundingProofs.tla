---------------------------- MODULE FundingProofs ----------------------------
(***************************************************************************)
(* A usable escrow is backed by the chain and a settled one stays spent,   *)
(* for any deposits, any number of notifications handled at a time, any    *)
(* capacity of the channels and any number of mishaps.                     *)
(*                                                                         *)
(* What the watcher reports, what waits in the channels and what a bind    *)
(* has been told may be old, but it never says more than the chain does:   *)
(* confirmations only grow.  The sets below are the values of which that   *)
(* is true.                                                                *)
(***************************************************************************)
EXTENDS Funding, FiniteSetTheorems, SequenceTheorems, PotsProofs, TLAPS

Sound == {u \in DepositUpdate : \A o \in u.utxos : chain[o].confs >= u.confs}

SoundTask == {r \in Task : \A o \in r.seen : chain[o].confs >= r.confs}

\* a usable state was found for one output of the amount it was judged by
SoundDecision ==
  {d \in Decision : /\ d.update \in Sound
                    /\ d.state \in Usable =>
                         \E o \in Outputs : d.update.utxos = {o} /\ Value[o] = d.amount}

\* only the present session is fed, and an untracked channel has room for what
\* the session knew before
SoundSub == {r \in Sub : /\ r.tracked => r.mine
                         /\ r.queue \in Seq(Sound)
                         /\ Len(r.queue) <= ChanCap + 1
                         /\ ~r.tracked => Len(r.queue) <= ChanCap
                         /\ r.doing \in SoundDecision
                         /\ r.doing # NoDecision =>
                              r.tracked /\ r.doing.state # "absent"}

SoundCall == {r \in Call : r.at # "idle" => /\ r.out \in Outputs
                                            /\ chain[r.out].confs >= r.confs}

\* between its two looks at the amount the call knows it to be the buy-in,
\* unless a bind has crossed it
SoundAsking(es) ==
  /\ es.asking.at # "no" /\ ~es.asking.crossed => es.amount = BuyIn
  /\ es.asking.at = "looked" => es.asking.out \in Outputs

SoundEscrow ==
  {es \in Escrow : /\ es.latest \in Sound
                   /\ es.state \in Usable =>
                        /\ es.bound \in Outputs /\ es.latest.utxos = {es.bound}
                        /\ Value[es.bound] \in {es.amount, es.judged}
                   /\ SoundAsking(es)}

\* Nothing can reach the session of a settlement that ended its subscription
\* with nothing under way.
SettlementQuiet ==
  /\ settle # "no" => escrow.state # "absent"
  /\ settle \in {"detached", "done"} /\ ~late =>
       /\ call.at = "idle"
       /\ \A i \in SubIds : subs[i].mine => /\ subs[i].tracked /\ ~subs[i].on
                                            /\ subs[i].queue = <<>>
                                            /\ subs[i].doing = NoDecision
  /\ settle = "done" /\ ~late =>
       escrow.state = "SPENT" /\ escrow.latest = NoUpdate /\ escrow.bound = None

FundingInv ==
  /\ chain \in [Outputs -> Deposit]
  /\ known \subseteq Outputs
  /\ subs \in [SubIds -> SoundSub]
  /\ tasks \in [TaskIds -> SoundTask]
  /\ escrow \in SoundEscrow
  /\ call \in SoundCall
  /\ settle \in {"no", "sent", "detached", "done"}
  /\ mishaps \in 0 .. MaxMishaps
  /\ misled \in BOOLEAN /\ late \in BOOLEAN
  /\ SettlementQuiet

-----------------------------------------------------------------------------
(* The operators.                                                          *)
LEMMA Numbers ==
  /\ Csv \in Nat /\ Csv > 1 /\ ChanCap \in Nat /\ ChanCap > 0
  /\ Confs \in SUBSET Nat /\ 0 \in Confs /\ Csv \in Confs
  /\ \A o \in Outputs : Value[o] \in Nat /\ Value[o] \in Amounts
  /\ BuyIn \in Amounts /\ None \notin Outputs
  BY FundingAssumption DEF Confs, Amounts

LEMMA FirstFreeTask == FreeTasks # {} => Min(FreeTasks) \in TaskIds
<1>1. FreeTasks \in SUBSET Nat /\ FreeTasks \subseteq TaskIds
  BY FundingAssumption DEF FreeTasks, TaskIds
<1>2. QED
  BY <1>1, MinOfNats

LEMMA FirstUnusedSub == UnusedSubs # {} => Min(UnusedSubs) \in SubIds
<1>1. UnusedSubs \in SUBSET Nat /\ UnusedSubs \subseteq SubIds
  BY FundingAssumption DEF UnusedSubs, SubIds
<1>2. QED
  BY <1>1, MinOfNats

LEMMA LeastConfs ==
  ASSUME NEW a \in Confs, NEW b \in Confs
  PROVE  Min({a, b}) \in Confs /\ Min({a, b}) <= a /\ Min({a, b}) <= b
<1>1. {a, b} \in SUBSET Nat /\ {a, b} # {}
  BY Numbers
<1>2. QED
  BY <1>1, MinOfNats

(* A usable classification is that of one output of the escrow's amount.   *)
LEMMA UsableClass ==
  ASSUME NEW amount, NEW had \in BOOLEAN, NEW u \in DepositUpdate
  PROVE  /\ Classify(amount, had, u) \in FundingStates
         /\ Classify(amount, had, u) \in Usable =>
              /\ \E o \in Outputs : u.utxos = {o} /\ Value[o] = amount
              /\ u.confs >= Needed(Classify(amount, had, u))
<1>1. u.utxos \in SUBSET Outputs /\ u.confs \in Nat
  BY Numbers DEF DepositUpdate
<1>2. IsFiniteSet(u.utxos) /\ Cardinality(u.utxos) \in Nat
  BY <1>1, FundingAssumption, FS_Subset, FS_CardinalityType
<1>3. u.utxos # {} /\ ~(Cardinality(u.utxos) > 1) => \E o \in Outputs : u.utxos = {o}
  BY <1>1, <1>2, FS_EmptySet, FS_Singleton
<1>4. Classify(amount, had, u) \in FundingStates
  BY DEF Classify, FundingStates
<1>5. Classify(amount, had, u) \in Usable =>
        /\ u.utxos # {} /\ ~(Cardinality(u.utxos) > 1)
        /\ \A o \in u.utxos : Value[o] = amount
        /\ u.confs # 0
        /\ Classify(amount, had, u) = IF u.confs >= Csv THEN "CSV_MATURED" ELSE "READY"
  BY DEF Classify, Usable
<1>6. QED
  BY <1>1, <1>3, <1>4, <1>5 DEF Needed

LEMMA FoundSound ==
  ASSUME NEW es \in Escrow, NEW u \in Sound
  PROVE  /\ Found(es, u) \in SoundDecision /\ Found(es, u).state # "absent"
         /\ Found(es, u).update = u
<1>1. u \in DepositUpdate /\ es.had \in BOOLEAN /\ es.amount \in Amounts
  BY DEF Sound, Escrow
<1>2. PICK state : state = Classify(es.amount, es.had, u)
  OBVIOUS
<1>3. /\ state \in FundingStates
      /\ state \in Usable => \E o \in Outputs : u.utxos = {o} /\ Value[o] = es.amount
  BY <1>1, <1>2, UsableClass
<1>4. Found(es, u) = [state |-> state, amount |-> es.amount, update |-> u]
  BY <1>2 DEF Found
<1>5. QED
  BY <1>1, <1>3, <1>4 DEF SoundDecision, Decision, FundingStates

LEMMA DecidedSound ==
  ASSUME NEW es \in Escrow, SoundAsking(es), NEW d \in SoundDecision, d.state # "absent"
  PROVE  /\ Decided(es, d) \in SoundEscrow
         /\ Decided(es, d).state # "absent" /\ Decided(es, d).ready = es.ready
<1>1. PICK bound : bound = IF d.state \in Usable THEN CHOOSE o \in d.update.utxos : TRUE
                           ELSE None
  OBVIOUS
<1>2. PICK had : had = (es.had \/ d.update.utxos # {})
  OBVIOUS
<1>3. Decided(es, d) = [es EXCEPT !.state = d.state, !.latest = d.update,
                                  !.judged = d.amount, !.had = had, !.bound = bound]
  BY <1>1, <1>2 DEF Decided, Escrow
<1>4. /\ d.state \in FundingStates /\ d.amount \in Amounts /\ d.update \in Sound
      /\ d.update \in DepositUpdate /\ es.had \in BOOLEAN
      /\ d.state \in Usable => \E o \in Outputs : d.update.utxos = {o} /\ Value[o] = d.amount
  BY DEF SoundDecision, Decision, Sound, Escrow
<1>5. d.state \in Usable =>
        bound \in Outputs /\ d.update.utxos = {bound} /\ Value[bound] = d.amount
  BY <1>1, <1>4
<1>6. bound \in Outputs \cup {None} /\ had \in BOOLEAN
  BY <1>1, <1>2, <1>5
<1>7. PICK r : r = Decided(es, d)
  OBVIOUS
<1>8. /\ r \in Escrow /\ r.state = d.state /\ r.latest = d.update /\ r.bound = bound
      /\ r.amount = es.amount /\ r.judged = d.amount /\ r.asking = es.asking
      /\ r.ready = es.ready
  BY <1>3, <1>4, <1>6, <1>7 DEF Escrow
<1>9. SoundAsking(r)
  BY <1>8 DEF SoundAsking
<1>10. r \in SoundEscrow
  BY <1>4, <1>5, <1>8, <1>9 DEF SoundEscrow
<1>11. QED
  BY <1>4, <1>7, <1>8, <1>10 DEF FundingStates

LEMMA TieSound ==
  ASSUME NEW es \in SoundEscrow
  PROVE  Tie(es) \in SoundEscrow /\ Tie(es).state = es.state
  BY DEF Tie, SoundEscrow, SoundAsking, Escrow

-----------------------------------------------------------------------------
(* Confirmations only grow, so that nothing that was sound becomes unsound. *)
Grows == /\ chain' \in [Outputs -> Deposit]
         /\ \A o \in Outputs : chain'[o].confs >= chain[o].confs

LEMMA SoundGrows ==
  ASSUME chain \in [Outputs -> Deposit], Grows
  PROVE  /\ Sound \subseteq Sound' /\ SoundTask \subseteq SoundTask'
         /\ SoundSub \subseteq SoundSub' /\ SoundCall \subseteq SoundCall'
         /\ SoundEscrow \subseteq SoundEscrow'
<1>1. \A o \in Outputs, c \in Confs :
        chain[o].confs >= c => chain'[o].confs >= c
  <2>1. \A o \in Outputs : chain[o].confs \in Confs /\ chain'[o].confs \in Confs
    BY DEF Grows, Deposit
  <2>2. \A a, b, c \in Confs : a >= c /\ b >= a => b >= c
    BY Numbers
  <2>3. QED
    BY <2>1, <2>2 DEF Grows
<1>2. Sound \subseteq Sound'
  BY <1>1 DEF Sound, DepositUpdate
<1>3. SoundTask \subseteq SoundTask'
  BY <1>1 DEF SoundTask, Task
<1>4. SoundCall \subseteq SoundCall'
  BY <1>1 DEF SoundCall, Call
<1>5. SoundEscrow \subseteq SoundEscrow'
  BY <1>2 DEF SoundEscrow, SoundAsking
<1>6. SoundSub \subseteq SoundSub'
  <2>1. \A q \in Seq(Sound) : q \in Seq(Sound')
    BY <1>2, SeqMonotonic
  <2>2. SoundDecision \subseteq SoundDecision'
    BY <1>2 DEF SoundDecision
  <2>3. QED
    BY <2>1, <2>2 DEF SoundSub
<1>7. QED
  BY <1>2, <1>3, <1>4, <1>5, <1>6

(* What a step leaves or makes sound by the chain before it is sound.      *)
LEMMA StepSound ==
  ASSUME FundingInv, Grows,
         known' \subseteq Outputs, subs' \in [SubIds -> SoundSub],
         tasks' \in [TaskIds -> SoundTask], escrow' \in SoundEscrow,
         call' \in SoundCall, settle' \in {"no", "sent", "detached", "done"},
         mishaps' \in 0 .. MaxMishaps, misled' \in BOOLEAN, late' \in BOOLEAN,
         SettlementQuiet'
  PROVE  FundingInv'
<1>1. chain \in [Outputs -> Deposit] /\ chain' \in [Outputs -> Deposit]
  BY DEF FundingInv, Grows
<1>2. /\ SoundTask \subseteq SoundTask' /\ SoundSub \subseteq SoundSub'
      /\ SoundCall \subseteq SoundCall' /\ SoundEscrow \subseteq SoundEscrow'
  BY <1>1, SoundGrows
<1>3. subs' \in [SubIds -> SoundSub'] /\ tasks' \in [TaskIds -> SoundTask']
  BY <1>2
<1>4. QED
  BY <1>1, <1>2, <1>3 DEF FundingInv

LEMMA SameChainGrows ==
  ASSUME FundingInv, UNCHANGED chain
  PROVE  Grows
<1>1. \A o \in Outputs : chain[o].confs \in Nat
  BY Numbers DEF FundingInv, Deposit
<1>2. QED
  BY <1>1 DEF FundingInv, Grows

LEMMA InvTypes == FundingInv => TypeOK
<1> SUFFICES ASSUME FundingInv PROVE TypeOK
  OBVIOUS
<1>1. subs \in [SubIds -> Sub] /\ \A i \in SubIds : Len(subs[i].queue) <= ChanCap + 1
  BY DEF FundingInv, SoundSub
<1>2. tasks \in [TaskIds -> Task] /\ escrow \in Escrow /\ call \in Call
  BY DEF FundingInv, SoundTask, SoundEscrow, SoundCall
<1>3. QED
  BY <1>1, <1>2 DEF FundingInv, TypeOK

LEMMA NoUpdateSound == NoUpdate \in Sound /\ NoUpdate.utxos = {}
  BY Numbers DEF NoUpdate, Sound, DepositUpdate

LEMMA NoneSound ==
  /\ NoTask \in SoundTask /\ NoCall \in SoundCall /\ NoEscrow \in SoundEscrow
  /\ NoSub \in SoundSub /\ NoEscrow.state = "absent" /\ NoTask.seen = {}
<1>1. NoTask \in SoundTask /\ NoTask.seen = {}
  BY Numbers DEF NoTask, SoundTask, Task
<1>2. NoCall \in SoundCall
  BY Numbers DEF NoCall, SoundCall, Call
<1>3. NoEscrow \in SoundEscrow /\ NoEscrow.state = "absent"
  BY Numbers, NoUpdateSound
  DEF NoEscrow, NoAsking, Asking, SoundAsking, SoundEscrow, Escrow, Sound, FundingStates,
      Usable
<1>4. NoSub \in SoundSub
  <2>1. <<>> \in Seq(Sound) /\ <<>> \in Seq(DepositUpdate) /\ Len(<<>>) = 0
    BY EmptySeq
  <2>2. NoSub \in Sub /\ NoSub.queue = <<>> /\ NoSub.doing = NoDecision
    BY <2>1, Numbers, NoUpdateSound DEF NoSub, Sub, NoDecision, Decision, Sound
  <2>3. 0 <= ChanCap + 1 /\ 0 <= ChanCap
    BY Numbers
  <2>4. ~NoSub.tracked
    BY DEF NoSub
  <2>5. NoDecision \in SoundDecision
    BY Numbers, NoUpdateSound
    DEF NoDecision, Decision, SoundDecision, Sound, Usable
  <2>6. QED
    BY <2>1, <2>2, <2>3, <2>4, <2>5 DEF SoundSub
<1>5. QED
  BY <1>1, <1>2, <1>3, <1>4

LEMMA InitInv == Init => FundingInv
<1> SUFFICES ASSUME Init PROVE FundingInv
  OBVIOUS
<1>1. chain \in [Outputs -> Deposit] /\ 0 \in 0 .. MaxMishaps
  BY Numbers, FundingAssumption DEF Init, Deposit
<1>2. QED
  BY <1>1, NoneSound DEF Init, FundingInv, SettlementQuiet

-----------------------------------------------------------------------------
(* The steps.                                                              *)
LEMMA QuietKept ==
  ASSUME SettlementQuiet, UNCHANGED <<subs, escrow, call, settle, late>>
  PROVE  SettlementQuiet'
  BY DEF SettlementQuiet

LEMMA SpawnSound ==
  ASSUME FundingInv, NEW task \in SoundTask, Spawn(task)
  PROVE  tasks' \in [TaskIds -> SoundTask]
  BY FirstFreeTask DEF Spawn, FundingInv

LEMMA MishapsTyped ==
  ASSUME FundingInv, NEW n \in Nat, Mishaps(n)
  PROVE  mishaps' \in 0 .. MaxMishaps
  BY FundingAssumption DEF Mishaps, FundingInv

LEMMA ChainSteps ==
  ASSUME FundingInv,
         NewBlock \/ \E o \in Outputs : Pay(o) \/ Refund(o)
  PROVE  FundingInv'
<1>1. /\ known \subseteq Outputs /\ subs \in [SubIds -> SoundSub]
      /\ tasks \in [TaskIds -> SoundTask] /\ escrow \in SoundEscrow
      /\ call \in SoundCall /\ settle \in {"no", "sent", "detached", "done"}
      /\ mishaps \in 0 .. MaxMishaps /\ misled \in BOOLEAN /\ late \in BOOLEAN
      /\ SettlementQuiet /\ chain \in [Outputs -> Deposit]
      /\ \A o \in Outputs : chain[o].confs \in Confs /\ chain[o].confs \in Nat
  BY Numbers DEF FundingInv, Deposit
<1>2. UNCHANGED <<known, subs, escrow, call, settle, misled, late>>
  BY DEF NewBlock, Pay, Refund
<1>3. SettlementQuiet'
  BY <1>1, <1>2, QuietKept
<1>4. ASSUME NEW o \in Outputs, Pay(o)
      PROVE  Grows /\ tasks' \in [TaskIds -> SoundTask] /\ mishaps' \in 0 .. MaxMishaps
  <2> DEFINE task == [NoTask EXCEPT !.at = "tx", !.todo = {o}]
  <2>1. task \in SoundTask
    BY NoneSound DEF SoundTask, Task
  <2>2. tasks' \in [TaskIds -> SoundTask]
    BY <1>4, <2>1, SpawnSound DEF Pay
  <2>3. Overlaps + CountIf(\E x \in Outputs : chain[x].at # "none") \in Nat
    BY DEF Overlaps, CountIf
  <2>4. mishaps' \in 0 .. MaxMishaps
    BY <1>4, <2>3, MishapsTyped DEF Pay
  <2>5. Grows
    <3>1. chain' = [chain EXCEPT ![o].at = "unspent"]
      BY <1>4 DEF Pay
    <3>2. chain' \in [Outputs -> Deposit] /\ \A x \in Outputs : chain'[x].confs = chain[x].confs
      BY <1>1, <3>1 DEF Deposit
    <3>3. \A x \in Outputs : chain[x].confs >= chain[x].confs
      BY <1>1
    <3>4. QED
      BY <3>2, <3>3 DEF Grows
  <2>6. QED
    BY <2>2, <2>4, <2>5
<1>5. ASSUME NewBlock
      PROVE  Grows /\ tasks' \in [TaskIds -> SoundTask] /\ mishaps' \in 0 .. MaxMishaps
  <2> DEFINE task == [NoTask EXCEPT !.at = "block"]
  <2>1. task \in SoundTask
    BY NoneSound DEF SoundTask, Task
  <2>2. tasks' \in [TaskIds -> SoundTask]
    BY <1>5, <2>1, SpawnSound DEF NewBlock
  <2>3. Overlaps \in Nat
    BY DEF Overlaps, CountIf
  <2>4. mishaps' \in 0 .. MaxMishaps
    BY <1>5, <2>3, MishapsTyped DEF NewBlock
  <2>5. \A c \in Confs : c < Csv => c + 1 \in Confs /\ c + 1 >= c
    BY Numbers DEF Confs
  <2>6. \A c \in Confs : c >= c
    BY Numbers
  <2>7. ASSUME NEW o \in Outputs
        PROVE  chain'[o] \in Deposit /\ chain'[o].confs >= chain[o].confs
    <3>1. chain[o] \in Deposit
      BY <1>1
    <3>2. chain'[o] = [chain[o] EXCEPT !.confs = IF chain[o].at = "unspent" /\ @ < Csv
                                                THEN @ + 1 ELSE @]
      BY <1>5 DEF NewBlock
    <3>3. QED
      BY <2>5, <2>6, <3>1, <3>2 DEF Deposit
  <2>8. chain' = [o \in Outputs |-> chain'[o]]
    BY <1>5 DEF NewBlock
  <2>9. Grows
    BY <2>7, <2>8 DEF Grows
  <2>10. QED
    BY <2>2, <2>4, <2>9
<1>6. ASSUME NEW o \in Outputs, Refund(o)
      PROVE  Grows /\ tasks' \in [TaskIds -> SoundTask] /\ mishaps' \in 0 .. MaxMishaps
  BY <1>1, <1>6, Numbers DEF Refund, Grows, Deposit, Spent
<1>7. Grows /\ tasks' \in [TaskIds -> SoundTask] /\ mishaps' \in 0 .. MaxMishaps
  BY <1>4, <1>5, <1>6
<1>8. QED
  BY <1>1, <1>2, <1>3, <1>7, StepSound

LEMMA WatcherSteps ==
  ASSUME FundingInv, NEW t \in TaskIds,
         \/ TxFetch(t) \/ TxFetchFails(t) \/ TxRecord(t) \/ BlockList(t)
         \/ \E o \in Outputs : ScanOutput(t, o) \/ ScanFails(t, o)
  PROVE  FundingInv'
<1>1. /\ known \subseteq Outputs /\ subs \in [SubIds -> SoundSub]
      /\ tasks \in [TaskIds -> SoundTask] /\ escrow \in SoundEscrow
      /\ call \in SoundCall /\ settle \in {"no", "sent", "detached", "done"}
      /\ mishaps \in 0 .. MaxMishaps /\ misled \in BOOLEAN /\ late \in BOOLEAN
      /\ SettlementQuiet /\ chain \in [Outputs -> Deposit]
      /\ tasks[t] \in SoundTask /\ tasks[t] \in Task
  BY DEF FundingInv, SoundTask
<1>2. UNCHANGED <<chain, subs, escrow, call, settle, late>>
  BY DEF TxFetch, TxFetchFails, TxRecord, BlockList, ScanOutput, ScanFails
<1>3. Grows /\ SettlementQuiet'
  BY <1>1, <1>2, SameChainGrows, QuietKept
<1>4. /\ NoTask \in SoundTask /\ NoTask \in Task /\ NoTask.seen = {}
      /\ 1 \in Nat /\ 0 \in Confs
      /\ \A o \in Outputs : chain[o].confs \in Confs
  <2>1. \A o \in Outputs : chain[o].confs \in Confs
    BY <1>1 DEF Deposit
  <2>2. NoTask \in SoundTask /\ NoTask \in Task /\ NoTask.seen = {}
    BY NoneSound DEF SoundTask
  <2>3. QED
    BY <2>1, <2>2, Numbers
<1>5. CASE TxFetch(t)
  <2>1. [tasks[t] EXCEPT !.at = "matched"] \in SoundTask
    BY <1>1 DEF SoundTask, Task
  <2>2. tasks' \in [TaskIds -> SoundTask]
    BY <1>1, <1>4, <1>5, <2>1 DEF TxFetch
  <2>3. QED
    BY <1>1, <1>2, <1>3, <1>5, <2>2, StepSound DEF TxFetch
<1>6. CASE TxFetchFails(t)
  <2>1. tasks' \in [TaskIds -> SoundTask]
    BY <1>1, <1>4, <1>6 DEF TxFetchFails
  <2>2. mishaps' \in 0 .. MaxMishaps
    BY <1>4, <1>6, MishapsTyped DEF TxFetchFails
  <2>3. QED
    BY <1>1, <1>2, <1>3, <1>6, <2>1, <2>2, StepSound DEF TxFetchFails
<1>7. CASE TxRecord(t)
  <2>1. known' \subseteq Outputs
    BY <1>1, <1>7 DEF TxRecord, Task
  <2>2. \A c \in Confs : c >= 0
    BY Numbers
  <2>3. [NoTask EXCEPT !.at = "send", !.seen = known', !.confs = 0] \in SoundTask
    BY <1>4, <2>1, <2>2 DEF SoundTask, Task
  <2>4. tasks' \in [TaskIds -> SoundTask]
    BY <1>1, <1>7, <2>3 DEF TxRecord
  <2>5. QED
    BY <1>1, <1>2, <1>3, <1>7, <2>1, <2>4, StepSound DEF TxRecord
<1>8. CASE BlockList(t)
  <2>1. [tasks[t] EXCEPT !.at = "scan", !.todo = known] \in SoundTask
    BY <1>1 DEF SoundTask, Task
  <2>2. tasks' \in [TaskIds -> SoundTask]
    BY <1>1, <1>4, <1>8, <2>1 DEF BlockList
  <2>3. QED
    BY <1>1, <1>2, <1>3, <1>8, <2>2, StepSound DEF BlockList
<1>9. ASSUME NEW o \in Outputs, ScanOutput(t, o) \/ ScanFails(t, o)
      PROVE  FundingInv'
  <2> DEFINE least  == Min({tasks[t].confs, chain[o].confs})
             seen   == [tasks[t] EXCEPT !.todo = @ \ {o}, !.seen = @ \cup {o}, !.confs = least]
             unseen == [tasks[t] EXCEPT !.todo = @ \ {o}]
  <2>1. least \in Confs /\ least <= tasks[t].confs /\ least <= chain[o].confs
    BY <1>1, <1>4, LeastConfs DEF Task
  <2>2. \A x \in tasks[t].seen \cup {o} : chain[x].confs >= least
    <3>1. \A a, b, c \in Confs : a >= b /\ c <= b => a >= c
      BY Numbers
    <3>2. tasks[t].confs \in Confs /\ tasks[t].seen \subseteq Outputs
      BY <1>1 DEF Task
    <3>3. \A x \in tasks[t].seen : chain[x].confs >= tasks[t].confs
      BY <1>1 DEF SoundTask
    <3>4. chain[o].confs >= least
      BY <1>4, <2>1, Numbers
    <3> HIDE DEF least
    <3>5. QED
      BY <1>4, <2>1, <3>1, <3>2, <3>3, <3>4
  <2>3. seen \in SoundTask /\ unseen \in SoundTask
    <3> HIDE DEF least
    <3>1. QED
      BY <1>1, <2>1, <2>2 DEF SoundTask, Task
  <2>4. tasks' = [tasks EXCEPT ![t] = seen] \/ tasks' = [tasks EXCEPT ![t] = unseen]
    BY <1>1, <1>9 DEF ScanOutput, ScanFails
  <2>5. tasks' \in [TaskIds -> SoundTask]
    <3> HIDE DEF seen, unseen
    <3>1. QED
      BY <1>1, <2>3, <2>4
  <2>6. known' \subseteq Outputs
    BY <1>1, <1>9 DEF ScanOutput, ScanFails
  <2>7. mishaps' \in 0 .. MaxMishaps
    BY <1>1, <1>4, <1>9, MishapsTyped DEF ScanOutput, ScanFails
  <2>8. misled' \in BOOLEAN
    BY <1>1, <1>9 DEF ScanOutput, ScanFails
  <2>9. QED
    BY <1>1, <1>2, <1>3, <2>5, <2>6, <2>7, <2>8, StepSound
<1>10. QED
  BY <1>5, <1>6, <1>7, <1>8, <1>9

LEMMA OfferSound ==
  ASSUME NEW r \in SoundSub, NEW u \in Sound
  PROVE  [r EXCEPT !.queue = Offer(@, u)] \in SoundSub
<1>1. /\ r \in Sub /\ r.queue \in Seq(Sound) /\ Len(r.queue) \in Nat
      /\ Len(r.queue) <= ChanCap + 1 /\ (~r.tracked => Len(r.queue) <= ChanCap)
      /\ u \in DepositUpdate /\ r.queue \in Seq(DepositUpdate)
  BY LenProperties DEF SoundSub, Sound, Sub
<1>2. CASE Len(r.queue) < ChanCap
  <2>1. Offer(r.queue, u) = Append(r.queue, u)
    BY <1>2 DEF Offer
  <2>2. /\ Append(r.queue, u) \in Seq(Sound) /\ Append(r.queue, u) \in Seq(DepositUpdate)
        /\ Len(Append(r.queue, u)) = Len(r.queue) + 1
    BY <1>1
  <2>3. Len(r.queue) + 1 <= ChanCap + 1 /\ Len(r.queue) + 1 <= ChanCap
    BY <1>1, <1>2, Numbers
  <2>4. QED
    BY <1>1, <2>1, <2>2, <2>3 DEF SoundSub, Sub
<1>3. CASE ~(Len(r.queue) < ChanCap)
  <2>1. [r EXCEPT !.queue = Offer(@, u)] = r
    BY <1>1, <1>3 DEF Offer, Sub
  <2>2. QED
    BY <2>1
<1>4. QED
  BY <1>2, <1>3

LEMMA ReportStep ==
  ASSUME FundingInv, NEW t \in TaskIds, Report(t)
  PROVE  FundingInv'
<1> DEFINE u == [utxos |-> tasks[t].seen,
                 confs |-> IF tasks[t].seen = {} THEN 0 ELSE tasks[t].confs]
<1>1. /\ known \subseteq Outputs /\ subs \in [SubIds -> SoundSub]
      /\ tasks \in [TaskIds -> SoundTask] /\ escrow \in SoundEscrow
      /\ call \in SoundCall /\ settle \in {"no", "sent", "detached", "done"}
      /\ mishaps \in 0 .. MaxMishaps /\ misled \in BOOLEAN /\ late \in BOOLEAN
      /\ SettlementQuiet /\ tasks[t] \in SoundTask /\ tasks[t] \in Task
  BY DEF FundingInv, SoundTask
<1>2. UNCHANGED <<chain, known, escrow, call, settle, mishaps, late>> /\ Grows
  BY SameChainGrows DEF Report
<1>3. u \in Sound
  BY <1>1, Numbers DEF Sound, DepositUpdate, Task, SoundTask
<1>4. broadcastUpdate(u)
  BY DEF Report
<1> HIDE DEF u
<1>5. \A i \in SubIds :
        subs'[i] = IF subs[i].on /\ subs[i].mine
                   THEN [subs[i] EXCEPT !.queue = Offer(@, u)] ELSE subs[i]
  BY <1>4 DEF broadcastUpdate
<1>6. subs' \in [SubIds -> SoundSub]
  <2>1. \A i \in SubIds : subs'[i] \in SoundSub
    <3>1. TAKE i \in SubIds
    <3>2. PICK r \in SoundSub : r = subs[i]
      BY <1>1
    <3>3. [r EXCEPT !.queue = Offer(@, u)] \in SoundSub
      BY <1>3, OfferSound
    <3>4. QED
      BY <1>5, <3>2, <3>3
  <2>2. subs' = [i \in SubIds |-> subs'[i]]
    BY <1>4 DEF broadcastUpdate
  <2>3. QED
    BY <2>1, <2>2
<1>7. tasks' \in [TaskIds -> SoundTask]
  BY <1>1, NoneSound DEF Report
<1>8. misled' \in BOOLEAN
  BY <1>1, <1>4 DEF broadcastUpdate
<1>9. SettlementQuiet'
  <2>1. \A i \in SubIds :
          /\ subs[i].mine /\ ~subs[i].on => subs'[i] = subs[i]
          /\ subs'[i].mine = subs[i].mine
    BY <1>1, <1>5 DEF SoundSub, Sub
  <2>2. QED
    BY <1>1, <1>2, <2>1 DEF SettlementQuiet
<1>10. QED
  BY <1>1, <1>2, <1>6, <1>7, <1>8, <1>9, StepSound

LEMMA TrackerSteps ==
  ASSUME FundingInv, NEW i \in SubIds,
         TrackStart(i) \/ Evaluate(i) \/ ApplyDecision(i)
  PROVE  FundingInv'
<1>1. /\ known \subseteq Outputs /\ subs \in [SubIds -> SoundSub]
      /\ tasks \in [TaskIds -> SoundTask] /\ escrow \in SoundEscrow
      /\ call \in SoundCall /\ settle \in {"no", "sent", "detached", "done"}
      /\ mishaps \in 0 .. MaxMishaps /\ misled \in BOOLEAN /\ late \in BOOLEAN
      /\ SettlementQuiet /\ subs[i] \in SoundSub /\ subs[i] \in Sub
      /\ escrow \in Escrow /\ escrow.latest \in Sound /\ escrow.latest \in DepositUpdate
  BY DEF FundingInv, SoundSub, SoundEscrow, Sound
<1>2. UNCHANGED <<chain, known, tasks, call, settle, mishaps, misled, late>> /\ Grows
  BY SameChainGrows DEF TrackStart, Evaluate, ApplyDecision
<1>3. /\ subs[i].queue \in Seq(Sound) /\ Len(subs[i].queue) \in Nat
      /\ subs[i].queue \in Seq(DepositUpdate)
      /\ Len(subs[i].queue) <= ChanCap + 1
      /\ ~subs[i].tracked => Len(subs[i].queue) <= ChanCap
  BY <1>1, LenProperties DEF SoundSub, Sub
<1>4. CASE TrackStart(i)
  <2> DEFINE q == IF escrow.latest # NoUpdate \/ escrow.had
                  THEN <<escrow.latest>> \o subs[i].queue ELSE subs[i].queue
             r == [subs[i] EXCEPT !.tracked = TRUE, !.queue = q]
  <2>1. /\ <<escrow.latest>> \in Seq(Sound) /\ <<escrow.latest>> \in Seq(DepositUpdate)
        /\ Len(<<escrow.latest>>) = 1
    BY <1>1
  <2>2. /\ <<escrow.latest>> \o subs[i].queue \in Seq(Sound)
        /\ <<escrow.latest>> \o subs[i].queue \in Seq(DepositUpdate)
        /\ Len(<<escrow.latest>> \o subs[i].queue) = 1 + Len(subs[i].queue)
    BY <1>3, <2>1, ConcatProperties
  <2>3. q \in Seq(Sound) /\ q \in Seq(DepositUpdate) /\ Len(q) <= ChanCap + 1
    BY <1>3, <1>4, <2>2, Numbers DEF TrackStart
  <2>4. subs' = [subs EXCEPT ![i] = r]
    BY <1>1, <1>4 DEF TrackStart
  <2>5. r \in SoundSub
    <3> HIDE DEF q
    <3>1. /\ r \in Sub /\ r.tracked = TRUE /\ r.mine = subs[i].mine /\ r.queue = q
          /\ r.doing = subs[i].doing
      BY <1>1, <2>3 DEF Sub
    <3>2. subs[i].mine /\ subs[i].doing \in SoundDecision /\ subs[i].doing = NoDecision
      BY <1>1, <1>4 DEF TrackStart, SoundSub
    <3> HIDE DEF r
    <3>3. QED
      BY <2>3, <3>1, <3>2 DEF SoundSub
  <2>6. subs' \in [SubIds -> SoundSub]
    <3> HIDE DEF r
    <3>1. QED
      BY <1>1, <2>4, <2>5
  <2>7. SettlementQuiet'
    <3>1. escrow' = escrow /\ subs[i].mine /\ ~subs[i].tracked
      BY <1>4 DEF TrackStart
    <3>2. ~(settle \in {"detached", "done"} /\ ~late)
      BY <1>1, <3>1 DEF SettlementQuiet
    <3>3. QED
      BY <1>1, <1>2, <3>1, <3>2 DEF SettlementQuiet
  <2>8. QED
    BY <1>1, <1>2, <1>4, <2>6, <2>7, StepSound DEF TrackStart
<1>5. CASE Evaluate(i)
  <2> DEFINE u == Head(subs[i].queue)
             d == Found(escrow, u)
             r == [subs[i] EXCEPT !.queue = Tail(@), !.doing = d]
  <2>1. subs[i].queue # <<>> /\ subs[i].tracked /\ escrow' = escrow
    BY <1>5 DEF Evaluate
  <2>2. /\ u \in Sound /\ Tail(subs[i].queue) \in Seq(Sound)
        /\ Tail(subs[i].queue) \in Seq(DepositUpdate)
        /\ Len(Tail(subs[i].queue)) = Len(subs[i].queue) - 1
    BY <1>3, <2>1, HeadTailProperties
  <2>3. Len(Tail(subs[i].queue)) <= ChanCap + 1
    BY <1>3, <2>2, Numbers
  <2>4. d \in SoundDecision /\ d \in Decision /\ d.state # "absent"
    BY <1>1, <2>2, FoundSound DEF SoundDecision
  <2>5. subs' = [subs EXCEPT ![i] = r]
    BY <1>1, <1>5 DEF Evaluate
  <2>6. r \in SoundSub
    <3> HIDE DEF d, u
    <3>1. QED
      BY <1>1, <2>1, <2>2, <2>3, <2>4 DEF SoundSub, Sub
  <2>7. subs' \in [SubIds -> SoundSub]
    <3> HIDE DEF r
    <3>1. QED
      BY <1>1, <2>5, <2>6
  <2>8. SettlementQuiet'
    <3>1. ~(settle \in {"detached", "done"} /\ ~late)
      BY <1>1, <2>1 DEF SettlementQuiet, SoundSub
    <3>2. QED
      BY <1>1, <1>2, <2>1, <3>1 DEF SettlementQuiet
  <2>9. QED
    BY <1>1, <1>2, <2>1, <2>7, <2>8, StepSound
<1>6. CASE ApplyDecision(i)
  <2> DEFINE d == subs[i].doing
             r == [subs[i] EXCEPT !.doing = NoDecision]
  <2>1. d # NoDecision /\ escrow' = Decided(escrow, d) /\ subs' = [subs EXCEPT ![i] = r]
    BY <1>1, <1>6 DEF ApplyDecision
  <2>2. d \in SoundDecision /\ d.state # "absent" /\ subs[i].tracked /\ subs[i].mine
    BY <1>1, <2>1 DEF SoundSub
  <2>3. r \in SoundSub
    <3>1. NoDecision \in SoundDecision /\ NoDecision \in Decision
      BY NoneSound DEF SoundSub, NoSub, Sub
    <3>2. QED
      BY <1>1, <3>1 DEF SoundSub, Sub
  <2>4. SoundAsking(escrow)
    BY <1>1 DEF SoundEscrow
  <2>5. escrow' \in SoundEscrow /\ escrow'.state # "absent"
    <3> HIDE DEF d
    <3>1. QED
      BY <1>1, <2>1, <2>2, <2>4, DecidedSound
  <2>6. subs' \in [SubIds -> SoundSub]
    <3> HIDE DEF r
    <3>1. QED
      BY <1>1, <2>1, <2>3
  <2>7. SettlementQuiet'
    <3>1. ~(settle \in {"detached", "done"} /\ ~late)
      BY <1>1, <2>1, <2>2 DEF SettlementQuiet
    <3>2. QED
      BY <1>2, <2>5, <3>1 DEF SettlementQuiet
  <2>8. QED
    BY <1>1, <1>2, <2>5, <2>6, <2>7, StepSound
<1>7. QED
  BY <1>4, <1>5, <1>6

LEMMA SubscribeSound ==
  ASSUME FundingInv, NEW renew \in BOOLEAN, SubscribeTo(renew)
  PROVE  subs' \in [SubIds -> SoundSub] /\ mishaps' \in 0 .. MaxMishaps
<1> DEFINE kept == [i \in SubIds |->
                     IF renew THEN [NoSub EXCEPT !.on = subs[i].on] ELSE subs[i]]
           new == [NoSub EXCEPT !.on = TRUE, !.mine = TRUE]
<1>1. subs \in [SubIds -> SoundSub] /\ mishaps \in 0 .. MaxMishaps
  BY DEF FundingInv
<1>2. CASE ~renew /\ HasSub
  BY <1>1, <1>2 DEF SubscribeTo
<1>3. CASE ~(~renew /\ HasSub)
  <2>1. NoSub \in Sub /\ ~NoSub.tracked /\ \A i \in SubIds : subs[i].on \in BOOLEAN
    BY <1>1, NoneSound DEF NoSub, SoundSub, Sub
  <2>2. new \in SoundSub /\ \A i \in SubIds : [NoSub EXCEPT !.on = subs[i].on] \in SoundSub
    BY <2>1, NoneSound DEF SoundSub, Sub
  <2>3. kept \in [SubIds -> SoundSub]
    BY <1>1, <2>2
  <2>4. /\ UnusedSubs # {} /\ subs' = [kept EXCEPT ![Min(UnusedSubs)] = new]
        /\ Mishaps(CountIf(UnusedSubs # SubIds))
    BY <1>3 DEF SubscribeTo
  <2>5. subs' \in [SubIds -> SoundSub]
    <3> HIDE DEF kept, new
    <3>1. QED
      BY <2>2, <2>3, <2>4, FirstUnusedSub
  <2>6. mishaps' \in 0 .. MaxMishaps
    BY <2>4, MishapsTyped DEF CountIf
  <2>7. QED
    BY <2>5, <2>6
<1>4. QED
  BY <1>2, <1>3

LEMMA OpenSteps ==
  ASSUME FundingInv,
         OpenEscrow \/ \E o \in Outputs : BindFound(o) \/ BindRestored(o)
  PROVE  FundingInv'
<1>1. /\ known \subseteq Outputs /\ subs \in [SubIds -> SoundSub]
      /\ tasks \in [TaskIds -> SoundTask] /\ escrow \in SoundEscrow
      /\ call \in SoundCall /\ settle \in {"no", "sent", "detached", "done"}
      /\ misled \in BOOLEAN /\ late \in BOOLEAN
      /\ SettlementQuiet /\ chain \in [Outputs -> Deposit]
  BY DEF FundingInv
<1>2. UNCHANGED <<chain, known, tasks, misled>> /\ Grows
  BY SameChainGrows DEF OpenEscrow, BindFound, BindRestored
<1>3. subs' \in [SubIds -> SoundSub] /\ mishaps' \in 0 .. MaxMishaps
  BY SubscribeSound DEF OpenEscrow, BindFound, BindRestored
<1>4. CASE OpenEscrow
  <2>1. [NoEscrow EXCEPT !.state = "UNFUNDED"] \in SoundEscrow
    BY NoneSound DEF SoundEscrow, SoundAsking, Escrow, FundingStates, Usable
  <2>2. UNCHANGED <<call, settle, late>> /\ escrow' \in SoundEscrow
    BY <1>4, <2>1 DEF OpenEscrow
  <2>3. settle = "no"
    BY <1>1, <1>4 DEF OpenEscrow, SettlementQuiet
  <2>4. SettlementQuiet'
    BY <2>2, <2>3 DEF SettlementQuiet
  <2>5. QED
    BY <1>1, <1>2, <1>3, <2>2, <2>4, StepSound
<1>5. ASSUME NEW o \in Outputs, BindFound(o) PROVE FundingInv'
  <2> DEFINE r == [NoCall EXCEPT !.at = "found", !.out = o]
  <2>1. /\ UNCHANGED <<escrow, settle>> /\ call' = r
        /\ late' = (late \/ settle = "detached") /\ Finds(o)
    BY <1>5 DEF BindFound
  <2>2. r \in SoundCall
    <3>1. NoCall \in Call /\ NoCall.confs = 0
      BY NoneSound DEF SoundCall, NoCall
    <3>2. chain[o].confs \in Confs /\ \A c \in Confs : c >= 0
      BY <1>1, Numbers DEF Deposit
    <3>3. QED
      BY <3>1, <3>2 DEF SoundCall, Call
  <2>3. late' \in BOOLEAN
    BY <1>1, <2>1
  <2>4. ~(settle = "done" /\ ~late)
    <3>1. SUFFICES ASSUME settle = "done", ~late PROVE FALSE
      OBVIOUS
    <3>2. escrow.bound = None /\ escrow.latest.utxos = {}
      BY <1>1, <3>1, NoUpdateSound DEF SettlementQuiet
    <3>3. QED
      BY <2>1, <3>2, Numbers DEF Finds
  <2>5. SettlementQuiet'
    BY <1>1, <2>1, <2>4 DEF SettlementQuiet
  <2>6. QED
    BY <1>1, <1>2, <1>3, <2>1, <2>2, <2>3, <2>5, StepSound
<1>6. ASSUME NEW o \in Outputs, BindRestored(o) PROVE FundingInv'
  <2> DEFINE r == [NoCall EXCEPT !.at = "found", !.out = o]
             es == [NoEscrow EXCEPT !.amount = Value[o], !.had = TRUE]
             u == [utxos |-> {o}, confs |-> chain[o].confs]
  <2>1. /\ settle' = "no" /\ late' = FALSE /\ call' = r
        /\ escrow' = Decided(es, Found(es, u))
    BY <1>6 DEF BindRestored
  <2>2. chain[o].confs \in Confs /\ \A c \in Confs : c >= 0 /\ c >= c
    BY <1>1, Numbers DEF Deposit
  <2>3. r \in SoundCall
    <3>1. NoCall \in Call /\ NoCall.confs = 0
      BY NoneSound DEF SoundCall, NoCall
    <3>2. QED
      BY <2>2, <3>1 DEF SoundCall, Call
  <2>4. u \in Sound
    BY <2>2 DEF Sound, DepositUpdate
  <2>5. es \in Escrow /\ SoundAsking(es)
    BY NoneSound, Numbers DEF SoundEscrow, SoundAsking, Escrow, NoEscrow, NoAsking
  <2>6. escrow' \in SoundEscrow
    <3> HIDE DEF es, u
    <3>1. QED
      BY <2>1, <2>4, <2>5, FoundSound, DecidedSound
  <2>7. SettlementQuiet'
    BY <2>1 DEF SettlementQuiet
  <2>8. QED
    BY <1>1, <1>2, <1>3, <2>1, <2>3, <2>6, <2>7, StepSound
<1>7. QED
  BY <1>4, <1>5, <1>6

LEMMA BindSteps ==
  ASSUME FundingInv, BindCheck \/ BindFetch \/ BindStore \/ BindFinish
  PROVE  FundingInv'
<1>1. /\ known \subseteq Outputs /\ subs \in [SubIds -> SoundSub]
      /\ tasks \in [TaskIds -> SoundTask] /\ escrow \in SoundEscrow
      /\ call \in SoundCall /\ settle \in {"no", "sent", "detached", "done"}
      /\ misled \in BOOLEAN /\ late \in BOOLEAN /\ mishaps \in 0 .. MaxMishaps
      /\ SettlementQuiet /\ chain \in [Outputs -> Deposit]
      /\ call \in Call /\ escrow \in Escrow
  BY DEF FundingInv, SoundCall, SoundEscrow
<1>2. UNCHANGED <<chain, known, subs, tasks, settle, mishaps, misled, late>> /\ Grows
  BY SameChainGrows DEF BindCheck, BindFetch, BindStore, BindFinish
<1>3. call.at # "idle" /\ call.out \in Outputs /\ chain[call.out].confs >= call.confs
  BY <1>1 DEF BindCheck, BindFetch, BindStore, BindFinish, SoundCall
<1>4. escrow' \in SoundEscrow /\ escrow'.state = escrow.state
  <2>1. CASE BindCheck \/ BindFinish
    BY <1>1, <2>1, TieSound DEF BindCheck, BindFinish
  <2>2. CASE BindFetch
    BY <1>1, <2>2 DEF BindFetch
  <2>3. CASE BindStore
    <3> DEFINE u == [utxos |-> {call.out}, confs |-> call.confs]
    <3>1. u \in Sound
      BY <1>1, <1>3 DEF Sound, DepositUpdate, Call
    <3>2. escrow' = [escrow EXCEPT !.bound = call.out, !.amount = Value[call.out],
                                   !.latest = u,
                    !.asking.crossed = @ \/ /\ escrow.asking.at # "no"
                                            /\ Value[call.out] # escrow.amount]
      BY <2>3 DEF BindStore
    <3>3. u \in DepositUpdate /\ u.utxos = {call.out}
      BY <3>1 DEF Sound
    <3> HIDE DEF u
    <3> DEFINE e == escrow'
               x == escrow.asking.crossed \/ (escrow.asking.at # "no"
                                              /\ Value[call.out] # escrow.amount)
    <3>4. /\ Value[call.out] \in Amounts /\ call.out \in Outputs
          /\ escrow.asking \in Asking /\ x \in BOOLEAN
      BY <1>1, <1>3 DEF Amounts, Escrow, Asking
    <3>5. /\ e.bound = call.out /\ e.amount = Value[call.out] /\ e.latest = u
          /\ e.asking.at = escrow.asking.at /\ e.asking.out = escrow.asking.out
          /\ e.asking.crossed = x /\ e.state = escrow.state
          /\ e.judged = escrow.judged
      BY <1>1, <3>2, <3>4 DEF Escrow, Asking
    <3>6. [escrow.asking EXCEPT !.crossed = x] \in Asking
      BY <3>4 DEF Asking
    <3>7. e \in Escrow
      BY <1>1, <3>2, <3>3, <3>4, <3>6 DEF Escrow
    <3>8. SoundAsking(e)
      <4>1. SoundAsking(escrow)
        BY <1>1 DEF SoundEscrow
      <4>2. QED
        BY <3>4, <3>5, <4>1 DEF SoundAsking
    <3>9. QED
      BY <3>1, <3>3, <3>4, <3>5, <3>7, <3>8 DEF SoundEscrow
  <2>4. QED
    BY <2>1, <2>2, <2>3
<1>5. call' \in SoundCall
  <2>1. CASE BindCheck \/ BindFinish
    BY <2>1, NoneSound DEF BindCheck, BindFinish
  <2>2. CASE BindFetch
    <3>1. call' = [call EXCEPT !.at = "fetched", !.confs = chain[call.out].confs]
      BY <2>2 DEF BindFetch
    <3>2. chain[call.out].confs \in Confs
      BY <1>1, <1>3 DEF Deposit
    <3>3. chain[call.out].confs >= chain[call.out].confs
      BY <3>2, Numbers
    <3>4. QED
      BY <1>1, <1>3, <3>1, <3>2, <3>3 DEF SoundCall, Call
  <2>3. CASE BindStore
    BY <1>1, <1>3, <2>3 DEF BindStore, SoundCall, Call
  <2>4. QED
    BY <2>1, <2>2, <2>3
<1>6. SettlementQuiet'
  BY <1>1, <1>2, <1>3, <1>4 DEF SettlementQuiet
<1>7. QED
  BY <1>1, <1>2, <1>4, <1>5, <1>6, StepSound

LEMMA SettlementSteps ==
  ASSUME FundingInv,
         \/ ReadyCompare \/ ReadyLook \/ ReadyEnsure
         \/ SettlementBroadcast \/ ResetDetach \/ ResetMark \/ Restart
  PROVE  FundingInv'
<1>1. /\ known \subseteq Outputs /\ subs \in [SubIds -> SoundSub]
      /\ tasks \in [TaskIds -> SoundTask] /\ escrow \in SoundEscrow
      /\ call \in SoundCall /\ settle \in {"no", "sent", "detached", "done"}
      /\ misled \in BOOLEAN /\ late \in BOOLEAN /\ mishaps \in 0 .. MaxMishaps
      /\ SettlementQuiet /\ chain \in [Outputs -> Deposit] /\ escrow \in Escrow
  BY DEF FundingInv, SoundEscrow
<1>2. CASE ReadyCompare \/ ReadyLook \/ ReadyEnsure
  <2>1. UNCHANGED <<chain, known, subs, tasks, call, settle, mishaps, misled, late>>
    BY <1>2 DEF ReadyCompare, ReadyLook, ReadyEnsure
  <2>2. /\ escrow' \in SoundEscrow /\ escrow'.state = escrow.state
        /\ escrow'.latest = escrow.latest /\ escrow'.bound = escrow.bound
    <3>1. CASE ReadyCompare
      BY <1>1, <3>1, Numbers
      DEF ReadyCompare, SoundEscrow, SoundAsking, Escrow, Asking, NoAsking
    <3>2. CASE ReadyLook
      BY <1>1, <3>2 DEF ReadyLook, SoundEscrow, SoundAsking, Escrow, Asking, Usable
    <3>3. CASE ReadyEnsure
      BY <1>1, <3>3, Numbers
      DEF ReadyEnsure, SoundEscrow, SoundAsking, Escrow, Asking, NoAsking
    <3>4. QED
      BY <1>2, <3>1, <3>2, <3>3
  <2>3. SettlementQuiet'
    BY <1>1, <2>1, <2>2 DEF SettlementQuiet
  <2>4. QED
    BY <1>1, <2>1, <2>2, <2>3, SameChainGrows, StepSound
<1>3. CASE SettlementBroadcast
  <2>1. /\ UNCHANGED <<known, subs, tasks, escrow, call, mishaps, misled, late>>
        /\ settle' = "sent" /\ IsFunded(escrow)
        /\ chain' = [chain EXCEPT ![escrow.bound] = Spent]
    BY <1>3 DEF SettlementBroadcast
  <2>2. Grows
    <3>1. Spent \in Deposit /\ Spent.confs = Csv
      BY Numbers DEF Spent, Deposit
    <3>2. chain' \in [Outputs -> Deposit]
      BY <1>1, <2>1, <3>1
    <3>3. \A o \in Outputs : chain'[o] = chain[o] \/ chain'[o].confs = Csv
      BY <1>1, <2>1, <3>1
    <3>4. \A o \in Outputs :
            chain[o].confs \in Confs /\ Csv >= chain[o].confs
            /\ chain[o].confs >= chain[o].confs
      <4>1. \A c \in Confs : Csv >= c /\ c >= c
        BY Numbers DEF Confs
      <4>2. QED
        BY <1>1, <4>1 DEF Deposit
    <3>5. QED
      BY <3>2, <3>3, <3>4 DEF Grows
  <2>3. escrow.state = "READY"
    BY <2>1 DEF IsFunded
  <2>4. SettlementQuiet'
    BY <2>1, <2>3 DEF SettlementQuiet
  <2>5. QED
    BY <1>1, <2>1, <2>2, <2>4, StepSound
<1>4. CASE ResetDetach
  <2>1. /\ UNCHANGED <<chain, tasks, call, mishaps, misled>>
        /\ settle = "sent" /\ settle' = "detached" /\ late' = UpdateUnderWay
        /\ escrow' = [escrow EXCEPT !.tied = FALSE, !.ready = FALSE]
        /\ subs' = [i \in SubIds |-> IF subs[i].mine THEN [subs[i] EXCEPT !.on = FALSE]
                                      ELSE subs[i]]
        /\ known' \in {known, {}}
    BY <1>4 DEF ResetDetach
  <2>2. escrow' \in SoundEscrow /\ escrow'.state = escrow.state
    BY <1>1, <2>1 DEF SoundEscrow, SoundAsking, Escrow
  <2>3. \A i \in SubIds :
          /\ subs'[i] \in SoundSub
          /\ subs'[i].mine = subs[i].mine /\ subs'[i].tracked = subs[i].tracked
          /\ subs'[i].queue = subs[i].queue /\ subs'[i].doing = subs[i].doing
          /\ subs'[i].mine => ~subs'[i].on
    BY <1>1, <2>1 DEF SoundSub, Sub
  <2>4. subs' \in [SubIds -> SoundSub]
    BY <2>1, <2>3
  <2>5. SettlementQuiet'
    BY <1>1, <2>1, <2>2, <2>3 DEF SettlementQuiet, UpdateUnderWay
  <2>6. late' \in BOOLEAN
    BY <2>1 DEF UpdateUnderWay
  <2>7. QED
    BY <1>1, <2>1, <2>2, <2>4, <2>5, <2>6, SameChainGrows, StepSound
<1>5. CASE ResetMark
  <2>1. /\ UNCHANGED <<chain, known, subs, tasks, call, mishaps, misled, late>>
        /\ settle = "detached" /\ settle' = "done"
        /\ escrow' = [escrow EXCEPT !.state = "SPENT", !.latest = NoUpdate, !.bound = None]
    BY <1>5 DEF ResetMark
  <2>2. /\ escrow' \in SoundEscrow /\ escrow'.state = "SPENT"
        /\ escrow'.latest = NoUpdate /\ escrow'.bound = None
    BY <1>1, <2>1, NoUpdateSound
    DEF SoundEscrow, SoundAsking, Escrow, Sound, FundingStates, Usable
  <2>3. SettlementQuiet'
    BY <1>1, <2>1, <2>2 DEF SettlementQuiet
  <2>4. QED
    BY <1>1, <2>1, <2>2, <2>3, SameChainGrows, StepSound
<1>6. CASE Restart
  <2>1. /\ UNCHANGED chain /\ known' = {} /\ settle' = "no"
        /\ misled' = FALSE /\ late' = FALSE /\ Mishaps(1)
        /\ subs' \in [SubIds -> SoundSub] /\ tasks' \in [TaskIds -> SoundTask]
        /\ escrow' \in SoundEscrow /\ call' \in SoundCall
    BY <1>6, NoneSound DEF Restart
  <2>2. mishaps' \in 0 .. MaxMishaps
    BY <2>1, MishapsTyped
  <2>3. SettlementQuiet'
    BY <2>1 DEF SettlementQuiet
  <2>4. QED
    BY <2>1, <2>2, <2>3, SameChainGrows, StepSound
<1>7. QED
  BY <1>2, <1>3, <1>4, <1>5, <1>6

LEMMA FundingInvNext ==
  ASSUME FundingInv, [Next]_vars
  PROVE  FundingInv'
<1>1. ASSUME NEW t \in TaskIds,
             \/ TxFetch(t) \/ TxFetchFails(t) \/ TxRecord(t) \/ BlockList(t)
             \/ \E o \in Outputs : ScanOutput(t, o) \/ ScanFails(t, o)
      PROVE  FundingInv'
  BY <1>1, WatcherSteps
<1>2. ASSUME NEW t \in TaskIds, Report(t) PROVE FundingInv'
  BY <1>2, ReportStep
<1>3. ASSUME NEW i \in SubIds, TrackStart(i) \/ Evaluate(i) \/ ApplyDecision(i) PROVE FundingInv'
  BY <1>3, TrackerSteps
<1>4. CASE NewBlock \/ \E o \in Outputs : Pay(o) \/ Refund(o)
  BY <1>4, ChainSteps
<1>5. CASE OpenEscrow \/ \E o \in Outputs : BindFound(o) \/ BindRestored(o)
  BY <1>5, OpenSteps
<1>6. CASE BindCheck \/ BindFetch \/ BindStore \/ BindFinish
  BY <1>6, BindSteps
<1>7. CASE \/ ReadyCompare \/ ReadyLook \/ ReadyEnsure
           \/ SettlementBroadcast \/ ResetDetach \/ ResetMark \/ Restart
  BY <1>7, SettlementSteps
<1>8. CASE UNCHANGED vars
  <2>1. UNCHANGED <<chain, known, subs, tasks, escrow, call, settle, mishaps, misled, late>>
    BY <1>8 DEF vars
  <2>2. SettlementQuiet'
    BY <2>1, QuietKept DEF FundingInv
  <2>3. QED
    BY <2>1, <2>2, SameChainGrows, StepSound DEF FundingInv
<1>9. QED
  BY <1>1, <1>2, <1>3, <1>4, <1>5, <1>6, <1>7, <1>8 DEF Next

(* However late and out of order the results of the watcher come, none of  *)
(* them says more than the chain does (chainwatcher.go:159-318), and       *)
(* nothing reaches a session that was ended with nothing under way.        *)
THEOREM FundingInvariant == Spec => []FundingInv
<1>1. Init => FundingInv
  BY InitInv
<1>2. FundingInv /\ [Next]_vars => FundingInv'
  BY FundingInvNext
<1>3. QED
  BY <1>1, <1>2, PTL DEF Spec

(* The variables keep their types: the channels of the watcher stay within *)
(* their capacity and the tracker's one update (chainwatcher.go:168).      *)
THEOREM FundingTypeCorrect == Spec => []TypeOK
  BY FundingInvariant, InvTypes, PTL

(* An escrow that may be used binds the one output last reported, with the *)
(* escrow's amount or the one its state was found against, and with the    *)
(* confirmations of its state (referee.go:155-171, :1032-1094), whatever   *)
(* the order in which reports and binds come.                              *)
THEOREM UsableAlwaysBacked == Spec => []UsableIsBacked
<1>1. FundingInv => UsableIsBacked
  <2> SUFFICES ASSUME FundingInv, escrow.state \in Usable
               PROVE  /\ escrow.bound # None /\ escrow.latest.utxos = {escrow.bound}
                      /\ Value[escrow.bound] \in {escrow.amount, escrow.judged}
                      /\ ~Outrun => chain[escrow.bound].confs >= Needed(escrow.state)
    BY DEF UsableIsBacked
  <2>1. /\ escrow.latest \in Sound /\ escrow.bound \in Outputs
        /\ escrow.latest.utxos = {escrow.bound}
        /\ Value[escrow.bound] \in {escrow.amount, escrow.judged}
    BY DEF FundingInv, SoundEscrow
  <2>2. /\ chain[escrow.bound].confs >= escrow.latest.confs
        /\ escrow.latest.confs \in Nat /\ chain[escrow.bound].confs \in Nat
        /\ Needed(escrow.state) \in Nat
    BY <2>1, Numbers DEF Sound, DepositUpdate, FundingInv, Deposit, Needed
  <2>3. ~Outrun => chain[escrow.bound].confs >= Needed(escrow.state)
    BY <2>2 DEF Outrun
  <2>4. QED
    BY <2>1, <2>3, Numbers
<1>2. QED
  BY <1>1, FundingInvariant, PTL

(* A settled escrow is spent for good (referee.go:1473-1536) when nothing  *)
(* was under way to it as its subscription ended.                          *)
THEOREM SettledForGood == Spec => []SettledStaysSpent
<1>1. FundingInv => SettledStaysSpent
  BY DEF FundingInv, SettlementQuiet, SettledStaysSpent
<1>2. QED
  BY <1>1, FundingInvariant, PTL

(* Only SetPlayerReady makes a seat ready, and only on a deposit of the    *)
(* buy-in (lobby.go:558-561, referee.go:2195-2207), unless a bind has      *)
(* written another amount between its two looks at the amount.             *)
THEOREM ReadySeatHasPaid == Spec => ReadySeatPaidBuyIn
<1> DEFINE Paid == ~escrow.ready /\ escrow'.ready /\ ~escrow.asking.crossed =>
                     Value[escrow.asking.out] = BuyIn
<1>1. ASSUME FundingInv, [Next]_vars PROVE [Paid]_vars
  <2>1. escrow \in Escrow /\ SoundAsking(escrow) /\ subs \in [SubIds -> SoundSub]
    BY <1>1 DEF FundingInv, SoundEscrow
  <2>2. CASE ReadyEnsure
    BY <2>1, <2>2 DEF ReadyEnsure, SoundAsking
  <2>3. \A es \in Escrow : \A d : Decided(es, d).ready = es.ready /\ Tie(es).ready = es.ready
    BY DEF Decided, Tie, Escrow
  <2>4. ~NoEscrow.ready /\ NoEscrow \in Escrow
    BY NoneSound DEF NoEscrow, SoundEscrow
  <2>5. CASE ~ReadyEnsure /\ escrow' # escrow
    <3>1. escrow'.ready => escrow.ready
      <4>1. CASE \E i \in SubIds : ApplyDecision(i)
        BY <2>1, <2>3, <4>1 DEF ApplyDecision
      <4>2. CASE OpenEscrow \/ Restart
        BY <2>4, <4>2 DEF OpenEscrow, Restart, Escrow
      <4>3. CASE \E o \in Outputs : BindRestored(o)
        <5>1. PICK o \in Outputs : BindRestored(o)
          BY <4>3
        <5> DEFINE es == [NoEscrow EXCEPT !.amount = Value[o], !.had = TRUE]
        <5>2. es \in Escrow /\ ~es.ready
          BY <2>4, Numbers DEF Escrow
        <5>3. escrow' = Decided(es, Found(es, [utxos |-> {o}, confs |-> chain[o].confs]))
          BY <5>1 DEF BindRestored
        <5> HIDE DEF es
        <5>4. QED
          BY <2>3, <5>2, <5>3
      <4>4. CASE BindCheck \/ BindFinish
        BY <2>1, <2>3, <4>4 DEF BindCheck, BindFinish
      <4>5. CASE BindStore \/ ResetDetach \/ ResetMark \/ ReadyCompare \/ ReadyLook
        BY <2>1, <4>5
        DEF BindStore, ResetDetach, ResetMark, ReadyCompare, ReadyLook, Escrow
      <4>6. \/ \E i \in SubIds : ApplyDecision(i)
            \/ OpenEscrow \/ Restart \/ BindCheck \/ BindFinish \/ BindStore
            \/ ReadyCompare \/ ReadyLook
            \/ ResetDetach \/ ResetMark \/ \E o \in Outputs : BindRestored(o)
        BY <1>1, <2>5
        DEF Next, Pay, NewBlock, Refund, TxFetch, TxFetchFails, TxRecord, BlockList,
            ScanOutput, ScanFails, Report, TrackStart, Evaluate, BindFound, BindFetch,
            SettlementBroadcast, vars
      <4>7. QED
        BY <4>1, <4>2, <4>3, <4>4, <4>5, <4>6
    <3>2. QED
      BY <3>1
  <2>6. QED
    BY <2>2, <2>5
<1>2. QED
  BY <1>1, FundingInvariant, PTL DEF Spec, ReadySeatPaidBuyIn
=============================================================================
