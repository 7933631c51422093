----------------------------- MODULE TxPoolProofs -----------------------------
(***************************************************************************)
(* Proofs about the tx-pool service model, for every set of callers,      *)
(* transactions and uncles and every channel size and call bound.         *)
(***************************************************************************)
EXTENDS TxPoolService, TLAPS

USE ConstantsAssumption

Msgs == [id : Ids, kind : RequestKinds \cup NotifyKinds, txs : SUBSET Txs,
         target : {"Pending", "Proposed"}, detached : SUBSET Txs, uncle : Uncles]

-----------------------------------------------------------------------------
(* Typing                                                                  *)

\* What a spawned task holds: its message and the clock value it read.
TaskTypes ==
  \A id \in DOMAIN tasks : tasks[id].msg \in Msgs /\ tasks[id].t \in 0..MaxClock


\* Ending a task keeps the task map typed.
LEMMA DoneType ==
  ASSUME NEW id, DOMAIN tasks \subseteq Ids, TaskTypes, Done(id)
  PROVE  DOMAIN tasks' \subseteq Ids /\ TaskTypes'
BY DEF Done, TaskTypes

\* Abandoning messages keeps the callers' state typed.
LEMMA AbandonType ==
  ASSUME NEW D, TypeOK, Abandon(D)
  PROVE  cstate' \in [Callers -> {"idle", "waiting"}] /\ unapplied' \in [Callers -> SUBSET Ids]
BY DEF Abandon, TypeOK

\* A reply makes its caller idle.
LEMMA ReplyType ==
  ASSUME NEW id, NEW v, TypeOK, Reply(id, v)
  PROVE  cstate' \in [Callers -> {"idle", "waiting"}]
BY DEF Reply, TypeOK

\* Applying a notify keeps unapplied typed.
LEMMA AppliedType ==
  ASSUME NEW id, TypeOK, Applied(id)
  PROVE  unapplied' \in [Callers -> SUBSET Ids]
BY DEF Applied, TypeOK

\* The set operations of the pool keep it inside Txs.
LEMMA PoolOpsType ==
  ASSUME pending \subseteq Txs, proposed \subseteq Txs, committed \subseteq Txs,
         NEW txs \in SUBSET Txs, NEW d \in SUBSET Txs, NEW target
  PROVE  /\ ProcessTxs(txs) => pending' \subseteq Txs /\ proposed' \subseteq Txs /\ committed' \subseteq Txs
         /\ PlugEntries(txs, target) => pending' \subseteq Txs /\ proposed' \subseteq Txs /\ committed' \subseteq Txs
         /\ Reorg(txs, d) => pending' \subseteq Txs /\ proposed' \subseteq Txs /\ committed' \subseteq Txs
BY DEF ProcessTxs, PlugEntries, Reorg, InPool

\* TypeOK without its two flags, whose typing Zenon handles better.
TypeData ==
  /\ chan \in Seq(Msgs) /\ Len(chan) <= ChannelSize
  /\ DOMAIN tasks \subseteq Ids
  /\ cstate \in [Callers -> {"idle", "waiting"}]
  /\ ncalls \in [Callers -> 0..MaxCalls]
  /\ unapplied \in [Callers -> SUBSET Ids]
  /\ pending \subseteq Txs /\ proposed \subseteq Txs /\ committed \subseteq Txs
  /\ candidate_uncles \subseteq Uncles
  /\ last_uncles_updated_at \in 0..MaxClock /\ clock \in 0..MaxClock

TypeBool == loop_running \in BOOLEAN /\ stop_signal \in BOOLEAN

\* TypeOK is the conjunction of the two.
LEMMA TypeSplit == TypeOK <=> TypeBool /\ TypeData
BY DEF TypeOK, TypeBool, TypeData, Msgs

\* Every step keeps TypeOK, and the typing of tasks it rests on.
LEMMA TypeStep == TypeBool /\ TypeData /\ TaskTypes /\ [Next]_vars
                    => TypeBool' /\ TypeData' /\ TaskTypes'
<1> SUFFICES ASSUME TypeBool, TypeData, TaskTypes, [Next]_vars
             PROVE  TypeBool' /\ TypeData' /\ TaskTypes'
  OBVIOUS
<1> TypeOK
  BY TypeSplit
<1>1. ASSUME NEW c \in Callers, NEW call \in Calls, Call(c, call)
      PROVE  TypeBool' /\ TypeData' /\ TaskTypes'
  <2> DEFINE id == <<c, ncalls[c] + 1>>
             m == [id |-> id, kind |-> call.kind, txs |-> call.txs,
                   target |-> call.target, detached |-> call.detached,
                   uncle |-> call.uncle]
  <2>0. TypeBool'
    BY <1>1, Zenon DEF Call, TypeBool
  <2>1. id \in Ids /\ m \in Msgs
    BY <1>1 DEF Call, TypeData, Ids, Msgs, Calls
  <2>2. ncalls' \in [Callers -> 0..MaxCalls]
    BY <1>1 DEF Call, TypeData
  <2>3. TaskTypes' /\ DOMAIN tasks' \subseteq Ids
    BY <1>1 DEF Call, TaskTypes, TypeData
  <2>4. /\ pending' \subseteq Txs /\ proposed' \subseteq Txs /\ committed' \subseteq Txs
        /\ candidate_uncles' \subseteq Uncles
        /\ last_uncles_updated_at' \in 0..MaxClock /\ clock' \in 0..MaxClock
    BY <1>1 DEF Call, TypeData, poolVars, uncleVars
  <2>5. /\ chan' \in Seq(Msgs) /\ Len(chan') <= ChannelSize
        /\ cstate' \in [Callers -> {"idle", "waiting"}]
        /\ unapplied' \in [Callers -> SUBSET Ids]
    <3>1. CASE ~loop_running \/ ChannelFull
      BY <1>1, <3>1 DEF Call, TypeData
    <3>2. CASE loop_running /\ ~ChannelFull
      <4>1. chan' = Append(chan, m)
        BY <1>1, <3>2 DEF Call
      <4>2. chan' \in Seq(Msgs) /\ Len(chan') <= ChannelSize
        BY <2>1, <3>2, <4>1 DEF TypeData, ChannelFull
      <4>3. CASE call.kind \in RequestKinds
        BY <1>1, <3>2, <4>2, <4>3 DEF Call, TypeData
      <4>4. CASE call.kind \notin RequestKinds
        <5>1. unapplied' = [unapplied EXCEPT ![c] = @ \cup {id}] /\ cstate' = cstate
          BY <1>1, <3>2, <4>4 DEF Call, ChannelFull
        <5>2. QED
          BY <2>1, <4>2, <5>1 DEF TypeData
      <4>5. QED
        BY <4>3, <4>4
    <3>3. QED
      BY <3>1, <3>2
  <2>6. QED
    BY <2>0, <2>2, <2>3, <2>4, <2>5 DEF TypeData
<1>2. CASE Stop \/ Tick
  <2>1. TypeBool'
    BY <1>2, Zenon DEF Stop, Tick, TypeBool
  <2>2. TypeData' /\ TaskTypes'
    BY <1>2 DEF Stop, Tick, TypeData, TaskTypes, poolVars, uncleVars
  <2>3. QED
    BY <2>1, <2>2
<1>3. CASE Receive
  <2>0. TypeBool'
    BY <1>3, Zenon DEF Receive, TypeBool
  <2>1. Len(chan) > 0
    BY <1>3 DEF Receive, TypeData
  <2>2. Head(chan) \in Msgs /\ Tail(chan) \in Seq(Msgs) /\ Len(Tail(chan)) <= ChannelSize
    BY <2>1 DEF TypeData
  <2>3. DOMAIN tasks' \subseteq Ids /\ TaskTypes'
    BY <1>3, <2>2 DEF Receive, TypeData, TaskTypes, Msgs
  <2>4. QED
    BY <1>3, <2>0, <2>2, <2>3 DEF Receive, TypeData, poolVars, uncleVars
<1>4. CASE Break \/ Shutdown
  <2>0. TypeBool'
    BY <1>4, Zenon DEF Break, Shutdown, TypeBool
  <2>1. cstate' \in [Callers -> {"idle", "waiting"}] /\ unapplied' \in [Callers -> SUBSET Ids]
    BY <1>4, AbandonType DEF Break, Shutdown
  <2>2. chan' \in Seq(Msgs) /\ Len(chan') <= ChannelSize
    <3>1. chan' = <<>> \/ chan' = chan
      BY <1>4, Zenon DEF Break, Shutdown
    <3>2. CASE chan' = <<>>
      BY <3>2
    <3>3. CASE chan' = chan
      BY <3>3 DEF TypeData
    <3>4. QED
      BY <3>1, <3>2, <3>3
  <2>3. DOMAIN tasks' \subseteq Ids /\ TaskTypes'
    BY <1>4 DEF Break, Shutdown, TypeData, TaskTypes
  <2>4. QED
    BY <1>4, <2>0, <2>1, <2>2, <2>3 DEF Break, Shutdown, TypeData, poolVars, uncleVars
<1>5. ASSUME NEW id \in DOMAIN tasks, TaskStep(id)
      PROVE  TypeBool' /\ TypeData' /\ TaskTypes'
  <2>0. tasks[id].msg \in Msgs /\ tasks[id].t \in 0..MaxClock
    BY DEF TaskTypes
  <2>1. TypeBool'
    <3>1. UNCHANGED <<loop_running, stop_signal>>
      BY <1>5 DEF TaskStep, ReadTask, SubmitTxsTask, NotifyTxsTask, PlugEntryTask,
                  ChainReorgTask, NewUncleInsert, NewUncleStore
    <3>2. QED
      BY <3>1, Zenon DEF TypeBool
  <2>2. TypeData' /\ TaskTypes'
    <3>2. CASE ReadTask(id)
      BY <3>2, DoneType, ReplyType DEF ReadTask, TypeData, poolVars, uncleVars
    <3>3. CASE SubmitTxsTask(id)
      BY <2>0, <3>3, DoneType, ReplyType, PoolOpsType DEF SubmitTxsTask, TypeData, Msgs, uncleVars
    <3>4. CASE NotifyTxsTask(id)
      BY <2>0, <3>4, DoneType, AppliedType, PoolOpsType DEF NotifyTxsTask, TypeData, Msgs, uncleVars
    <3>5. CASE PlugEntryTask(id)
      BY <2>0, <3>5, DoneType, ReplyType, PoolOpsType DEF PlugEntryTask, TypeData, Msgs, uncleVars
    <3>6. CASE ChainReorgTask(id)
      BY <2>0, <3>6, DoneType, AppliedType, PoolOpsType DEF ChainReorgTask, TypeData, Msgs, uncleVars
    <3>7. CASE NewUncleInsert(id) /\ HasAssembler
      <4>1. tasks' = [tasks EXCEPT ![id].pc = "store", ![id].t = clock]
        BY <3>7 DEF NewUncleInsert
      <4>2. DOMAIN tasks' = DOMAIN tasks
        BY <4>1
      <4>3. TaskTypes'
        BY <2>0, <4>1, <4>2 DEF TaskTypes, TypeData
      <4>4. QED
        BY <2>0, <3>7, <4>2, <4>3 DEF NewUncleInsert, TypeData, Msgs, poolVars
    <3>8. CASE NewUncleInsert(id) /\ ~HasAssembler
      BY <3>8, DoneType, AppliedType DEF NewUncleInsert, TypeData, poolVars
    <3>9. CASE NewUncleStore(id)
      BY <2>0, <3>9, DoneType, AppliedType DEF NewUncleStore, TypeData, poolVars
    <3>10. QED
      BY <1>5, <3>2, <3>3, <3>4, <3>5, <3>6, <3>7, <3>8, <3>9 DEF TaskStep
  <2>10. QED
    BY <2>1, <2>2
<1>6. CASE UNCHANGED vars
  <2>1. TypeBool'
    BY <1>6, Zenon DEF vars, TypeBool
  <2>2. QED
    BY <1>6, <2>1 DEF vars, TypeData, TaskTypes, poolVars, uncleVars
<1>7. QED
  BY <1>1, <1>2, <1>3, <1>4, <1>5, <1>6 DEF Next

\* The initial state is typed.
LEMMA TypeInit == Init => TypeBool /\ TypeData /\ TaskTypes
<1> SUFFICES ASSUME Init PROVE TypeBool /\ TypeData /\ TaskTypes
  OBVIOUS
<1>1. TypeBool
  BY Zenon DEF Init, TypeBool
<1>2. TypeData /\ TaskTypes
  BY DEF Init, TypeData, TaskTypes
<1>3. QED
  BY <1>1, <1>2

\* The channel never holds more than DEFAULT_CHANNEL_SIZE messages and every
\* variable keeps its type, whatever the callers, the loop and the tasks do.
THEOREM TypeCorrect == Spec => []TypeOK
BY TypeInit, TypeStep, TypeSplit, PTL DEF Spec

-----------------------------------------------------------------------------
(* Waiters                                                                 *)

\* id is the latest call of its caller, and that caller is blocked on it.
ReqOwner(id) == cstate[id[1]] = "waiting" /\ id[2] = ncalls[id[1]]

\* A stopped loop has dropped its receiver, and with it the queue.
StoppedEmpty == ~loop_running => chan = <<>>

\* No message carries an id its caller has not yet used.
ChanBehind == \A i \in 1..Len(chan) : chan[i].id[2] <= ncalls[chan[i].id[1]]
TasksBehind == \A id \in DOMAIN tasks : id[2] <= ncalls[id[1]]

\* A message is in the queue once, or in one task.
ChanUnique == \A i, j \in 1..Len(chan) : i # j => chan[i].id # chan[j].id
ChanTasksDisjoint == ChanIds \cap DOMAIN tasks = {}

\* A live message is a Request exactly when its caller is blocked on it.
ChanOwned == \A i \in 1..Len(chan) : chan[i].kind \in RequestKinds <=> ReqOwner(chan[i].id)
TasksOwned == \A id \in DOMAIN tasks : tasks[id].msg.kind \in RequestKinds <=> ReqOwner(id)

\* The strengthening of WaiterHasRequest that every step keeps.
WInv ==
  /\ StoppedEmpty /\ ChanBehind /\ TasksBehind /\ ChanUnique
  /\ ChanTasksDisjoint /\ ChanOwned /\ TasksOwned /\ WaiterHasRequest

\* A call keeps WInv: its id is fresh, and its caller was idle.
LEMMA WCall ==
  ASSUME TypeData, WInv, NEW c \in Callers, NEW call \in Calls, Call(c, call)
  PROVE  WInv'
<1> DEFINE n == ncalls[c]
           id == <<c, n + 1>>
           m == [id |-> id, kind |-> call.kind, txs |-> call.txs,
                 target |-> call.target, detached |-> call.detached,
                 uncle |-> call.uncle]
           Owned(x) == cstate'[x[1]] = "waiting" /\ x[2] = ncalls'[x[1]]
<1>1. /\ cstate[c] = "idle" /\ n < MaxCalls
      /\ ncalls' = [ncalls EXCEPT ![c] = n + 1]
      /\ tasks' = tasks /\ loop_running' = loop_running
  BY DEF Call
<1>2. DOMAIN tasks \subseteq Ids
  BY DEF TypeData
<1>3. \A i \in 1..Len(chan) : chan[i].id \in Ids
  <2>1. \A i \in 1..Len(chan) : chan[i] \in Msgs
    BY DEF TypeData
  <2>2. \A i \in 1..Len(chan) : chan[i].id \in Ids
    BY <2>1 DEF Msgs
  <2>3. QED
    BY <2>2
<1>4. /\ ncalls \in [Callers -> Nat] /\ ncalls' \in [Callers -> Nat]
      /\ \A d \in Callers : ncalls[d] <= ncalls'[d]
      /\ \A d \in Callers \ {c} : ncalls'[d] = ncalls[d]
  BY <1>1 DEF TypeData
<1>5. TasksBehind'
  BY <1>1, <1>2, <1>4 DEF WInv, TasksBehind, Ids
<1>6. CASE ~loop_running \/ ChannelFull
  <2>1. chan' = chan /\ cstate' = cstate
    BY <1>6 DEF Call
  <2>2. StoppedEmpty'
    BY <1>1, <2>1, Zenon DEF WInv, StoppedEmpty
  <2>3. ChanBehind' /\ ChanUnique' /\ ChanTasksDisjoint'
    BY <1>1, <1>3, <1>4, <2>1 DEF WInv, ChanBehind, ChanUnique, ChanTasksDisjoint, ChanIds, Ids
  <2>4. ChanOwned' /\ TasksOwned'
    BY <1>1, <1>2, <1>3, <1>4, <2>1 DEF WInv, ChanOwned, TasksOwned, ReqOwner
  <2>5. WaiterHasRequest'
    BY <1>1, <1>4, <2>1 DEF WInv, WaiterHasRequest, ChanIds
  <2>6. QED
    BY <1>5, <2>2, <2>3, <2>4, <2>5 DEF WInv
<1>7. CASE loop_running /\ ~ChannelFull
  <2>1. chan' = Append(chan, m) /\ Len(chan') = Len(chan) + 1
    BY <1>7 DEF Call, TypeData
  <2>2. /\ \A i \in 1..Len(chan) : chan'[i] = chan[i]
        /\ chan'[Len(chan) + 1] = m
    BY <2>1 DEF TypeData
  <2>3. ChanIds' = ChanIds \cup {id}
    BY <2>1, <2>2 DEF ChanIds
  <2>4. /\ \A i \in 1..Len(chan) : chan[i].id # id
        /\ id \notin DOMAIN tasks
    BY <1>2, <1>3, <1>4 DEF WInv, ChanBehind, TasksBehind
  <2>5. \/ call.kind \in RequestKinds /\ cstate' = [cstate EXCEPT ![c] = "waiting"]
        \/ call.kind \notin RequestKinds /\ cstate' = cstate
    BY <1>7 DEF Call
  <2>6. \A x \in Ids : x[1] = c /\ x[2] <= n => ~ReqOwner(x) /\ ~Owned(x)
    BY <1>1, <1>4 DEF ReqOwner, Ids
  <2>7. \A x \in Ids : x[1] # c => (Owned(x) <=> ReqOwner(x))
    <3>1. \A d \in Callers \ {c} : cstate'[d] = cstate[d]
      BY <2>5 DEF TypeData
    <3>2. QED
      BY <1>4, <3>1 DEF ReqOwner, Ids
  <2>8. StoppedEmpty'
    BY <1>1, <1>7, Zenon DEF StoppedEmpty
  <2>9. ChanBehind'
    <3>1. \A i \in 1..Len(chan) : chan[i].id[2] <= ncalls'[chan[i].id[1]]
      BY <1>3, <1>4 DEF WInv, ChanBehind, Ids
    <3>2. m.id[2] <= ncalls'[m.id[1]]
      BY <1>1, <1>4
    <3>3. QED
      BY <2>1, <2>2, <3>1, <3>2 DEF ChanBehind
  <2>10. ChanUnique' /\ ChanTasksDisjoint'
    <3>1. ChanUnique'
      BY <2>1, <2>2, <2>4 DEF WInv, ChanUnique
    <3>2. ChanTasksDisjoint'
      BY <1>1, <2>3, <2>4 DEF WInv, ChanTasksDisjoint
    <3>3. QED
      BY <3>1, <3>2
  <2>11. ChanOwned'
    <3>1. ASSUME NEW i \in 1..Len(chan)
          PROVE  chan[i].kind \in RequestKinds <=> Owned(chan[i].id)
      <4>1. CASE chan[i].id[1] = c
        <5>1. ~ReqOwner(chan[i].id) /\ ~Owned(chan[i].id)
          BY <1>3, <2>6, <4>1 DEF WInv, ChanBehind, Ids
        <5>2. QED
          BY <5>1 DEF WInv, ChanOwned
      <4>2. CASE chan[i].id[1] # c
        BY <1>3, <2>7, <4>2 DEF WInv, ChanOwned
      <4>3. QED
        BY <4>1, <4>2
    <3>2. m.kind \in RequestKinds <=> Owned(id)
      BY <1>1, <1>4, <2>5 DEF TypeData
    <3>3. QED
      BY <2>1, <2>2, <3>1, <3>2 DEF ChanOwned, ReqOwner
  <2>12. TasksOwned'
    <3>1. ASSUME NEW x \in DOMAIN tasks
          PROVE  tasks[x].msg.kind \in RequestKinds <=> Owned(x)
      <4>1. CASE x[1] = c
        <5>1. ~ReqOwner(x) /\ ~Owned(x)
          BY <1>2, <2>6, <4>1 DEF WInv, TasksBehind, Ids
        <5>2. QED
          BY <5>1 DEF WInv, TasksOwned
      <4>2. CASE x[1] # c
        BY <1>2, <2>7, <4>2 DEF WInv, TasksOwned
      <4>3. QED
        BY <4>1, <4>2
    <3>2. QED
      BY <1>1, <3>1 DEF TasksOwned, ReqOwner
  <2>13. WaiterHasRequest'
    <3>1. ASSUME NEW d \in Callers, cstate'[d] = "waiting"
          PROVE  <<d, ncalls'[d]>> \in ChanIds' \/ <<d, ncalls'[d]>> \in DOMAIN tasks'
      <4>1. CASE d = c
        BY <1>1, <1>4, <2>3, <2>5, <3>1, <4>1 DEF TypeData
      <4>2. CASE d # c
        <5>1. cstate[d] = "waiting" /\ ncalls'[d] = ncalls[d]
          BY <1>4, <2>5, <3>1, <4>2 DEF TypeData
        <5>2. <<d, ncalls[d]>> \in ChanIds \/ <<d, ncalls[d]>> \in DOMAIN tasks
          BY <5>1, Zenon DEF WInv, WaiterHasRequest
        <5>3. QED
          BY <1>1, <2>3, <5>1, <5>2
      <4>3. QED
        BY <4>1, <4>2
    <3>2. QED
      BY <1>1, <1>7, <3>1, Zenon DEF WaiterHasRequest
  <2>14. QED
    BY <1>5, <2>8, <2>9, <2>10, <2>11, <2>12, <2>13 DEF WInv
<1>8. QED
  BY <1>6, <1>7

\* A step that leaves the queue, the loop, the callers and the messages of
\* the tasks alone keeps WInv (Stop, Tick, the first half of NewUncle).
LEMMA WFrame ==
  ASSUME WInv, chan' = chan, loop_running' = loop_running, cstate' = cstate,
         ncalls' = ncalls, DOMAIN tasks' = DOMAIN tasks,
         \A x \in DOMAIN tasks : tasks'[x].msg = tasks[x].msg
  PROVE  WInv'
<1>1. StoppedEmpty' /\ WaiterHasRequest'
  BY Zenon DEF WInv, StoppedEmpty, WaiterHasRequest, ChanIds
<1>2. ChanBehind' /\ TasksBehind' /\ ChanUnique' /\ ChanTasksDisjoint'
  BY DEF WInv, ChanBehind, TasksBehind, ChanUnique, ChanTasksDisjoint, ChanIds
<1>3. ChanOwned' /\ TasksOwned'
  BY DEF WInv, ChanOwned, TasksOwned, ReqOwner
<1>4. QED
  BY <1>1, <1>2, <1>3 DEF WInv

\* The loop taking the head of the queue keeps WInv: the message moves
\* from the queue to a task of its own.
LEMMA WReceive ==
  ASSUME TypeData, WInv, Receive
  PROVE  WInv'
<1> DEFINE h == Head(chan)
<1>1. /\ loop_running /\ loop_running' = loop_running
      /\ chan # <<>> /\ chan' = Tail(chan)
      /\ tasks' = [x \in DOMAIN tasks \cup {h.id} |->
                     IF x = h.id THEN [msg |-> h, pc |-> "start", t |-> 0]
                     ELSE tasks[x]]
      /\ cstate' = cstate /\ ncalls' = ncalls
  BY Zenon DEF Receive
<1>2. /\ Len(chan) > 0 /\ h = chan[1]
      /\ Len(chan') = Len(chan) - 1
      /\ \A i \in 1..Len(chan') : chan'[i] = chan[i + 1]
  BY <1>1 DEF TypeData
<1>3. /\ h.id \notin DOMAIN tasks
      /\ \A i \in 1..Len(chan') : chan'[i].id # h.id
  BY <1>2 DEF WInv, ChanTasksDisjoint, ChanUnique, ChanIds
<1>4. /\ DOMAIN tasks' = DOMAIN tasks \cup {h.id}
      /\ tasks'[h.id].msg = h
      /\ \A x \in DOMAIN tasks : tasks'[x] = tasks[x]
  BY <1>1, <1>3
<1>5. ChanIds = ChanIds' \cup {h.id}
  <2>1. ChanIds' \subseteq ChanIds
    BY <1>2 DEF ChanIds
  <2>2. ChanIds \subseteq ChanIds' \cup {h.id}
    <3>1. ASSUME NEW i \in 1..Len(chan) PROVE chan[i].id \in ChanIds' \cup {h.id}
      <4>1. CASE i = 1
        BY <1>2, <4>1
      <4>2. CASE i # 1
        <5>1. i - 1 \in 1..Len(chan') /\ chan'[i - 1] = chan[i]
          BY <1>2, <4>2
        <5>2. QED
          BY <5>1 DEF ChanIds
      <4>3. QED
        BY <4>1, <4>2
    <3>2. QED
      BY <3>1 DEF ChanIds
  <2>3. h.id \in ChanIds
    BY <1>2 DEF ChanIds
  <2>4. QED
    BY <2>1, <2>2, <2>3
<1>6. StoppedEmpty'
  BY <1>1, Zenon DEF StoppedEmpty
<1>7. ChanBehind' /\ ChanUnique' /\ ChanOwned'
  BY <1>1, <1>2 DEF WInv, ChanBehind, ChanUnique, ChanOwned, ReqOwner
<1>8. TasksBehind' /\ TasksOwned'
  BY <1>1, <1>2, <1>4 DEF WInv, ChanBehind, TasksBehind, ChanOwned, TasksOwned, ReqOwner
<1>9. ChanTasksDisjoint'
  BY <1>3, <1>4, <1>5 DEF WInv, ChanTasksDisjoint, ChanIds
<1>10. WaiterHasRequest'
  <2>1. ASSUME NEW d \in Callers, cstate'[d] = "waiting"
        PROVE  <<d, ncalls'[d]>> \in ChanIds' \/ <<d, ncalls'[d]>> \in DOMAIN tasks'
    <3>1. <<d, ncalls[d]>> \in ChanIds \/ <<d, ncalls[d]>> \in DOMAIN tasks
      BY <1>1, <2>1, Zenon DEF WInv, WaiterHasRequest
    <3>2. QED
      BY <1>1, <1>4, <1>5, <3>1
  <2>2. QED
    BY <1>1, <2>1, Zenon DEF WaiterHasRequest
<1>11. QED
  BY <1>6, <1>7, <1>8, <1>9, <1>10 DEF WInv

\* The loop breaking keeps WInv: the queue is dropped with the receiver,
\* and a caller blocked on a queued Request gets RecvError.
LEMMA WBreak ==
  ASSUME TypeData, WInv, Break
  PROVE  WInv'
<1> DEFINE W == {d \in Callers : cstate[d] = "waiting" /\ <<d, ncalls[d]>> \in ChanIds}
<1>1. /\ chan' = <<>> /\ loop_running' = FALSE
      /\ tasks' = tasks /\ ncalls' = ncalls
      /\ cstate' = [d \in Callers |-> IF d \in W THEN "idle" ELSE cstate[d]]
  BY Zenon DEF Break, Abandon
<1>2. ChanIds' = {} /\ Len(chan') = 0
  BY <1>1 DEF ChanIds
<1>3. StoppedEmpty'
  BY <1>1, Zenon DEF StoppedEmpty
<1>4. ChanBehind' /\ ChanUnique' /\ ChanOwned' /\ ChanTasksDisjoint'
  BY <1>2 DEF ChanBehind, ChanUnique, ChanOwned, ChanTasksDisjoint
<1>5. TasksBehind'
  BY <1>1 DEF WInv, TasksBehind
<1>6. TasksOwned'
  <2>1. ASSUME NEW x \in DOMAIN tasks
        PROVE  tasks[x].msg.kind \in RequestKinds
                 <=> cstate'[x[1]] = "waiting" /\ x[2] = ncalls[x[1]]
    <3>1. x \in Ids
      BY DEF TypeData
    <3>2. CASE x[1] \in W
      <4>1. x # <<x[1], ncalls[x[1]]>>
        BY <3>2 DEF WInv, ChanTasksDisjoint
      <4>2. ~ReqOwner(x)
        BY <3>1, <4>1 DEF ReqOwner, Ids
      <4>3. cstate'[x[1]] = "idle"
        BY <1>1, <3>1, <3>2 DEF Ids
      <4>4. QED
        BY <4>2, <4>3 DEF WInv, TasksOwned
    <3>3. CASE x[1] \notin W
      BY <1>1, <3>1, <3>3 DEF WInv, TasksOwned, ReqOwner, Ids
    <3>4. QED
      BY <3>2, <3>3
  <2>2. QED
    BY <1>1, <2>1 DEF TasksOwned, ReqOwner
<1>7. WaiterHasRequest'
  <2>1. ASSUME NEW d \in Callers, cstate'[d] = "waiting"
        PROVE  <<d, ncalls'[d]>> \in DOMAIN tasks'
    <3>1. d \notin W /\ cstate[d] = "waiting"
      BY <1>1, <2>1
    <3>2. <<d, ncalls[d]>> \notin ChanIds
      BY <3>1
    <3>3. <<d, ncalls[d]>> \in ChanIds \/ <<d, ncalls[d]>> \in DOMAIN tasks
      BY <3>1, Zenon DEF WInv, WaiterHasRequest
    <3>4. QED
      BY <1>1, <3>2, <3>3
  <2>2. QED
    BY <2>1, Zenon DEF WaiterHasRequest
<1>8. QED
  BY <1>3, <1>4, <1>5, <1>6, <1>7 DEF WInv

\* The runtime cancelling the tasks of a stopped loop keeps WInv: every
\* caller still blocked had its Request in one of them, and gets RecvError.
LEMMA WShutdown ==
  ASSUME TypeData, WInv, Shutdown
  PROVE  WInv'
<1> DEFINE W == {d \in Callers : cstate[d] = "waiting" /\ <<d, ncalls[d]>> \in DOMAIN tasks}
<1>1. /\ ~loop_running /\ loop_running' = loop_running
      /\ chan' = chan /\ DOMAIN tasks' = {} /\ ncalls' = ncalls
      /\ cstate' = [d \in Callers |-> IF d \in W THEN "idle" ELSE cstate[d]]
  BY Zenon DEF Shutdown, Abandon
<1>2. chan = <<>>
  BY <1>1, Zenon DEF WInv, StoppedEmpty
<1>3. ChanIds' = {} /\ Len(chan') = 0
  BY <1>1, <1>2 DEF ChanIds
<1>4. StoppedEmpty'
  BY <1>1, <1>2, Zenon DEF StoppedEmpty
<1>5. /\ ChanBehind' /\ ChanUnique' /\ ChanOwned' /\ ChanTasksDisjoint'
      /\ TasksBehind' /\ TasksOwned'
  BY <1>1, <1>3 DEF ChanBehind, ChanUnique, ChanOwned, ChanTasksDisjoint,
                    TasksBehind, TasksOwned
<1>6. WaiterHasRequest'
  <2>1. ASSUME NEW d \in Callers PROVE cstate'[d] # "waiting"
    <3>1. CASE cstate[d] = "waiting"
      <4>1. <<d, ncalls[d]>> \in DOMAIN tasks
        BY <1>1, <3>1, Zenon DEF WInv, WaiterHasRequest
      <4>2. QED
        BY <1>1, <3>1, <4>1
    <3>2. CASE cstate[d] # "waiting"
      BY <1>1, <3>2
    <3>3. QED
      BY <3>1, <3>2
  <2>2. QED
    BY <2>1 DEF WaiterHasRequest
<1>7. QED
  BY <1>4, <1>5, <1>6 DEF WInv

\* A task ending keeps WInv: a Request's task replies to its caller, the
\* one blocked on it; a Notify's task leaves the callers alone.
LEMMA WDone ==
  ASSUME TypeData, WInv, NEW id \in DOMAIN tasks,
         chan' = chan, loop_running' = loop_running, ncalls' = ncalls, Done(id),
         \/ tasks[id].msg.kind \in RequestKinds /\ cstate' = [cstate EXCEPT ![id[1]] = "idle"]
         \/ tasks[id].msg.kind \notin RequestKinds /\ cstate' = cstate
  PROVE  WInv'
<1>1. /\ DOMAIN tasks' = DOMAIN tasks \ {id}
      /\ \A x \in DOMAIN tasks' : tasks'[x] = tasks[x]
  BY DEF Done
<1>2. id \in Ids /\ DOMAIN tasks \subseteq Ids /\ \A i \in 1..Len(chan) : chan[i].id \in Ids
  <2>1. \A i \in 1..Len(chan) : chan[i] \in Msgs
    BY DEF TypeData
  <2>2. QED
    BY <2>1 DEF TypeData, Msgs
<1>3. \A x \in Ids : x # id /\ x[1] = id[1] => ~(ReqOwner(x) /\ ReqOwner(id))
  BY <1>2 DEF ReqOwner, Ids
<1>4. \A i \in 1..Len(chan) : chan[i].id # id
  BY DEF WInv, ChanTasksDisjoint, ChanIds
<1>5. StoppedEmpty' /\ ChanBehind' /\ ChanUnique'
  <2>1. StoppedEmpty'
    BY Zenon DEF WInv, StoppedEmpty
  <2>2. ChanBehind'
    BY Zenon DEF WInv, ChanBehind
  <2>3. ChanUnique'
    BY DEF WInv, ChanUnique
  <2>4. QED
    BY <2>1, <2>2, <2>3
<1>6. TasksBehind' /\ ChanTasksDisjoint'
  BY <1>1 DEF WInv, TasksBehind, ChanTasksDisjoint, ChanIds
<1>7. CASE tasks[id].msg.kind \in RequestKinds /\ cstate' = [cstate EXCEPT ![id[1]] = "idle"]
  <2>1. ReqOwner(id)
    BY <1>7 DEF WInv, TasksOwned
  <2>2. \A x \in Ids : x[1] # id[1] => (ReqOwner(x)' <=> ReqOwner(x))
    BY <1>2, <1>7 DEF TypeData, ReqOwner, Ids
  <2>3. \A x \in Ids : x # id /\ x[1] = id[1] => ~ReqOwner(x) /\ ~ReqOwner(x)'
    BY <1>2, <1>3, <1>7, <2>1 DEF TypeData, ReqOwner, Ids
  <2>4. ChanOwned'
    <3>1. ASSUME NEW i \in 1..Len(chan)
          PROVE  chan[i].kind \in RequestKinds <=> ReqOwner(chan[i].id)'
      <4>1. CASE chan[i].id[1] = id[1]
        BY <1>2, <1>4, <2>3, <4>1 DEF WInv, ChanOwned
      <4>2. CASE chan[i].id[1] # id[1]
        BY <1>2, <2>2, <4>2 DEF WInv, ChanOwned
      <4>3. QED
        BY <4>1, <4>2
    <3>2. QED
      BY <3>1 DEF ChanOwned
  <2>5. TasksOwned'
    <3>1. ASSUME NEW x \in DOMAIN tasks'
          PROVE  tasks[x].msg.kind \in RequestKinds <=> ReqOwner(x)'
      <4>1. x \in DOMAIN tasks /\ x # id /\ x \in Ids
        BY <1>1, <1>2
      <4>2. CASE x[1] = id[1]
        BY <2>3, <4>1, <4>2 DEF WInv, TasksOwned
      <4>3. CASE x[1] # id[1]
        BY <2>2, <4>1, <4>3 DEF WInv, TasksOwned
      <4>4. QED
        BY <4>2, <4>3
    <3>2. QED
      BY <1>1, <3>1 DEF TasksOwned
  <2>6. WaiterHasRequest'
    <3>1. ASSUME NEW d \in Callers, cstate'[d] = "waiting"
          PROVE  (loop_running /\ <<d, ncalls[d]>> \in ChanIds) \/ <<d, ncalls[d]>> \in DOMAIN tasks'
      <4>1. d # id[1] /\ cstate[d] = "waiting"
        BY <1>2, <1>7, <3>1 DEF TypeData, Ids
      <4>2. (loop_running /\ <<d, ncalls[d]>> \in ChanIds) \/ <<d, ncalls[d]>> \in DOMAIN tasks
        BY <4>1, Zenon DEF WInv, WaiterHasRequest
      <4>3. <<d, ncalls[d]>> # id
        BY <4>1
      <4>4. QED
        BY <1>1, <4>2, <4>3
    <3>2. QED
      BY <3>1, Zenon DEF WaiterHasRequest, ChanIds
  <2>7. QED
    BY <1>5, <1>6, <2>4, <2>5, <2>6 DEF WInv
<1>8. CASE tasks[id].msg.kind \notin RequestKinds /\ cstate' = cstate
  <2>1. ~ReqOwner(id)
    BY <1>8 DEF WInv, TasksOwned
  <2>2. ChanOwned' /\ TasksOwned'
    BY <1>1, <1>8 DEF WInv, ChanOwned, TasksOwned, ReqOwner
  <2>3. WaiterHasRequest'
    <3>1. ASSUME NEW d \in Callers, cstate'[d] = "waiting"
          PROVE  (loop_running /\ <<d, ncalls[d]>> \in ChanIds) \/ <<d, ncalls[d]>> \in DOMAIN tasks'
      <4>1. cstate[d] = "waiting"
        BY <1>8, <3>1
      <4>2. (loop_running /\ <<d, ncalls[d]>> \in ChanIds) \/ <<d, ncalls[d]>> \in DOMAIN tasks
        BY <4>1, Zenon DEF WInv, WaiterHasRequest
      <4>3. <<d, ncalls[d]>> # id
        BY <1>2, <2>1, <4>1 DEF ReqOwner, Ids
      <4>4. QED
        BY <1>1, <4>2, <4>3
    <3>2. QED
      BY <3>1, Zenon DEF WaiterHasRequest, ChanIds
  <2>4. QED
    BY <1>5, <1>6, <2>2, <2>3 DEF WInv
<1>9. QED
  BY <1>7, <1>8

\* Every step keeps WInv.
LEMMA WStep == TypeData /\ TaskTypes /\ WInv /\ [Next]_vars => WInv'
<1> SUFFICES ASSUME TypeData, TaskTypes, WInv, [Next]_vars PROVE WInv'
  OBVIOUS
<1>1. ASSUME NEW c \in Callers, NEW call \in Calls, Call(c, call) PROVE WInv'
  BY <1>1, WCall
<1>2. CASE Stop \/ Tick
  <2>1. chan' = chan /\ loop_running' = loop_running /\ cstate' = cstate
        /\ ncalls' = ncalls /\ tasks' = tasks
    BY <1>2 DEF Stop, Tick
  <2>2. QED
    BY <2>1, WFrame
<1>3. CASE Receive
  BY <1>3, WReceive
<1>4. CASE Break
  BY <1>4, WBreak
<1>5. CASE Shutdown
  BY <1>5, WShutdown
<1>6. ASSUME NEW id \in DOMAIN tasks, TaskStep(id) PROVE WInv'
  <2>1. RequestKinds \cap NotifyKinds = {} /\ ReadKinds \subseteq RequestKinds
    BY DEF RequestKinds, NotifyKinds, ReadKinds
  <2>2. CASE ReadTask(id) \/ SubmitTxsTask(id) \/ PlugEntryTask(id)
    <3>1. /\ chan' = chan /\ loop_running' = loop_running /\ ncalls' = ncalls
          /\ Done(id) /\ cstate' = [cstate EXCEPT ![id[1]] = "idle"]
          /\ tasks[id].msg.kind \in RequestKinds
      BY <2>1, <2>2 DEF ReadTask, SubmitTxsTask, PlugEntryTask, Reply, Requester, RequestKinds
    <3>2. QED
      BY <3>1, WDone
  <2>3. CASE \/ NotifyTxsTask(id) \/ ChainReorgTask(id) \/ NewUncleStore(id)
             \/ NewUncleInsert(id) /\ ~HasAssembler
    <3>1. /\ chan' = chan /\ loop_running' = loop_running /\ ncalls' = ncalls
          /\ Done(id) /\ cstate' = cstate
          /\ tasks[id].msg.kind \notin RequestKinds
      BY <2>1, <2>3 DEF NotifyTxsTask, ChainReorgTask, NewUncleStore, NewUncleInsert, NotifyKinds
    <3>2. QED
      BY <3>1, WDone
  <2>4. CASE NewUncleInsert(id) /\ HasAssembler
    <3>1. /\ chan' = chan /\ loop_running' = loop_running /\ cstate' = cstate
          /\ ncalls' = ncalls
          /\ tasks' = [tasks EXCEPT ![id].pc = "store", ![id].t = clock]
      BY <2>4 DEF NewUncleInsert
    <3>2. DOMAIN tasks' = DOMAIN tasks /\ \A x \in DOMAIN tasks : tasks'[x].msg = tasks[x].msg
      BY <3>1
    <3>3. QED
      BY <3>1, <3>2, WFrame
  <2>5. QED
    BY <1>6, <2>2, <2>3, <2>4 DEF TaskStep
<1>7. CASE UNCHANGED vars
  <2>1. chan' = chan /\ loop_running' = loop_running /\ cstate' = cstate
        /\ ncalls' = ncalls /\ tasks' = tasks
    BY <1>7 DEF vars
  <2>2. QED
    BY <2>1, WFrame
<1>8. QED
  BY <1>1, <1>2, <1>3, <1>4, <1>5, <1>6, <1>7 DEF Next

\* A caller blocked in response.recv() always has its Request alive, in the
\* queue of a running loop or in a task: the stop race (a message queued or
\* spawned as the loop breaks) always drops the responder it would strand.
THEOREM WaiterHasRequestInv == Spec => []WaiterHasRequest
<1>1. Init => WInv
  BY DEF Init, WInv, StoppedEmpty, ChanBehind, TasksBehind, ChanUnique,
         ChanTasksDisjoint, ChanOwned, TasksOwned, WaiterHasRequest, ChanIds
<1>2. TypeBool /\ TypeData /\ TaskTypes /\ WInv /\ [Next]_vars
        => (TypeBool /\ TypeData /\ TaskTypes /\ WInv)'
  BY TypeStep, WStep
<1>3. QED
  BY <1>1, <1>2, TypeInit, PTL DEF Spec, WInv
====
