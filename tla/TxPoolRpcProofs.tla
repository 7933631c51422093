---------------------------- MODULE TxPoolRpcProofs ----------------------------
(***************************************************************************)
(* The tx-pool service implements the controller contract TxPoolRpc under *)
(* the mapping of module TxPoolService (status <- StatusMap, stopped <-   *)
(* stop_signal, closed <- ~loop_running), for every set of callers,       *)
(* transactions and uncles and every channel size and call bound.         *)
(***************************************************************************)
EXTENDS TxPoolProofs

\* The abstract variables as the mapping computes them.
rvars == <<cstate, StatusMap, stop_signal, ~loop_running>>

\* Every caller has a result: each step rewrites result with EXCEPT or as a
\* whole map over Callers.
ResultsTotal == DOMAIN result = Callers

\* The invariant the refinement rests on: the typing, and WInv for the
\* owner of every task.
RInv == TypeBool /\ TypeData /\ TaskTypes /\ WInv /\ ResultsTotal

LEMMA RInvAlways == Spec => []RInv
<1>1. Init => RInv
  <2>1. Init => WInv
    BY DEF Init, WInv, StoppedEmpty, ChanBehind, TasksBehind, ChanUnique,
           ChanTasksDisjoint, ChanOwned, TasksOwned, WaiterHasRequest, ChanIds
  <2>2. Init => ResultsTotal
    BY DEF Init, ResultsTotal
  <2>3. QED
    BY <2>1, <2>2, TypeInit DEF RInv
<1>2. ResultsTotal /\ [Next]_vars => ResultsTotal'
  <2> SUFFICES ASSUME ResultsTotal, [Next]_vars PROVE ResultsTotal'
    OBVIOUS
  <2>1. ASSUME NEW c \in Callers, NEW call \in Calls, Call(c, call) PROVE ResultsTotal'
    BY <2>1 DEF Call, ResultsTotal
  <2>2. CASE Break \/ Shutdown
    BY <2>2 DEF Break, Shutdown, Abandon, ResultsTotal
  <2>3. ASSUME NEW id \in DOMAIN tasks, TaskStep(id) PROVE ResultsTotal'
    BY <2>3 DEF TaskStep, ReadTask, SubmitTxsTask, PlugEntryTask, NotifyTxsTask,
                ChainReorgTask, NewUncleInsert, NewUncleStore, Reply, ResultsTotal
  <2>4. CASE Stop \/ Receive \/ Tick \/ UNCHANGED vars
    BY <2>4 DEF Stop, Receive, Tick, vars, ResultsTotal
  <2>5. QED
    BY <2>1, <2>2, <2>3, <2>4 DEF Next
<1>3. RInv /\ [Next]_vars => RInv'
  BY <1>2, TypeStep, WStep DEF RInv
<1>4. QED
  BY <1>1, <1>3, PTL DEF Spec

-----------------------------------------------------------------------------
(* One lemma per kind of step                                              *)

\* A controller call is a Return or a Send of the contract.
LEMMA RefCall ==
  ASSUME RInv, NEW c \in Callers, NEW call \in Calls, Call(c, call)
  PROVE  [Rpc!Next]_rvars
<1> DEFINE id == <<c, ncalls[c] + 1>>
<1>1. /\ cstate[c] = "idle"
      /\ UNCHANGED <<loop_running, stop_signal>>
  BY DEF Call
<1>2. CASE ~loop_running
  <2>1. result' = [result EXCEPT ![c] = Res("Closed")] /\ cstate' = cstate
    BY <1>2 DEF Call
  <2>2. StatusMap' = [StatusMap EXCEPT ![c] = "Closed"]
    BY <2>1 DEF StatusMap, Res, RInv, ResultsTotal
  <2>3. Rpc!Return(c, "Closed")
    BY <1>1, <1>2, <2>1, <2>2, Zenon DEF Rpc!Return
  <2>4. QED
    BY <2>3 DEF Rpc!Next
<1>3. CASE loop_running /\ ChannelFull
  <2>1. result' = [result EXCEPT ![c] = Res("Full")] /\ cstate' = cstate
    BY <1>3 DEF Call
  <2>2. StatusMap' = [StatusMap EXCEPT ![c] = "Full"]
    BY <2>1 DEF StatusMap, Res, RInv, ResultsTotal
  <2>3. Rpc!Return(c, "Full")
    BY <1>1, <1>3, <2>1, <2>2, Zenon DEF Rpc!Return
  <2>4. QED
    BY <2>3 DEF Rpc!Next
<1>4. CASE loop_running /\ ~ChannelFull /\ call.kind \in RequestKinds
  <2>1. /\ result' = [result EXCEPT ![c] = Res(NoResult)]
        /\ cstate' = [cstate EXCEPT ![c] = "waiting"]
    BY <1>4 DEF Call
  <2>2. StatusMap' = [StatusMap EXCEPT ![c] = "none"]
    BY <2>1 DEF StatusMap, Res, NoResult, RInv, ResultsTotal
  <2>3. Rpc!Send(c)
    BY <1>1, <1>4, <2>1, <2>2, Zenon DEF Rpc!Send
  <2>4. QED
    BY <2>3 DEF Rpc!Next
<1>5. CASE loop_running /\ ~ChannelFull /\ call.kind \notin RequestKinds
  <2>1. result' = [result EXCEPT ![c] = Res(Sent)] /\ cstate' = cstate
    BY <1>5 DEF Call
  <2>2. StatusMap' = [StatusMap EXCEPT ![c] = "sent"]
    BY <2>1 DEF StatusMap, Res, Sent, RInv, ResultsTotal
  <2>3. Rpc!Return(c, "sent")
    BY <1>1, <1>5, <2>1, <2>2, Zenon DEF Rpc!Return
  <2>4. QED
    BY <2>3 DEF Rpc!Next
<1>6. QED
  BY <1>2, <1>3, <1>4, <1>5 DEF RInv, TypeBool

\* Abandon(D) is DropAll of the callers blocked on a dropped message.
LEMMA RefAbandon ==
  ASSUME RInv, NEW D, Abandon(D)
  PROVE  LET W == {c \in Callers : cstate[c] = "waiting" /\ <<c, ncalls[c]>> \in D}
         IN  /\ Rpc!DropAll(W)
             /\ W = {} => cstate' = cstate /\ StatusMap' = StatusMap
<1> DEFINE W == {c \in Callers : cstate[c] = "waiting" /\ <<c, ncalls[c]>> \in D}
<1>1. /\ cstate' = [c \in Callers |-> IF c \in W THEN "idle" ELSE cstate[c]]
      /\ result' = [c \in Callers |-> IF c \in W THEN Res("RecvError") ELSE result[c]]
  BY DEF Abandon
<1>2. StatusMap' = [c \in Callers |-> IF c \in W THEN "RecvError" ELSE StatusMap[c]]
  BY <1>1 DEF StatusMap, Res
<1>3. Rpc!DropAll(W)
  BY <1>1, <1>2 DEF Rpc!DropAll, Rpc!Waiting
<1>4. W = {} => cstate' = cstate /\ StatusMap' = StatusMap
  BY <1>1, <1>2 DEF RInv, TypeData, StatusMap
<1>5. QED
  BY <1>3, <1>4

\* The loop's break on the stop signal is Close.
LEMMA RefBreak ==
  ASSUME RInv, Break
  PROVE  [Rpc!Next]_rvars
<1> DEFINE W == {c \in Callers : cstate[c] = "waiting" /\ <<c, ncalls[c]>> \in ChanIds}
<1>1. /\ loop_running /\ stop_signal
      /\ ~loop_running' /\ stop_signal'
  BY Zenon DEF Break
<1>2. Rpc!DropAll(W)
  BY RefAbandon DEF Break
<1>3. Rpc!Close(W)
  BY <1>1, <1>2, Zenon DEF Rpc!Close
<1>4. W \in SUBSET Callers
  OBVIOUS
<1>5. QED
  BY <1>3, <1>4 DEF Rpc!Next

\* The runtime's shutdown is Cancel, or a stutter when no waiter's task is
\* left.
LEMMA RefShutdown ==
  ASSUME RInv, Shutdown
  PROVE  [Rpc!Next]_rvars
<1> DEFINE W == {c \in Callers : cstate[c] = "waiting" /\ <<c, ncalls[c]>> \in DOMAIN tasks}
<1>1. ~loop_running /\ (~loop_running)' /\ stop_signal' = stop_signal
  BY Zenon DEF Shutdown
<1>2. /\ Rpc!DropAll(W)
      /\ W = {} => cstate' = cstate /\ StatusMap' = StatusMap
  BY RefAbandon DEF Shutdown
<1>3. CASE W = {}
  BY <1>1, <1>2, <1>3 DEF rvars
<1>4. CASE W # {}
  <2>1. Rpc!Cancel(W)
    BY <1>1, <1>2, <1>4, Zenon DEF Rpc!Cancel
  <2>2. QED
    BY <2>1 DEF Rpc!Next
<1>5. QED
  BY <1>3, <1>4

\* A task that replies answers the caller blocked on it; every other task
\* step leaves the callers alone.
LEMMA RefTask ==
  ASSUME RInv, NEW id \in DOMAIN tasks, TaskStep(id)
  PROVE  [Rpc!Next]_rvars
<1>1. id \in Ids /\ id[1] \in Callers
  BY DEF RInv, TypeData, Ids
<1>2. CASE ReadTask(id) \/ SubmitTxsTask(id) \/ PlugEntryTask(id)
  <2> DEFINE c == id[1]
  <2>1. tasks[id].msg.kind \in RequestKinds
    BY <1>2 DEF ReadTask, SubmitTxsTask, PlugEntryTask, RequestKinds
  <2>2. cstate[c] = "waiting"
    BY <2>1 DEF RInv, WInv, TasksOwned, ReqOwner
  <2>3. /\ cstate' = [cstate EXCEPT ![c] = "idle"]
        /\ UNCHANGED <<loop_running, stop_signal>>
    BY <1>2 DEF ReadTask, SubmitTxsTask, PlugEntryTask, Reply, Requester
  <2>4. StatusMap' = [StatusMap EXCEPT ![c] = "reply"]
    <3>1. PICK v, f : result' = [result EXCEPT ![c] = [status |-> "reply", value |-> v,
                                                          fresh |-> f]]
      BY <1>2 DEF ReadTask, SubmitTxsTask, PlugEntryTask, Reply, Requester
    <3>2. \A x \in Callers : result'[x].status = IF x = c THEN "reply" ELSE result[x].status
      BY <3>1, <1>1 DEF RInv, ResultsTotal
    <3>3. QED
      BY <3>2, <1>1 DEF StatusMap
  <2>5. Rpc!Answer(c)
    BY <2>2, <2>3, <2>4, Zenon DEF Rpc!Answer
  <2>6. QED
    BY <2>5, <1>1 DEF Rpc!Next
<1>3. CASE \/ NotifyTxsTask(id) \/ ChainReorgTask(id)
           \/ NewUncleInsert(id) \/ NewUncleStore(id)
  <2>1. UNCHANGED <<cstate, result, loop_running, stop_signal>>
    BY <1>3 DEF NotifyTxsTask, ChainReorgTask, NewUncleInsert, NewUncleStore
  <2>2. QED
    BY <2>1 DEF rvars, StatusMap
<1>4. QED
  BY <1>2, <1>3 DEF TaskStep

\* The steps that touch neither the callers nor the flags are stutters.
LEMMA RefQuiet ==
  ASSUME Receive \/ Tick \/ UNCHANGED vars
  PROVE  UNCHANGED rvars
BY DEF Receive, Tick, vars, rvars, StatusMap

-----------------------------------------------------------------------------

\* Every behaviour of the tx-pool service is a behaviour of the controller
\* contract: try_send reports Closed exactly when the loop is gone, a caller
\* blocked in response.recv() is released only by the reply to its own
\* request or by RecvError, and RecvError comes only from the break on the
\* stop signal (queued requests) or from the runtime shutdown after it
\* (spawned ones).
THEOREM ControllerRefinedThm == Spec => ControllerRefined
<1>1. Init => Rpc!Init
  BY DEF Init, Rpc!Init, StatusMap, Res, NoResult
<1>2. RInv /\ [Next]_vars => [Rpc!Next]_rvars
  <2> SUFFICES ASSUME RInv, [Next]_vars PROVE [Rpc!Next]_rvars
    OBVIOUS
  <2>1. ASSUME NEW c \in Callers, NEW call \in Calls, Call(c, call)
        PROVE [Rpc!Next]_rvars
    BY <2>1, RefCall
  <2>2. CASE Stop
    <3>1. Rpc!Stop
      BY <2>2, Zenon DEF Stop, Rpc!Stop, StatusMap
    <3>2. QED
      BY <3>1 DEF Rpc!Next
  <2>3. CASE Break
    BY <2>3, RefBreak
  <2>4. CASE Shutdown
    BY <2>4, RefShutdown
  <2>5. ASSUME NEW id \in DOMAIN tasks, TaskStep(id) PROVE [Rpc!Next]_rvars
    BY <2>5, RefTask
  <2>6. CASE Receive \/ Tick \/ UNCHANGED vars
    BY <2>6, RefQuiet
  <2>7. QED
    BY <2>1, <2>2, <2>3, <2>4, <2>5, <2>6 DEF Next
<1>3. QED
  BY <1>1, <1>2, RInvAlways, PTL DEF Spec, ControllerRefined, Rpc!Spec, rvars

=============================================================================
