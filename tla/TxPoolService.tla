---------------------------- MODULE TxPoolService ----------------------------
(***************************************************************************)
(* The tx-pool service (src/tx-pool/src/service.rs): callers holding a    *)
(* TxPoolController try_send typed Messages into a bounded mpsc channel   *)
(* and block on a one-slot reply channel; the service loop receives each  *)
(* message and spawns a `process` task for it on a multi-threaded         *)
(* runtime; tasks read or write the pool under its RwLock; dropping a     *)
(* controller fires the stop signal, the loop breaks, its receiver and    *)
(* the queued messages are dropped and the runtime shuts down, dropping   *)
(* the tasks that have not finished.                                      *)
(*                                                                         *)
(* A handler's section under the pool lock is one step: tokio's RwLock    *)
(* serialises writers and readers, and no handler here awaits while it    *)
(* holds it.  The pool operations the handlers call (process_txs,         *)
(* update_tx_pool_for_reorg, add_pending, add_proposed) live outside      *)
(* service.rs and are modelled from the design's description: a pool is   *)
(* a pending and a proposed set of tx ids, and the store the committed    *)
(* ones.                                                                   *)
(***************************************************************************)
EXTENDS Naturals, Sequences, FiniteSets

CONSTANTS
  Callers,       \* threads that call through a TxPoolController
  Txs,           \* transaction ids (ProposalShortId)
  Uncles,        \* uncle blocks a caller may announce
  ChannelSize,   \* DEFAULT_CHANNEL_SIZE
  MaxCalls,      \* calls each caller makes (bounds the model)
  MaxClock,      \* last value of unix_time_as_millis the model reaches
  HasAssembler   \* block_assembler_config is Some

ASSUME ConstantsAssumption ==
  /\ ChannelSize \in Nat \ {0}
  /\ MaxCalls \in Nat
  /\ MaxClock \in Nat
  /\ HasAssembler \in BOOLEAN

\* Message variants answered through a responder (Request) and the
\* fire-and-forget ones (Notify).
ReadKinds == {"GetTxPoolInfo", "BlockTemplate", "FreshProposalsFilter",
              "FetchTxRPC", "FetchTxs", "FetchTxsWithCycles", "EstimateFeeRate"}
RequestKinds == ReadKinds \cup {"SubmitTxs", "PlugEntry"}
NotifyKinds == {"NotifyTxs", "ChainReorg", "NewUncle"}

\* The arguments every variant may carry; a variant ignores the fields it
\* does not have.  txs: the transactions or short ids, target: the
\* PlugTarget, detached: the detached proposal ids of a reorg whose
\* attached blocks commit txs, uncle: the UncleBlockView.
Calls == [kind : RequestKinds \cup NotifyKinds, txs : SUBSET Txs,
          target : {"Pending", "Proposed"}, detached : SUBSET Txs,
          uncle : Uncles]

Ids == Callers \X (1..MaxCalls)

\* What a caller's last call returned: nothing yet, a reply, or one of
\* the errors of try_send (TrySendError::Full / Closed) and recv
\* (RecvError, the responder was dropped).
Errors == {"Full", "Closed", "RecvError"}
NoResult == "none"
Sent == "sent"

VARIABLES
  chan,                    \* the mpsc channel, a FIFO of messages
  loop_running,            \* the service loop has not broken out
  stop_signal,             \* the stop oneshot has been fired
  tasks,                   \* spawned `process` tasks, by message id
  cstate,                  \* each caller is "idle" or "waiting" in recv()
  ncalls,                  \* calls each caller has made
  result,                  \* what each caller's last call returned
  unapplied,               \* notifies a caller sent that no task applied yet
  pending, proposed,       \* the pool
  committed,               \* transactions in the chain store
  candidate_uncles,        \* BlockAssembler.candidate_uncles
  last_uncles_updated_at,  \* BlockAssembler.last_uncles_updated_at
  clock                    \* unix_time_as_millis()

poolVars == <<pending, proposed, committed>>
uncleVars == <<candidate_uncles, last_uncles_updated_at>>
vars == <<chan, loop_running, stop_signal, tasks, cstate, ncalls, result,
          unapplied, poolVars, uncleVars, clock>>

-----------------------------------------------------------------------------
(* Pool operations outside service.rs (from the design)                    *)

InPool == pending \cup proposed

\* process_txs: verification rejects what the pool or the store already
\* holds; the rest enters pending.
ProcessTxs(txs) ==
  /\ pending' = pending \cup (txs \ (InPool \cup committed))
  /\ UNCHANGED <<proposed, committed>>

\* add_pending / add_proposed (pool.rs, from the design) for each entry:
\* an entry already in the pool is refused, and PlugEntry logs the error
\* and goes on with the next.
PlugEntries(txs, target) ==
  LET new == txs \ InPool IN
  /\ IF target = "Pending" THEN pending' = pending \cup new /\ UNCHANGED proposed
                           ELSE proposed' = proposed \cup new /\ UNCHANGED pending
  /\ UNCHANGED committed

\* update_tx_pool_for_reorg: the attached blocks commit txs; proposals
\* whose proposing block was detached fall back from proposed to pending.
Reorg(txs, detached) ==
  /\ committed' = committed \cup txs
  /\ proposed' = proposed \ (txs \cup detached)
  /\ pending' = (pending \cup (proposed \cap detached)) \ txs

-----------------------------------------------------------------------------
(* Replies of the read handlers, computed under the read lock             *)

GetTxPoolInfoReply == [pending |-> Cardinality(pending), proposed |-> Cardinality(proposed)]
BlockTemplateReply == [proposals |-> pending, transactions |-> proposed]
FreshProposalsFilterReply(ids) == ids \ InPool
\* proposed first, flagged TRUE; then pending; at most one id is asked.
FetchTxRPCReply(ids) ==
  {<<TRUE, x>> : x \in ids \cap proposed} \cup {<<FALSE, x>> : x \in ids \cap (pending \ proposed)}
\* get_tx_from_pool_or_store: the store answers too.
FetchTxsReply(ids) == ids \cap (InPool \cup committed)
\* get_tx_with_cycles: only pool entries know their cycles.
FetchTxsWithCyclesReply(ids) == ids \cap InPool
EstimateFeeRateReply == "fee_rate"

ReadReply(m) ==
  CASE m.kind = "GetTxPoolInfo"        -> GetTxPoolInfoReply
    [] m.kind = "BlockTemplate"        -> BlockTemplateReply
    [] m.kind = "FreshProposalsFilter" -> FreshProposalsFilterReply(m.txs)
    [] m.kind = "FetchTxRPC"           -> FetchTxRPCReply(m.txs)
    [] m.kind = "FetchTxs"             -> FetchTxsReply(m.txs)
    [] m.kind = "FetchTxsWithCycles"   -> FetchTxsWithCyclesReply(m.txs)
    [] m.kind = "EstimateFeeRate"      -> EstimateFeeRateReply

-----------------------------------------------------------------------------
(* Helpers                                                                 *)

\* A caller's result that carries no reply.
Res(status) == [status |-> status, value |-> NoResult, fresh |-> TRUE]

\* The caller blocked on the responder of message id.
Requester(id) == id[1]

\* responder.send(v): the caller's recv() returns v.  fresh records
\* whether every notify the caller sent before this request had been
\* applied when the reply was computed.
Reply(id, v) ==
  LET c == Requester(id) IN
  /\ result' = [result EXCEPT ![c] = [status |-> "reply", value |-> v,
                                      fresh |-> unapplied[c] = {}]]
  /\ cstate' = [cstate EXCEPT ![c] = "idle"]

\* The task of a Notify has applied it.
Applied(id) == unapplied' = [unapplied EXCEPT ![Requester(id)] = @ \ {id}]

\* Messages with ids in D are dropped unprocessed: their responders are
\* dropped, so a caller blocked on one gets RecvError.
Abandon(D) ==
  LET W == {c \in Callers : cstate[c] = "waiting" /\ <<c, ncalls[c]>> \in D} IN
  /\ cstate' = [c \in Callers |-> IF c \in W THEN "idle" ELSE cstate[c]]
  /\ result' = [c \in Callers |-> IF c \in W THEN Res("RecvError") ELSE result[c]]
  /\ unapplied' = [c \in Callers |-> unapplied[c] \ D]

\* Ends task id.
Done(id) == tasks' = [x \in DOMAIN tasks \ {id} |-> tasks[x]]

ChanIds == {chan[i].id : i \in 1..Len(chan)}

\* Mutant: an off-by-one in the capacity test.
ChannelFullLate == Len(chan) > ChannelSize

\* try_send's capacity test.
ChannelFull == Len(chan) >= ChannelSize

-----------------------------------------------------------------------------
(* Actions                                                                 *)

Init ==
  /\ chan = <<>>
  /\ loop_running = TRUE
  /\ stop_signal = FALSE
  /\ tasks = [x \in {} |-> NoResult]
  /\ cstate = [c \in Callers |-> "idle"]
  /\ ncalls = [c \in Callers |-> 0]
  /\ result = [c \in Callers |-> Res(NoResult)]
  /\ unapplied = [c \in Callers |-> {}]
  /\ pending = {} /\ proposed = {} /\ committed = {}
  /\ candidate_uncles = {}
  /\ last_uncles_updated_at = 0
  /\ clock = 0

\* A TxPoolController method: build the message (with a bounded(1)
\* responder for a Request), try_send it, and for a Request block in
\* response.recv().  try_send fails at once on a full channel and on one
\* whose receiver is gone.
Call(c, call) ==
  /\ cstate[c] = "idle"
  /\ ncalls[c] < MaxCalls
  /\ LET id == <<c, ncalls[c] + 1>>
         m == [id |-> id, kind |-> call.kind, txs |-> call.txs,
               target |-> call.target, detached |-> call.detached,
               uncle |-> call.uncle]
     IN /\ ncalls' = [ncalls EXCEPT ![c] = @ + 1]
        /\ IF ~loop_running
             THEN /\ result' = [result EXCEPT ![c] = Res("Closed")]
                  /\ UNCHANGED <<chan, cstate, unapplied>>
           ELSE IF ChannelFull
             THEN /\ result' = [result EXCEPT ![c] = Res("Full")]
                  /\ UNCHANGED <<chan, cstate, unapplied>>
           ELSE /\ chan' = Append(chan, m)
                /\ IF call.kind \in RequestKinds
                     THEN /\ cstate' = [cstate EXCEPT ![c] = "waiting"]
                          /\ result' = [result EXCEPT ![c] = Res(NoResult)]
                          /\ UNCHANGED unapplied
                     ELSE /\ result' = [result EXCEPT ![c] = Res(Sent)]
                          /\ unapplied' = [unapplied EXCEPT ![c] = @ \cup {id}]
                          /\ UNCHANGED cstate
  /\ UNCHANGED <<loop_running, stop_signal, tasks, poolVars, uncleVars, clock>>

\* Drop of a TxPoolController (any clone): stop.try_send().
Stop ==
  /\ ~stop_signal
  /\ stop_signal' = TRUE
  /\ UNCHANGED <<chan, loop_running, tasks, cstate, ncalls, result, unapplied,
                 poolVars, uncleVars, clock>>

\* The loop's select! takes a message and spawns process(service, message).
Receive ==
  /\ loop_running
  /\ chan # <<>>
  /\ LET m == Head(chan) IN
       tasks' = [x \in DOMAIN tasks \cup {m.id} |->
                   IF x = m.id THEN [msg |-> m, pc |-> "start", t |-> 0]
                   ELSE tasks[x]]
  /\ chan' = Tail(chan)
  /\ UNCHANGED <<loop_running, stop_signal, cstate, ncalls, result, unapplied,
                 poolVars, uncleVars, clock>>

\* Mutant: the loop breaks but the receiver and its queue stay alive.
BreakKeepQueue ==
  /\ loop_running
  /\ stop_signal
  /\ loop_running' = FALSE
  /\ UNCHANGED <<chan, stop_signal, tasks, cstate, ncalls, result, unapplied,
                 poolVars, uncleVars, clock>>

\* Mutant: the loop breaks without the stop signal having been fired.
BreakUnsignalled ==
  /\ loop_running
  /\ loop_running' = FALSE
  /\ chan' = <<>>
  /\ Abandon(ChanIds)
  /\ UNCHANGED <<stop_signal, tasks, ncalls, poolVars, uncleVars, clock>>

\* The select! takes the stop signal (chosen at random when a message is
\* also ready): the loop breaks and drops the receiver with every message
\* still queued.
Break ==
  /\ loop_running
  /\ stop_signal
  /\ loop_running' = FALSE
  /\ chan' = <<>>
  /\ Abandon(ChanIds)
  /\ UNCHANGED <<stop_signal, tasks, ncalls, poolVars, uncleVars, clock>>

\* Mutant: cancelled tasks leak their responders.
ShutdownLeak ==
  /\ ~loop_running
  /\ DOMAIN tasks # {}
  /\ tasks' = [x \in {} |-> NoResult]
  /\ UNCHANGED <<chan, loop_running, stop_signal, cstate, ncalls, result,
                 unapplied, poolVars, uncleVars, clock>>

\* The server future has returned, so the runtime is dropped and the
\* spawned tasks that have not finished are cancelled.
Shutdown ==
  /\ ~loop_running
  /\ DOMAIN tasks # {}
  /\ tasks' = [x \in {} |-> NoResult]
  /\ Abandon(DOMAIN tasks)
  /\ UNCHANGED <<chan, loop_running, stop_signal, ncalls, poolVars, uncleVars, clock>>

\* The read arms of process: GetTxPoolInfo, BlockTemplate,
\* FreshProposalsFilter, FetchTxRPC, FetchTxs, FetchTxsWithCycles and
\* EstimateFeeRate take tx_pool.read(), compute the reply and send it.
ReadTask(id) ==
  /\ tasks[id].msg.kind \in ReadKinds
  /\ Reply(id, ReadReply(tasks[id].msg))
  /\ Done(id)
  /\ UNCHANGED <<chan, loop_running, stop_signal, ncalls, unapplied, poolVars,
                 uncleVars, clock>>

\* SubmitTxs: process_txs, then the result goes to the responder.
SubmitTxsTask(id) ==
  /\ tasks[id].msg.kind = "SubmitTxs"
  /\ ProcessTxs(tasks[id].msg.txs)
  /\ Reply(id, "cache_entries")
  /\ Done(id)
  /\ UNCHANGED <<chan, loop_running, stop_signal, ncalls, unapplied, uncleVars, clock>>

\* NotifyTxs: process_txs, then the optional callback; nobody waits.
NotifyTxsTask(id) ==
  /\ tasks[id].msg.kind = "NotifyTxs"
  /\ ProcessTxs(tasks[id].msg.txs)
  /\ Applied(id)
  /\ Done(id)
  /\ UNCHANGED <<chan, loop_running, stop_signal, cstate, ncalls, result,
                 uncleVars, clock>>

\* PlugEntry: under tx_pool.write(), add every entry to the target set,
\* logging the ones that fail, then reply ().
PlugEntryTask(id) ==
  /\ tasks[id].msg.kind = "PlugEntry"
  /\ PlugEntries(tasks[id].msg.txs, tasks[id].msg.target)
  /\ Reply(id, "unit")
  /\ Done(id)
  /\ UNCHANGED <<chan, loop_running, stop_signal, ncalls, unapplied, uncleVars, clock>>

\* ChainReorg: update_tx_pool_for_reorg as one write.
ChainReorgTask(id) ==
  /\ tasks[id].msg.kind = "ChainReorg"
  /\ Reorg(tasks[id].msg.txs, tasks[id].msg.detached)
  /\ Applied(id)
  /\ Done(id)
  /\ UNCHANGED <<chan, loop_running, stop_signal, cstate, ncalls, result,
                 uncleVars, clock>>

\* NewUncle, first step: without an assembler the task ends; otherwise
\* the uncle goes into candidate_uncles under its mutex and
\* unix_time_as_millis() is evaluated as the argument of the store.
NewUncleInsert(id) ==
  /\ tasks[id].msg.kind = "NewUncle"
  /\ tasks[id].pc = "start"
  /\ IF HasAssembler
       THEN /\ candidate_uncles' = candidate_uncles \cup {tasks[id].msg.uncle}
            /\ tasks' = [tasks EXCEPT ![id].pc = "store", ![id].t = clock]
            /\ UNCHANGED unapplied
       ELSE /\ Done(id)
            /\ Applied(id)
            /\ UNCHANGED candidate_uncles
  /\ UNCHANGED <<chan, loop_running, stop_signal, cstate, ncalls, result,
                 poolVars, last_uncles_updated_at, clock>>

\* NewUncle, second step: last_uncles_updated_at.store(t, SeqCst).
NewUncleStore(id) ==
  /\ tasks[id].msg.kind = "NewUncle"
  /\ tasks[id].pc = "store"
  /\ last_uncles_updated_at' = tasks[id].t
  /\ Applied(id)
  /\ Done(id)
  /\ UNCHANGED <<chan, loop_running, stop_signal, cstate, ncalls, result,
                 poolVars, candidate_uncles, clock>>

\* The wall clock advances.  Only NewUncleInsert reads it, so a tick is
\* only taken while a read value waits to be stored: a tick at any other
\* point orders the reads the same way.
Tick ==
  /\ clock < MaxClock
  /\ \E id \in DOMAIN tasks : tasks[id].pc = "store"
  /\ clock' = clock + 1
  /\ UNCHANGED <<chan, loop_running, stop_signal, tasks, cstate, ncalls, result,
                 unapplied, poolVars, uncleVars>>

TaskStep(id) ==
  \/ ReadTask(id)
  \/ SubmitTxsTask(id)
  \/ NotifyTxsTask(id)
  \/ PlugEntryTask(id)
  \/ ChainReorgTask(id)
  \/ NewUncleInsert(id)
  \/ NewUncleStore(id)

Next ==
  \/ \E c \in Callers, call \in Calls : Call(c, call)
  \/ Stop
  \/ Receive
  \/ Break
  \/ Shutdown
  \/ \E id \in DOMAIN tasks : TaskStep(id)
  \/ Tick

\* The loop and the runtime's workers keep running: a ready message is
\* received, a fired signal is taken, a spawned task is polled to its
\* end and a dropped runtime cancels its tasks.  Callers and the clock
\* owe nothing.
Fairness ==
  /\ WF_vars(Receive)
  /\ WF_vars(Break)
  /\ WF_vars(Shutdown)
  /\ \A id \in Ids : WF_vars(id \in DOMAIN tasks /\ TaskStep(id))

Spec == Init /\ [][Next]_vars

FairSpec == Spec /\ Fairness

\* What each caller's last call returned, as the controller contract sees it.
StatusMap == [c \in Callers |-> result[c].status]

Rpc == INSTANCE TxPoolRpc WITH status <- StatusMap, stopped <- stop_signal,
                               closed <- ~loop_running

-----------------------------------------------------------------------------
(* Properties                                                              *)

TypeOK ==
  /\ chan \in Seq([id : Ids, kind : RequestKinds \cup NotifyKinds, txs : SUBSET Txs,
                    target : {"Pending", "Proposed"}, detached : SUBSET Txs,
                    uncle : Uncles])
  /\ Len(chan) <= ChannelSize
  /\ loop_running \in BOOLEAN /\ stop_signal \in BOOLEAN
  /\ DOMAIN tasks \subseteq Ids
  /\ cstate \in [Callers -> {"idle", "waiting"}]
  /\ ncalls \in [Callers -> 0..MaxCalls]
  /\ unapplied \in [Callers -> SUBSET Ids]
  /\ pending \subseteq Txs /\ proposed \subseteq Txs /\ committed \subseteq Txs
  /\ candidate_uncles \subseteq Uncles
  /\ last_uncles_updated_at \in 0..MaxClock /\ clock \in 0..MaxClock

\* A caller blocked in response.recv() always has its Request alive: in
\* the channel of a running loop, or in a spawned task not yet cancelled.
\* Otherwise the recv() could never return: the stop race (a message
\* queued or spawned just as the loop breaks) must drop the responder.
WaiterHasRequest ==
  \A c \in Callers : cstate[c] = "waiting" =>
    LET id == <<c, ncalls[c]>> IN
      (loop_running /\ id \in ChanIds) \/ id \in DOMAIN tasks

\* Every caller blocked on a reply eventually returns, with the reply or
\* with RecvError, even when the service is stopped meanwhile.
CallerUnblocks ==
  \A c \in Callers : cstate[c] = "waiting" ~> cstate[c] = "idle"

\* Spec scenario S8 and property 13: a Request sees the effect of every
\* Notify its caller dispatched before it (a ChainReorg sent, then a
\* FetchTxs: the fetch observes the reorged pool).
ReadYourNotifies ==
  \A c \in Callers : result[c].status = "reply" => result[c].fresh

\* Design section 5: writers observe increasing last_uncles_updated_at;
\* a NewUncle never moves the timestamp the block assembler compares
\* against backwards.
UnclesStampMonotonic ==
  [][last_uncles_updated_at' >= last_uncles_updated_at]_vars

\* The service keeps the controller contract of TxPoolRpc: a call fails
\* with Closed exactly when the loop has broken, a blocked caller is
\* released only by the reply to its own request or by RecvError, and
\* RecvError comes only from the loop's break on the stop signal or from
\* the runtime's shutdown after it.
ControllerRefined == Rpc!Spec

=============================================================================
