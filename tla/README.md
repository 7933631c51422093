# Verification of the identify protocol and the tx-pool service

This directory holds TLA+ models of the two components in `src/`, the TLC
configurations that model-check them, and TLAPS proofs about both models.

- `src/network/src/protocols/identify/mod.rs` is the identify protocol of the
  p2p network: the per-session handshake that exchanges listen addresses,
  observed address and chain identity.
- `src/tx-pool/src/service.rs` is the tx-pool service: a controller handle,
  a bounded message channel, a service loop and one spawned task per message.

## 1. Inventory

### Identify protocol (`mod.rs`)

**Parts**
- `IdentifyProtocol`, the `ServiceProtocol` handlers:
  - `init` registers the 1 s timeout notify;
  - `connected`, `received`, `notify` and `disconnected`.
- `process_listens` and `process_observed`.
- The `RemoteInfo` registry: `remote_infos`, keyed by session id.
- `IdentifyCallback`:
  - `received_identify`, which calls `Identify::verify`, `ban_session` and `open_protocols`, and records the client version;
  - `add_remote_listen_addrs` and `add_observed_addr`;
  - `misbehave`, which answers `Disconnect` to every kind.
- `Flags::contains`.
- The wire codec, in `protocol.rs`, is not in the tree.

**State**
- `remote_infos`. Each entry holds `listen_addrs: Option`, `observed_addr: Option` and `connected_at`.
- `secio_enabled`, one flag for the whole instance.
- `global_ip_only`, hard-coded to true.
- State it writes in the network layer:
  - the peer registry: banned, protocols opened, `identify_info`, listened addrs;
  - the peer store;
  - the observed-address store.

**Interactions**
- The transport delivers handler calls for many sessions. Calls for one session are serialised by the transport; calls for different sessions interleave.
- `context.disconnect` is a request: the session stays open, and keeps receiving calls, until the transport reports `disconnected`.

**Hard behaviours**
- A keyless `connected` clears `secio_enabled` for the whole instance. After that:
  - `received` and `notify` do nothing;
  - `disconnected` no longer removes entries;
  - but `connected` still inserts them.
- The `expect("RemoteInfo must exists")` calls in `process_listens`, `process_observed`, `received` and `disconnected`.
- The `||` short-circuit order of the three steps of `received`.
- Duplicate messages.
- The timeout race.
- A failing `set_service_notify`.

### Tx-pool service (`service.rs`)

**Parts**
- The `Message` enum: `Request`, which carries a bounded(1) responder, and `Notify`.
- `TxPoolController`: twelve methods, each a `try_send` followed, for a Request, by a blocking `recv()`. Its `Drop` fires the stop signal.
- `TxPoolServiceBuilder::start`: the channel of capacity 512 and the `select!` loop that spawns `process` for every message.
- The twelve arms of `process`.
- The pool itself and its operations are outside `src/`:
  - `process_txs`, `update_tx_pool_for_reorg` and `add_pending`/`add_proposed`;
  - the block assembler and the fee estimator.

**Interactions**
- Any number of caller threads call the controller.
- The loop and the tasks run on the runtime `new_runtime` returns (`ckb_async_runtime`, not in this tree). The model lets spawned tasks run in any order and interleave at every step it separates, which is what a multi-threaded runtime allows. Spec section 5 describes a single-threaded cooperative runtime instead; findings 3 and 4 hold only for the multi-threaded one.
- Tasks synchronise on the pool's `RwLock` and the assembler's mutex.

**Hard behaviours**
- Channel full or closed.
- The stop signal racing a receive: the break drops the queue, and with it the responders.
- Runtime shutdown cancelling tasks.
- Requests and notifies of one caller run in separate tasks, in any order.
- `NewUncle`'s clock read and store are two separate steps.

## 2. Modules

| Module | Models | Notes |
|---|---|---|
| `Identify.tla` | identify protocol + callback + registry | handlers as actions over a set of sessions |
| `MC_Identify.tla` | TLC instance of `Identify` | four sessions with roles, two addresses, five payloads |
| `IdentifyProofs.tla` | TLAPS proofs about `Identify` | lemmas and seven theorems |
| `IdentifyHandshake.tla` | what the handshake promises, per session | abstract spec that `Identify` refines |
| `IdentifyHandshakeProofs.tla` | TLAPS proof of the refinement | |
| `TxPoolService.tla` | controller, loop, dispatch, pool abstraction | tasks as a map from message id to task state |
| `MC_TxPoolService.tla` | TLC instance of `TxPoolService` | two callers, two txs, two uncles |
| `TxPoolProofs.tla` | TLAPS proofs about `TxPoolService` | typing, pool and waiter invariants |
| `TxPoolRpc.tla` | what a `TxPoolController` promises its callers | abstract spec that `TxPoolService` refines |
| `TxPoolRpcProofs.tla` | TLAPS proof of that refinement, and what it carries over | |

### `Identify`

**Data abstraction**
- An address is a model value, globally reachable or not (`Reachable`).
- An Identify payload is a record of a name and a set of flag bits. The u64 word is the set of its one bits, so `Flags::contains` is `⊆`, and `verify`'s `flag == 0` test is `flags = {}`.
- An undecodable payload and undecodable bytes are the model values `Undecodable` and `Garbage`.
- The session's view from the transport, `st`, is one of `new`, `open`, `closing` (disconnect requested) and `closed`.
- The time since connect, `elapsed`, counts check intervals. The code's `now - connected_at` has no cap. `notify` only compares it with the timeout, so the model stops counting at `Timeout`: a data abstraction, not a behaviour of the code.
- `listen_addrs` never holds more than `MAX_ADDRS` addresses (part of `TypeOK`): `process_listens` refuses a longer list before it filters and stores.

**Actions** (one per handler)

| Action | Handler | What it models |
|---|---|---|
| `ProtocolInit` | `init` | `set_service_notify` may fail; it is only logged |
| `Connected` | `connected` | the keyless branch clears `secio_enabled`; otherwise `RemoteInfo::new` and the insert |
| `Disconnected` | `disconnected` | the removal only under `secio_enabled`, with a panic if the entry is missing |
| `ReceivedGarbage` | `received`, decode `None` | `InvalidData` |
| `Received` | `received` on a message | below |
| `Notify` | `notify` | the Timeout scan |
| `Tick` | the clock | |

`Received` is `received_identify`, then `process_listens`, then `process_observed`, as the `||` chain with its stop at the first `Disconnect`. It includes:
- the ban, the opened protocols and the client version (`IdentifyAccepted`, `IdentifyOpens`, `IdentifyRecordsVersion`);
- the listen filter and the stores (`ListensOk`, `RemoteListens`, `FeedsObserved`);
- the Option updates (`RecordHandshake`);
- the panic of an `expect` that finds no entry (`panicked`).

The output of `connected` (the IdentifyMessage we send) is not modelled: the peer's message is an input chosen from `Messages`.

### `TxPoolService`

**State**

| Variable | Models |
|---|---|
| `chan` | the mpsc FIFO |
| `loop_running`, `stop_signal` | the loop and the oneshot |
| `tasks` | spawned tasks |
| `cstate`, `result` | each caller: idle, or blocked in `recv()`, and what the last call returned |
| `unapplied` | notifies a caller sent that no task has applied yet, for the ordering property |
| `pending`, `proposed`, `committed` | the pool |
| `candidate_uncles`, `last_uncles_updated_at`, `clock` | the assembler and the wall clock |

**Actions**
- `Call` is every controller method: `Closed` if the loop is gone, `Full` if `Len(chan) >= ChannelSize`, else enqueue (and block for a Request).
- `Stop` is the controller's `Drop`.
- `Receive`, `Break` and `Shutdown` are the loop and the runtime. `Break` drops the queue's responders, which gives a waiter `RecvError`. `Shutdown` cancels unfinished tasks.
- One action per `process` arm. A read or write section under the pool lock is one step, since no arm awaits while holding it.
- `NewUncle` is two steps, the insert with its clock read and then the store, because that pair is not atomic. The code reads the clock at line 475, after the mutex guard of line 472 is dropped. The model reads it in the insert step. Every interleaving of the model still has a counterpart on a multi-threaded runtime, because the read and the store are separate steps in both.
- The pool operations outside `src/` are modelled from the design (`spec_modelled` in the map): `ProcessTxs`, `Reorg`, `InPool`, `PlugEntries` (what `add_pending`/`add_proposed` do to each entry), `BlockTemplateReply`. Each is one atomic step under the write lock, so the model checks nothing about the pool's own internals.

### `IdentifyHandshake` and the refinement

`IdentifyHandshake` states what the handlers promise about each session,
with messages, addresses and the clock left out. Its state is a phase per
session (`idle`, `awaiting`, `complete`, `closing`, `terminated`) and the
flag `enabled`. Its actions:
- `Connect(s)`: a keyed session starts awaiting; a keyless one is asked to close and clears `enabled` for good (`connected`).
- `Finish(s)`: an awaiting session completes, only while enabled (`received` bringing the last address).
- `Kick(S)`: the protocol asks for a non-empty set of live sessions to be closed, only while enabled (misbehaviour in `received`, the timeout in `notify`). A single session is a `Kick` too.
- `Close(s)`: the transport ends a live or closing session at any time (`disconnected`).

`Close` moves a session only to `terminated`, and only the protocol moves one
to `closing`. So every `context.disconnect` of the handlers is checked
against the `enabled` guard, for one session as for several.

`Identify` defines the mapping `Phase(s)`: `st = "new"` is idle, `closing`
is closing, `closed` is terminated, an open session with both Options set is
complete, any other open session awaiting. `enabled` is `secio_enabled`.
`Handshake == INSTANCE IdentifyHandshake WITH phase <- PhaseMap, enabled <- secio_enabled`,
and `HandshakeRefined == Handshake!Spec` is checked as a PROPERTY.

### `TxPoolRpc` and the refinement

`TxPoolRpc` states what the controller promises its callers, with the
channel, the tasks and the pool left out. Its state is each caller's
`cstate` (idle, or blocked in `response.recv()`), the `status` its last
call returned, and the flags `stopped` (a controller was dropped) and
`closed` (the loop broke). Its actions:
- `Return(c, v)`: the call returns at once with `sent`, `Full` or `Closed`, and `Closed` exactly when the service is closed (`try_send`);
- `Send(c)`: a request is queued and the caller blocks, only while the service is open;
- `Answer(c)`: a blocked caller gets its reply (`responder.send` in `process`);
- `Stop`: a controller is dropped;
- `Close(W)`: after `Stop`, the loop breaks and the callers in `W`, blocked on queued requests, get `RecvError`;
- `Cancel(W)`: after the loop broke, the runtime drops the tasks of the callers in `W`, which get `RecvError`.

`TxPoolService` maps `status` to `StatusMap == [c \in Callers |-> result[c].status]`,
`stopped` to `stop_signal` and `closed` to `~loop_running`. `ControllerRefined == Rpc!Spec`.

### Planned modules (later sittings)
- `TxPoolAtomic.tla`: an abstract tx-pool in which every call is applied atomically in dispatch order. Refinement from `TxPoolService` holds only with the stamp races removed. It will show which of spec section 5's guarantees the code keeps, per message.
- `IdentifyPair.tla`: two identify instances exchanging messages: the mutual-disconnect and ban scenario (property 11), and lost or duplicated messages.

## 3. Runs

Every passing run is paired, in `PROJECT.json`, with a mutant for each of its properties: a plausible bug in a mapped definition that TLC then finds.

| Run | cfg | Expect | Properties | Shows |
|---|---|---|---|---|
| identify_handshake | `MC_Identify.cfg` | pass | TypeOK, ListensBeforeObserved, StoredReachable, ProtocolGating, AddrsSetOnce | below |
| identify_secio | `MC_IdentifySecio.cfg` | pass | NoPanic, InfoTracksSession | below |
| identify_timeout | `MC_IdentifyLive.cfg` | pass | HandshakeResolves | below |
| identify_refinement | `MC_IdentifyRefine.cfg` | pass | HandshakeRefined | below |
| identify_info_leak | `MC_IdentifyInfoLeak.cfg` | violation | InfoRemovedOnDisconnect | finding 1 |
| identify_timeout_silenced | `MC_IdentifyTimeoutSilenced.cfg` | violation | HandshakeResolves | finding 2 |
| txpool_safety | `MC_TxPoolService.cfg` | pass | TypeOK, WaiterHasRequest | below |
| txpool_controller | `MC_TxPoolRpc.cfg` | pass | ControllerRefined | below |
| txpool_unblock | `MC_TxPoolLive.cfg` | pass | CallerUnblocks | below |
| txpool_reorg_order | `MC_TxPoolReorgOrder.cfg` | violation | ReadYourNotifies | finding 3 |
| txpool_uncle_stamp | `MC_TxPoolUncleStamp.cfg` | violation | UnclesStampMonotonic | finding 4 |

### What the passing runs show

**identify_handshake.** Three keyed sessions: an outbound feeler, an outbound full peer and an inbound peer. The properties hold under every interleaving of their messages:
- `TypeOK`, which includes that no RemoteInfo holds more than `MAX_ADDRS` listen addresses. The mutant that drops the `listens.len() > MAX_ADDRS` test of `process_listens` breaks it.
- `ListensBeforeObserved`: the `||` chain never stores an observed address after a rejected listen list.
- `StoredReachable`: no unreachable address is stored.
- `ProtocolGating`: the feeler test precedes the flags test.
- `AddrsSetOnce`: a duplicate message never overwrites an address.

**identify_secio.** A keyless session among keyed ones. No `expect` panics, and `remote_infos` tracks the live sessions while the instance is enabled.

**identify_timeout.** With the notify registered, every open session resolves, under weak fairness of `Tick`, `Notify` and the transport's execution of requested disconnects.

**identify_refinement.** The secio instance (two keyed sessions and a keyless one). Every behaviour maps to a behaviour of `IdentifyHandshake`. No session completes after `secio_enabled` is cleared. The protocol asks for no close after that, of one session or of several. Only the transport ends a session, and no terminated session comes back. The mutant that drops `received`'s early return on `!secio_enabled` breaks it: a session then completes while the instance is disabled.

**txpool_safety.** Two callers and all twelve message kinds, with stop at any point:
- the channel never exceeds its capacity;
- a waiting caller's request is always still queued or running.

**txpool_controller.** The same instance. Every behaviour maps to a behaviour of `TxPoolRpc`. The contract's `Close` needs `stopped`: the mutant whose loop breaks without the stop signal (`BreakUnsignalled`) breaks the refinement, since a caller then gets `RecvError` from a service nobody stopped.

**txpool_unblock.** Every blocked caller returns, under weak fairness of `Receive`, `Break`, `Shutdown` and each task.

### Bounds

**Identify.**
- `MaxAddrs = 1`, so a two-address listen list is "too many".
- `Timeout = 1` tick. Only whether the timeout has been reached matters to `notify`.
- Three addresses, two reachable and one not. With two reachable ones, a list over `MAX_ADDRS` would still store too many after the filter, so the length check matters.
- Five payloads: valid, extra flag bit, flagless, foreign name, undecodable.
- These cover every branch of `received_identify`, `process_listens` and `process_observed`.
- The handshake and secio runs each use three of the four roles. All four together stay within the limit but triple the run time without adding a branch.

**Tx-pool.**
- `ChannelSize = 1`, so Full is reached with one queued message.
- `MaxCalls = 2` per caller, so a caller can send a notify and then a request.
- `MaxClock = 1`, the one tick needed to order two clock reads.

### Fairness and why the code justifies it
- The transport calls `notify` every interval once it is registered, and carries out a requested disconnect.
- Time passes.
- The tokio runtime polls every ready task.
- The `select!` eventually takes a ready branch.
- Callers and remote peers owe nothing: no fairness is assumed on `Call`, `Received` or `Connected`.

## 4. Findings

1. **`mod.rs:267`.** After a keyless connect, `connected` still inserts RemoteInfo but `disconnected` never removes it. Entries of closed sessions leak, against spec 4.C and property 1.
2. **`mod.rs:321`.** `notify` returns early once `secio_enabled` is false. One keyless peer therefore disables the timeout for every session, against property 8 and S6.
3. **`service.rs:309`.** The mpsc channel keeps each caller's arrival order, but the loop spawns every message as its own task. A caller's FetchTxs can then be answered before the ChainReorg the same caller sent first, against scenario S8 and property 13. The finding rests on the per-message spawn, and on the spawned tasks really running in any order, as on a multi-threaded runtime.
4. **`service.rs:473-475`.** `last_uncles_updated_at.store(unix_time_as_millis())` reads the clock and stores it in two steps. Two NewUncle tasks can store a smaller stamp last, against spec section 5's "strictly increasing". There is no await between the read and the store. So this holds only if `new_runtime` runs tasks on several worker threads, and that code is not in this tree. Spec section 5 says the runtime is single-threaded and cooperative; on such a runtime the two steps cannot interleave.

## 5. Proofs (checked by `tlapm`)

### `IdentifyProofs.tla`

The assumptions are `SessionsAssumption`, `AddrsAssumption` (in particular `Addrs # {}`), `FlagsAssumption` and `BoundsAssumption`. Nothing else is assumed about the constants.

**`TypeCorrect`: `Spec => []TypeOK`.**
- The induction step is `LEMMA TypeStep`, with one step per action.
- It rests on typing lemmas for the registry updates: `PutInfoType`, `DropInfoType`, `RecordHandshakeType`, `ElapsedType`, `DisconnectType` and `NewInfoType`.
- `ListensBound` gives the `MAX_ADDRS` bound. A sequence has no more distinct elements than its length (`FS_Surjection` of `FiniteSetTheorems`), and the reachability filter only removes some.

**`InfoTracksSessionInv`: `Spec => [](InfoTracksSession /\ NoPanic)`, and `NoPanicInv` from it.**
- Neither conjunct is inductive alone. The inductive invariant is `IInv == TypeOK /\ InfoTracksSession /\ NoPanic`.
- The invariant rules out every panic: each `expect` runs only while `secio_enabled` holds on a session that is open or closing, which puts it in `remote_infos`.
- Conversely, `NoPanic` and the type invariant give the step for the key set.
- The proof turns the invariant into set equality with the live sessions (`TracksAsSet`). It uses the fact that `Disconnect` never changes that set (`DisconnectLive`).

**`ListensBeforeObservedInv`: `Spec => []ListensBeforeObserved`.**
- The inductive invariant is `TypeOK /\ ListensBeforeObserved`.
- The key fact is that `ObservedOk ⇒ ListensOk` when `misbehave` disconnects (`RecordKeepsOrder`).

**`StoredReachableInv` and `ProtocolGatingInv`.** Each is inductive together with `TypeOK`. They rest on `RemoteListensReachable` (what `received` keeps passed the `global_ip_only` filter) and `OpensGated` (what `received_identify` opens agrees with the version it records).

**`AddrsSetOnceThm`: `Spec => AddrsSetOnce`.** This is an action property, proved from an invariant. A RemoteInfo exists only for a session that is no longer `new` (`InfoStarted`). Without it, `connected` could replace a RemoteInfo that holds addresses. With it and `TypeOK`, every step satisfies `AddrsKept` (`AddrsKeptStep`): `process_listens` and `process_observed` store only into a `None`, and the other handlers insert a fresh session, remove one, or touch only `elapsed`.

### `IdentifyHandshakeProofs.tla`

**`HandshakeRefinedThm`: `Spec => HandshakeRefined`.**
- `Init` maps to `Handshake!Init`: every session is new, hence idle.
- Under `TypeOK`, every `Next` step maps to a `Handshake!Next` step or a stutter of `<<PhaseMap, secio_enabled>>`. There is one lemma per action (`RefConnected`, `RefDisconnected`, `RefGarbage`, `RefReceived`, `RefNotify`, `RefQuiet`).
- `Disconnect` of a set moves its open sessions to closing. That is `Kick` of that set, or a stutter when none is open (`DisconnectPhases`, `KickOrStutter`). It is a `Kick` even for one session, so the enabled guard is proved for every protocol disconnect.
- `disconnected` is a `Close` of an open or a closing session (`CloseOne`).
- A step that leaves a session's phase as it was stutters (`PhaseStays`), and only the updated sessions change phase (`PhaseUpdate`, `PhaseFrame`).
- The temporal step combines these with `TypeCorrect`.

### `TxPoolProofs.tla`

The assumption is `ConstantsAssumption` of `TxPoolService`.

**`TypeCorrect`: `Spec => []TypeOK`.** `TypeOK` is split into the Boolean flags (`TypeBool`) and the data (`TypeData`), because the SMT backend cannot take both in one goal. `TaskTypes` types the tasks; `TypeStep` has one step per action.

**`WaiterHasRequestInv`: `Spec => []WaiterHasRequest`.** It is not inductive alone: a call could otherwise reuse an id that is still queued, or a task could answer another caller's request. The inductive invariant `WInv` adds:
- a stopped loop has an empty channel (`StoppedEmpty`);
- every queued or running id is at most its caller's call count (`ChanBehind`, `TasksBehind`), so a new call's id is fresh;
- ids are unique in the channel and never both queued and running (`ChanUnique`, `ChanTasksDisjoint`);
- a queued or running message is a Request exactly when its caller is waiting on that very call (`ChanOwned`, `TasksOwned`).

There is one lemma per kind of step: `WCall`, `WReceive`, `WBreak`, `WShutdown`, `WDone` and `WFrame`.

### `TxPoolRpcProofs.tla`

**`ControllerRefinedThm`: `Spec => ControllerRefined`.**
- It rests on `RInv`: the typing of `TxPoolProofs`, `WInv`, and `ResultsTotal` (every caller has a result).
- `WInv`'s `TasksOwned` is what makes a reply an `Answer`: the task of a Request belongs to a caller blocked on it, so no reply reaches an idle caller.
- There is one lemma per kind of step: `RefCall` (each branch of `try_send`), `RefBreak`, `RefShutdown`, `RefTask` and `RefQuiet`. `RefAbandon` shows that `Abandon` is `DropAll` of the callers blocked on a dropped message.
- `closed <- ~loop_running` gives only `(~loop_running)' = ~loop_running` on a stutter, not `loop_running' = loop_running`. The frame steps are stated that way.

### Only model-checked
- The liveness properties (`HandshakeResolves`, `CallerUnblocks`). TLAPS does not handle fairness or ENABLED here.
- The properties the violation runs refute.

## 6. Not modelled

- The wire codec (`protocol.rs` is not in the tree). Encoding is pure formatting; the round-trip law is out of scope.
- `Identify::encode` and `identify()`.
- The scoring and sorting of local listen addresses.
- The port substitution in observed-candidate synthesis: only whether candidates are fed is kept.
- The IdentifyMessage we send in `connected`.
- The ban duration and reason string.
- The internals of the pool, the block assembler's template construction and the fee estimator, beyond the set abstraction above.
