------------------------------ MODULE Identify ------------------------------
(***************************************************************************)
(* The identify protocol of the network crate                             *)
(* (src/network/src/protocols/identify/mod.rs): the ServiceProtocol       *)
(* handlers of IdentifyProtocol (init, connected, received, notify,       *)
(* disconnected) together with the IdentifyCallback hooks they call, run  *)
(* over a set of sessions whose transport delivers the handler calls.     *)
(*                                                                         *)
(* Data is abstracted to what the properties tell apart: an address is a  *)
(* model value that is or is not globally reachable, the embedded         *)
(* Identify payload is a record of a network name and a set of flag bits  *)
(* (the u64 bitset as the set of its one bits), and the RemoteInfo clock  *)
(* is the number of 1 s ticks since connect, saturated at the timeout.    *)
(***************************************************************************)
EXTENDS Naturals, Sequences, FiniteSets

CONSTANTS
  Sessions,      \* session ids the transport may open
  Keyed,         \* sessions whose remote_pubkey is Some (secio handshake done)
  Outbound,      \* sessions of type Outbound; the others are Inbound
  Feelers,       \* outbound sessions whose peer the registry marks as feeler
  Addrs,         \* multiaddrs a peer may send
  Reachable,     \* those that convert to a socket address with a global ip
  PublicAddrs,   \* what network_state.public_addrs returns (local listens)
  Names,         \* network names an Identify payload may carry
  LocalName,     \* the local Identify name
  FlagBits,      \* bits of the u64 flag word a peer may set
  LocalFlags,    \* the local Identify flags (Flag::FullNode)
  MaxAddrs,      \* MAX_ADDRS
  Timeout,       \* DEFAULT_TIMEOUT in CHECK_TIMEOUT_INTERVAL ticks
  Undecodable,   \* an identify payload that packed::IdentifyReader rejects
  Garbage        \* bytes that IdentifyMessage::decode rejects

ASSUME SessionsAssumption ==
  /\ Keyed \subseteq Sessions
  /\ Outbound \subseteq Sessions
  /\ Feelers \subseteq Outbound
ASSUME AddrsAssumption ==
  /\ Reachable \subseteq Addrs
  /\ PublicAddrs \subseteq Addrs
  /\ Addrs # {}
ASSUME FlagsAssumption ==
  /\ LocalName \in Names
  /\ LocalFlags \subseteq FlagBits
  /\ LocalFlags # {}
ASSUME BoundsAssumption ==
  /\ MaxAddrs \in Nat
  /\ Timeout \in Nat \ {0}

\* The follow-on protocols open_protocols may open: the feeler protocol
\* alone (TargetProtocol::Single) or every local protocol but the feeler
\* (TargetProtocol::Multi).
FeelerProto == "feeler"
FullProtos == "full"

\* The transport's view of a session: not yet connected, open, asked to
\* disconnect (by context.disconnect or ban_session) and closed.
SessionStates == {"new", "open", "closing", "closed"}

\* An Identify payload as packed::Identify carries it; client_version is
\* left out because only its presence in the registry is observed.
Payloads == [name : Names, flags : SUBSET FlagBits]

\* An IdentifyMessage that decodes; listens longer than MAX_ADDRS are sent.
Messages == [listens : UNION {[1..n -> Addrs] : n \in 0..(MaxAddrs + 1)},
             observed : Addrs,
             identify : Payloads \cup {Undecodable}]

\* RemoteInfo; listen_addrs and observed_addr are Options, kept as a flag
\* and a value, and listen_addrs never holds more than MAX_ADDRS entries.
\* elapsed stands for now - connected_at, counted in check intervals up to
\* the timeout: notify only compares it with the timeout, so the model
\* stops counting there (a data abstraction, not a cap of the code).
Infos == [hasListen : BOOLEAN,
          listen : {L \in SUBSET Addrs : Cardinality(L) <= MaxAddrs},
          hasObserved : BOOLEAN, observed : Addrs,
          elapsed : 0..Timeout]

VARIABLES
  inited,           \* init has run
  notify_registered,\* set_service_notify succeeded in init
  st,               \* transport state of each session
  secio_enabled,    \* IdentifyProtocol.secio_enabled
  remote_infos,     \* IdentifyProtocol.remote_infos : SessionId -> RemoteInfo
  banned,           \* sessions banned by ban_session (not on the same network)
  opened,           \* follow-on protocols opened on each session
  version,          \* the registry peer's identify_info is Some
  listened,         \* the registry peer's listened_addrs
  peer_store,       \* addresses add_addr put into the peer store per peer
  observed_store,   \* addresses given to network_state.add_observed_addrs
  panicked          \* an expect("RemoteInfo must exists") failed

vars == <<inited, notify_registered, st, secio_enabled, remote_infos,
          banned, opened, version, listened, peer_store, observed_store,
          panicked>>

netVars == <<banned, opened, version, listened, peer_store, observed_store>>

-----------------------------------------------------------------------------
(* Helpers                                                                 *)

\* Mutant: the reachability filter dropped.
ReachableOfAll(S) == S

\* The reachability filter of process_listens and process_observed with
\* global_ip_only = true (the builder that clears it is commented out).
ReachableOf(S) == S \cap Reachable

\* The set of the elements of a sequence.
Elems(s) == {s[i] : i \in DOMAIN s}

\* Identify::verify: None unless the payload parses, carries the local
\* name and a non-zero flag word.
Verified(p) == p # Undecodable /\ p.name = LocalName /\ p.flags # {}

\* Flags::contains(self, flags): (self & flags) == flags.
Contains(f, g) == g \subseteq f

\* Insert into and remove from the remote_infos map.
PutInfo(m, s, i) == [x \in DOMAIN m \cup {s} |-> IF x = s THEN i ELSE m[x]]

\* Mutant: the remove forgotten.
DropInfoKeep(m, s) == m

DropInfo(m, s) == [x \in DOMAIN m \ {s} |-> m[x]]

\* context.disconnect(id): a request to the transport; a session that is
\* not open is left as it is.
Disconnect(S) ==
  st' = [x \in Sessions |-> IF x \in S /\ st[x] = "open" THEN "closing"
                            ELSE st[x]]

\* The session has sent both its listen and its observed address.
Complete(s) ==
  s \in DOMAIN remote_infos
  /\ remote_infos[s].hasListen /\ remote_infos[s].hasObserved

-----------------------------------------------------------------------------
(* The callback's verdict on a received Identify payload                  *)
(* (IdentifyCallback::received_identify), as the protocols it opens and   *)
(* whether it asks for a disconnect.                                      *)

\* The outbound branch opens nothing and disconnects when the remote
\* flags do not cover the local ones.
IdentifyAccepted(s, p) ==
  Verified(p) /\ (s \in Outbound /\ s \notin Feelers => Contains(p.flags, LocalFlags))

\* Mutant: the flag test made before the feeler test.
IdentifyOpensFlagsFirst(s, p) ==
  IF ~Verified(p) \/ s \notin Outbound THEN {}
  ELSE IF Contains(p.flags, LocalFlags) THEN {FullProtos}
  ELSE IF s \in Feelers THEN {FeelerProto}
  ELSE {}

IdentifyOpens(s, p) ==
  IF ~Verified(p) \/ s \notin Outbound THEN {}
  ELSE IF s \in Feelers THEN {FeelerProto}
  ELSE IF Contains(p.flags, LocalFlags) THEN {FullProtos}
  ELSE {}

\* registry_client_version runs on the inbound branch and on the outbound
\* branch whose flags suffice; the feeler branch leaves it alone.
IdentifyRecordsVersion(s, p) ==
  Verified(p) /\ s \notin Feelers /\ (s \in Outbound => Contains(p.flags, LocalFlags))

\* Mutant: misbehave answers Continue.
MisbehaveContinues == FALSE

\* IdentifyCallback::misbehave answers every Misbehavior with Disconnect.
MisbehaveDisconnects == TRUE

\* Mutant: the None guards of process_listens / process_observed dropped.
AlwaysFresh(i) == TRUE

\* process_listens: listen_addrs is still None.
ListensFresh(i) == ~i.hasListen

\* process_observed: observed_addr is still None.
ObservedFresh(i) == ~i.hasObserved

\* Mutant: received without its secio_enabled early return.
ReceivedAlways == TRUE

\* received returns at once once secio_enabled is cleared.
ReceivedEnabled == secio_enabled

\* Mutant: disconnected removes whatever secio_enabled is.
RemovesAlways == TRUE

\* disconnected only touches remote_infos while secio_enabled holds.
RemovesOnDisconnect == secio_enabled

-----------------------------------------------------------------------------
(* Actions                                                                 *)

Init ==
  /\ inited = FALSE
  /\ notify_registered = FALSE
  /\ st = [s \in Sessions |-> "new"]
  /\ secio_enabled = TRUE
  /\ remote_infos = [s \in {} |-> CHOOSE i \in Infos : TRUE]
  /\ banned = {}
  /\ opened = [s \in Sessions |-> {}]
  /\ version = [s \in Sessions |-> FALSE]
  /\ listened = [s \in Sessions |-> {}]
  /\ peer_store = [s \in Sessions |-> {}]
  /\ observed_store = {}
  /\ panicked = FALSE

\* ServiceProtocol::init: set_service_notify may fail, which is only
\* logged; the timeout check then never runs.
ProtocolInit ==
  /\ ~inited
  /\ inited' = TRUE
  /\ notify_registered' \in BOOLEAN
  /\ UNCHANGED <<st, secio_enabled, remote_infos, netVars, panicked>>

\* ServiceProtocol::connected.  Without a remote key the session is
\* disconnected and the whole instance is disabled; otherwise a RemoteInfo
\* is inserted (whatever secio_enabled is) and our IdentifyMessage sent.
Connected(s) ==
  /\ inited /\ ~panicked
  /\ st[s] = "new"
  /\ IF s \notin Keyed
       THEN /\ st' = [st EXCEPT ![s] = "closing"]
            /\ secio_enabled' = FALSE
            /\ UNCHANGED remote_infos
       ELSE /\ st' = [st EXCEPT ![s] = "open"]
            /\ remote_infos' = PutInfo(remote_infos, s,
                  [hasListen |-> FALSE, listen |-> {},
                   hasObserved |-> FALSE, observed |-> CHOOSE a \in Addrs : TRUE,
                   elapsed |-> 0])
            /\ UNCHANGED secio_enabled
  /\ UNCHANGED <<inited, notify_registered, netVars, panicked>>

\* ServiceProtocol::disconnected: the transport closes a session, on
\* request or because the remote went away.  The RemoteInfo is removed
\* only while secio_enabled holds.
Disconnected(s) ==
  /\ ~panicked
  /\ st[s] \in {"open", "closing"}
  /\ st' = [st EXCEPT ![s] = "closed"]
  /\ IF ~RemovesOnDisconnect THEN UNCHANGED <<remote_infos, panicked>>
     ELSE IF s \in DOMAIN remote_infos
       THEN /\ remote_infos' = DropInfo(remote_infos, s)
            /\ UNCHANGED panicked
       ELSE /\ panicked' = TRUE
            /\ UNCHANGED remote_infos
  /\ UNCHANGED <<inited, notify_registered, secio_enabled, netVars>>

\* ServiceProtocol::received with bytes that do not decode: report
\* InvalidData, which the callback answers with Disconnect.
ReceivedGarbage(s) ==
  /\ ~panicked
  /\ st[s] \in {"open", "closing"}
  /\ ReceivedEnabled
  /\ IF s \in DOMAIN remote_infos
       THEN /\ Disconnect(IF MisbehaveDisconnects THEN {s} ELSE {})
            /\ UNCHANGED panicked
       ELSE /\ panicked' = TRUE
            /\ UNCHANGED st
  /\ UNCHANGED <<inited, notify_registered, secio_enabled, remote_infos, netVars>>

\* The steps of received for message m on session s.  received_identify
\* accepts the payload; process_listens returns Continue (no duplicate,
\* not too many); process_observed runs (the previous step continued)
\* and returns Continue (no duplicate); add_observed_addr feeds candidates
\* (outbound session, reachable observed address, non-empty local
\* listens).
Accepted(s, m) == IdentifyAccepted(s, m.identify)
\* Mutant: process_listens without the listens.len() > MAX_ADDRS check.
ListensOkUnbounded(s, m) ==
  Accepted(s, m) /\ ListensFresh(remote_infos[s])
ListensOk(s, m) ==
  Accepted(s, m) /\ ListensFresh(remote_infos[s]) /\ Len(m.listens) <= MaxAddrs
ListensGo(s, m) == ListensOk(s, m) \/ (Accepted(s, m) /\ ~MisbehaveDisconnects)
ObservedOk(s, m) == ListensGo(s, m) /\ ObservedFresh(remote_infos[s])
FeedsObserved(s, m) ==
  ObservedOk(s, m) /\ s \in Outbound /\ m.observed \in Reachable /\ PublicAddrs # {}

\* The reachable listen addresses process_listens keeps.
RemoteListens(m) == ReachableOf(Elems(m.listens))

\* process_listens and process_observed store into RemoteInfo i.
RecordHandshake(i, lOk, L, oOk, o) ==
  [i EXCEPT !.hasListen = @ \/ lOk,
            !.listen = IF lOk THEN L ELSE @,
            !.hasObserved = @ \/ oOk,
            !.observed = IF oOk THEN o ELSE @]

\* ServiceProtocol::received with an IdentifyMessage m.  The callback's
\* received_identify, process_listens and process_observed run in this
\* order and the first Disconnect stops the chain (the || of the code);
\* received_identify needs no RemoteInfo, the other two expect one.
Received(s, m) ==
  /\ ~panicked
  /\ st[s] \in {"open", "closing"}
  /\ ReceivedEnabled
  /\ IF Accepted(s, m) /\ s \notin DOMAIN remote_infos
       THEN /\ panicked' = TRUE
            /\ UNCHANGED <<st, remote_infos, netVars>>
       ELSE
       /\ banned' = IF Verified(m.identify) THEN banned ELSE banned \cup {s}
       /\ opened' = [opened EXCEPT ![s] = @ \cup IdentifyOpens(s, m.identify)]
       /\ version' = [version EXCEPT ![s] = @ \/ IdentifyRecordsVersion(s, m.identify)]
       /\ listened' = IF ListensOk(s, m) THEN [listened EXCEPT ![s] = RemoteListens(m)]
                      ELSE listened
       /\ peer_store' = IF ListensOk(s, m)
                          THEN [peer_store EXCEPT ![s] = @ \cup RemoteListens(m)]
                        ELSE peer_store
       /\ observed_store' = IF FeedsObserved(s, m) THEN observed_store \cup {m.observed}
                            ELSE observed_store
       /\ remote_infos' =
            IF ~ListensGo(s, m) THEN remote_infos
            ELSE [remote_infos EXCEPT ![s] =
                    RecordHandshake(@, ListensOk(s, m), RemoteListens(m),
                                    ObservedOk(s, m), m.observed)]
       /\ Disconnect(IF ObservedOk(s, m) \/ ~MisbehaveDisconnects THEN {} ELSE {s})
       /\ UNCHANGED panicked
  /\ UNCHANGED <<inited, notify_registered, secio_enabled>>

\* Time passes: now - connected_at grows by one CHECK_TIMEOUT_INTERVAL for
\* every RemoteInfo; only whether it reached the timeout is kept.
Tick ==
  /\ ~panicked
  /\ remote_infos' = [x \in DOMAIN remote_infos |->
                        [remote_infos[x] EXCEPT !.elapsed =
                           IF @ < Timeout THEN @ + 1 ELSE @]]
  /\ UNCHANGED <<inited, notify_registered, st, secio_enabled, netVars, panicked>>

\* Mutant: notify reports Timeout but never calls context.disconnect.
NotifyReportOnly ==
  /\ ~panicked
  /\ notify_registered
  /\ secio_enabled
  /\ UNCHANGED vars

\* ServiceProtocol::notify, the 1 s timeout check: every session that has
\* not sent both addresses within the timeout is reported as Timeout and
\* disconnected.
Notify ==
  /\ ~panicked
  /\ notify_registered
  /\ secio_enabled
  /\ LET Expired == {x \in DOMAIN remote_infos :
                       /\ ~remote_infos[x].hasListen \/ ~remote_infos[x].hasObserved
                       /\ remote_infos[x].elapsed >= Timeout}
     IN Disconnect(IF MisbehaveDisconnects THEN Expired ELSE {})
  /\ UNCHANGED <<inited, notify_registered, secio_enabled, remote_infos,
                 netVars, panicked>>

Next ==
  \/ ProtocolInit
  \/ Tick
  \/ Notify
  \/ \E s \in Sessions :
       \/ Connected(s)
       \/ Disconnected(s)
       \/ ReceivedGarbage(s)
       \/ \E m \in Messages : Received(s, m)

\* The transport eventually carries out a disconnect it was asked for.
CloseRequested(s) == st[s] = "closing" /\ Disconnected(s)

\* Time passes, the service calls notify every interval and carries out
\* disconnect requests; a remote peer is never obliged to send anything.
Fairness ==
  /\ WF_vars(ProtocolInit)
  /\ WF_vars(Tick)
  /\ WF_vars(Notify)
  /\ \A s \in Sessions : WF_vars(CloseRequested(s))

Spec == Init /\ [][Next]_vars

FairSpec == Spec /\ Fairness

-----------------------------------------------------------------------------
(* The handshake each session goes through, as IdentifyHandshake states it *)

\* A session the transport has not connected is idle; one whose close was
\* requested is closing; one the transport reported disconnected is over;
\* an open one has completed once its RemoteInfo holds both addresses, and
\* awaits them before.
Phase(s) ==
  IF st[s] = "new" THEN "idle"
  ELSE IF st[s] = "closing" THEN "closing"
  ELSE IF st[s] = "closed" THEN "terminated"
  ELSE IF Complete(s) THEN "complete"
  ELSE "awaiting"

\* The handshake phase of every session.
PhaseMap == [s \in Sessions |-> Phase(s)]
Handshake == INSTANCE IdentifyHandshake
               WITH phase <- PhaseMap, enabled <- secio_enabled

-----------------------------------------------------------------------------
(* Properties                                                              *)

TypeOK ==
  /\ inited \in BOOLEAN /\ notify_registered \in BOOLEAN
  /\ st \in [Sessions -> SessionStates]
  /\ secio_enabled \in BOOLEAN
  /\ DOMAIN remote_infos \subseteq Sessions
  /\ remote_infos \in [DOMAIN remote_infos -> Infos]
  /\ banned \subseteq Sessions
  /\ opened \in [Sessions -> SUBSET {FeelerProto, FullProtos}]
  /\ version \in [Sessions -> BOOLEAN]
  /\ listened \in [Sessions -> SUBSET Addrs]
  /\ peer_store \in [Sessions -> SUBSET Addrs]
  /\ observed_store \subseteq Addrs
  /\ panicked \in BOOLEAN

\* No handler ever finds the RemoteInfo it expects missing: the expect()
\* calls of received, process_listens, process_observed and disconnected
\* never panic, whatever order the transport delivers connects, messages,
\* ticks and disconnects of several sessions in.
NoPanic == ~panicked

\* While the instance is enabled, remote_infos holds exactly the sessions
\* the transport has connected and not yet reported disconnected
\* (connected inserts, disconnected removes, nothing else touches the key
\* set).
InfoTracksSession ==
  secio_enabled =>
    \A s \in Sessions : s \in DOMAIN remote_infos <=> st[s] \in {"open", "closing"}

\* Spec property 1, unconditionally: a keyed session has a RemoteInfo
\* exactly from its connect to its disconnect, so remote_infos never keeps
\* the entry of a closed session.
InfoRemovedOnDisconnect ==
  \A s \in Sessions :
    s \in DOMAIN remote_infos <=> (s \in Keyed /\ st[s] \in {"open", "closing"})

\* A session's observed address is never recorded before its listen
\* addresses: process_observed only runs after process_listens returned
\* Continue, so a message rejected for too many listens or a duplicate
\* cannot complete half of the handshake.
ListensBeforeObserved ==
  \A s \in DOMAIN remote_infos :
    remote_infos[s].hasObserved => remote_infos[s].hasListen

\* No address that is not globally reachable reaches the peer registry,
\* the peer store or the observed-address store, and RemoteInfo keeps
\* only reachable listen addresses (global_ip_only).
StoredReachable ==
  /\ \A s \in Sessions : listened[s] \cup peer_store[s] \subseteq Reachable
  /\ observed_store \subseteq Reachable
  /\ \A s \in DOMAIN remote_infos : remote_infos[s].listen \subseteq Reachable

\* Follow-on protocols open only on outbound sessions: a feeler peer gets
\* the feeler protocol and nothing else, any other peer never gets it,
\* and the full set opens only where the peer's client version has been
\* recorded (received_identify's three outbound branches).
ProtocolGating ==
  \A s \in Sessions :
    /\ opened[s] # {} => s \in Outbound
    /\ FeelerProto \in opened[s] <=> (s \in Feelers /\ opened[s] # {})
    /\ FullProtos \in opened[s] => s \notin Feelers /\ version[s]

\* A step leaves the listen and observed Options of every RemoteInfo it
\* keeps as they were once they are Some.
AddrsKept ==
  \A s \in DOMAIN remote_infos \cap DOMAIN remote_infos' :
    /\ remote_infos[s].hasListen =>
         remote_infos'[s].hasListen /\ remote_infos'[s].listen = remote_infos[s].listen
    /\ remote_infos[s].hasObserved =>
         remote_infos'[s].hasObserved /\ remote_infos'[s].observed = remote_infos[s].observed

\* Once a RemoteInfo holds listen or observed addresses they never change
\* while it exists (each Option goes from None to Some at most once; a
\* second message is a Duplicate* misbehavior, not an update).
AddrsSetOnce == [][AddrsKept]_vars

\* The handlers implement the handshake of IdentifyHandshake: a session
\* completes only from awaiting and only while the instance is enabled,
\* never falls back once complete, is closed by the protocol only while it
\* is enabled, and a keyless connect disables the instance for good.
HandshakeRefined == Handshake!Spec

\* Once the timeout check is registered, every open session either
\* completes the handshake or is closed: a peer that never sends its
\* identify message is reported Timeout by notify and disconnected.
HandshakeResolves ==
  \A s \in Sessions :
    (notify_registered /\ st[s] = "open") ~> (Complete(s) \/ st[s] = "closed")

=============================================================================
