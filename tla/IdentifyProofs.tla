---------------------------- MODULE IdentifyProofs ----------------------------
(***************************************************************************)
(* Proofs about the identify protocol model, for every value of its       *)
(* constants that satisfies the assumptions of module Identify.           *)
(***************************************************************************)
EXTENDS Identify, FiniteSetTheorems, TLAPS

USE SessionsAssumption, AddrsAssumption, FlagsAssumption, BoundsAssumption

-----------------------------------------------------------------------------
(* Typing                                                                  *)

\* What a received message carries has the types the handlers expect.
LEMMA MessageFields ==
  ASSUME NEW m \in Messages
  PROVE  /\ Elems(m.listens) \subseteq Addrs
         /\ m.observed \in Addrs
         /\ Len(m.listens) \in Nat
<1>1. PICK n \in 0..(MaxAddrs + 1) : m.listens \in [1..n -> Addrs]
  BY DEF Messages
<1>2. m.listens \in Seq(Addrs)
  BY <1>1
<1>3. QED
  BY <1>1, <1>2 DEF Messages, Elems

\* The protocols the callback opens are the two follow-on targets.
LEMMA OpensType ==
  ASSUME NEW s, NEW p
  PROVE  IdentifyOpens(s, p) \subseteq {FeelerProto, FullProtos}
BY DEF IdentifyOpens

\* Disconnect keeps st a map from sessions to session states.
LEMMA DisconnectType ==
  ASSUME st \in [Sessions -> SessionStates], NEW S, Disconnect(S)
  PROVE  st' \in [Sessions -> SessionStates]
BY DEF Disconnect, SessionStates

\* The RemoteInfo connected inserts.
LEMMA NewInfoType ==
  [hasListen |-> FALSE, listen |-> {},
   hasObserved |-> FALSE, observed |-> CHOOSE a \in Addrs : TRUE,
   elapsed |-> 0] \in Infos
<1>1. (CHOOSE a \in Addrs : TRUE) \in Addrs
  OBVIOUS
<1>2. 0 \in 0..Timeout
  OBVIOUS
<1>3. Cardinality({}) <= MaxAddrs
  BY FS_EmptySet
<1>4. QED
  BY <1>1, <1>2, <1>3 DEF Infos

\* Inserting a RemoteInfo keeps remote_infos a map from sessions to infos.
LEMMA PutInfoType ==
  ASSUME NEW m, DOMAIN m \subseteq Sessions, m \in [DOMAIN m -> Infos],
         NEW s \in Sessions, NEW i \in Infos
  PROVE  /\ DOMAIN PutInfo(m, s, i) \subseteq Sessions
         /\ PutInfo(m, s, i) \in [DOMAIN PutInfo(m, s, i) -> Infos]
BY DEF PutInfo

\* Removing one does too.
LEMMA DropInfoType ==
  ASSUME NEW m, DOMAIN m \subseteq Sessions, m \in [DOMAIN m -> Infos], NEW s
  PROVE  /\ DOMAIN DropInfo(m, s) \subseteq Sessions
         /\ DropInfo(m, s) \in [DOMAIN DropInfo(m, s) -> Infos]
BY DEF DropInfo

\* A listen list that passes the MAX_ADDRS check leaves at most MAX_ADDRS
\* reachable addresses: a sequence has no more distinct elements than its
\* length, and the filter only removes some.
LEMMA ListensBound ==
  ASSUME NEW m \in Messages, Len(m.listens) <= MaxAddrs
  PROVE  Cardinality(RemoteListens(m)) <= MaxAddrs
<1>1. PICK n \in 0..(MaxAddrs + 1) : m.listens \in [1..n -> Addrs]
  BY DEF Messages
<1>2. Len(m.listens) = n
  BY <1>1
<1>3. m.listens \in Surjection(1..n, Elems(m.listens))
  BY <1>1 DEF Surjection, Elems
<1>4. IsFiniteSet(1..n) /\ Cardinality(1..n) = n
  BY FS_Interval
<1>5. IsFiniteSet(Elems(m.listens)) /\ Cardinality(Elems(m.listens)) <= n
  BY <1>3, <1>4, FS_Surjection
<1>6. RemoteListens(m) \subseteq Elems(m.listens)
  BY DEF RemoteListens, ReachableOf
<1>7. /\ IsFiniteSet(RemoteListens(m))
      /\ Cardinality(RemoteListens(m)) <= Cardinality(Elems(m.listens))
  BY <1>5, <1>6, FS_Subset
<1>8. Cardinality(Elems(m.listens)) \in Nat /\ Cardinality(RemoteListens(m)) \in Nat
  BY <1>5, <1>7, FS_CardinalityType
<1>9. QED
  BY <1>1, <1>2, <1>5, <1>7, <1>8

\* Storing addresses of the right types into a RemoteInfo keeps it one.
LEMMA RecordHandshakeType ==
  ASSUME NEW i \in Infos, NEW lOk \in BOOLEAN, NEW L \in SUBSET Addrs,
         lOk => Cardinality(L) <= MaxAddrs,
         NEW oOk \in BOOLEAN, NEW o \in Addrs
  PROVE  RecordHandshake(i, lOk, L, oOk, o) \in Infos
BY DEF RecordHandshake, Infos

\* Advancing the clock of a RemoteInfo keeps it one.
LEMMA ElapsedType ==
  ASSUME NEW i \in Infos, NEW e \in 0..Timeout
  PROVE  [i EXCEPT !.elapsed = e] \in Infos
BY DEF Infos

\* Every step of the callbacks and of the transport keeps TypeOK.
LEMMA TypeStep == TypeOK /\ [Next]_vars => TypeOK'
<1> SUFFICES ASSUME TypeOK, [Next]_vars PROVE TypeOK'
  OBVIOUS
<1>1. CASE ProtocolInit
  BY <1>1 DEF ProtocolInit, TypeOK, netVars
<1>2. CASE Tick
  <2>1. ASSUME NEW x \in DOMAIN remote_infos
        PROVE  [remote_infos[x] EXCEPT !.elapsed =
                  IF @ < Timeout THEN @ + 1 ELSE @] \in Infos
    <3>1. remote_infos[x] \in Infos
      BY DEF TypeOK
    <3>2. (IF remote_infos[x].elapsed < Timeout THEN remote_infos[x].elapsed + 1
           ELSE remote_infos[x].elapsed) \in 0..Timeout
      BY <3>1 DEF Infos
    <3>3. QED
      BY <3>1, <3>2, ElapsedType
  <2>2. remote_infos' \in [DOMAIN remote_infos' -> Infos]
    BY <1>2, <2>1 DEF Tick
  <2>3. QED
    BY <1>2, <2>2 DEF Tick, TypeOK, netVars
<1>3. CASE Notify
  BY <1>3, DisconnectType DEF Notify, TypeOK, netVars
<1>4. ASSUME NEW s \in Sessions, Connected(s) PROVE TypeOK'
  <2>1. CASE s \notin Keyed
    BY <1>4, <2>1 DEF Connected, TypeOK, SessionStates, netVars
  <2>2. CASE s \in Keyed
    <3> DEFINE new == [hasListen |-> FALSE, listen |-> {},
                       hasObserved |-> FALSE, observed |-> CHOOSE a \in Addrs : TRUE,
                       elapsed |-> 0]
    <3>0. remote_infos' = PutInfo(remote_infos, s, new)
      BY <1>4, <2>2 DEF Connected
    <3>1. /\ DOMAIN remote_infos' \subseteq Sessions
          /\ remote_infos' \in [DOMAIN remote_infos' -> Infos]
      BY <3>0, NewInfoType, PutInfoType DEF TypeOK
    <3>2. QED
      BY <1>4, <2>2, <3>1 DEF Connected, TypeOK, SessionStates, netVars
  <2>3. QED
    BY <2>1, <2>2
<1>5. ASSUME NEW s \in Sessions, Disconnected(s) PROVE TypeOK'
  <2>1. /\ DOMAIN remote_infos' \subseteq Sessions
        /\ remote_infos' \in [DOMAIN remote_infos' -> Infos]
    BY <1>5, DropInfoType DEF Disconnected, TypeOK, RemovesOnDisconnect
  <2>2. QED
    BY <1>5, <2>1 DEF Disconnected, TypeOK, SessionStates, netVars
<1>6. ASSUME NEW s \in Sessions, ReceivedGarbage(s) PROVE TypeOK'
  BY <1>6, DisconnectType DEF ReceivedGarbage, TypeOK, netVars
<1>7. ASSUME NEW s \in Sessions, NEW m \in Messages, Received(s, m)
      PROVE TypeOK'
  <2>1. /\ RemoteListens(m) \subseteq Addrs
        /\ m.observed \in Addrs
    BY MessageFields DEF RemoteListens, ReachableOf
  <2>2. CASE Accepted(s, m) /\ s \notin DOMAIN remote_infos
    BY <1>7, <2>2 DEF Received, TypeOK, netVars
  <2>3. CASE ~(Accepted(s, m) /\ s \notin DOMAIN remote_infos)
    <3> DEFINE lOk == ListensOk(s, m)
               oOk == ObservedOk(s, m)
    <3>1. remote_infos' = IF ~ListensGo(s, m) THEN remote_infos
                          ELSE [remote_infos EXCEPT ![s] =
                                  RecordHandshake(@, lOk, RemoteListens(m), oOk, m.observed)]
      BY <1>7, <2>3 DEF Received
    <3>2. /\ DOMAIN remote_infos' \subseteq Sessions
          /\ remote_infos' \in [DOMAIN remote_infos' -> Infos]
      <4>1. CASE ListensGo(s, m)
        <5>1. s \in DOMAIN remote_infos
          BY <2>3, <4>1 DEF ListensGo, ListensOk, MisbehaveDisconnects
        <5>2. lOk \in BOOLEAN /\ oOk \in BOOLEAN
          BY DEF ListensOk, ObservedOk, ListensGo
        <5>3. lOk => Cardinality(RemoteListens(m)) <= MaxAddrs
          BY ListensBound DEF ListensOk
        <5>4. RecordHandshake(remote_infos[s], lOk, RemoteListens(m), oOk, m.observed) \in Infos
          BY <2>1, <5>1, <5>2, <5>3, RecordHandshakeType DEF TypeOK
        <5>5. remote_infos' = [remote_infos EXCEPT ![s] =
                RecordHandshake(remote_infos[s], lOk, RemoteListens(m), oOk, m.observed)]
          BY <3>1, <4>1
        <5>6. QED
          BY <5>1, <5>4, <5>5 DEF TypeOK
      <4>2. CASE ~ListensGo(s, m)
        BY <3>1, <4>2 DEF TypeOK
      <4>3. QED
        BY <4>1, <4>2
    <3>5. st' \in [Sessions -> SessionStates]
      BY <1>7, <2>3, DisconnectType DEF Received, TypeOK
    <3>6. opened' \in [Sessions -> SUBSET {FeelerProto, FullProtos}]
      BY <1>7, <2>3, OpensType DEF Received, TypeOK
    <3>7. /\ listened' \in [Sessions -> SUBSET Addrs]
          /\ peer_store' \in [Sessions -> SUBSET Addrs]
          /\ observed_store' \subseteq Addrs
      BY <1>7, <2>1, <2>3 DEF Received, TypeOK
    <3>8. QED
      BY <1>7, <2>3, <3>2, <3>5, <3>6, <3>7 DEF Received, TypeOK
  <2>4. QED
    BY <2>2, <2>3
<1>8. CASE UNCHANGED vars
  BY <1>8 DEF vars, TypeOK
<1>9. QED
  BY <1>1, <1>2, <1>3, <1>4, <1>5, <1>6, <1>7, <1>8 DEF Next

\* The state of the identify protocol always has the types of its fields
\* in the code: RemoteInfo maps of live sessions, flags, address sets.
THEOREM TypeCorrect == Spec => []TypeOK
<1>1. Init => TypeOK
  BY DEF Init, TypeOK, SessionStates
<1>2. QED
  BY <1>1, TypeStep, PTL DEF Spec

-----------------------------------------------------------------------------
(* No expect() panics                                                      *)

\* The inductive strengthening: while secio_enabled holds, the key set of
\* remote_infos is the set of live sessions, so every expect() of
\* received, notify and disconnected finds its RemoteInfo; once a keyless
\* connect clears secio_enabled every callback that could panic is off.
IInv == TypeOK /\ InfoTracksSession /\ NoPanic

Live(S) == {x \in Sessions : S[x] \in {"open", "closing"}}

\* InfoTracksSession says the key set is the set of live sessions.
LEMMA TracksAsSet ==
  ASSUME TypeOK
  PROVE  InfoTracksSession <=> (secio_enabled => DOMAIN remote_infos = Live(st))
BY DEF InfoTracksSession, Live, TypeOK

\* Disconnect only moves open sessions to closing: the live set stays.
LEMMA DisconnectLive ==
  ASSUME st \in [Sessions -> SessionStates], NEW S, Disconnect(S)
  PROVE  Live(st') = Live(st)
BY DEF Disconnect, Live

\* The callbacks never panic and, while the instance is enabled,
\* remote_infos tracks exactly the connected sessions.
THEOREM InfoTracksSessionInv == Spec => [](InfoTracksSession /\ NoPanic)
<1>1. Init => IInv
  BY DEF Init, IInv, TypeOK, SessionStates, InfoTracksSession, NoPanic
<1>2. IInv /\ [Next]_vars => IInv'
  <2> SUFFICES ASSUME IInv, [Next]_vars PROVE IInv'
    OBVIOUS
  <2>0. TypeOK /\ TypeOK'
    BY TypeStep DEF IInv
  <2>a. secio_enabled => DOMAIN remote_infos = Live(st)
    BY TracksAsSet DEF IInv
  <2>b. ~panicked
    BY DEF IInv, NoPanic
  <2> SUFFICES /\ secio_enabled' => DOMAIN remote_infos' = Live(st')
               /\ ~panicked'
    <3>1. (secio_enabled' => DOMAIN remote_infos' = Live(st')) => InfoTracksSession'
      BY <2>0 DEF InfoTracksSession, Live, TypeOK
    <3>2. QED
      BY <2>0, <3>1, Zenon DEF IInv, NoPanic
  <2>1. CASE ProtocolInit
    BY <2>1, <2>a, <2>b DEF ProtocolInit
  <2>2. CASE Tick
    BY <2>2, <2>a, <2>b DEF Tick
  <2>3. CASE Notify
    BY <2>0, <2>3, <2>a, <2>b, DisconnectLive DEF Notify, TypeOK
  <2>4. ASSUME NEW s \in Sessions, Connected(s)
        PROVE  /\ secio_enabled' => DOMAIN remote_infos' = Live(st')
               /\ ~panicked'
    <3>1. CASE s \notin Keyed
      BY <2>4, <3>1 DEF Connected
    <3>2. CASE s \in Keyed
      BY <2>0, <2>4, <3>2, <2>a, <2>b DEF Connected, PutInfo, Live, TypeOK
    <3>3. QED
      BY <3>1, <3>2
  <2>5. ASSUME NEW s \in Sessions, Disconnected(s)
        PROVE  /\ secio_enabled' => DOMAIN remote_infos' = Live(st')
               /\ ~panicked'
    <3>1. CASE ~secio_enabled
      BY <2>5, <3>1, <2>b DEF Disconnected, RemovesOnDisconnect
    <3>2. CASE secio_enabled
      <4>1. s \in DOMAIN remote_infos
        BY <2>5, <2>a, <3>2 DEF Disconnected, Live
      <4>2. remote_infos' = DropInfo(remote_infos, s) /\ ~panicked'
        BY <2>5, <2>b, <3>2, <4>1 DEF Disconnected, RemovesOnDisconnect
      <4>3. QED
        BY <2>0, <2>5, <2>a, <3>2, <4>2 DEF Disconnected, DropInfo, Live, TypeOK,
           SessionStates
    <3>3. QED
      BY <3>1, <3>2
  <2>6. ASSUME NEW s \in Sessions, ReceivedGarbage(s)
        PROVE  /\ secio_enabled' => DOMAIN remote_infos' = Live(st')
               /\ ~panicked'
    <3>1. s \in DOMAIN remote_infos
      BY <2>6, <2>a DEF ReceivedGarbage, ReceivedEnabled, Live
    <3>2. QED
      BY <2>0, <2>6, <2>a, <2>b, <3>1, DisconnectLive DEF ReceivedGarbage, TypeOK
  <2>7. ASSUME NEW s \in Sessions, NEW m \in Messages, Received(s, m)
        PROVE  /\ secio_enabled' => DOMAIN remote_infos' = Live(st')
               /\ ~panicked'
    <3>1. s \in DOMAIN remote_infos
      BY <2>7, <2>a DEF Received, ReceivedEnabled, Live
    <3>2. Disconnect(IF ObservedOk(s, m) \/ ~MisbehaveDisconnects THEN {} ELSE {s})
          /\ ~panicked'
      BY <2>7, <2>b, <3>1 DEF Received
    <3>3. DOMAIN remote_infos' = DOMAIN remote_infos
      BY <2>7, <3>1 DEF Received
    <3>4. QED
      BY <2>0, <2>7, <2>a, <3>2, <3>3, DisconnectLive DEF Received, TypeOK
  <2>8. CASE UNCHANGED vars
    BY <2>8, <2>a, <2>b DEF vars, Live
  <2>9. QED
    BY <2>1, <2>2, <2>3, <2>4, <2>5, <2>6, <2>7, <2>8 DEF Next
<1>3. IInv => InfoTracksSession /\ NoPanic
  BY DEF IInv
<1>4. QED
  BY <1>1, <1>2, <1>3, PTL DEF Spec

-----------------------------------------------------------------------------
(* Handshake order                                                         *)

\* A RemoteInfo update of received records the observed address only when
\* it records (or already had) the listen addresses: process_observed runs
\* only after process_listens continued.
LEMMA RecordKeepsOrder ==
  ASSUME NEW i \in Infos, i.hasObserved => i.hasListen,
         NEW lOk \in BOOLEAN, NEW L, NEW oOk \in BOOLEAN, NEW o,
         oOk => lOk
  PROVE  LET j == RecordHandshake(i, lOk, L, oOk, o)
         IN  j.hasObserved => j.hasListen
BY DEF RecordHandshake, Infos

\* process_listens, then process_observed: no session ever has its observed
\* address recorded without its listen addresses.
THEOREM ListensBeforeObservedInv == Spec => []ListensBeforeObserved
<1> DEFINE Inv == TypeOK /\ ListensBeforeObserved
<1>1. Init => Inv
  BY DEF Init, TypeOK, SessionStates, ListensBeforeObserved
<1>2. Inv /\ [Next]_vars => Inv'
  <2> SUFFICES ASSUME Inv, [Next]_vars PROVE Inv'
    OBVIOUS
  <2>0. TypeOK'
    BY TypeStep
  <2> SUFFICES ListensBeforeObserved'
    BY <2>0
  <2>1. CASE ProtocolInit \/ Notify
    BY <2>1 DEF ProtocolInit, Notify, ListensBeforeObserved
  <2>2. CASE Tick
    BY <2>2 DEF Tick, ListensBeforeObserved, TypeOK, Infos
  <2>3. ASSUME NEW s \in Sessions, Connected(s) PROVE ListensBeforeObserved'
    BY <2>3 DEF Connected, PutInfo, ListensBeforeObserved
  <2>4. ASSUME NEW s \in Sessions, Disconnected(s) PROVE ListensBeforeObserved'
    BY <2>4 DEF Disconnected, DropInfo, ListensBeforeObserved
  <2>5. ASSUME NEW s \in Sessions, ReceivedGarbage(s) PROVE ListensBeforeObserved'
    BY <2>5 DEF ReceivedGarbage, ListensBeforeObserved
  <2>6. ASSUME NEW s \in Sessions, NEW m \in Messages, Received(s, m)
        PROVE ListensBeforeObserved'
    <3>1. CASE ~ListensGo(s, m) \/ (Accepted(s, m) /\ s \notin DOMAIN remote_infos)
      BY <2>6, <3>1 DEF Received, ListensBeforeObserved
    <3>2. CASE ListensGo(s, m) /\ ~(Accepted(s, m) /\ s \notin DOMAIN remote_infos)
      <4>1. s \in DOMAIN remote_infos
        BY <3>2 DEF ListensGo, ListensOk, MisbehaveDisconnects
      <4> DEFINE j == RecordHandshake(remote_infos[s], ListensOk(s, m), RemoteListens(m),
                                      ObservedOk(s, m), m.observed)
      <4>2. remote_infos' = [remote_infos EXCEPT ![s] = j]
        BY <2>6, <3>2 DEF Received
      <4>3. j.hasObserved => j.hasListen
        <5>1. ObservedOk(s, m) => ListensOk(s, m)
          BY DEF ObservedOk, ListensGo, MisbehaveDisconnects
        <5>2. ListensOk(s, m) \in BOOLEAN /\ ObservedOk(s, m) \in BOOLEAN
          BY DEF ListensOk, ObservedOk, ListensGo
        <5>3. remote_infos[s] \in Infos
               /\ (remote_infos[s].hasObserved => remote_infos[s].hasListen)
          BY <4>1 DEF TypeOK, ListensBeforeObserved
        <5>4. QED
          BY <5>1, <5>2, <5>3, RecordKeepsOrder
      <4>4. QED
        BY <4>1, <4>2, <4>3 DEF ListensBeforeObserved
    <3>3. QED
      BY <3>1, <3>2
  <2>7. CASE UNCHANGED vars
    BY <2>7 DEF vars, ListensBeforeObserved
  <2>8. QED
    BY <2>1, <2>2, <2>3, <2>4, <2>5, <2>6, <2>7 DEF Next
<1>3. QED
  BY <1>1, <1>2, PTL DEF Spec

-----------------------------------------------------------------------------
(* Stores and opened protocols                                             *)

\* The listen addresses received keeps pass the global_ip_only filter.
LEMMA RemoteListensReachable ==
  ASSUME NEW m \in Messages
  PROVE  RemoteListens(m) \subseteq Reachable
BY DEF RemoteListens, ReachableOf

\* global_ip_only: nothing unreachable ever reaches the peer registry, the
\* peer store, the observed-address store or a RemoteInfo.
THEOREM StoredReachableInv == Spec => []StoredReachable
<1> DEFINE Inv == TypeOK /\ StoredReachable
<1>1. Init => Inv
  BY DEF Init, TypeOK, SessionStates, StoredReachable
<1>2. Inv /\ [Next]_vars => Inv'
  <2> SUFFICES ASSUME Inv, [Next]_vars PROVE Inv'
    OBVIOUS
  <2>0. TypeOK'
    BY TypeStep
  <2> SUFFICES StoredReachable'
    BY <2>0
  <2>1. CASE ProtocolInit \/ Notify
    BY <2>1 DEF ProtocolInit, Notify, StoredReachable, netVars
  <2>2. CASE Tick
    BY <2>2 DEF Tick, StoredReachable, netVars, TypeOK, Infos
  <2>3. ASSUME NEW s \in Sessions, Connected(s) PROVE StoredReachable'
    BY <2>3 DEF Connected, PutInfo, StoredReachable, netVars
  <2>4. ASSUME NEW s \in Sessions, Disconnected(s) PROVE StoredReachable'
    BY <2>4 DEF Disconnected, DropInfo, StoredReachable, netVars
  <2>5. ASSUME NEW s \in Sessions, ReceivedGarbage(s) PROVE StoredReachable'
    BY <2>5 DEF ReceivedGarbage, StoredReachable, netVars
  <2>6. ASSUME NEW s \in Sessions, NEW m \in Messages, Received(s, m)
        PROVE StoredReachable'
    <3>1. RemoteListens(m) \subseteq Reachable
      BY RemoteListensReachable
    <3>2. CASE Accepted(s, m) /\ s \notin DOMAIN remote_infos
      BY <2>6, <3>2 DEF Received, StoredReachable, netVars
    <3>3. CASE ~(Accepted(s, m) /\ s \notin DOMAIN remote_infos)
      <4>1. /\ \A x \in Sessions : listened'[x] \cup peer_store'[x] \subseteq Reachable
            /\ observed_store' \subseteq Reachable
        BY <2>6, <3>1, <3>3 DEF Received, StoredReachable, TypeOK, FeedsObserved
      <4>2. \A x \in DOMAIN remote_infos' : remote_infos'[x].listen \subseteq Reachable
        <5>1. CASE ListensGo(s, m)
          <6>1. s \in DOMAIN remote_infos
            BY <3>3, <5>1 DEF ListensGo, ListensOk, MisbehaveDisconnects
          <6>2. remote_infos' = [remote_infos EXCEPT ![s] =
                  RecordHandshake(remote_infos[s], ListensOk(s, m), RemoteListens(m),
                                  ObservedOk(s, m), m.observed)]
            BY <2>6, <3>3, <5>1 DEF Received
          <6>3. RecordHandshake(remote_infos[s], ListensOk(s, m), RemoteListens(m),
                                ObservedOk(s, m), m.observed).listen \subseteq Reachable
            BY <3>1, <6>1 DEF RecordHandshake, StoredReachable, TypeOK, Infos
          <6>4. QED
            BY <6>1, <6>2, <6>3 DEF StoredReachable
        <5>2. CASE ~ListensGo(s, m)
          BY <2>6, <3>3, <5>2 DEF Received, StoredReachable
        <5>3. QED
          BY <5>1, <5>2
      <4>3. QED
        BY <4>1, <4>2 DEF StoredReachable
    <3>4. QED
      BY <3>2, <3>3
  <2>7. CASE UNCHANGED vars
    BY <2>7 DEF vars, netVars, StoredReachable
  <2>8. QED
    BY <2>1, <2>2, <2>3, <2>4, <2>5, <2>6, <2>7 DEF Next
<1>3. QED
  BY <1>1, <1>2, PTL DEF Spec

\* What received_identify opens is consistent with the version it records:
\* the full set only where the client version is recorded, the feeler
\* protocol only on a feeler, nothing on an inbound session.
LEMMA OpensGated ==
  ASSUME NEW s \in Sessions, NEW p
  PROVE  /\ IdentifyOpens(s, p) # {} => s \in Outbound
         /\ FeelerProto \in IdentifyOpens(s, p) <=> (s \in Feelers /\ IdentifyOpens(s, p) # {})
         /\ FullProtos \in IdentifyOpens(s, p) => s \notin Feelers /\ IdentifyRecordsVersion(s, p)
BY DEF IdentifyOpens, IdentifyRecordsVersion, FeelerProto, FullProtos

\* Follow-on protocols open only as received_identify's outbound branches
\* allow, over any number of messages.
THEOREM ProtocolGatingInv == Spec => []ProtocolGating
<1> DEFINE Inv == TypeOK /\ ProtocolGating
<1>1. Init => Inv
  BY DEF Init, TypeOK, SessionStates, ProtocolGating
<1>2. Inv /\ [Next]_vars => Inv'
  <2> SUFFICES ASSUME Inv, [Next]_vars PROVE Inv'
    OBVIOUS
  <2>0. TypeOK'
    BY TypeStep
  <2> SUFFICES ProtocolGating'
    BY <2>0
  <2>1. CASE UNCHANGED <<opened, version>>
    BY <2>1 DEF ProtocolGating
  <2>2. ASSUME NEW s \in Sessions, NEW m \in Messages, Received(s, m),
               ~(Accepted(s, m) /\ s \notin DOMAIN remote_infos)
        PROVE  ProtocolGating'
    <3>1. /\ opened' = [opened EXCEPT ![s] = @ \cup IdentifyOpens(s, m.identify)]
          /\ version' = [version EXCEPT ![s] = @ \/ IdentifyRecordsVersion(s, m.identify)]
      BY <2>2 DEF Received
    <3>2. QED
      BY <3>1, OpensGated DEF ProtocolGating, TypeOK
  <2>3. QED
    BY <2>1, <2>2 DEF Next, ProtocolInit, Tick, Notify, Connected, Disconnected,
       ReceivedGarbage, Received, vars, netVars
<1>3. QED
  BY <1>1, <1>2, PTL DEF Spec

\* No expect() of a handler ever panics.
THEOREM NoPanicInv == Spec => []NoPanic
BY InfoTracksSessionInv, PTL

-----------------------------------------------------------------------------
(* Listen and observed addresses are set once                              *)

\* A RemoteInfo exists only for a session the transport has connected:
\* connected inserts it and moves the session out of "new", which it
\* never reenters.
InfoStarted == \A x \in DOMAIN remote_infos : st[x] # "new"

\* context.disconnect never moves a session back to "new".
LEMMA DisconnectStarted ==
  ASSUME NEW S, Disconnect(S), NEW x \in Sessions, st[x] # "new"
  PROVE  st'[x] # "new"
BY DEF Disconnect

LEMMA InfoStartedStep == TypeOK /\ InfoStarted /\ [Next]_vars => InfoStarted'
<1> SUFFICES ASSUME TypeOK, InfoStarted, [Next]_vars PROVE InfoStarted'
  OBVIOUS
<1>1. CASE ProtocolInit \/ Tick \/ UNCHANGED vars
  BY <1>1 DEF ProtocolInit, Tick, vars, InfoStarted
<1>2. CASE Notify
  BY <1>2, DisconnectStarted DEF Notify, InfoStarted, TypeOK
<1>3. ASSUME NEW s \in Sessions, Connected(s) PROVE InfoStarted'
  BY <1>3 DEF Connected, InfoStarted, PutInfo, TypeOK
<1>4. ASSUME NEW s \in Sessions, Disconnected(s) PROVE InfoStarted'
  BY <1>4 DEF Disconnected, InfoStarted, DropInfo, TypeOK
<1>5. ASSUME NEW s \in Sessions, ReceivedGarbage(s) PROVE InfoStarted'
  BY <1>5, DisconnectStarted DEF ReceivedGarbage, InfoStarted, TypeOK
<1>6. ASSUME NEW s \in Sessions, NEW m \in Messages, Received(s, m)
      PROVE InfoStarted'
  <2>1. DOMAIN remote_infos' = DOMAIN remote_infos
    BY <1>6 DEF Received
  <2>2. \A x \in Sessions : st[x] # "new" => st'[x] # "new"
    BY <1>6, DisconnectStarted DEF Received
  <2>3. QED
    BY <2>1, <2>2 DEF InfoStarted, TypeOK
<1>7. QED
  BY <1>1, <1>2, <1>3, <1>4, <1>5, <1>6 DEF Next

\* The step lemma for AddrsKept: under the type invariant and InfoStarted
\* no handler overwrites a listen or observed Option that is Some.
LEMMA AddrsKeptStep == TypeOK /\ InfoStarted /\ [Next]_vars => [AddrsKept]_vars
<1> SUFFICES ASSUME TypeOK, InfoStarted, [Next]_vars PROVE AddrsKept
  OBVIOUS
<1>1. CASE UNCHANGED remote_infos
  BY <1>1 DEF AddrsKept
<1>2. CASE Tick
  BY <1>2 DEF Tick, AddrsKept, TypeOK, Infos
<1>3. ASSUME NEW s \in Sessions, Connected(s) PROVE AddrsKept
  <2>1. s \notin DOMAIN remote_infos
    BY <1>3 DEF Connected, InfoStarted
  <2>2. QED
    BY <1>3, <2>1 DEF Connected, AddrsKept, PutInfo
<1>4. ASSUME NEW s \in Sessions, Disconnected(s) PROVE AddrsKept
  BY <1>4 DEF Disconnected, AddrsKept, DropInfo
<1>5. ASSUME NEW s \in Sessions, NEW m \in Messages, Received(s, m),
             remote_infos' # remote_infos
      PROVE AddrsKept
  <2>0. /\ ~(Accepted(s, m) /\ s \notin DOMAIN remote_infos)
        /\ remote_infos' =
             IF ~ListensGo(s, m) THEN remote_infos
             ELSE [remote_infos EXCEPT ![s] =
                     RecordHandshake(@, ListensOk(s, m), RemoteListens(m),
                                     ObservedOk(s, m), m.observed)]
    BY <1>5 DEF Received
  <2>1. /\ s \in DOMAIN remote_infos
        /\ ListensGo(s, m)
        /\ remote_infos' = [remote_infos EXCEPT ![s] =
                              RecordHandshake(@, ListensOk(s, m), RemoteListens(m),
                                              ObservedOk(s, m), m.observed)]
    <3>1. ListensGo(s, m)
      BY <1>5, <2>0
    <3>2. Accepted(s, m)
      BY <3>1 DEF ListensGo, ListensOk
    <3>3. QED
      BY <2>0, <3>1, <3>2
  <2>2. remote_infos[s].hasListen => ~ListensOk(s, m)
    BY DEF ListensOk, ListensFresh
  <2>3. remote_infos[s].hasObserved => ~ObservedOk(s, m)
    BY DEF ObservedOk, ObservedFresh
  <2>4. remote_infos[s] \in Infos
    BY <2>1 DEF TypeOK
  <2>5. QED
    BY <2>1, <2>2, <2>3, <2>4 DEF AddrsKept, RecordHandshake, Infos
<1>6. QED
  BY <1>1, <1>2, <1>3, <1>4, <1>5
     DEF Next, ProtocolInit, Notify, ReceivedGarbage, Received, vars

\* A duplicate IdentifyMessage, or any later message, never overwrites the
\* listen or observed address a RemoteInfo already holds: process_listens
\* and process_observed only store into a None.
THEOREM AddrsSetOnceThm == Spec => AddrsSetOnce
<1>1. Init => InfoStarted
  BY DEF Init, InfoStarted
<1>2. Spec => [](TypeOK /\ InfoStarted)
  BY <1>1, InfoStartedStep, TypeCorrect, TypeStep, PTL DEF Spec
<1>3. QED
  BY <1>2, AddrsKeptStep, PTL DEF Spec, AddrsSetOnce

=============================================================================
