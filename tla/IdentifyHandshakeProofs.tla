------------------------- MODULE IdentifyHandshakeProofs -------------------------
(***************************************************************************)
(* The identify handlers implement the per-session handshake of            *)
(* IdentifyHandshake under the mapping Phase of module Identify, for every *)
(* set of sessions, addresses, names and flags and every bound.            *)
(***************************************************************************)
EXTENDS IdentifyProofs

\* A step that moves the sessions of S to phase v and leaves the transport
\* state and the completeness of every other session alone changes the
\* mapped phases of S only.
LEMMA PhaseUpdate ==
  ASSUME NEW S \in SUBSET Sessions, NEW v,
         \A x \in Sessions \ S : st'[x] = st[x] /\ (Complete(x)' <=> Complete(x)),
         \A x \in S : Phase(x)' = v
  PROVE  PhaseMap' = [x \in Sessions |-> IF x \in S THEN v ELSE PhaseMap[x]]
<1>1. ASSUME NEW x \in Sessions \ S PROVE Phase(x)' = Phase(x)
  BY <1>1 DEF Phase
<1>2. QED
  BY <1>1 DEF PhaseMap

\* A step that changes neither the transport state nor the completeness of
\* any session leaves every mapped phase as it is.
LEMMA PhaseFrame ==
  ASSUME \A x \in Sessions : st'[x] = st[x] /\ (Complete(x)' <=> Complete(x))
  PROVE  PhaseMap' = PhaseMap
<1>1. ASSUME NEW x \in Sessions PROVE Phase(x)' = Phase(x)
  BY <1>1 DEF Phase
<1>2. QED
  BY <1>1 DEF PhaseMap

\* The same for a step that moves one session s to phase v.
LEMMA PhaseUpdateOne ==
  ASSUME NEW s \in Sessions, NEW v,
         \A x \in Sessions \ {s} : st'[x] = st[x] /\ (Complete(x)' <=> Complete(x)),
         Phase(s)' = v
  PROVE  PhaseMap' = [x \in Sessions |-> IF x \in {s} THEN v ELSE PhaseMap[x]]
<1>1. ASSUME NEW x \in Sessions \ {s} PROVE Phase(x)' = Phase(x)
  BY <1>1 DEF Phase
<1>2. QED
  BY <1>1 DEF PhaseMap

\* A session the transport has opened maps to a live handshake.
LEMMA OpenIsLive ==
  ASSUME NEW x \in Sessions, st[x] = "open"
  PROVE  PhaseMap[x] \in {"awaiting", "complete"}
BY DEF PhaseMap, Phase

\* Asking the transport to close the open sessions of S moves their
\* handshake to closing and no other.
LEMMA DisconnectPhases ==
  ASSUME TypeOK, NEW S, Disconnect(S),
         \A x \in Sessions : Complete(x)' <=> Complete(x)
  PROVE  LET K == {x \in S \cap Sessions : st[x] = "open"} IN
           /\ K \subseteq Handshake!Live
           /\ PhaseMap' = [x \in Sessions |-> IF x \in K THEN "closing" ELSE PhaseMap[x]]
<1> DEFINE K == {x \in S \cap Sessions : st[x] = "open"}
<1>1. ASSUME NEW x \in Sessions \ K PROVE st'[x] = st[x]
  <2>1. ~(x \in S /\ st[x] = "open")
    OBVIOUS
  <2>2. QED
    BY <2>1 DEF Disconnect
<1>2. ASSUME NEW x \in K PROVE Phase(x)' = "closing"
  <2>1. st'[x] = "closing"
    BY DEF Disconnect
  <2>2. QED
    BY <2>1 DEF Phase
<1>3. K \subseteq Handshake!Live
  <2>1. ASSUME NEW x \in K PROVE PhaseMap[x] \in {"awaiting", "complete"}
    BY OpenIsLive
  <2>2. QED
    BY <2>1 DEF Handshake!Live, PhaseMap
<1>4. PhaseMap' = [x \in Sessions |-> IF x \in K THEN "closing" ELSE PhaseMap[x]]
  <2>1. K \in SUBSET Sessions
    OBVIOUS
  <2>2. \A x \in Sessions \ K : st'[x] = st[x] /\ (Complete(x)' <=> Complete(x))
    BY <1>1
  <2>3. QED
    BY <1>2, <2>1, <2>2, PhaseUpdate
<1>5. QED
  BY <1>3, <1>4

\* The mapped phases form a function on the sessions.
LEMMA PhaseMapDomain == DOMAIN PhaseMap = Sessions
BY DEF PhaseMap

\* The abstract state the refinement maps to.
hvars == <<PhaseMap, secio_enabled>>

\* The protocol asking to close the live sessions of K, while it is
\* enabled, is a Kick of the handshake, or a stutter when K is empty.
LEMMA KickOrStutter ==
  ASSUME secio_enabled, secio_enabled' = secio_enabled,
         NEW K \in SUBSET Sessions, K \subseteq Handshake!Live,
         PhaseMap' = [x \in Sessions |-> IF x \in K THEN "closing" ELSE PhaseMap[x]]
  PROVE  [Handshake!Next]_hvars
<1>1. CASE K = {}
  <2>1. PhaseMap' = PhaseMap
    BY <1>1 DEF PhaseMap
  <2>2. QED
    BY <2>1 DEF hvars
<1>2. CASE K # {}
  <2>1. Handshake!Kick(K)
    BY <1>2 DEF Handshake!Kick, PhaseMap
  <2>2. QED
    BY <2>1 DEF Handshake!Next
<1>3. QED
  BY <1>1, <1>2

\* The transport ending one live or closing session is a Close.
LEMMA CloseOne ==
  ASSUME NEW s \in Sessions, PhaseMap[s] \in {"awaiting", "complete", "closing"},
         secio_enabled' = secio_enabled,
         PhaseMap' = [x \in Sessions |-> IF x \in {s} THEN "terminated" ELSE PhaseMap[x]]
  PROVE  [Handshake!Next]_hvars
<1>1. Handshake!Close(s)
  BY PhaseMapDomain DEF Handshake!Close, PhaseMap
<1>2. QED
  BY <1>1 DEF Handshake!Next

\* A step that leaves the phase of the one session it touches as it was
\* stutters.
LEMMA PhaseStays ==
  ASSUME NEW s \in Sessions, NEW v, PhaseMap[s] = v,
         secio_enabled' = secio_enabled,
         PhaseMap' = [x \in Sessions |-> IF x \in {s} THEN v ELSE PhaseMap[x]]
  PROVE  [Handshake!Next]_hvars
<1>1. PhaseMap' = PhaseMap
  BY DEF PhaseMap
<1>2. QED
  BY <1>1 DEF hvars

\* connected: a keyed session starts awaiting with an empty RemoteInfo, a
\* keyless one is asked to close and disables the instance.
LEMMA RefConnected ==
  ASSUME TypeOK, NEW s \in Sessions, Connected(s)
  PROVE  [Handshake!Next]_hvars
<1>1. st[s] = "new" /\ PhaseMap[s] = "idle"
  BY DEF Connected, PhaseMap, Phase
<1>2. CASE s \notin Keyed
  <2>1. st' = [st EXCEPT ![s] = "closing"] /\ remote_infos' = remote_infos
        /\ secio_enabled' = FALSE
    BY <1>2 DEF Connected
  <2>2. PhaseMap' = [x \in Sessions |-> IF x \in {s} THEN "closing" ELSE PhaseMap[x]]
    <3>1. \A x \in Sessions \ {s} : st'[x] = st[x] /\ (Complete(x)' <=> Complete(x))
      BY <2>1 DEF TypeOK, Complete
    <3>2. Phase(s)' = "closing"
      BY <2>1 DEF TypeOK, Phase
    <3>3. QED
      BY <3>1, <3>2, PhaseUpdateOne
  <2>3. Handshake!Connect(s)
    BY <1>1, <1>2, <2>1, <2>2, PhaseMapDomain DEF Handshake!Connect, PhaseMap
  <2>4. QED
    BY <2>3 DEF Handshake!Next
<1>3. CASE s \in Keyed
  <2> DEFINE new == [hasListen |-> FALSE, listen |-> {},
                     hasObserved |-> FALSE, observed |-> CHOOSE a \in Addrs : TRUE,
                     elapsed |-> 0]
  <2>1. /\ st' = [st EXCEPT ![s] = "open"]
        /\ remote_infos' = PutInfo(remote_infos, s, new)
        /\ secio_enabled' = secio_enabled
    BY <1>3 DEF Connected
  <2>2. PhaseMap' = [x \in Sessions |-> IF x \in {s} THEN "awaiting" ELSE PhaseMap[x]]
    <3>1. \A x \in Sessions \ {s} : st'[x] = st[x] /\ (Complete(x)' <=> Complete(x))
      BY <2>1 DEF TypeOK, Complete, PutInfo
    <3>2. ~Complete(s)'
      BY <2>1 DEF Complete, PutInfo
    <3>3. Phase(s)' = "awaiting"
      BY <2>1, <3>2 DEF TypeOK, Phase
    <3>4. QED
      BY <3>1, <3>3, PhaseUpdateOne
  <2>3. Handshake!Connect(s)
    BY <1>1, <1>3, <2>1, <2>2, PhaseMapDomain DEF Handshake!Connect, PhaseMap
  <2>4. QED
    BY <2>3 DEF Handshake!Next
<1>4. QED
  BY <1>2, <1>3

\* disconnected: the transport closes an open session or one the protocol
\* asked to close, a Close either way; remote_infos loses at most that
\* session's entry.
LEMMA RefDisconnected ==
  ASSUME TypeOK, NEW s \in Sessions, Disconnected(s)
  PROVE  [Handshake!Next]_hvars
<1>1. /\ st[s] \in {"open", "closing"}
      /\ st' = [st EXCEPT ![s] = "closed"]
      /\ secio_enabled' = secio_enabled
      /\ remote_infos' \in {remote_infos, DropInfo(remote_infos, s)}
  BY DEF Disconnected
<1>2. PhaseMap' = [x \in Sessions |-> IF x \in {s} THEN "terminated" ELSE PhaseMap[x]]
  <2>1. \A x \in Sessions \ {s} : st'[x] = st[x] /\ (Complete(x)' <=> Complete(x))
    BY <1>1 DEF TypeOK, Complete, DropInfo
  <2>2. Phase(s)' = "terminated"
    BY <1>1 DEF TypeOK, Phase
  <2>3. QED
    BY <2>1, <2>2, PhaseUpdateOne
<1>3. PhaseMap[s] \in {"awaiting", "complete", "closing"}
  BY <1>1 DEF PhaseMap, Phase
<1>4. QED
  BY <1>1, <1>2, <1>3, CloseOne

\* received with undecodable bytes: InvalidData, answered by a disconnect
\* while the instance is enabled.
LEMMA RefGarbage ==
  ASSUME TypeOK, NEW s \in Sessions, ReceivedGarbage(s)
  PROVE  [Handshake!Next]_hvars
<1>1. secio_enabled /\ secio_enabled' = secio_enabled /\ remote_infos' = remote_infos
  BY Zenon DEF ReceivedGarbage, ReceivedEnabled
<1>2. \A x \in Sessions : Complete(x)' <=> Complete(x)
  BY <1>1 DEF Complete
<1>3. CASE s \in DOMAIN remote_infos
  <2>1. Disconnect({s})
    BY <1>3 DEF ReceivedGarbage, MisbehaveDisconnects
  <2> DEFINE K == {x \in {s} \cap Sessions : st[x] = "open"}
  <2>2. K \subseteq Handshake!Live
        /\ PhaseMap' = [x \in Sessions |-> IF x \in K THEN "closing" ELSE PhaseMap[x]]
    BY <1>2, <2>1, DisconnectPhases
  <2>3. QED
    BY <1>1, <2>2, KickOrStutter
<1>4. CASE s \notin DOMAIN remote_infos
  <2>1. st' = st
    BY <1>4 DEF ReceivedGarbage
  <2>2. PhaseMap' = PhaseMap
    BY <1>2, <2>1, PhaseFrame
  <2>3. QED
    BY <1>1, <2>2 DEF hvars
<1>5. QED
  BY <1>3, <1>4

\* notify: every session past the timeout without both addresses is
\* asked to close, while the instance is enabled.
LEMMA RefNotify ==
  ASSUME TypeOK, Notify
  PROVE  [Handshake!Next]_hvars
<1> DEFINE Expired == {x \in DOMAIN remote_infos :
                         /\ ~remote_infos[x].hasListen \/ ~remote_infos[x].hasObserved
                         /\ remote_infos[x].elapsed >= Timeout}
<1>1. secio_enabled /\ secio_enabled' = secio_enabled /\ remote_infos' = remote_infos
  BY Zenon DEF Notify
<1>2. \A x \in Sessions : Complete(x)' <=> Complete(x)
  BY <1>1 DEF Complete
<1>3. Disconnect(Expired)
  BY DEF Notify, MisbehaveDisconnects
<1> DEFINE K == {x \in Expired \cap Sessions : st[x] = "open"}
<1>4. K \subseteq Handshake!Live
      /\ PhaseMap' = [x \in Sessions |-> IF x \in K THEN "closing" ELSE PhaseMap[x]]
  BY <1>2, <1>3, DisconnectPhases
<1>5. QED
  BY <1>1, <1>4, KickOrStutter

\* received with an IdentifyMessage: the chain either runs to the end,
\* recording the observed address after the listens and so completing an
\* open session, or stops at the first Disconnect and asks to close it.
LEMMA RefReceived ==
  ASSUME TypeOK, NEW s \in Sessions, NEW m \in Messages, Received(s, m)
  PROVE  [Handshake!Next]_hvars
<1>1. /\ secio_enabled /\ secio_enabled' = secio_enabled
      /\ st[s] \in {"open", "closing"}
  BY Zenon DEF Received, ReceivedEnabled
<1>2. CASE Accepted(s, m) /\ s \notin DOMAIN remote_infos
  <2>1. st' = st /\ remote_infos' = remote_infos
    BY <1>2 DEF Received
  <2>2. PhaseMap' = PhaseMap
    BY <2>1, PhaseFrame DEF Complete
  <2>3. QED
    BY <1>1, <2>2 DEF hvars
<1>3. CASE ~(Accepted(s, m) /\ s \notin DOMAIN remote_infos)
  <2> DEFINE j == RecordHandshake(remote_infos[s], ListensOk(s, m), RemoteListens(m),
                                  ObservedOk(s, m), m.observed)
  <2>1. /\ remote_infos' = IF ~ListensGo(s, m) THEN remote_infos
                           ELSE [remote_infos EXCEPT ![s] = j]
        /\ Disconnect(IF ObservedOk(s, m) THEN {} ELSE {s})
    BY <1>3 DEF Received, MisbehaveDisconnects
  <2>2. \A x \in Sessions \ {s} : Complete(x)' <=> Complete(x)
    BY <2>1 DEF Complete
  <2>3. \A x \in Sessions \ {s} : st'[x] = st[x]
    BY <2>1 DEF Disconnect
  <2>4. CASE ObservedOk(s, m)
    <3>1. s \in DOMAIN remote_infos /\ ListensGo(s, m) /\ ListensOk(s, m)
      BY <1>3, <2>4 DEF ObservedOk, ListensGo, ListensOk, MisbehaveDisconnects
    <3>2. remote_infos[s] \in Infos
      BY <3>1 DEF TypeOK
    <3>3. remote_infos' = [remote_infos EXCEPT ![s] = j] /\ st' = st
      BY <2>1, <2>4, <3>1 DEF Disconnect, TypeOK
    <3>4. Complete(s)' /\ ~Complete(s)
      <4>1. j.hasListen /\ j.hasObserved
        BY <2>4, <3>1, <3>2 DEF RecordHandshake, Infos
      <4>2. ~remote_infos[s].hasObserved
        BY <2>4 DEF ObservedOk, ObservedFresh
      <4>3. QED
        BY <3>1, <3>3, <4>1, <4>2 DEF Complete
    <3>5. PhaseMap' = [x \in Sessions |-> IF x \in {s} THEN Phase(s)' ELSE PhaseMap[x]]
      BY <2>2, <2>3, PhaseUpdateOne
    <3>6. CASE st[s] = "open"
      <4>1. PhaseMap[s] = "awaiting" /\ Phase(s)' = "complete"
        BY <3>3, <3>4, <3>6 DEF PhaseMap, Phase
      <4>2. Handshake!Finish(s)
        BY <1>1, <3>5, <4>1, PhaseMapDomain DEF Handshake!Finish, PhaseMap
      <4>3. QED
        BY <4>2 DEF Handshake!Next
    <3>7. CASE st[s] = "closing"
      <4>1. PhaseMap[s] = "closing" /\ Phase(s)' = "closing"
        BY <3>3, <3>7 DEF PhaseMap, Phase
      <4>2. QED
        BY <1>1, <3>5, <4>1, PhaseStays
    <3>8. QED
      BY <1>1, <3>6, <3>7
  <2>5. CASE ~ObservedOk(s, m)
    <3>1. st'[s] = "closing"
      BY <1>1, <2>1, <2>5 DEF Disconnect
    <3>2. Phase(s)' = "closing"
      BY <3>1 DEF Phase
    <3>3. PhaseMap' = [x \in Sessions |-> IF x \in {s} THEN "closing" ELSE PhaseMap[x]]
      BY <2>2, <2>3, <3>2, PhaseUpdateOne
    <3>4. CASE st[s] = "open"
      <4> DEFINE K == {s}
      <4>1. K \in SUBSET Sessions /\ K \subseteq Handshake!Live
        BY <3>4, OpenIsLive DEF Handshake!Live, PhaseMap
      <4>2. PhaseMap' = [x \in Sessions |-> IF x \in K THEN "closing" ELSE PhaseMap[x]]
        BY <3>3
      <4>3. QED
        BY <1>1, <4>1, <4>2, KickOrStutter
    <3>5. CASE st[s] = "closing"
      <4>1. PhaseMap[s] = "closing"
        BY <3>5 DEF PhaseMap, Phase
      <4>2. QED
        BY <1>1, <3>3, <4>1, PhaseStays
    <3>6. QED
      BY <1>1, <3>4, <3>5
  <2>6. QED
    BY <2>4, <2>5
<1>4. QED
  BY <1>2, <1>3

\* The time passing and init touch no transport state and no address.
LEMMA RefQuiet ==
  ASSUME TypeOK, ProtocolInit \/ Tick \/ UNCHANGED vars
  PROVE  [Handshake!Next]_hvars
<1>1. st' = st /\ secio_enabled' = secio_enabled
  BY Zenon DEF ProtocolInit, Tick, vars
<1>2. \A x \in Sessions : Complete(x)' <=> Complete(x)
  <2>1. CASE Tick
    <3>1. DOMAIN remote_infos' = DOMAIN remote_infos
      BY <2>1 DEF Tick
    <3>2. \A x \in DOMAIN remote_infos :
            /\ remote_infos'[x].hasListen = remote_infos[x].hasListen
            /\ remote_infos'[x].hasObserved = remote_infos[x].hasObserved
      BY <2>1 DEF Tick, TypeOK, Infos
    <3>3. QED
      BY <3>1, <3>2 DEF Complete
  <2>2. CASE ProtocolInit \/ UNCHANGED vars
    <3>1. remote_infos' = remote_infos
      BY <2>2, Zenon DEF ProtocolInit, vars
    <3>2. QED
      BY <3>1 DEF Complete
  <2>3. QED
    BY <2>1, <2>2
<1>3. PhaseMap' = PhaseMap
  BY <1>1, <1>2, PhaseFrame
<1>4. QED
  BY <1>1, <1>3 DEF hvars

\* Every behaviour of the identify handlers is a behaviour of the abstract
\* handshake: a session completes only from awaiting and only while the
\* instance is enabled, never falls back, is asked to close by the
\* protocol (one session or several) only while the instance is enabled,
\* ends only through the transport, and a keyless connect disables the
\* instance.
THEOREM HandshakeRefinedThm == Spec => HandshakeRefined
<1>1. Init => Handshake!Init
  BY DEF Init, Handshake!Init, Phase, PhaseMap
<1>2. TypeOK /\ [Next]_vars => [Handshake!Next]_hvars
  <2> SUFFICES ASSUME TypeOK, [Next]_vars PROVE [Handshake!Next]_hvars
    OBVIOUS
  <2>1. CASE ProtocolInit \/ Tick \/ UNCHANGED vars
    BY <2>1, RefQuiet
  <2>2. CASE Notify
    BY <2>2, RefNotify
  <2>3. ASSUME NEW s \in Sessions, Connected(s) PROVE [Handshake!Next]_hvars
    BY <2>3, RefConnected
  <2>4. ASSUME NEW s \in Sessions, Disconnected(s) PROVE [Handshake!Next]_hvars
    BY <2>4, RefDisconnected
  <2>5. ASSUME NEW s \in Sessions, ReceivedGarbage(s) PROVE [Handshake!Next]_hvars
    BY <2>5, RefGarbage
  <2>6. ASSUME NEW s \in Sessions, NEW m \in Messages, Received(s, m)
        PROVE [Handshake!Next]_hvars
    BY <2>6, RefReceived
  <2>7. QED
    BY <2>1, <2>2, <2>3, <2>4, <2>5, <2>6 DEF Next
<1>3. QED
  BY <1>1, <1>2, TypeCorrect, PTL DEF Spec, HandshakeRefined, Handshake!Spec, hvars


=============================================================================
