---------------------------- MODULE MC_Identify ----------------------------
(* Small instances of the identify protocol for TLC.                      *)
EXTENDS Identify

CONSTANTS s1, s2, s3, s4, gAddr, hAddr, lAddr, main, test, NoIdentify, NoMessage

\* s1 an outbound feeler, s2 an outbound full peer, s3 an inbound session
\* that arrives without a remote key, s4 an inbound keyed session.
\* Handshake runs use every keyed role; secio runs add the keyless one.
MCHandshakeSessions == {s1, s2, s4}
MCHandshakeKeyed == {s1, s2, s4}
MCSecioSessions == {s2, s3, s4}
MCSecioKeyed == {s2, s4}
MCOutbound == {s1, s2}
MCSecioOutbound == {s2}
MCFeelers == {s1}
MCLiveSessions == {s2, s4}
MCSecioFeelers == {}

\* One globally reachable and one private address.
MCAddrs == {gAddr, hAddr, lAddr}
MCReachable == {gAddr, hAddr}
MCPublicAddrs == {gAddr}

MCNames == {main, test}
\* Bit 0 is Flag::FullNode; bit 1 an unknown capability.
MCFlagBits == {0, 1}
MCLocalFlags == {0}

\* The messages a remote peer sends: listen lists without repeats (only
\* their set and length matter), one of them over MAX_ADDRS = 1, and
\* payloads of the local network with enough flags, with only an unknown
\* flag, with a zero flag word, of another network, and unparsable.
MCMessages ==
  [listens : {<<>>, <<gAddr>>, <<lAddr>>, <<gAddr, lAddr>>, <<gAddr, hAddr>>},
   observed : {gAddr, lAddr},
   identify : {[name |-> main, flags |-> {0}], [name |-> main, flags |-> {1}],
               [name |-> main, flags |-> {}], [name |-> test, flags |-> {0}],
               NoIdentify}]
=============================================================================
