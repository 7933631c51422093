--------------------------- MODULE IdentifyHandshake ---------------------------
(***************************************************************************)
(* What the identify protocol promises about one session's handshake, with *)
(* the messages, addresses and the clock left out.  A session is idle      *)
(* until the transport connects it, then awaits the peer's listen and      *)
(* observed addresses and completes once it has both.  The protocol may   *)
(* ask for a live session to be closed (closing); the transport ends any   *)
(* live or closing session (terminated).  The protocol instance is enabled *)
(* until a session without a remote key connects (connected sets          *)
(* secio_enabled to false); from then on no handshake completes and the    *)
(* protocol asks for no close of its own.                                  *)
(***************************************************************************)
CONSTANTS
  Sessions,   \* session ids the transport may open
  Keyed       \* sessions whose remote_pubkey is Some

VARIABLES
  phase,      \* the handshake phase of each session
  enabled     \* the instance still processes messages and timeouts

Phases == {"idle", "awaiting", "complete", "closing", "terminated"}

\* The sessions whose handshake is under way or done.
Live == {s \in Sessions : phase[s] \in {"awaiting", "complete"}}

Init ==
  /\ phase = [s \in Sessions |-> "idle"]
  /\ enabled = TRUE

\* connected: a keyed session starts awaiting the peer's addresses; a
\* keyless one is asked to close and disables the instance for good.
Connect(s) ==
  /\ phase[s] = "idle"
  /\ IF s \in Keyed
       THEN /\ phase' = [phase EXCEPT ![s] = "awaiting"]
            /\ UNCHANGED enabled
       ELSE /\ phase' = [phase EXCEPT ![s] = "closing"]
            /\ enabled' = FALSE

\* received: the message that brings the last missing address.
Finish(s) ==
  /\ enabled
  /\ phase[s] = "awaiting"
  /\ phase' = [phase EXCEPT ![s] = "complete"]
  /\ UNCHANGED enabled

\* The protocol asks for live sessions to be closed (misbehaviour,
\* timeout): only while it is enabled.
Kick(S) ==
  /\ enabled
  /\ S # {} /\ S \subseteq Live
  /\ phase' = [s \in Sessions |-> IF s \in S THEN "closing" ELSE phase[s]]
  /\ UNCHANGED enabled

\* The transport ends a live session at any time (the peer went away), or
\* one the protocol asked to close.
Close(s) ==
  /\ phase[s] \in {"awaiting", "complete", "closing"}
  /\ phase' = [phase EXCEPT ![s] = "terminated"]
  /\ UNCHANGED enabled

Next ==
  \/ \E s \in Sessions : Connect(s) \/ Finish(s) \/ Close(s)
  \/ \E S \in SUBSET Sessions : Kick(S)

Spec == Init /\ [][Next]_<<phase, enabled>>

=============================================================================
