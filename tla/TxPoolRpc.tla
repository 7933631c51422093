------------------------------ MODULE TxPoolRpc ------------------------------
(***************************************************************************)
(* What a TxPoolController promises its callers, with the channel, the    *)
(* spawned tasks and the pool left out.  Each call returns at once with   *)
(* Full, Closed or (for a notify) sent, or blocks its caller until the    *)
(* service answers it or drops its responder.  The service stops only     *)
(* after some controller was dropped, and a blocked caller gets RecvError *)
(* only as the service stops or after it has stopped.                     *)
(***************************************************************************)
CONSTANTS Callers

VARIABLES
  cstate,   \* each caller is "idle" or "waiting" in response.recv()
  status,   \* what each caller's last call returned
  stopped,  \* the stop signal has been fired
  closed    \* the service loop has broken: the receiver is gone

Statuses == {"none", "sent", "Full", "Closed", "RecvError", "reply"}

\* The callers blocked on a reply.
Waiting == {c \in Callers : cstate[c] = "waiting"}

Init ==
  /\ cstate = [c \in Callers |-> "idle"]
  /\ status = [c \in Callers |-> "none"]
  /\ stopped = FALSE
  /\ closed = FALSE

\* An idle caller's call returns v at once.  Closed only once the loop is
\* gone; Full and sent only while it runs.
Return(c, v) ==
  /\ cstate[c] = "idle"
  /\ v = "Closed" <=> closed
  /\ status' = [status EXCEPT ![c] = v]
  /\ UNCHANGED <<cstate, stopped, closed>>

\* A request is queued and its caller blocks.
Send(c) ==
  /\ cstate[c] = "idle"
  /\ ~closed
  /\ cstate' = [cstate EXCEPT ![c] = "waiting"]
  /\ status' = [status EXCEPT ![c] = "none"]
  /\ UNCHANGED <<stopped, closed>>

\* The service answers a blocked caller.
Answer(c) ==
  /\ cstate[c] = "waiting"
  /\ cstate' = [cstate EXCEPT ![c] = "idle"]
  /\ status' = [status EXCEPT ![c] = "reply"]
  /\ UNCHANGED <<stopped, closed>>

\* The callers in W get RecvError: their responders are dropped.
DropAll(W) ==
  /\ W \subseteq Waiting
  /\ cstate' = [c \in Callers |-> IF c \in W THEN "idle" ELSE cstate[c]]
  /\ status' = [c \in Callers |-> IF c \in W THEN "RecvError" ELSE status[c]]

\* A controller is dropped.
Stop ==
  /\ ~stopped
  /\ stopped' = TRUE
  /\ UNCHANGED <<cstate, status, closed>>

\* The loop takes the signal and breaks, dropping the requests still queued.
Close(W) ==
  /\ stopped /\ ~closed
  /\ closed' = TRUE
  /\ DropAll(W)
  /\ UNCHANGED stopped

\* The runtime is dropped after the loop: unfinished requests are cancelled.
Cancel(W) ==
  /\ closed
  /\ W # {}
  /\ DropAll(W)
  /\ UNCHANGED <<stopped, closed>>

Next ==
  \/ \E c \in Callers : \/ \E v \in {"sent", "Full", "Closed"} : Return(c, v)
                        \/ Send(c)
                        \/ Answer(c)
  \/ Stop
  \/ \E W \in SUBSET Callers : Close(W) \/ Cancel(W)

Spec == Init /\ [][Next]_<<cstate, status, stopped, closed>>

=============================================================================
