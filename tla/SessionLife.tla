------------------------------ MODULE SessionLife ------------------------------
(***************************************************************************)
(* What the rest of the server may rely on in a session: its stages come   *)
(* in order, it is closed only when its second thread has gone, and it can *)
(* take the process down only while it has a thread to do so.              *)
(***************************************************************************)

VARIABLES
  life,     \* "created", "synchronising", "serving", "stopping", "closed" or "ended"
  worker,   \* the second thread: "none", "running" or "exited"
  peer,     \* "connected" or "gone"
  process   \* "up" or "terminated"

vars == <<life, worker, peer, process>>

Init ==
  /\ life = "created" /\ worker = "none"
  /\ peer = "connected" /\ process = "up"

Begin ==
  /\ life = "created" /\ life' = "synchronising"
  /\ UNCHANGED <<worker, peer, process>>

Serve ==
  /\ life = "synchronising" /\ life' = "serving"
  /\ worker = "none" /\ worker' = "running"
  /\ UNCHANGED <<peer, process>>

Stop ==
  /\ life = "serving" /\ life' = "stopping"
  /\ UNCHANGED <<worker, peer, process>>

WorkerExits ==
  /\ life \in {"serving", "stopping"}
  /\ worker = "running" /\ worker' = "exited"
  /\ UNCHANGED <<life, peer, process>>

Close ==
  /\ life = "stopping" /\ worker = "exited"
  /\ life' = "closed"
  /\ UNCHANGED <<worker, peer, process>>

End ==
  /\ life = "closed" /\ life' = "ended"
  /\ UNCHANGED <<worker, peer, process>>

HangUp ==
  /\ peer = "connected" /\ peer' = "gone"
  /\ UNCHANGED <<life, worker, process>>

\* Thread t fails only to write to a client that has gone.
Lose ==
  /\ worker = "running" \/ (peer = "gone" /\ life \in {"synchronising", "serving"})
  /\ process' = "terminated"
  /\ UNCHANGED <<life, worker, peer>>

Next ==
  /\ process = "up"
  /\ Begin \/ Serve \/ Stop \/ WorkerExits \/ Close \/ End \/ HangUp \/ Lose

Spec == Init /\ [][Next]_vars
================================================================================
