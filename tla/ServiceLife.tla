----------------------------- MODULE ServiceLife -----------------------------
(***************************************************************************)
(* What the service control manager sees of the services that share one   *)
(* mutex name: the state each is in, and that one at a time gets as far as *)
(* RUNNING.  It says nothing of threads, events or reports.  NTService     *)
(* implements it, and ServiceCtrl drives it.                               *)
(***************************************************************************)
CONSTANT Procs    \* the processes that host a service

VARIABLE state    \* the state of each process's service

States == {"STOPPED", "START_PENDING", "RUNNING", "STOP_PENDING"}

\* A service that serves, or has been asked to stop and still may.
Serving(p) == state[p] \in {"RUNNING", "STOP_PENDING"}

LifeTypeOK == state \in [Procs -> States]

LifeInit == state = [p \in Procs |-> "STOPPED"]

Moves(p, from, to) == state[p] = from /\ state' = [state EXCEPT ![p] = to]

\* The SCM starts the process of a stopped service.
Start(p) == Moves(p, "STOPPED", "START_PENDING")

\* The service comes up, unless another one serves; it may give up either way.
Serve(p) == (\A q \in Procs : ~ Serving(q)) /\ Moves(p, "START_PENDING", "RUNNING")

GiveUp(p) == Moves(p, "START_PENDING", "STOPPED")

\* A stop control is accepted, and after a while the service has stopped.
AcceptStop(p) == Moves(p, "RUNNING", "STOP_PENDING")

Finish(p) == Moves(p, "STOP_PENDING", "STOPPED")

\* The process dies while it serves.
Die(p) == Moves(p, "RUNNING", "STOPPED")

\* What a service does by itself.
ServiceMoves(p) == Serve(p) \/ GiveUp(p) \/ Finish(p) \/ Die(p)

LifeNext == \E p \in Procs : Start(p) \/ AcceptStop(p) \/ ServiceMoves(p)

LifeSpec == LifeInit /\ [][LifeNext]_state

\* One service at a time serves.
OneServes == \A p, q \in Procs : Serving(p) /\ Serving(q) => p = q

=============================================================================
