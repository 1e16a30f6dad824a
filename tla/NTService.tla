------------------------------ MODULE NTService ------------------------------
(***************************************************************************)
(* The service skeleton CNTService (SrcLib/System/NTService).  A process   *)
(* that hosts it has three kinds of threads:                               *)
(*                                                                         *)
(*   - the main thread sits in StartServiceCtrlDispatcher, runs            *)
(*     SvcCtrlHandler for every control the service control manager (SCM)  *)
(*     sends, and leaves when the SCM has been told STOPPED; the           *)
(*     destructor and the end of the process follow;                       *)
(*   - the service thread runs ServiceMain and Running;                    *)
(*   - one worker thread per entry of SetWorkDispatch, each of which ends  *)
(*     when its own named event is set.                                    *)
(*                                                                         *)
(* The first two share m_SvrStatus, m_hStopEvent and the SCM's ear without *)
(* a lock.  Processes of different services, and a service that is started *)
(* again while its last process is still on its way out, share one global  *)
(* mutex name, which is what keeps all but one of them from working.       *)
(*                                                                         *)
(* The SCM, the kernel's named objects and the workers are external.  The  *)
(* SCM sends STOP only to a service that has reported RUNNING, and takes   *)
(* STOPPED as a service's last word.                                       *)
(***************************************************************************)
EXTENDS Integers, FiniteSets

CONSTANTS Procs,      \* processes that host a CNTService with one mutex name
          WorkCount   \* m_nWorkDispCount: entries given to SetWorkDispatch

ASSUME ProcsAssumption     == IsFiniteSet(Procs)
ASSUME WorkCountAssumption == WorkCount \in Nat

VARIABLES
  main,          \* where the service thread is
  index,         \* its loop variable in Running
  handler,       \* where SvcCtrlHandler is, on the main thread
  read,          \* m_SvrStatus.dwCurrentState as SvcCtrlHandler read it
  m_SvrStatus,   \* member m_SvrStatus.dwCurrentState
  m_hStopEvent,  \* whether the stop event is signalled
  m_hOnlyMutex,  \* whether the process holds a handle on the mutex
  worker,        \* the worker threads
  scm            \* the state the SCM has on record

vars == <<main, index, handler, read, m_SvrStatus, m_hStopEvent, m_hOnlyMutex,
          worker, scm>>

Workers == 1 .. WorkCount

States == {"STOPPED", "START_PENDING", "RUNNING", "STOP_PENDING"}

\* "none" is no process; "lost" is a ServiceMain that could not register its
\* handler; "stopping" and "send" are the two halves of the last report.
Positions == {"none", "main", "event", "mutex", "report", "create", "stop",
              "join", "stopping", "send", "done", "lost"}

\* A worker has no event of its own before it is "working"; "told" is a
\* worker whose event has been set.
WorkerStates == {"none", "started", "working", "told", "ended"}

NTTypeOK ==
  /\ main \in [Procs -> Positions]
  /\ index \in [Procs -> 1 .. WorkCount + 1]
  /\ handler \in [Procs -> {"idle", "set", "read", "refill", "resend"}]
  /\ read \in [Procs -> States]
  /\ m_SvrStatus \in [Procs -> States]
  /\ m_hStopEvent \in [Procs -> BOOLEAN]
  /\ m_hOnlyMutex \in [Procs -> BOOLEAN]
  /\ worker \in [Procs -> [Workers -> WorkerStates]]
  /\ scm \in [Procs -> States]

NTInit ==
  /\ main = [p \in Procs |-> "none"]
  /\ index = [p \in Procs |-> 1]
  /\ handler = [p \in Procs |-> "idle"]
  /\ read = [p \in Procs |-> "STOPPED"]
  /\ m_SvrStatus = [p \in Procs |-> "STOPPED"]
  /\ m_hStopEvent = [p \in Procs |-> FALSE]
  /\ m_hOnlyMutex = [p \in Procs |-> FALSE]
  /\ worker = [p \in Procs |-> [i \in Workers |-> "none"]]
  /\ scm = [p \in Procs |-> "STOPPED"]

\* SetServiceStatus: what the SCM has on record after process p reports the
\* contents of its m_SvrStatus.
Heard(p) == IF scm[p] = "STOPPED" THEN "STOPPED" ELSE m_SvrStatus[p]

-----------------------------------------------------------------------------
(***************************************************************************)
(* The process.                                                            *)
(***************************************************************************)

\* The SCM starts a process, which constructs a CNTService, gives it its
\* workers and calls ServiceRunning.
StartProcess(p) ==
  /\ main[p] = "none"
  /\ main' = [main EXCEPT ![p] = "main"]
  /\ scm' = [scm EXCEPT ![p] = "START_PENDING"]
  /\ UNCHANGED <<index, handler, read, m_SvrStatus, m_hStopEvent, m_hOnlyMutex, worker>>

\* The end of a process, whatever brings it: its threads are gone and so are
\* its handles.
Gone(p) ==
  /\ main' = [main EXCEPT ![p] = "none"]
  /\ index' = [index EXCEPT ![p] = 1]
  /\ handler' = [handler EXCEPT ![p] = "idle"]
  /\ read' = [read EXCEPT ![p] = "STOPPED"]
  /\ m_SvrStatus' = [m_SvrStatus EXCEPT ![p] = "STOPPED"]
  /\ m_hStopEvent' = [m_hStopEvent EXCEPT ![p] = FALSE]
  /\ m_hOnlyMutex' = [m_hOnlyMutex EXCEPT ![p] = FALSE]
  /\ worker' = [worker EXCEPT ![p] = [i \in Workers |-> "none"]]
  /\ scm' = [scm EXCEPT ![p] = "STOPPED"]

\* The SCM has heard STOPPED: the dispatcher returns once no control is being
\* handled, and the destructor and the end of the process follow.
ProcessExit(p) ==
  /\ main[p] # "none"
  /\ scm[p] = "STOPPED"
  /\ handler[p] = "idle"
  /\ Gone(p)

\* A worker faults or somebody ends the process.
ProcessDies(p) == main[p] # "none" /\ Gone(p)

-----------------------------------------------------------------------------
(***************************************************************************)
(* The service thread.  Until it has reported RUNNING no control is sent,  *)
(* so its reports up to then are a single step.                            *)
(***************************************************************************)
ServiceMain(p) ==
  /\ main[p] = "main"
  /\ \/ /\ main' = [main EXCEPT ![p] = "event"]
        /\ m_SvrStatus' = [m_SvrStatus EXCEPT ![p] = "START_PENDING"]
     \/ /\ main' = [main EXCEPT ![p] = "lost"]
        /\ UNCHANGED m_SvrStatus
  /\ UNCHANGED <<index, handler, read, m_hStopEvent, m_hOnlyMutex, worker, scm>>

\* The stop event, or STOPPED without it.
CreateStopEvent(p) ==
  /\ main[p] = "event"
  /\ \E to \in {"mutex", "stopping"} : main' = [main EXCEPT ![p] = to]
  /\ UNCHANGED <<index, handler, read, m_SvrStatus, m_hStopEvent, m_hOnlyMutex,
                 worker, scm>>

\* Mutant: the error of CreateMutex is not looked at.
CreateOnlyMutexAnyway(p) ==
  /\ main[p] = "mutex"
  /\ \/ /\ main' = [main EXCEPT ![p] = "report"]
        /\ m_hOnlyMutex' = [m_hOnlyMutex EXCEPT ![p] = TRUE]
     \/ /\ main' = [main EXCEPT ![p] = "stopping"]
        /\ UNCHANGED m_hOnlyMutex
  /\ UNCHANGED <<index, handler, read, m_SvrStatus, m_hStopEvent, worker, scm>>

\* CreateMutex fails, or opens the mutex another process has made, or makes
\* it.  In the second case the process is turned away but keeps the handle
\* until it ends.
CreateOnlyMutex(p) ==
  /\ main[p] = "mutex"
  /\ \/ /\ m_hOnlyMutex' = [m_hOnlyMutex EXCEPT ![p] = TRUE]
        /\ main' = [main EXCEPT ![p] =
                      IF \E q \in Procs : m_hOnlyMutex[q] THEN "stopping" ELSE "report"]
     \/ /\ main' = [main EXCEPT ![p] = "stopping"]
        /\ UNCHANGED m_hOnlyMutex
  /\ UNCHANGED <<index, handler, read, m_SvrStatus, m_hStopEvent, worker, scm>>

\* RUNNING, before there is any worker.
ReportRunning(p) ==
  /\ main[p] = "report"
  /\ m_SvrStatus' = [m_SvrStatus EXCEPT ![p] = "RUNNING"]
  /\ scm' = [scm EXCEPT ![p] = "RUNNING"]
  /\ main' = [main EXCEPT ![p] = "create"]
  /\ UNCHANGED <<index, handler, read, m_hStopEvent, m_hOnlyMutex, worker>>

\* Mutant: the loop runs once too often.
CreateWorkerOneMore(p) ==
  /\ main[p] = "create"
  /\ index[p] <= WorkCount + 1
  /\ UNCHANGED worker
  /\ index' = [index EXCEPT ![p] = @ + 1]
  /\ UNCHANGED <<main, handler, read, m_SvrStatus, m_hStopEvent, m_hOnlyMutex, scm>>

\* The loop that creates the workers; CreateThread may fail, which leaves a
\* NULL handle and nothing else.
CreateWorker(p) ==
  /\ main[p] = "create"
  /\ index[p] <= WorkCount
  /\ \E made \in {"started", "none"} : worker' = [worker EXCEPT ![p][index[p]] = made]
  /\ index' = [index EXCEPT ![p] = @ + 1]
  /\ UNCHANGED <<main, handler, read, m_SvrStatus, m_hStopEvent, m_hOnlyMutex, scm>>

\* WaitForSingleObject on the stop event returns.
StopSignalled(p) ==
  /\ main[p] = "create"
  /\ index[p] > WorkCount
  /\ m_hStopEvent[p]
  /\ main' = [main EXCEPT ![p] = "stop"]
  /\ index' = [index EXCEPT ![p] = 1]
  /\ UNCHANGED <<handler, read, m_SvrStatus, m_hStopEvent, m_hOnlyMutex, worker, scm>>

\* Mutant: a worker is told and not waited for.
StopWorkerNoWait(p) ==
  /\ main[p] = "stop"
  /\ index[p] <= WorkCount
  /\ IF worker[p][index[p]] = "working"
     THEN worker' = [worker EXCEPT ![p][index[p]] = "told"]
     ELSE UNCHANGED worker
  /\ index' = [index EXCEPT ![p] = @ + 1]
  /\ UNCHANGED <<main, handler, read, m_SvrStatus, m_hStopEvent, m_hOnlyMutex, scm>>

\* The loop that stops the workers: OpenEvent finds the event of a worker
\* that has made one, and the worker is told and waited for.  A worker whose
\* event is not there, not yet or no longer, is passed over.
StopWorker(p) ==
  /\ main[p] = "stop"
  /\ index[p] <= WorkCount
  /\ IF worker[p][index[p]] = "working"
     THEN /\ worker' = [worker EXCEPT ![p][index[p]] = "told"]
          /\ main' = [main EXCEPT ![p] = "join"]
          /\ UNCHANGED index
     ELSE /\ index' = [index EXCEPT ![p] = @ + 1]
          /\ UNCHANGED <<main, worker>>
  /\ UNCHANGED <<handler, read, m_SvrStatus, m_hStopEvent, m_hOnlyMutex, scm>>

JoinWorker(p) ==
  /\ main[p] = "join"
  /\ worker[p][index[p]] = "ended"
  /\ main' = [main EXCEPT ![p] = "stop"]
  /\ index' = [index EXCEPT ![p] = @ + 1]
  /\ UNCHANGED <<handler, read, m_SvrStatus, m_hStopEvent, m_hOnlyMutex, worker, scm>>

\* ReportSvcStatus(SERVICE_STOPPED) fills in m_SvrStatus ...
FillStopped(p) ==
  /\ \/ main[p] = "stopping"
     \/ main[p] = "stop" /\ index[p] > WorkCount
  /\ m_SvrStatus' = [m_SvrStatus EXCEPT ![p] = "STOPPED"]
  /\ main' = [main EXCEPT ![p] = "send"]
  /\ UNCHANGED <<index, handler, read, m_hStopEvent, m_hOnlyMutex, worker, scm>>

\* ... and sends what is in it.
SendStopped(p) ==
  /\ main[p] = "send"
  /\ scm' = [scm EXCEPT ![p] = Heard(p)]
  /\ main' = [main EXCEPT ![p] = "done"]
  /\ UNCHANGED <<index, handler, read, m_SvrStatus, m_hStopEvent, m_hOnlyMutex, worker>>

-----------------------------------------------------------------------------
(***************************************************************************)
(* SvcCtrlHandler.  Pause, continue and the other controls change nothing. *)
(***************************************************************************)

\* Mutant: the stop event is set before STOP_PENDING is reported.
StopControlSetsFirst(p) ==
  /\ scm[p] = "RUNNING"
  /\ handler[p] = "idle"
  /\ m_hStopEvent' = [m_hStopEvent EXCEPT ![p] = TRUE]
  /\ handler' = [handler EXCEPT ![p] = "read"]
  /\ UNCHANGED <<main, index, read, m_SvrStatus, m_hOnlyMutex, worker, scm>>

\* A stop control comes in and STOP_PENDING is reported.  The service thread
\* makes no report before the stop event is set, so this is one step.
StopControl(p) ==
  /\ scm[p] = "RUNNING"
  /\ handler[p] = "idle"
  /\ m_SvrStatus' = [m_SvrStatus EXCEPT ![p] = "STOP_PENDING"]
  /\ scm' = [scm EXCEPT ![p] = "STOP_PENDING"]
  /\ handler' = [handler EXCEPT ![p] = "set"]
  /\ UNCHANGED <<main, index, read, m_hStopEvent, m_hOnlyMutex, worker>>

\* Mutant: the event is not set.
SetStopEventForgets(p) ==
  /\ handler[p] = "set"
  /\ handler' = [handler EXCEPT ![p] = "read"]
  /\ UNCHANGED <<main, index, read, m_SvrStatus, m_hStopEvent, m_hOnlyMutex, worker, scm>>

SetStopEvent(p) ==
  /\ handler[p] = "set"
  /\ m_hStopEvent' = [m_hStopEvent EXCEPT ![p] = TRUE]
  /\ handler' = [handler EXCEPT ![p] = "read"]
  /\ UNCHANGED <<main, index, read, m_SvrStatus, m_hOnlyMutex, worker, scm>>

\* The second report repeats the state that m_SvrStatus holds: it reads it,
ReadStatus(p) ==
  /\ handler[p] = "read"
  /\ read' = [read EXCEPT ![p] = m_SvrStatus[p]]
  /\ handler' = [handler EXCEPT ![p] = "refill"]
  /\ UNCHANGED <<main, index, m_SvrStatus, m_hStopEvent, m_hOnlyMutex, worker, scm>>

\* writes it back
RefillStatus(p) ==
  /\ handler[p] = "refill"
  /\ m_SvrStatus' = [m_SvrStatus EXCEPT ![p] = read[p]]
  /\ handler' = [handler EXCEPT ![p] = "resend"]
  /\ UNCHANGED <<main, index, read, m_hStopEvent, m_hOnlyMutex, worker, scm>>

\* and sends it.
ResendStatus(p) ==
  /\ handler[p] = "resend"
  /\ scm' = [scm EXCEPT ![p] = Heard(p)]
  /\ handler' = [handler EXCEPT ![p] = "idle"]
  /\ UNCHANGED <<main, index, read, m_SvrStatus, m_hStopEvent, m_hOnlyMutex, worker>>

-----------------------------------------------------------------------------
(***************************************************************************)
(* A worker makes its event, ends when it is told, or ends by itself.      *)
(***************************************************************************)
WorkerMoves(p, i) ==
  /\ \/ /\ worker[p][i] = "started"
        /\ worker' = [worker EXCEPT ![p][i] = "working"]
     \/ /\ worker[p][i] \in {"started", "working"}
        /\ worker' = [worker EXCEPT ![p][i] = "ended"]
  /\ UNCHANGED <<main, index, handler, read, m_SvrStatus, m_hStopEvent, m_hOnlyMutex, scm>>

WorkerObeys(p, i) ==
  /\ worker[p][i] = "told"
  /\ worker' = [worker EXCEPT ![p][i] = "ended"]
  /\ UNCHANGED <<main, index, handler, read, m_SvrStatus, m_hStopEvent, m_hOnlyMutex, scm>>

ServiceThread(p) ==
  \/ ServiceMain(p)
  \/ CreateStopEvent(p)
  \/ CreateOnlyMutex(p)
  \/ ReportRunning(p)
  \/ CreateWorker(p)
  \/ StopSignalled(p)
  \/ StopWorker(p)
  \/ JoinWorker(p)
  \/ FillStopped(p)
  \/ SendStopped(p)

\* What SvcCtrlHandler owes once it has been called.
Handler(p) ==
  \/ SetStopEvent(p)
  \/ ReadStatus(p)
  \/ RefillStatus(p)
  \/ ResendStatus(p)

NTNext ==
  \E p \in Procs :
    \/ StartProcess(p)
    \/ ProcessExit(p)
    \/ ProcessDies(p)
    \/ ServiceThread(p)
    \/ StopControl(p)
    \/ Handler(p)
    \/ \E i \in Workers : WorkerMoves(p, i) \/ WorkerObeys(p, i)

NTSpec == NTInit /\ [][NTNext]_vars

\* The system schedules the service thread and the handler, and a worker that
\* has been told to end does.
NTFairSpec ==
  /\ NTSpec
  /\ \A p \in Procs :
       /\ WF_vars(ServiceThread(p))
       /\ WF_vars(Handler(p))
       /\ \A i \in Workers : WF_vars(WorkerObeys(p, i))

-----------------------------------------------------------------------------
(***************************************************************************)
(* Properties.                                                             *)
(***************************************************************************)

\* The services as the SCM sees them.
Life == INSTANCE ServiceLife WITH state <- scm

\* Threads, shared status record, events, mutex and workers together behave
\* like ServiceLife: the SCM's record goes round its four states in order,
\* and no process comes to RUNNING while another one, running or stopping,
\* is not through (NTService.cpp:127-198, :232-247).
ImplementsServiceLife == Life!LifeSpec

\* A service is at work while the SCM has it running or stopping, or any of
\* its workers runs, those it failed to stop included.
AtWork(p) ==
  \/ scm[p] \in {"RUNNING", "STOP_PENDING"}
  \/ \E i \in Workers : worker[p][i] \in {"started", "working", "told"}

\* At most one process with the mutex name is at work (NTService.cpp:139-152),
\* through any order of starts, refusals, stops and deaths, although a process
\* that was turned away keeps a handle on the mutex and a process that has
\* stopped may leave workers behind.
SingleInstance == \A p, q \in Procs : AtWork(p) /\ AtWork(q) => p = q

\* The changes of state the SCM may hear of.
Legal == {<<"STOPPED", "START_PENDING">>, <<"START_PENDING", "RUNNING">>,
          <<"START_PENDING", "STOPPED">>, <<"RUNNING", "STOP_PENDING">>,
          <<"STOP_PENDING", "STOPPED">>}

\* As long as the process lives, the SCM hears of its states in an order it
\* accepts: the two threads that report share one status record without a lock
\* (NTService.cpp:200-230), and neither repeats a state the service has left.
LegalTransitions ==
  [][\A p \in Procs :
       scm'[p] # scm[p] /\ main'[p] # "none" => <<scm[p], scm'[p]>> \in Legal]_vars

\* When the SCM hears STOPPED, no worker that has been told to end is still
\* running: each was waited for (NTService.cpp:182-184).
ToldWorkersEnd ==
  \A p \in Procs :
    main[p] # "none" /\ scm[p] = "STOPPED" => \A i \in Workers : worker[p][i] # "told"

\* A stop control that has been accepted brings Running to its end, however
\* many workers there are and whichever of them failed to start.
StopIsServed ==
  \A p \in Procs : handler[p] = "set" ~> main[p] \in {"done", "none"}

\* ReportSvcStatus(SERVICE_STOPPED) "Report[s] the status of the service to
\* the SCM" (NTService.cpp:228): when Running has returned, the SCM knows.
StoppedIsReported == \A p \in Procs : main[p] = "done" => scm[p] = "STOPPED"

=============================================================================
