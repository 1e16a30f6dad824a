--------------------------- MODULE NTService_proofs ---------------------------
(***************************************************************************)
(* Theorems about the service skeleton, for any number of processes and    *)
(* workers.                                                                *)
(*                                                                         *)
(* The inductive invariant is the type, what each position of the service  *)
(* thread says of the rest of its process (Phase), and who owns the mutex  *)
(* (Holding, OneOwner).  The last part shows that a stop is never stuck    *)
(* and takes a bounded number of steps.                                    *)
(***************************************************************************)
EXTENDS NTService, TLAPS

-----------------------------------------------------------------------------
(***************************************************************************)
(* The inductive invariant.                                                *)
(***************************************************************************)

\* A process that has not reported RUNNING.
Fresh(p) ==
  /\ scm[p] = "START_PENDING"
  /\ handler[p] = "idle"
  /\ ~ m_hStopEvent[p]
  /\ \A i \in Workers : worker[p][i] = "none"

Before == {"main", "event", "mutex", "report", "lost", "stopping"}
Ending == {"STOP_PENDING", "STOPPED"}

Absent(p) ==
  main[p] = "none" =>
    /\ scm[p] = "STOPPED"
    /\ handler[p] = "idle"
    /\ ~ m_hStopEvent[p]
    /\ index[p] = 1
    /\ \A i \in Workers : worker[p][i] = "none"

Serving(p) ==
  /\ main[p] \in Before => Fresh(p)
  /\ main[p] = "create" => scm[p] \in {"RUNNING", "STOP_PENDING"} /\ m_SvrStatus[p] = scm[p]
  /\ main[p] \in {"stop", "join"} => scm[p] = "STOP_PENDING" /\ m_SvrStatus[p] = "STOP_PENDING"
  /\ main[p] = "send" => \/ Fresh(p) /\ m_SvrStatus[p] = "STOPPED"
                         \/ scm[p] \in Ending /\ m_SvrStatus[p] \in Ending
  /\ main[p] = "done" => scm[p] \in Ending /\ m_SvrStatus[p] \in Ending

Handling(p) ==
  /\ handler[p] # "idle" => scm[p] \in Ending
  /\ handler[p] \in {"refill", "resend"} => read[p] \in Ending
  /\ handler[p] \in {"refill", "resend"} /\ main[p] \in {"create", "stop", "join"}
       => read[p] = "STOP_PENDING"
  /\ m_hStopEvent[p] => scm[p] \in Ending

Stopping(p) ==
  /\ main[p] = "join" => index[p] \in Workers
  /\ \A i \in Workers : worker[p][i] = "told" => main[p] = "join" /\ index[p] = i

Phase(p) == Absent(p) /\ Serving(p) /\ Handling(p) /\ Stopping(p)

\* The process that has got past the mutex.
Own(p) == main[p] \in {"report", "create", "stop", "join"} \/ AtWork(p)

Holding  == \A p \in Procs : Own(p) => m_hOnlyMutex[p]
OneOwner == \A p, q \in Procs : Own(p) /\ Own(q) => p = q

IInv ==
  /\ NTTypeOK
  /\ \A p \in Procs : Phase(p)
  /\ Holding
  /\ OneOwner

-----------------------------------------------------------------------------
(***************************************************************************)
(* A step changes one process.                                             *)
(***************************************************************************)
Step(p) ==
  \/ StartProcess(p)
  \/ main[p] # "none" /\ Gone(p)
  \/ ServiceThread(p)
  \/ StopControl(p)
  \/ Handler(p)
  \/ \E i \in Workers : WorkerMoves(p, i) \/ WorkerObeys(p, i)

\* Everything of process q stays as it is.
Same(q) ==
  /\ main'[q] = main[q]
  /\ index'[q] = index[q]
  /\ handler'[q] = handler[q]
  /\ read'[q] = read[q]
  /\ m_SvrStatus'[q] = m_SvrStatus[q]
  /\ m_hStopEvent'[q] = m_hStopEvent[q]
  /\ m_hOnlyMutex'[q] = m_hOnlyMutex[q]
  /\ worker'[q] = worker[q]
  /\ scm'[q] = scm[q]

LEMMA StepOfOne == [NTNext]_vars => UNCHANGED vars \/ \E p \in Procs : Step(p)
BY DEF NTNext, Step, ProcessExit, ProcessDies

LEMMA OthersSame ==
  ASSUME NTTypeOK, NEW p \in Procs, Step(p), NEW q \in Procs, q # p
  PROVE  Same(q)
<1> USE DEF NTTypeOK, Same
<1>1. CASE StartProcess(p)
  BY <1>1 DEF StartProcess
<1>2. CASE Gone(p)
  BY <1>2 DEF Gone
<1>3. CASE ServiceThread(p)
  <2>1. CASE ServiceMain(p) \/ CreateStopEvent(p) \/ CreateOnlyMutex(p) \/ ReportRunning(p)
    BY <2>1 DEF ServiceMain, CreateStopEvent, CreateOnlyMutex, ReportRunning
  <2>2. CASE CreateWorker(p)
    BY <2>2 DEF CreateWorker
  <2>3. CASE StopSignalled(p) \/ JoinWorker(p) \/ FillStopped(p) \/ SendStopped(p)
    BY <2>3 DEF StopSignalled, JoinWorker, FillStopped, SendStopped
  <2>4. CASE StopWorker(p)
    BY <2>4 DEF StopWorker
  <2> QED
    BY <1>3, <2>1, <2>2, <2>3, <2>4 DEF ServiceThread
<1>4. CASE StopControl(p) \/ Handler(p)
  BY <1>4 DEF StopControl, Handler, SetStopEvent, ReadStatus, RefillStatus, ResendStatus
<1>5. ASSUME NEW i \in Workers, WorkerMoves(p, i) \/ WorkerObeys(p, i) PROVE Same(q)
  BY <1>5 DEF WorkerMoves, WorkerObeys
<1> QED
  BY <1>1, <1>2, <1>3, <1>4, <1>5 DEF Step

-----------------------------------------------------------------------------
(***************************************************************************)
(* The type.                                                               *)
(***************************************************************************)
LEMMA TypeStep ==
  ASSUME NTTypeOK, NEW p \in Procs, Phase(p), Step(p)
  PROVE  NTTypeOK'
<1> USE WorkCountAssumption DEF NTTypeOK, Positions, States, WorkerStates, Workers, Heard
<1>1. CASE StartProcess(p)
  BY <1>1 DEF StartProcess
<1>2. CASE Gone(p)
  BY <1>2 DEF Gone
<1>3. CASE ServiceThread(p)
  <2>1. CASE ServiceMain(p) \/ CreateStopEvent(p)
    BY <2>1 DEF ServiceMain, CreateStopEvent
  <2>2. CASE CreateOnlyMutex(p)
    BY <2>2 DEF CreateOnlyMutex
  <2>3. CASE ReportRunning(p)
    BY <2>3 DEF ReportRunning
  <2>4. CASE CreateWorker(p)
    BY <2>4 DEF CreateWorker
  <2>5. CASE StopSignalled(p)
    BY <2>5 DEF StopSignalled
  <2>6. CASE StopWorker(p)
    <3>1. index[p] \in Workers
      BY <2>6 DEF StopWorker
    <3>2. CASE worker[p][index[p]] = "working"
      <4>1. /\ worker' = [worker EXCEPT ![p][index[p]] = "told"]
            /\ main' = [main EXCEPT ![p] = "join"]
            /\ index' = index
        BY <2>6, <3>2 DEF StopWorker
      <4>2. worker' \in [Procs -> [Workers -> WorkerStates]]
        BY <3>1, <4>1
      <4> QED
        BY <2>6, <4>1, <4>2 DEF StopWorker
    <3>3. CASE worker[p][index[p]] # "working"
      <4>1. /\ index' = [index EXCEPT ![p] = index[p] + 1]
            /\ main' = main
            /\ worker' = worker
        BY <2>6, <3>3 DEF StopWorker
      <4> QED
        BY <2>6, <3>1, <4>1 DEF StopWorker
    <3> QED
      BY <3>2, <3>3
  <2>7. CASE JoinWorker(p)
    BY <2>7 DEF JoinWorker, Phase, Stopping
  <2>8. CASE FillStopped(p) \/ SendStopped(p)
    BY <2>8 DEF FillStopped, SendStopped
  <2> QED
    BY <1>3, <2>1, <2>2, <2>3, <2>4, <2>5, <2>6, <2>7, <2>8 DEF ServiceThread
<1>4. CASE StopControl(p) \/ Handler(p)
  BY <1>4 DEF StopControl, Handler, SetStopEvent, ReadStatus, RefillStatus, ResendStatus
<1>5. ASSUME NEW i \in Workers, WorkerMoves(p, i) PROVE NTTypeOK'
  <2>1. \E state \in {"working", "ended"} : worker' = [worker EXCEPT ![p][i] = state]
    BY <1>5 DEF WorkerMoves
  <2>2. worker' \in [Procs -> [Workers -> WorkerStates]]
    BY <2>1
  <2> QED
    BY <1>5, <2>2 DEF WorkerMoves
<1>6. ASSUME NEW i \in Workers, WorkerObeys(p, i) PROVE NTTypeOK'
  BY <1>6 DEF WorkerObeys
<1> QED
  BY <1>1, <1>2, <1>3, <1>4, <1>5, <1>6 DEF Step

-----------------------------------------------------------------------------
(***************************************************************************)
(* The phases of a process.                                                *)
(***************************************************************************)
LEMMA PhaseUnchanged ==
  ASSUME NEW q \in Procs, Phase(q), Same(q)
  PROVE  Phase(q)'
BY DEF Same, Phase, Absent, Serving, Handling, Stopping, Fresh

\* The service thread keeps the phase of its process.
LEMMA ServiceThreadPhase ==
  ASSUME NTTypeOK, NEW p \in Procs, Phase(p), ServiceThread(p)
  PROVE  Phase(p)'
<1> USE WorkCountAssumption
    DEF NTTypeOK, Phase, Absent, Serving, Handling, Stopping, Fresh, Before, Ending, Workers
<1>1. CASE ServiceMain(p)
  BY <1>1 DEF ServiceMain
<1>2. CASE CreateStopEvent(p)
  BY <1>2 DEF CreateStopEvent
<1>3. CASE CreateOnlyMutex(p)
  BY <1>3 DEF CreateOnlyMutex
<1>4. CASE ReportRunning(p)
  BY <1>4 DEF ReportRunning
<1>5. CASE CreateWorker(p)
  <2>1. \A i \in Workers : worker'[p][i] # "told"
    BY <1>5 DEF CreateWorker
  <2> QED
    BY <1>5, <2>1 DEF CreateWorker
<1>6. CASE StopSignalled(p)
  BY <1>6 DEF StopSignalled
<1>7. CASE StopWorker(p)
  <2>1. index[p] \in Workers
    BY <1>7 DEF StopWorker
  <2>2. CASE worker[p][index[p]] = "working"
    BY <1>7, <2>1, <2>2 DEF StopWorker
  <2>3. CASE worker[p][index[p]] # "working"
    BY <1>7, <2>1, <2>3 DEF StopWorker
  <2> QED
    BY <2>2, <2>3
<1>8. CASE JoinWorker(p)
  BY <1>8 DEF JoinWorker
<1>9. CASE FillStopped(p)
  BY <1>9 DEF FillStopped
<1>10. CASE SendStopped(p)
  BY <1>10 DEF SendStopped, Heard
<1> QED
  BY <1>1, <1>2, <1>3, <1>4, <1>5, <1>6, <1>7, <1>8, <1>9, <1>10 DEF ServiceThread

\* So do the handler, the workers and the process itself.
LEMMA OtherStepsPhase ==
  ASSUME NTTypeOK, NEW p \in Procs, Phase(p), Step(p), ~ ServiceThread(p)
  PROVE  Phase(p)'
<1> USE WorkCountAssumption
    DEF NTTypeOK, Phase, Absent, Serving, Handling, Stopping, Fresh, Before, Ending, Workers
<1>1. CASE StartProcess(p)
  BY <1>1 DEF StartProcess
<1>2. CASE Gone(p)
  BY <1>2 DEF Gone
<1>3. CASE StopControl(p)
  <2>1. main[p] = "create"
    BY <1>3 DEF StopControl, Positions
  <2> QED
    BY <1>3, <2>1 DEF StopControl
<1>4. CASE SetStopEvent(p)
  BY <1>4 DEF SetStopEvent
<1>5. CASE ReadStatus(p)
  BY <1>5 DEF ReadStatus, Positions
<1>6. CASE RefillStatus(p)
  BY <1>6 DEF RefillStatus, Positions
<1>7. CASE ResendStatus(p)
  BY <1>7 DEF ResendStatus, Heard, Positions
<1>8. ASSUME NEW i \in Workers, WorkerMoves(p, i) PROVE Phase(p)'
  <2>1. PICK state \in {"working", "ended"} :
          /\ worker[p][i] # "none"
          /\ worker' = [worker EXCEPT ![p][i] = state]
    BY <1>8 DEF WorkerMoves
  <2>2. \A j \in Workers : worker'[p][j] = IF i = j THEN state ELSE worker[p][j]
    BY <2>1
  <2> QED
    BY <1>8, <2>1, <2>2 DEF WorkerMoves
<1>9. ASSUME NEW i \in Workers, WorkerObeys(p, i) PROVE Phase(p)'
  BY <1>9 DEF WorkerObeys
<1> QED
  BY <1>1, <1>2, <1>3, <1>4, <1>5, <1>6, <1>7, <1>8, <1>9 DEF Step, Handler

LEMMA PhaseStep ==
  ASSUME NTTypeOK, \A q \in Procs : Phase(q), NEW p \in Procs, Step(p)
  PROVE  \A q \in Procs : Phase(q)'
<1> SUFFICES ASSUME NEW q \in Procs PROVE Phase(q)'
  OBVIOUS
<1>1. CASE q = p
  BY <1>1, ServiceThreadPhase, OtherStepsPhase
<1>2. CASE q # p
  BY <1>2, OthersSame, PhaseUnchanged
<1> QED
  BY <1>1, <1>2

-----------------------------------------------------------------------------
(***************************************************************************)
(* The owner of the mutex.                                                 *)
(***************************************************************************)

\* Only CreateOnlyMutex makes an owner, and only when no process has a handle
\* on the mutex; an owner keeps its handle.
LEMMA OwnStep ==
  ASSUME NTTypeOK, NEW p \in Procs, Phase(p), Phase(p)', Step(p)
  PROVE  \/ Own(p)' => Own(p) /\ (m_hOnlyMutex[p] => m_hOnlyMutex'[p])
         \/ m_hOnlyMutex'[p] /\ \A q \in Procs : ~ m_hOnlyMutex[q]
<1> USE DEF NTTypeOK, Own, AtWork
<1>1. CASE StartProcess(p)
  BY <1>1 DEF StartProcess, Phase, Absent
<1>2. CASE Gone(p)
  BY <1>2 DEF Gone
<1>3. CASE CreateOnlyMutex(p)
  <2>1. Fresh(p)
    BY <1>3 DEF CreateOnlyMutex, Phase, Serving, Before
  <2>2. CASE \E q \in Procs : m_hOnlyMutex[q]
    <3>1. main'[p] = "stopping" /\ scm'[p] = "START_PENDING" /\ worker'[p] = worker[p]
      BY <1>3, <2>1, <2>2 DEF CreateOnlyMutex, Fresh
    <3> QED
      BY <2>1, <3>1 DEF Fresh
  <2>3. CASE \A q \in Procs : ~ m_hOnlyMutex[q]
    BY <1>3, <2>1, <2>3 DEF CreateOnlyMutex, Fresh
  <2> QED
    BY <2>2, <2>3
<1>4. CASE ServiceMain(p) \/ CreateStopEvent(p)
  BY <1>4 DEF ServiceMain, CreateStopEvent
<1>5. CASE ReportRunning(p) \/ StopSignalled(p) \/ JoinWorker(p) \/ FillStopped(p)
  BY <1>5 DEF ReportRunning, StopSignalled, JoinWorker, FillStopped
<1>6. CASE CreateWorker(p) \/ StopWorker(p)
  BY <1>6 DEF CreateWorker, StopWorker
<1>7. CASE SendStopped(p)
  <2>1. main'[p] = "done" /\ worker'[p] = worker[p] /\ m_hOnlyMutex'[p] = m_hOnlyMutex[p]
    BY <1>7 DEF SendStopped
  <2>2. scm'[p] \in {"RUNNING", "STOP_PENDING"} => scm[p] \in {"RUNNING", "STOP_PENDING"}
    BY <1>7 DEF SendStopped, Heard, Phase, Serving, Fresh, Ending
  <2> QED
    BY <2>1, <2>2
<1>8. CASE StopControl(p) \/ SetStopEvent(p) \/ ReadStatus(p) \/ RefillStatus(p)
  BY <1>8 DEF StopControl, SetStopEvent, ReadStatus, RefillStatus
<1>9. CASE ResendStatus(p)
  <2>1. main'[p] = main[p] /\ worker'[p] = worker[p] /\ m_hOnlyMutex'[p] = m_hOnlyMutex[p]
    BY <1>9 DEF ResendStatus
  <2>2. scm'[p] \in {"RUNNING", "STOP_PENDING"} => scm[p] \in {"RUNNING", "STOP_PENDING"}
    BY <1>9 DEF ResendStatus, Heard, Phase, Handling, Ending
  <2> QED
    BY <2>1, <2>2
<1>10. ASSUME NEW i \in Workers, WorkerMoves(p, i) \/ WorkerObeys(p, i)
       PROVE  Own(p)' => Own(p) /\ (m_hOnlyMutex[p] => m_hOnlyMutex'[p])
  <2>1. /\ main' = main /\ scm' = scm /\ m_hOnlyMutex' = m_hOnlyMutex
        /\ worker[p][i] \in {"started", "working", "told"}
    BY <1>10 DEF WorkerMoves, WorkerObeys
  <2> QED
    BY <2>1
<1> QED
  BY <1>1, <1>2, <1>3, <1>4, <1>5, <1>6, <1>7, <1>8, <1>9, <1>10
     DEF Step, ServiceThread, Handler

LEMMA OwnUnchanged ==
  ASSUME NEW q \in Procs, Same(q)
  PROVE  (Own(q)' <=> Own(q)) /\ m_hOnlyMutex'[q] = m_hOnlyMutex[q]
BY DEF Same, Own, AtWork

LEMMA OwnerStep ==
  ASSUME IInv, NEW p \in Procs, Step(p), Phase(p)'
  PROVE  Holding' /\ OneOwner'
<1>1. \A q \in Procs : q # p => (Own(q)' <=> Own(q)) /\ m_hOnlyMutex'[q] = m_hOnlyMutex[q]
  BY OthersSame, OwnUnchanged DEF IInv
<1>2. \/ Own(p)' => Own(p) /\ (m_hOnlyMutex[p] => m_hOnlyMutex'[p])
      \/ m_hOnlyMutex'[p] /\ \A q \in Procs : ~ m_hOnlyMutex[q]
  BY OwnStep DEF IInv
<1>3. \A q \in Procs : Own(q) => m_hOnlyMutex[q]
  BY DEF IInv, Holding
<1>4. \A q, r \in Procs : Own(q) /\ Own(r) => q = r
  BY DEF IInv, OneOwner
<1>5. \A q \in Procs : Own(q)' => m_hOnlyMutex'[q]
  BY <1>1, <1>2, <1>3
<1>6. \A q, r \in Procs : Own(q)' /\ Own(r)' => q = r
  BY <1>1, <1>2, <1>3, <1>4
<1> QED
  BY <1>5, <1>6 DEF Holding, OneOwner

-----------------------------------------------------------------------------
LEMMA InitIInv == NTInit => IInv
<1> SUFFICES ASSUME NTInit PROVE IInv
  OBVIOUS
<1>1. NTTypeOK
  BY WorkCountAssumption DEF NTInit, NTTypeOK, Positions, States, WorkerStates, Workers
<1>2. \A p \in Procs : Phase(p)
  BY DEF NTInit, Phase, Absent, Serving, Handling, Stopping, Before
<1>3. \A p \in Procs : ~ Own(p)
  BY DEF NTInit, Own, AtWork
<1> QED
  BY <1>1, <1>2, <1>3 DEF IInv, Holding, OneOwner

LEMMA StutterIInv == IInv /\ UNCHANGED vars => IInv'
BY DEF vars, IInv, NTTypeOK, Phase, Absent, Serving, Handling, Stopping, Fresh,
       Holding, OneOwner, Own, AtWork

LEMMA NextIInv == IInv /\ [NTNext]_vars => IInv'
<1> SUFFICES ASSUME IInv, [NTNext]_vars PROVE IInv'
  OBVIOUS
<1>1. CASE UNCHANGED vars
  BY <1>1, StutterIInv
<1>2. ASSUME NEW p \in Procs, Step(p) PROVE IInv'
  <2>1. NTTypeOK /\ \A q \in Procs : Phase(q)
    BY DEF IInv
  <2>2. NTTypeOK'
    BY <1>2, <2>1, TypeStep
  <2>3. \A q \in Procs : Phase(q)'
    BY <1>2, <2>1, PhaseStep
  <2>4. Holding' /\ OneOwner'
    BY <1>2, <2>3, OwnerStep
  <2> QED
    BY <2>2, <2>3, <2>4 DEF IInv
<1> QED
  BY <1>1, <1>2, StepOfOne

LEMMA Inductive == NTSpec => []IInv
BY InitIInv, NextIInv, PTL DEF NTSpec

-----------------------------------------------------------------------------
(***************************************************************************)
(* The theorems.                                                           *)
(***************************************************************************)

\* Every variable keeps its type (the members of CNTService and the positions
\* of its threads).
THEOREM NTTypeCorrect == NTSpec => []NTTypeOK
BY Inductive, PTL DEF IInv

\* However many processes share the mutex name, at most one of them is at
\* work (NTService.cpp:139-152).
THEOREM OneInstance == NTSpec => []SingleInstance
<1>1. IInv => SingleInstance
  BY DEF IInv, OneOwner, Own, SingleInstance
<1> QED
  BY <1>1, Inductive, PTL

\* However many workers there are, each one that has been told to end was
\* waited for before the SCM hears STOPPED (NTService.cpp:174-197).
THEOREM ToldAreWaitedFor == NTSpec => []ToldWorkersEnd
<1>1. IInv => ToldWorkersEnd
  BY DEF IInv, Phase, Serving, Stopping, ToldWorkersEnd
<1> QED
  BY <1>1, Inductive, PTL

\* A step of process p changes its state, as the SCM has it, legally.
LEMMA LegalStep ==
  ASSUME NTTypeOK, NEW p \in Procs, Phase(p), Step(p),
         scm'[p] # scm[p], main'[p] # "none"
  PROVE  <<scm[p], scm'[p]>> \in Legal
<1> USE DEF NTTypeOK, Legal
<1>1. CASE StartProcess(p)
  BY <1>1 DEF StartProcess, Phase, Absent
<1>2. CASE Gone(p)
  BY <1>2 DEF Gone
<1>3. CASE ReportRunning(p)
  BY <1>3 DEF ReportRunning, Phase, Serving, Fresh, Before
<1>4. CASE SendStopped(p)
  BY <1>4 DEF SendStopped, Heard, Phase, Serving, Fresh, Ending
<1>5. CASE StopControl(p)
  BY <1>5 DEF StopControl
<1>6. CASE ResendStatus(p)
  <2>1. scm[p] = "STOP_PENDING" /\ scm'[p] = m_SvrStatus[p]
    BY <1>6 DEF ResendStatus, Heard, Phase, Handling, Ending
  <2>2. m_SvrStatus[p] \in Ending
    BY <1>6, <2>1 DEF ResendStatus, Phase, Absent, Serving, Handling, Fresh, Before,
                      Ending, Positions
  <2> QED
    BY <2>1, <2>2 DEF Ending
<1> QED
  BY <1>1, <1>2, <1>3, <1>4, <1>5, <1>6
     DEF Step, ServiceThread, Handler, ServiceMain, CreateStopEvent, CreateOnlyMutex,
         CreateWorker, StopSignalled, StopWorker, JoinWorker, FillStopped,
         SetStopEvent, ReadStatus, RefillStatus, WorkerMoves, WorkerObeys

\* The SCM hears of a process's states in an order it accepts, although two
\* threads report through one unlocked record (NTService.cpp:200-248).
THEOREM StatusIsLegal == NTSpec => LegalTransitions
<1> DEFINE Changes ==
      \A p \in Procs :
        scm'[p] # scm[p] /\ main'[p] # "none" => <<scm[p], scm'[p]>> \in Legal
<1>1. IInv /\ [NTNext]_vars => [Changes]_vars
  <2> SUFFICES ASSUME IInv, [NTNext]_vars, ~ UNCHANGED vars PROVE Changes
    OBVIOUS
  <2>1. PICK p \in Procs : Step(p)
    BY StepOfOne
  <2>2. \A q \in Procs : q # p => scm'[q] = scm[q]
    BY <2>1, OthersSame DEF IInv, Same
  <2>3. scm'[p] # scm[p] /\ main'[p] # "none" => <<scm[p], scm'[p]>> \in Legal
    BY <2>1, LegalStep DEF IInv
  <2> QED
    BY <2>2, <2>3
<1> QED
  BY <1>1, Inductive, PTL DEF NTSpec, LegalTransitions

-----------------------------------------------------------------------------
(***************************************************************************)
(* The refinement of ServiceLife.                                          *)
(***************************************************************************)

\* A step of process p rewrites its own entry of the SCM's record, or none.
LEMMA RecordOfOne ==
  ASSUME NTTypeOK, NEW p \in Procs, Step(p)
  PROVE  scm' = [scm EXCEPT ![p] = scm'[p]]
<1> USE DEF NTTypeOK
<1>1. CASE StartProcess(p) \/ Gone(p)
  BY <1>1 DEF StartProcess, Gone
<1>2. CASE ReportRunning(p) \/ SendStopped(p) \/ StopControl(p) \/ ResendStatus(p)
  BY <1>2 DEF ReportRunning, SendStopped, StopControl, ResendStatus
<1>3. CASE UNCHANGED scm
  BY <1>3
<1> QED
  BY <1>1, <1>2, <1>3
     DEF Step, ServiceThread, Handler, ServiceMain, CreateStopEvent, CreateOnlyMutex,
         CreateWorker, StopSignalled, StopWorker, JoinWorker, FillStopped,
         SetStopEvent, ReadStatus, RefillStatus, WorkerMoves, WorkerObeys

\* A process that comes to RUNNING is alone with it: it owns the mutex.
LEMMA ServesAlone ==
  ASSUME IInv, NEW p \in Procs, Step(p), scm[p] = "START_PENDING", scm'[p] = "RUNNING"
  PROVE  \A q \in Procs : ~ Life!Serving(q)
<1>1. NTTypeOK /\ Phase(p)
  BY DEF IInv
<1>2. Own(p)
  <2>1. CASE ReportRunning(p)
    BY <2>1 DEF ReportRunning, Own
  <2>2. CASE SendStopped(p)
    BY <1>1, <2>2 DEF SendStopped, Heard, Phase, Serving, Fresh, Ending
  <2>3. CASE ResendStatus(p)
    BY <1>1, <2>3 DEF ResendStatus, Phase, Handling, Ending
  <2>4. CASE StartProcess(p) \/ Gone(p) \/ StopControl(p)
    BY <1>1, <2>4 DEF NTTypeOK, StartProcess, Gone, StopControl
  <2>5. CASE UNCHANGED scm
    BY <2>5
  <2> QED
    BY <2>1, <2>2, <2>3, <2>4, <2>5
       DEF Step, ServiceThread, Handler, ServiceMain, CreateStopEvent, CreateOnlyMutex,
           CreateWorker, StopSignalled, StopWorker, JoinWorker, FillStopped,
           SetStopEvent, ReadStatus, RefillStatus, WorkerMoves, WorkerObeys
<1>3. \A q \in Procs : Own(q) => q = p
  BY <1>2 DEF IInv, OneOwner
<1> QED
  BY <1>3 DEF Life!Serving, Own, AtWork

LEMMA LifeStep ==
  ASSUME IInv, NEW p \in Procs, Step(p), scm'[p] # scm[p]
  PROVE  Life!LifeNext
<1> USE DEF Life!LifeNext, Life!ServiceMoves, Life!Moves
<1>1. NTTypeOK /\ Phase(p) /\ scm' = [scm EXCEPT ![p] = scm'[p]]
  BY RecordOfOne DEF IInv
<1>2. CASE scm'[p] = "STOPPED"
  <2>1. scm[p] \in {"START_PENDING", "RUNNING", "STOP_PENDING"}
    BY <1>1, <1>2 DEF NTTypeOK, States
  <2> QED
    BY <1>1, <1>2, <2>1 DEF Life!GiveUp, Life!Finish, Life!Die
<1>3. CASE scm'[p] # "STOPPED"
  <2>1. main'[p] # "none"
    BY <1>1, <1>3 DEF NTTypeOK, Step, StartProcess, Gone, ServiceThread, Handler,
         StopControl, ServiceMain, CreateStopEvent, CreateOnlyMutex, ReportRunning,
         CreateWorker, StopSignalled, StopWorker, JoinWorker, FillStopped, SendStopped,
         SetStopEvent, ReadStatus, RefillStatus, ResendStatus, WorkerMoves,
         WorkerObeys, Phase, Absent, Heard
  <2>2. <<scm[p], scm'[p]>> \in Legal
    BY <1>1, <2>1, LegalStep
  <2>3. CASE scm[p] = "START_PENDING" /\ scm'[p] = "RUNNING"
    BY <1>1, <2>3, ServesAlone DEF Life!Serve
  <2>4. CASE scm[p] = "STOPPED" /\ scm'[p] = "START_PENDING"
    BY <1>1, <2>4 DEF Life!Start
  <2>5. CASE scm[p] = "RUNNING" /\ scm'[p] = "STOP_PENDING"
    BY <1>1, <2>5 DEF Life!AcceptStop
  <2> QED
    BY <1>3, <2>2, <2>3, <2>4, <2>5 DEF Legal
<1> QED
  BY <1>2, <1>3

\* The service skeleton implements the life of a service as the SCM knows it,
\* for any number of processes with one mutex name (NTService.cpp:106-248).
THEOREM ServiceImplementsLife == NTSpec => ImplementsServiceLife
<1>1. NTInit => Life!LifeInit
  BY DEF NTInit, Life!LifeInit
<1>2. IInv /\ [NTNext]_vars => [Life!LifeNext]_scm
  <2> SUFFICES ASSUME IInv, [NTNext]_vars PROVE [Life!LifeNext]_scm
    OBVIOUS
  <2>1. CASE UNCHANGED vars
    BY <2>1 DEF vars
  <2>2. ASSUME NEW p \in Procs, Step(p) PROVE [Life!LifeNext]_scm
    <3>1. CASE scm'[p] # scm[p]
      BY <2>2, <3>1, LifeStep
    <3>2. CASE scm'[p] = scm[p]
      BY <2>2, <3>2, RecordOfOne DEF IInv, NTTypeOK
    <3> QED
      BY <3>1, <3>2
  <2> QED
    BY <2>1, <2>2, StepOfOne
<1> QED
  BY <1>1, <1>2, Inductive, PTL DEF NTSpec, ImplementsServiceLife, Life!LifeSpec

-----------------------------------------------------------------------------
(***************************************************************************)
(* One service at a time.                                                  *)
(***************************************************************************)

\* ServiceLife keeps what it promises: the services with one mutex name serve
\* one at a time.
THEOREM LifeServesOne == Life!LifeSpec => [](Life!LifeTypeOK /\ Life!OneServes)
<1> DEFINE LInv == Life!LifeTypeOK /\ Life!OneServes
<1> USE DEF Life!LifeTypeOK, Life!OneServes, Life!Serving, Life!States
<1>1. Life!LifeInit => LInv
  BY DEF Life!LifeInit
<1>2. LInv /\ [Life!LifeNext]_scm => LInv'
  <2> SUFFICES ASSUME LInv, [Life!LifeNext]_scm PROVE LInv'
    OBVIOUS
  <2>1. CASE UNCHANGED scm
    BY <2>1
  <2>2. ASSUME NEW p \in Procs, Life!Serve(p) PROVE LInv'
    BY <2>2 DEF Life!Serve, Life!Moves
  <2>3. ASSUME NEW p \in Procs,
               Life!Start(p) \/ Life!AcceptStop(p) \/ Life!GiveUp(p) \/ Life!Finish(p)
                 \/ Life!Die(p)
        PROVE  LInv'
    <3>1. PICK s \in Life!States : /\ scm' = [scm EXCEPT ![p] = s]
                                   /\ s \in {"RUNNING", "STOP_PENDING"} => Life!Serving(p)
      BY <2>3 DEF Life!Start, Life!AcceptStop, Life!GiveUp, Life!Finish, Life!Die,
                  Life!Moves
    <3>2. Life!LifeTypeOK'
      BY <3>1
    <3>3. \A q \in Procs : Life!Serving(q)' => Life!Serving(q)
      BY <3>1
    <3> QED
      BY <3>2, <3>3
  <2> QED
    BY <2>1, <2>2, <2>3 DEF Life!LifeNext, Life!ServiceMoves
<1> QED
  BY <1>1, <1>2, PTL DEF Life!LifeSpec

\* So do the processes of NTService, as the SCM has them on record
\* (NTService.cpp:139-152).
THEOREM OneServiceServes == NTSpec => []Life!OneServes
BY ServiceImplementsLife, LifeServesOne, PTL DEF ImplementsServiceLife

-----------------------------------------------------------------------------
(***************************************************************************)
(* A stop gets on.  That it comes to its end, StopIsServed, needs fairness *)
(* and stays with TLC.  What carries it is proved here: between the stop   *)
(* control and the return of Running some thread that owes a step can      *)
(* always take it, and every such step, and no other, is one of a bounded  *)
(* number (StopLeft) that is left.                                         *)
(***************************************************************************)

\* The handler will set the stop event, or has.
Asked(p) == handler[p] = "set" \/ m_hStopEvent[p]

\* Running waits for a worker that it has told, and a STOP_PENDING is never
\* forgotten.
Waiting(p) ==
  /\ main[p] = "join" => worker[p][index[p]] \in {"told", "ended"}
  /\ scm[p] = "STOP_PENDING" => Asked(p)

AllWaiting == \A p \in Procs : Waiting(p)

LEMMA WaitingOfOne ==
  ASSUME NTTypeOK, NEW p \in Procs, Phase(p), Waiting(p), Step(p)
  PROVE  Waiting(p)'
<1> USE WorkCountAssumption DEF NTTypeOK, Waiting, Asked, Workers
<1>1. CASE StartProcess(p) \/ Gone(p)
  BY <1>1 DEF StartProcess, Gone
<1>2. CASE ServiceMain(p) \/ CreateStopEvent(p) \/ CreateOnlyMutex(p) \/ ReportRunning(p)
  BY <1>2 DEF ServiceMain, CreateStopEvent, CreateOnlyMutex, ReportRunning
<1>3. CASE CreateWorker(p)
  <2>1. /\ main'[p] = "create"
        /\ UNCHANGED <<scm, handler, m_hStopEvent>>
    BY <1>3 DEF CreateWorker
  <2> QED
    BY <2>1
<1>4. CASE StopSignalled(p) \/ JoinWorker(p) \/ FillStopped(p)
  BY <1>4 DEF StopSignalled, JoinWorker, FillStopped
<1>5. CASE StopWorker(p)
  <2>1. index[p] \in Workers
    BY <1>5 DEF StopWorker
  <2>2. CASE worker[p][index[p]] = "working"
    <3>1. worker'[p][index'[p]] = "told"
      BY <1>5, <2>1, <2>2 DEF StopWorker
    <3> QED
      BY <1>5, <3>1 DEF StopWorker
  <2>3. CASE worker[p][index[p]] # "working"
    BY <1>5, <2>3 DEF StopWorker
  <2> QED
    BY <2>2, <2>3
<1>6. CASE SendStopped(p)
  <2>1. scm'[p] = "STOP_PENDING" => scm[p] = "STOP_PENDING"
    BY <1>6 DEF SendStopped, Heard, Phase, Serving, Fresh, Ending
  <2> QED
    BY <1>6, <2>1 DEF SendStopped
<1>7. CASE StopControl(p) \/ SetStopEvent(p) \/ ReadStatus(p) \/ RefillStatus(p)
  BY <1>7 DEF StopControl, SetStopEvent, ReadStatus, RefillStatus
<1>8. CASE ResendStatus(p)
  <2>1. scm'[p] = "STOP_PENDING" => scm[p] = "STOP_PENDING"
    BY <1>8 DEF ResendStatus, Heard, Phase, Handling, Ending
  <2> QED
    BY <1>8, <2>1 DEF ResendStatus
<1>9. ASSUME NEW i \in Workers, WorkerMoves(p, i) \/ WorkerObeys(p, i) PROVE Waiting(p)'
  <2>1. /\ UNCHANGED <<main, index, scm, handler, m_hStopEvent>>
        /\ worker'[p][i] = "ended" \/ worker[p][i] = "started"
        /\ \A j \in Workers : j # i => worker'[p][j] = worker[p][j]
    BY <1>9 DEF WorkerMoves, WorkerObeys
  <2>2. main[p] = "join" => index[p] \in Workers
    BY DEF Phase, Stopping
  <2> QED
    BY <2>1, <2>2
<1> QED
  BY <1>1, <1>2, <1>3, <1>4, <1>5, <1>6, <1>7, <1>8, <1>9
     DEF Step, ServiceThread, Handler

LEMMA WaitingKept == NTSpec => []AllWaiting
<1>1. NTInit => AllWaiting
  BY DEF NTInit, AllWaiting, Waiting, Asked
<1>2. IInv /\ AllWaiting /\ [NTNext]_vars => AllWaiting'
  <2> SUFFICES ASSUME IInv, AllWaiting, [NTNext]_vars, NEW q \in Procs
               PROVE  Waiting(q)'
    BY DEF AllWaiting
  <2>1. CASE UNCHANGED vars
    BY <2>1 DEF vars, AllWaiting, Waiting, Asked
  <2>2. ASSUME NEW p \in Procs, Step(p) PROVE Waiting(q)'
    <3>1. CASE q = p
      BY <2>2, <3>1, WaitingOfOne DEF IInv, AllWaiting
    <3>2. CASE q # p
      <4>1. Same(q)
        BY <2>2, <3>2, OthersSame DEF IInv
      <4> QED
        BY <4>1 DEF Same, AllWaiting, Waiting, Asked
    <3> QED
      BY <3>1, <3>2
  <2> QED
    BY <2>1, <2>2, StepOfOne
<1> QED
  BY <1>1, <1>2, Inductive, PTL DEF NTSpec

\* The steps that somebody owes a service that is to stop: the handler its
\* SetEvent, Running its next step, the worker that was told its end.
StopOpen(p) ==
  \/ handler[p] = "set"
  \/ main[p] = "create" /\ (index[p] <= WorkCount \/ m_hStopEvent[p])
  \/ main[p] \in {"stop", "send"}
  \/ main[p] = "join" /\ worker[p][index[p]] \in {"told", "ended"}

StopNeverStuck ==
  \A p \in Procs : scm[p] = "STOP_PENDING" => main[p] = "done" \/ StopOpen(p)

\* A service that the SCM has in STOP_PENDING has returned from Running, or one
\* of its threads can take a step it owes: neither the wait for the stop event
\* (NTService.cpp:168) nor the wait for a worker (NTService.cpp:184) is for
\* something that nobody will do.
THEOREM AStopIsNeverStuck == NTSpec => []StopNeverStuck
<1>1. IInv /\ AllWaiting => StopNeverStuck
  <2> SUFFICES ASSUME IInv, AllWaiting, NEW p \in Procs, scm[p] = "STOP_PENDING",
                      main[p] # "done"
               PROVE  StopOpen(p)
    BY DEF StopNeverStuck
  <2>1. NTTypeOK /\ Phase(p) /\ Waiting(p)
    BY DEF IInv, AllWaiting
  <2>2. main[p] \in {"create", "stop", "join", "send"}
    BY <2>1 DEF NTTypeOK, Positions, Phase, Absent, Serving, Before, Fresh
  <2> QED
    BY <2>1, <2>2 DEF StopOpen, Waiting, Asked
<1> QED
  BY <1>1, Inductive, WaitingKept, PTL

\* How many steps are left before Running returns, at most.
StopLeft(p) ==
  (IF handler[p] = "set" THEN 1 ELSE 0) +
  CASE main[p] = "create" -> 4 * WorkCount + 4 - index[p]
    [] main[p] = "stop"   -> 3 * WorkCount + 5 - 3 * index[p]
    [] main[p] = "join"   -> 3 * WorkCount + 3 - 3 * index[p] +
                             (IF worker[p][index[p]] = "told" THEN 1 ELSE 0)
    [] main[p] = "send"   -> 1
    [] OTHER              -> 0

\* The steps that StopLeft counts.
StopStep(p) ==
  \/ SetStopEvent(p)
  \/ ServiceThread(p)
  \/ \E i \in Workers : WorkerObeys(p, i)

StopGoesOn ==
  [][\A p \in Procs :
       scm[p] = "STOP_PENDING" /\ main[p] # "done" /\ main'[p] # "none" =>
         /\ StopLeft(p)' <= StopLeft(p)
         /\ StopStep(p) => StopLeft(p)' < StopLeft(p)]_vars

StopIsCounted == \A p \in Procs : StopLeft(p) \in Nat

LEMMA StopLeftNat == IInv => StopIsCounted
BY WorkCountAssumption DEF IInv, NTTypeOK, StopIsCounted, StopLeft, Phase, Stopping, Workers

LEMMA StopStepCounts ==
  ASSUME NTTypeOK, NEW p \in Procs, Phase(p), Waiting(p), StopStep(p),
         scm[p] = "STOP_PENDING"
  PROVE  StopLeft(p)' < StopLeft(p)
<1> USE WorkCountAssumption DEF NTTypeOK, StopLeft, Workers
<1>0. main[p] \notin Before
  BY DEF Phase, Serving, Fresh
<1>1. CASE SetStopEvent(p)
  <2> DEFINE Rest ==
        CASE main[p] = "create" -> 4 * WorkCount + 4 - index[p]
          [] main[p] = "stop"   -> 3 * WorkCount + 5 - 3 * index[p]
          [] main[p] = "join"   -> 3 * WorkCount + 3 - 3 * index[p] +
                                   (IF worker[p][index[p]] = "told" THEN 1 ELSE 0)
          [] main[p] = "send"   -> 1
          [] OTHER              -> 0
  <2>1. UNCHANGED <<main, index, worker>> /\ handler[p] = "set" /\ handler'[p] = "read"
    BY <1>1 DEF SetStopEvent
  <2>2. Rest \in Int
    <3>1. WorkCount \in Int /\ index[p] \in Int
      OBVIOUS
    <3>2. 3 * WorkCount + 3 - 3 * index[p] \in Int
      BY <3>1
    <3>3. 3 * WorkCount + 5 - 3 * index[p] \in Int
      BY <3>1
    <3>4. 4 * WorkCount + 4 - index[p] \in Int
      BY <3>1
    <3> QED
      BY <3>2, <3>3, <3>4
  <2>3. StopLeft(p) = 1 + Rest /\ StopLeft(p)' = 0 + Rest
    BY <2>1
  <2> QED
    BY <2>2, <2>3
<1>2. CASE ServiceMain(p) \/ CreateStopEvent(p) \/ CreateOnlyMutex(p) \/ ReportRunning(p)
  BY <1>0, <1>2 DEF ServiceMain, CreateStopEvent, CreateOnlyMutex, ReportRunning, Before
<1>3. CASE CreateWorker(p)
  <2>1. /\ UNCHANGED <<main, handler>> /\ main[p] = "create"
        /\ index'[p] = index[p] + 1
    BY <1>3 DEF CreateWorker
  <2> QED
    BY <2>1
<1>4. CASE StopSignalled(p)
  BY <1>4 DEF StopSignalled
<1>5. CASE StopWorker(p)
  <2>1. index[p] \in Workers /\ handler' = handler /\ main[p] = "stop"
    BY <1>5 DEF StopWorker
  <2>2. CASE worker[p][index[p]] = "working"
    <3>1. main'[p] = "join" /\ index' = index
      BY <1>5, <2>2 DEF StopWorker
    <3> QED
      BY <2>1, <3>1
  <2>3. CASE worker[p][index[p]] # "working"
    <3>1. main' = main /\ index'[p] = index[p] + 1
      BY <1>5, <2>3 DEF StopWorker
    <3> QED
      BY <2>1, <3>1
  <2> QED
    BY <2>2, <2>3
<1>6. CASE JoinWorker(p)
  <2>1. /\ main[p] = "join" /\ main'[p] = "stop" /\ handler' = handler
        /\ index'[p] = index[p] + 1 /\ worker[p][index[p]] = "ended"
    BY <1>6 DEF JoinWorker
  <2> QED
    BY <2>1
<1>7. CASE FillStopped(p)
  BY <1>0, <1>7 DEF FillStopped, Before
<1>8. CASE SendStopped(p)
  BY <1>8 DEF SendStopped
<1>9. ASSUME NEW i \in Workers, WorkerObeys(p, i) PROVE StopLeft(p)' < StopLeft(p)
  <2>1. main[p] = "join" /\ index[p] = i
    BY <1>9 DEF WorkerObeys, Phase, Stopping
  <2>2. /\ UNCHANGED <<main, index, handler>>
        /\ worker[p][i] = "told" /\ worker'[p][i] = "ended"
    BY <1>9 DEF WorkerObeys
  <2> QED
    BY <2>1, <2>2
<1> QED
  BY <1>1, <1>2, <1>3, <1>4, <1>5, <1>6, <1>7, <1>8, <1>9 DEF StopStep, ServiceThread

LEMMA OtherStepKeepsCount ==
  ASSUME NTTypeOK, NEW p \in Procs, Phase(p), Waiting(p), Step(p), ~ StopStep(p),
         scm[p] = "STOP_PENDING", main'[p] # "none"
  PROVE  StopLeft(p)' = StopLeft(p)
<1> USE DEF NTTypeOK, StopLeft
<1>1. CASE StartProcess(p) \/ Gone(p) \/ StopControl(p)
  BY <1>1 DEF StartProcess, Gone, StopControl, Phase, Absent
<1>2. CASE ReadStatus(p) \/ RefillStatus(p) \/ ResendStatus(p)
  <2>1. UNCHANGED <<main, index, worker>> /\ handler[p] # "set" /\ handler'[p] # "set"
    BY <1>2 DEF ReadStatus, RefillStatus, ResendStatus
  <2> QED
    BY <2>1
<1>3. ASSUME NEW i \in Workers, WorkerMoves(p, i) PROVE StopLeft(p)' = StopLeft(p)
  <2>1. /\ UNCHANGED <<main, index, handler>>
        /\ worker[p][i] \in {"started", "working"}
        /\ \A j \in Workers : j # i => worker'[p][j] = worker[p][j]
    BY <1>3 DEF WorkerMoves
  <2>2. main[p] = "join" => index[p] \in Workers /\ index[p] # i
    BY <2>1 DEF Phase, Stopping, Waiting
  <2> QED
    BY <2>1, <2>2
<1> QED
  BY <1>1, <1>2, <1>3 DEF Step, StopStep, Handler

\* On the way from the stop control to the return of Running no step leaves
\* more to do than there was, and each step that the handler, the service
\* thread or a worker that was told takes leaves less (NTService.cpp:170-197).
THEOREM AStopGetsOn == NTSpec => StopGoesOn
<1> DEFINE GetsOn(p) ==
      scm[p] = "STOP_PENDING" /\ main[p] # "done" /\ main'[p] # "none" =>
        /\ StopLeft(p)' <= StopLeft(p)
        /\ StopStep(p) => StopLeft(p)' < StopLeft(p)
<1>1. IInv /\ AllWaiting /\ StopIsCounted /\ StopIsCounted' /\ [NTNext]_vars
        => [\A p \in Procs : GetsOn(p)]_vars
  <2> SUFFICES ASSUME IInv, AllWaiting, StopIsCounted, StopIsCounted',
                      [NTNext]_vars, ~ UNCHANGED vars, NEW q \in Procs
               PROVE  GetsOn(q)
    OBVIOUS
  <2>1. PICK p \in Procs : Step(p)
    BY StepOfOne
  <2>2. StopLeft(q) \in Nat /\ StopLeft(q)' \in Nat
    BY DEF StopIsCounted
  <2>3. CASE StopStep(q)
    BY <2>2, <2>3, StopStepCounts DEF IInv, AllWaiting
  <2>4. CASE ~ StopStep(q) /\ q = p
    BY <2>1, <2>2, <2>4, OtherStepKeepsCount DEF IInv, AllWaiting
  <2>5. CASE ~ StopStep(q) /\ q # p
    <3>1. Same(q)
      BY <2>1, <2>5, OthersSame DEF IInv
    <3>2. StopLeft(q)' = StopLeft(q)
      BY <3>1 DEF Same, StopLeft
    <3> QED
      BY <2>2, <2>5, <3>2
  <2> QED
    BY <2>3, <2>4, <2>5
<1> QED
  BY <1>1, Inductive, WaitingKept, StopLeftNat, PTL DEF NTSpec, StopGoesOn
=============================================================================
