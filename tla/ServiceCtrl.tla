----------------------------- MODULE ServiceCtrl -----------------------------
(***************************************************************************)
(* CNTServiceHandler (System/ServiceCtrl): installing, uninstalling,       *)
(* starting and stopping one service, by clients that each have a handler  *)
(* object of their own and share the service manager's database.  Each     *)
(* step is one call to the manager, so the calls of two clients interleave.*)
(* The service itself is the one of ServiceLife, which NTService           *)
(* implements.                                                             *)
(*                                                                         *)
(* The manager (external): DeleteService only marks an entry, which goes   *)
(* when no handle to it is open and the service has stopped; a marked      *)
(* entry can be opened, but neither started nor created again.             *)
(***************************************************************************)
CONSTANTS SvcClients, Svc    \* the handler objects; the service

VARIABLES
  state,     \* the state of the service, see ServiceLife
  entry,     \* its entry in the manager's database
  held,      \* the clients that have a handle to it open
  manager,   \* clients whose m_hSCManager is open
  call, at,  \* the function each client is in, and the step of it
  ret,       \* bRetFun of the call, also once it has returned
  alone      \* history: no other client's call has overlapped the call

svcVars == <<state, entry, held, manager, call, at, ret, alone>>

Life == INSTANCE ServiceLife WITH Procs <- {Svc}

Calls == {"InstallService", "UnInstallService", "DoStartSvc", "DoStopSvc", "IsInstalled"}
Steps == {"idle", "is_open", "is_close", "un_open", "un_close", "stop_open", "stop_query", "stop_control",
          "stop_close", "delete_open", "delete", "delete_close", "create", "create_close",
          "start_open", "start_query", "start", "start_close"}

SvcTypeOK ==
  /\ state \in [{Svc} -> Life!States]
  /\ entry \in {"absent", "installed", "marked"}
  /\ held \subseteq SvcClients /\ manager \subseteq SvcClients
  /\ call \in [SvcClients -> Calls \cup {"none"}] /\ at \in [SvcClients -> Steps]
  /\ ret \in [SvcClients -> BOOLEAN] /\ alone \in [SvcClients -> BOOLEAN]

\* InitSCManager may fail; the object is used all the same.
SvcInit ==
  /\ Life!LifeInit
  /\ entry \in {"absent", "installed"}
  /\ held = {}
  /\ manager \in SUBSET SvcClients
  /\ call = [c \in SvcClients |-> "none"] /\ at = [c \in SvcClients |-> "idle"]
  /\ ret = [c \in SvcClients |-> TRUE] /\ alone = [c \in SvcClients |-> FALSE]

Goes(c, step)       == at' = [at EXCEPT ![c] = step]
Returns(c, value)   == Goes(c, "idle") /\ ret' = [ret EXCEPT ![c] = value]
Continues(c, step)  == Goes(c, step) /\ UNCHANGED ret

\* Mutant: InstallService creates without uninstalling first.
InstallCreatesFirst(f) == CASE f = "DoStartSvc"     -> "start_open"
                            [] f = "DoStopSvc"      -> "stop_open"
                            [] f = "InstallService" -> "create"
                            [] f = "UnInstallService" -> "un_open"
                            [] OTHER                -> "is_open"

\* Where a call begins.
FirstStep(f) == CASE f = "DoStartSvc" -> "start_open"
                  [] f = "DoStopSvc"  -> "stop_open"
                  [] f = "UnInstallService" -> "un_open"
                  [] OTHER            -> "is_open"

SvcCall(c, f) ==
  /\ at[c] = "idle"
  /\ call' = [call EXCEPT ![c] = f]
  /\ Goes(c, FirstStep(f)) /\ ret' = [ret EXCEPT ![c] = TRUE]
  /\ alone' = [d \in SvcClients |-> d = c /\ \A e \in SvcClients \ {c} : at[e] = "idle"]
  /\ UNCHANGED <<state, entry, held, manager>>

\* OpenServiceW works on any entry of an open manager, a marked one too.
CanOpen(c) == c \in manager /\ entry # "absent"

\* The marked entry goes with its last handle, once the service has stopped.
Settle(e, h, s) == IF e = "marked" /\ h = {} /\ s[Svc] = "STOPPED" THEN "absent" ELSE e

OpenService(c) == CanOpen(c) /\ held' = held \cup {c} /\ UNCHANGED entry
CannotOpen(c)  == ~ CanOpen(c) /\ UNCHANGED <<held, entry>>
CloseService(c) == held' = held \ {c} /\ entry' = Settle(entry, held \ {c}, state)

\* UnInstallService has come to its end; InstallService drops its result.
Uninstalled(c, value) ==
  IF call[c] = "InstallService" THEN Continues(c, "create") ELSE Returns(c, value)

\* Mutant: the handle of the entry is not closed in UnInstallService.
DeleteKeepsHandle(c) ==
  at[c] = "delete_close" /\ Uninstalled(c, ret[c]) /\ UNCHANGED <<held, entry>>

\* IsInstalled, by itself or at the head of InstallService.
IsInstalled(c) ==
  \/ /\ at[c] = "is_open" /\ OpenService(c) /\ Continues(c, "is_close")
  \/ /\ at[c] = "is_open" /\ CannotOpen(c)
     /\ IF call[c] = "IsInstalled" THEN Returns(c, FALSE) ELSE Continues(c, "create")
  \/ /\ at[c] = "is_close" /\ CloseService(c)
     /\ IF call[c] = "IsInstalled" THEN Returns(c, TRUE) ELSE Continues(c, "un_open")

\* UnInstallService, by itself or in InstallService, asks the same once more.
UnInstallService(c) ==
  \/ /\ at[c] = "un_open" /\ OpenService(c) /\ Continues(c, "un_close")
  \/ /\ at[c] = "un_open" /\ CannotOpen(c) /\ Uninstalled(c, TRUE)
  \/ /\ at[c] = "un_close" /\ CloseService(c) /\ Continues(c, "stop_open")

\* The stop has been asked for or not: only DoStopSvc itself answers by it.
StopEnds(c, value) ==
  IF call[c] = "DoStopSvc" THEN Returns(c, value) ELSE Continues(c, "delete_open")

\* DoStopSvc, by itself or in UnInstallService, which does not wait for the stop.
DoStopSvc(c) ==
  \/ /\ at[c] = "stop_open" /\ OpenService(c) /\ Continues(c, "stop_query") /\ UNCHANGED state
  \/ /\ at[c] = "stop_open" /\ CannotOpen(c) /\ StopEnds(c, FALSE) /\ UNCHANGED state
  \/ /\ at[c] = "stop_query"
     /\ Continues(c, IF state[Svc] = "STOPPED" THEN "stop_close" ELSE "stop_control")
     /\ UNCHANGED <<state, held, entry>>
  \/ /\ at[c] = "stop_control" /\ Life!AcceptStop(Svc)
     /\ Continues(c, "stop_close") /\ UNCHANGED <<held, entry>>
  \/ /\ at[c] = "stop_control" /\ state[Svc] # "RUNNING"
     /\ Goes(c, "stop_close")
     /\ ret' = [ret EXCEPT ![c] = @ /\ call[c] # "DoStopSvc"]
     /\ UNCHANGED <<state, held, entry>>
  \/ /\ at[c] = "stop_close" /\ CloseService(c) /\ StopEnds(c, ret[c]) /\ UNCHANGED state

\* The second half of UnInstallService.
DeleteIt(c) ==
  \/ /\ at[c] = "delete_open" /\ OpenService(c) /\ Continues(c, "delete")
  \/ /\ at[c] = "delete_open" /\ CannotOpen(c) /\ Uninstalled(c, FALSE)
  \/ /\ at[c] = "delete" /\ Goes(c, "delete_close")
     /\ ret' = [ret EXCEPT ![c] = entry = "installed"]
     /\ entry' = "marked" /\ UNCHANGED held

CloseDeleted(c) == at[c] = "delete_close" /\ CloseService(c) /\ Uninstalled(c, ret[c])

\* CreateServiceW at the end of InstallService.
CreateService(c) ==
  \/ /\ at[c] = "create" /\ c \in manager /\ entry = "absent"
     /\ entry' = "installed" /\ held' = held \cup {c} /\ Continues(c, "create_close")
  \/ /\ at[c] = "create" /\ (c \notin manager \/ entry # "absent")
     /\ Returns(c, FALSE) /\ UNCHANGED <<entry, held>>
  \/ /\ at[c] = "create_close" /\ CloseService(c) /\ Returns(c, TRUE)

DoStartSvc(c) ==
  \/ /\ at[c] = "start_open" /\ OpenService(c) /\ Continues(c, "start_query") /\ UNCHANGED state
  \/ /\ at[c] = "start_open" /\ CannotOpen(c) /\ Returns(c, FALSE) /\ UNCHANGED state
  \/ /\ at[c] = "start_query"
     /\ Continues(c, IF state[Svc] = "RUNNING" THEN "start_close" ELSE "start")
     /\ UNCHANGED <<state, held, entry>>
  \/ /\ at[c] = "start" /\ entry = "installed" /\ Life!Start(Svc)
     /\ Continues(c, "start_close") /\ UNCHANGED <<held, entry>>
  \/ /\ at[c] = "start" /\ (entry # "installed" \/ state[Svc] # "STOPPED")
     /\ Goes(c, "start_close") /\ ret' = [ret EXCEPT ![c] = FALSE]
     /\ UNCHANGED <<state, held, entry>>
  \/ /\ at[c] = "start_close" /\ CloseService(c) /\ Returns(c, ret[c]) /\ UNCHANGED state

\* The service moves by itself (ServiceLife); a marked entry may go with that.
ServiceRuns ==
  /\ Life!ServiceMoves(Svc)
  /\ entry' = Settle(entry, held, state')
  /\ UNCHANGED <<held, manager, call, at, ret, alone>>

Client(c) ==
  /\ \/ DoStopSvc(c) \/ DoStartSvc(c)
     \/ /\ IsInstalled(c) \/ UnInstallService(c) \/ DeleteIt(c) \/ CloseDeleted(c) \/ CreateService(c)
        /\ UNCHANGED state
  /\ UNCHANGED <<manager, call, alone>>

SvcNext ==
  \/ ServiceRuns
  \/ \E c \in SvcClients : Client(c) \/ \E f \in Calls : SvcCall(c, f)

SvcSpec == SvcInit /\ [][SvcNext]_svcVars

-----------------------------------------------------------------------------
\* Properties

\* A client that is in no call holds no handle: every path through the calls
\* closes what it opened (ServiceCtrl.cpp:92, 133, 184, 235, 253), or the
\* entry of a deleted service would stay for ever.
HandlesReturned == \A c \in SvcClients : at[c] = "idle" => c \notin held

\* InstallService answers TRUE exactly when it leaves the service installed,
\* if no other client's call overlaps its own; UnInstallService leaves it
\* absent or about to go, and a service that has stopped is replaced at once.
AloneSettles ==
  \A c \in SvcClients : at[c] = "idle" /\ alone[c] /\ c \in manager =>
    /\ call[c] = "InstallService" => (ret[c] <=> entry = "installed")
    /\ call[c] = "UnInstallService" => entry # "installed"
    /\ state[Svc] = "STOPPED" => entry # "marked"

=============================================================================
