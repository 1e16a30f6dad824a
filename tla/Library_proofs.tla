---------------------------- MODULE Library_proofs ----------------------------
(***************************************************************************)
(* What is proved of three components of SrcLib, the singleton over its    *)
(* lock, the log and the service control, and of the GINA; and, with the   *)
(* proofs about the COM servers and the tile of the second generation, of  *)
(* the run that has all six.                                               *)
(***************************************************************************)
EXTENDS MCLibrary, ComServer_proofs, XCredentialV2Tile_proofs, TLAPS

-----------------------------------------------------------------------------
\* Singleton, for any number of threads and instances.

InSection  == {"test_again", "make", "unlock"}
Destroying == {"destroy", "delete", "clear"}

\* Who is in the section owns it; until the lock is constructed the main thread
\* is the only one; one thread destroys.
SectionOwned ==
  /\ \A t \in Threads : doing[t] \in InSection => owner = t
  /\ section # "constructed" => \A t \in Threads \ {Main} : doing[t] = "idle"
  /\ \A t \in Threads : doing[t] \in Destroying => t = Destroyer

\* What the pointer is worth: whoever makes has found it NULL; it points to the
\* instance unless that has just been deleted.
PointerTold ==
  /\ \A t \in Threads : doing[t] = "make" => m_pInstance = 0
  /\ \A t \in Threads : doing[t] = "clear" => m_pInstance # 0 /\ living = {}
  /\ m_pInstance # 0 => m_pInstance \in living \/ doing[Destroyer] = "clear"

SingleInv == SingleTypeOK /\ SectionOwned /\ PointerTold /\ OneInstance

LEMMA SingleInitially == SingleInit => SingleInv
  BY MainAssumption, DestroyerAssumption
     DEF SingleInit, SingleInv, SingleTypeOK, SectionOwned, PointerTold, OneInstance,
         InSection, Destroying, Places

\* One step of a thread, by the place it is at.
LEMMA SingleKept == SingleInv /\ [SingleNext]_singleVars => SingleInv'
  <1>. SUFFICES ASSUME SingleInv, [SingleNext]_singleVars PROVE SingleInv'
    OBVIOUS
  <1>. USE MainAssumption, DestroyerAssumption, NoThreadAssumption
  <1>. USE DEF SingleInv, SingleTypeOK, SectionOwned, PointerTold, OneInstance,
               InSection, Destroying, Places, Does
  <1>1. CASE CLock
    BY <1>1 DEF CLock
  <1>2. ASSUME NEW t \in Threads, CallSingleton(t) PROVE SingleInv'
    BY <1>2 DEF CallSingleton
  <1>3. ASSUME NEW t \in Threads, Test(t) PROVE SingleInv'
    BY <1>3 DEF Test
  <1>4. ASSUME NEW t \in Threads, Lock(t) PROVE SingleInv'
    BY <1>4 DEF Lock
  <1>5. ASSUME NEW t \in Threads, TestAgain(t) PROVE SingleInv'
    BY <1>5 DEF TestAgain
  <1>6. ASSUME NEW t \in Threads, MakeInstance(t) PROVE SingleInv'
    <2>1. m_pInstance = 0 /\ living = {} /\ owner = t /\ made + 1 # 0
      BY <1>6 DEF MakeInstance
    <2>2. \A u \in Threads : doing[u] \notin {"delete", "clear"}
      BY <2>1
    <2>3. living' = {made + 1} /\ m_pInstance' = made + 1 /\ made' = made + 1
      BY <1>6, <2>1 DEF MakeInstance
    <2>4. SingleTypeOK'
      BY <1>6, <2>3 DEF MakeInstance
    <2>5. SectionOwned'
      BY <1>6 DEF MakeInstance
    <2>6. \A u \in Threads : doing'[u] # "make"
      BY <1>6, <2>1 DEF MakeInstance
    <2>7. \A u \in Threads : doing'[u] \notin {"delete", "clear"}
      BY <1>6, <2>2 DEF MakeInstance
    <2>. QED  BY <2>3, <2>4, <2>5, <2>6, <2>7
  <1>7. ASSUME NEW t \in Threads, UnLock(t) PROVE SingleInv'
    BY <1>7 DEF UnLock
  <1>8. ASSUME NEW t \in Threads, Return(t) PROVE SingleInv'
    BY <1>8 DEF Return
  <1>9. ASSUME NEW t \in Threads, Destroy(t) PROVE SingleInv'
    <2>1. t = Destroyer /\ \A u \in Threads \ {t} : doing[u] \notin Destroying
      BY <1>9 DEF Destroy, DestoryInstance
    <2>2. CASE doing[t] = "destroy"
      <3>1. /\ UNCHANGED <<m_pInstance, living, made, section, owner, given>>
            /\ doing' = [doing EXCEPT ![t] = IF m_pInstance = 0 THEN "idle" ELSE "delete"]
        BY <1>9, <2>2 DEF Destroy, DestoryInstance
      <3>2. m_pInstance # 0 => m_pInstance \in living
        BY <2>1, <2>2
      <3>3. SingleTypeOK'
        BY <3>1
      <3>4. SectionOwned'
        BY <2>1, <2>2, <3>1
      <3>5. PointerTold'
        BY <2>1, <3>1, <3>2
      <3>6. OneInstance'
        BY <2>1, <3>1, <3>2
      <3>. QED  BY <3>3, <3>4, <3>5, <3>6
    <2>3. CASE doing[t] = "delete"
      <3>1. /\ UNCHANGED <<m_pInstance, made, section, owner, given>>
            /\ living' = living \ {m_pInstance}
            /\ doing' = [doing EXCEPT ![t] = "clear"]
        BY <1>9, <2>3 DEF Destroy, DestoryInstance
      <3>2. m_pInstance # 0 /\ living' = {}
        BY <2>3, <3>1
      <3>3. SingleTypeOK'
        BY <3>1, <3>2
      <3>4. SectionOwned'
        BY <2>1, <2>3, <3>1
      <3>5. PointerTold'
        BY <2>1, <3>1, <3>2
      <3>6. OneInstance'
        BY <2>1, <3>1, <3>2
      <3>. QED  BY <3>3, <3>4, <3>5, <3>6
    <2>4. CASE doing[t] = "clear"
      <3>1. /\ UNCHANGED <<living, made, section, owner, given>>
            /\ m_pInstance' = 0 /\ living = {}
            /\ doing' = [doing EXCEPT ![t] = "idle"]
        BY <1>9, <2>4 DEF Destroy, DestoryInstance
      <3>2. SingleTypeOK'
        BY <3>1
      <3>3. SectionOwned'
        BY <2>1, <2>4, <3>1
      <3>4. \A u \in Threads : doing'[u] \notin {"delete", "clear"}
        BY <2>1, <3>1
      <3>5. OneInstance'
        BY <3>1, <3>4
      <3>. QED  BY <3>1, <3>2, <3>3, <3>4, <3>5
    <2>. QED  BY <1>9, <2>2, <2>3, <2>4 DEF Destroy, DestoryInstance
  <1>10. CASE UNCHANGED singleVars
    BY <1>10 DEF singleVars
  <1>. QED
    BY <1>1, <1>2, <1>3, <1>4, <1>5, <1>6, <1>7, <1>8, <1>9, <1>10 DEF SingleNext

\* There is never a second instance and none is lost, and what DestoryInstance
\* deletes is there, as long as one thread destroys (Singleton.h:41-66).
THEOREM OneInstanceHolds == SingleSpec => []OneInstance
  <1>1. SingleInv => OneInstance
    BY DEF SingleInv
  <1>. QED  BY SingleInitially, SingleKept, <1>1, PTL DEF SingleSpec

\* Type correctness of the singleton: an instance that lives has been made.
THEOREM SingleTypeCorrect == SingleSpec => []SingleTypeOK
  <1>1. SingleInv => SingleTypeOK
    BY DEF SingleInv
  <1>. QED  BY SingleInitially, SingleKept, <1>1, PTL DEF SingleSpec

\* The lock does what it is for (Lock.cpp): two threads are never between Lock and
\* UnLock together, although the section may be initialised late, by a Lock before
\* the lock's own constructor has run, and is then initialised again.
SectionIsExclusive ==
  \A t, u \in Threads : doing[t] \in InSection /\ doing[u] \in InSection => t = u

\* The lock excludes from the first Lock on, for any number of threads (Lock.cpp).
THEOREM SectionIsExclusiveHolds == SingleSpec => []SectionIsExclusive
  <1>1. SingleInv => SectionIsExclusive
    BY DEF SingleInv, SectionOwned, SectionIsExclusive
  <1>. QED  BY SingleInitially, SingleKept, <1>1, PTL DEF SingleSpec

-----------------------------------------------------------------------------
\* Service control, for any number of clients.

\* The steps at which a call has the service's handle open.
Holding == {"is_close", "un_close", "stop_query", "stop_control", "stop_close", "delete",
            "delete_close", "create_close", "start_query", "start", "start_close"}

HeldWhileHolding ==
  /\ at \in [SvcClients -> Steps] /\ held \subseteq SvcClients
  /\ \A c \in SvcClients : c \in held <=> at[c] \in Holding

\* A client's step keeps it, if it opens and goes to a place that closes later,
\* or closes, or leaves the handle alone.
LEMMA ClientStep ==
  ASSUME HeldWhileHolding, NEW c \in SvcClients, NEW goal \in Steps, Goes(c, goal),
         \/ held' = held \cup {c} /\ goal \in Holding
         \/ held' = held \ {c} /\ goal \notin Holding
         \/ held' = held /\ (goal \in Holding <=> at[c] \in Holding)
  PROVE  HeldWhileHolding'
  BY DEF HeldWhileHolding, Goes

LEMMA HeldKept == HeldWhileHolding /\ [SvcNext]_svcVars => HeldWhileHolding'
  <1>. SUFFICES ASSUME HeldWhileHolding, [SvcNext]_svcVars PROVE HeldWhileHolding'
    OBVIOUS
  <1>1. CASE ServiceRuns
    BY <1>1 DEF ServiceRuns, HeldWhileHolding
  <1>2. ASSUME NEW c \in SvcClients, NEW f \in Calls, SvcCall(c, f)
        PROVE  HeldWhileHolding'
    <2>1. FirstStep(f) \in Steps
      BY DEF FirstStep, Steps, Calls
    <2>2. /\ at[c] \notin Holding /\ FirstStep(f) \notin Holding
          /\ held' = held /\ Goes(c, FirstStep(f))
      BY <1>2 DEF SvcCall, FirstStep, Holding
    <2>. QED  BY <2>1, <2>2, ClientStep
  <1>3. ASSUME NEW c \in SvcClients, Client(c) PROVE HeldWhileHolding'
    <2>. USE DEF Returns, Continues, OpenService, CannotOpen, CloseService
    <2>1. CASE DoStopSvc(c)
      <3>1. PICK goal \in Steps :
              /\ Goes(c, goal)
              /\ \/ held' = held \cup {c} /\ goal \in Holding
                 \/ held' = held \ {c} /\ goal \notin Holding
                 \/ held' = held /\ (goal \in Holding <=> at[c] \in Holding)
        BY <2>1 DEF DoStopSvc, StopEnds, Steps, Holding
      <3>. QED  BY <3>1, ClientStep
    <2>2. CASE DoStartSvc(c)
      <3>1. PICK goal \in Steps :
              /\ Goes(c, goal)
              /\ \/ held' = held \cup {c} /\ goal \in Holding
                 \/ held' = held \ {c} /\ goal \notin Holding
                 \/ held' = held /\ (goal \in Holding <=> at[c] \in Holding)
        BY <2>2 DEF DoStartSvc, Steps, Holding
      <3>. QED  BY <3>1, ClientStep
    <2>3. CASE IsInstalled(c) \/ UnInstallService(c)
      <3>1. PICK goal \in Steps :
              /\ Goes(c, goal)
              /\ \/ held' = held \cup {c} /\ goal \in Holding
                 \/ held' = held \ {c} /\ goal \notin Holding
                 \/ held' = held /\ (goal \in Holding <=> at[c] \in Holding)
        BY <2>3 DEF IsInstalled, UnInstallService, Uninstalled, Steps, Holding
      <3>. QED  BY <3>1, ClientStep
    <2>4. CASE DeleteIt(c) \/ CloseDeleted(c)
      <3>1. PICK goal \in Steps :
              /\ Goes(c, goal)
              /\ \/ held' = held \cup {c} /\ goal \in Holding
                 \/ held' = held \ {c} /\ goal \notin Holding
                 \/ held' = held /\ (goal \in Holding <=> at[c] \in Holding)
        BY <2>4 DEF DeleteIt, CloseDeleted, Uninstalled, Steps, Holding
      <3>. QED  BY <3>1, ClientStep
    <2>5. CASE CreateService(c)
      <3>1. PICK goal \in Steps :
              /\ Goes(c, goal)
              /\ \/ held' = held \cup {c} /\ goal \in Holding
                 \/ held' = held \ {c} /\ goal \notin Holding
                 \/ held' = held /\ (goal \in Holding <=> at[c] \in Holding)
        BY <2>5 DEF CreateService, Steps, Holding
      <3>. QED  BY <3>1, ClientStep
    <2>. QED  BY <1>3, <2>1, <2>2, <2>3, <2>4, <2>5 DEF Client
  <1>4. CASE UNCHANGED svcVars
    BY <1>4 DEF svcVars, HeldWhileHolding
  <1>. QED  BY <1>1, <1>2, <1>3, <1>4 DEF SvcNext

\* A client that is in no call holds no handle of the service
\* (ServiceCtrl.cpp:92, 133, 184, 235, 253).
THEOREM HandlesReturnedHolds == SvcSpec => []HandlesReturned
  <1>1. SvcInit => HeldWhileHolding
    BY DEF SvcInit, HeldWhileHolding, Holding, Steps
  <1>2. HeldWhileHolding => HandlesReturned
    BY DEF HeldWhileHolding, HandlesReturned, Holding
  <1>. QED  BY <1>1, <1>2, HeldKept, PTL DEF SvcSpec

\* The call a client is in, by the step it is at.
Deleting == {"un_open", "un_close", "delete_open", "delete", "delete_close"}
Stopping == {"stop_open", "stop_query", "stop_control", "stop_close"}
Starting == {"start_open", "start_query", "start", "start_close"}

CallOfStep ==
  /\ call \in [SvcClients -> Calls \cup {"none"}]
  /\ \A c \in SvcClients :
       /\ at[c] \in {"is_open", "is_close"} => call[c] \in {"IsInstalled", "InstallService"}
       /\ at[c] \in Deleting => call[c] \in {"UnInstallService", "InstallService"}
       /\ at[c] \in Stopping => call[c] \in {"DoStopSvc", "UnInstallService", "InstallService"}
       /\ at[c] \in Starting => call[c] = "DoStartSvc"
       /\ at[c] \in {"create", "create_close"} => call[c] = "InstallService"

\* Whose call nobody has overlapped is the only one in a call.
OthersIdle ==
  /\ alone \in [SvcClients -> BOOLEAN]
  /\ \A c, d \in SvcClients : alone[c] /\ d # c => at[d] = "idle"

\* A marked entry of a stopped service is there for an open handle only.
MarkedIsHeld ==
  /\ state \in [{Svc} -> Life!States]
  /\ entry = "marked" /\ state[Svc] = "STOPPED" => held # {}

\* What a call that nobody overlaps has reached: nothing is installed when it
\* comes to create, and what it answers is so.
SettlesOnItsWay(c) ==
  alone[c] /\ c \in manager =>
    /\ at[c] \in {"create", "delete_close"} => entry # "installed"
    /\ at[c] = "create_close" => entry = "installed"
    /\ at[c] = "idle" /\ call[c] = "InstallService" => (ret[c] <=> entry = "installed")
    /\ at[c] = "idle" /\ call[c] = "UnInstallService" => entry # "installed"

AloneInv ==
  /\ HeldWhileHolding /\ CallOfStep /\ OthersIdle /\ MarkedIsHeld
  /\ ret \in [SvcClients -> BOOLEAN]
  /\ \A c \in SvcClients : SettlesOnItsWay(c)

\* One step of a client's call, by what it does to the client's own places.
LEMMA ClientSettles ==
  ASSUME AloneInv, NEW c \in SvcClients, Client(c)
  PROVE  AloneInv'
  <1>. USE DEF Returns, Continues, Goes, OpenService, CannotOpen, CloseService, CanOpen, Settle
  <1>0. HeldWhileHolding'
    BY HeldKept DEF AloneInv, SvcNext
  <1>1. at[c] # "idle" /\ UNCHANGED <<manager, call, alone>>
    BY DEF Client, DoStopSvc, DoStartSvc, IsInstalled, UnInstallService, DeleteIt,
           CloseDeleted, CreateService
  <1>2. at' = [at EXCEPT ![c] = at'[c]] /\ ret' \in [SvcClients -> BOOLEAN]
    <2>. USE DEF AloneInv, HeldWhileHolding
    <2>1. CASE DoStopSvc(c)
      BY <2>1 DEF DoStopSvc, StopEnds
    <2>2. CASE DoStartSvc(c)
      BY <2>2 DEF DoStartSvc
    <2>3. CASE IsInstalled(c) \/ UnInstallService(c)
      BY <2>3 DEF IsInstalled, UnInstallService, Uninstalled
    <2>4. CASE DeleteIt(c) \/ CloseDeleted(c)
      BY <2>4 DEF DeleteIt, CloseDeleted, Uninstalled
    <2>5. CASE CreateService(c)
      BY <2>5 DEF CreateService
    <2>. QED  BY <2>1, <2>2, <2>3, <2>4, <2>5 DEF Client
  <1>3. OthersIdle'
    BY <1>1, <1>2 DEF AloneInv, OthersIdle, HeldWhileHolding
  <1>4. CallOfStep'
    <2>1. ASSUME NEW d \in SvcClients, d # c PROVE at'[d] = at[d]
      BY <1>2, <2>1 DEF AloneInv, HeldWhileHolding
    <2>2. /\ at'[c] \in {"is_open", "is_close"} => call[c] \in {"IsInstalled", "InstallService"}
          /\ at'[c] \in Deleting => call[c] \in {"UnInstallService", "InstallService"}
          /\ at'[c] \in Stopping => call[c] \in {"DoStopSvc", "UnInstallService", "InstallService"}
          /\ at'[c] \in Starting => call[c] = "DoStartSvc"
          /\ at'[c] \in {"create", "create_close"} => call[c] = "InstallService"
      <3>. USE DEF AloneInv, HeldWhileHolding, CallOfStep, Deleting, Stopping, Starting
      <3>1. CASE DoStopSvc(c)
        BY <3>1 DEF DoStopSvc, StopEnds
      <3>2. CASE DoStartSvc(c)
        BY <3>2 DEF DoStartSvc
      <3>3. CASE IsInstalled(c) \/ UnInstallService(c)
        BY <3>3 DEF IsInstalled, UnInstallService, Uninstalled
      <3>4. CASE DeleteIt(c) \/ CloseDeleted(c)
        BY <3>4 DEF DeleteIt, CloseDeleted, Uninstalled
      <3>5. CASE CreateService(c)
        BY <3>5 DEF CreateService
      <3>. QED  BY <3>1, <3>2, <3>3, <3>4, <3>5 DEF Client
    <2>. QED  BY <1>1, <2>1, <2>2 DEF AloneInv, CallOfStep
  <1>5. MarkedIsHeld'
    <2>. USE DEF AloneInv, HeldWhileHolding, MarkedIsHeld, Holding
    <2>1. CASE DoStopSvc(c)
      BY <2>1 DEF DoStopSvc, Life!AcceptStop, Life!Moves, Life!States
    <2>2. CASE DoStartSvc(c)
      BY <2>2 DEF DoStartSvc, Life!Start, Life!Moves, Life!States
    <2>3. CASE (IsInstalled(c) \/ UnInstallService(c)) /\ UNCHANGED state
      BY <2>3 DEF IsInstalled, UnInstallService
    <2>4. CASE (DeleteIt(c) \/ CloseDeleted(c)) /\ UNCHANGED state
      BY <2>4 DEF DeleteIt, CloseDeleted
    <2>5. CASE CreateService(c) /\ UNCHANGED state
      BY <2>5 DEF CreateService
    <2>. QED  BY <2>1, <2>2, <2>3, <2>4, <2>5 DEF Client
  <1>6. SettlesOnItsWay(c)'
    <2>. USE <1>1 DEF AloneInv, HeldWhileHolding, CallOfStep, SettlesOnItsWay,
                      Deleting, Stopping, Starting
    <2>1. CASE DoStopSvc(c)
      BY <2>1 DEF DoStopSvc, StopEnds
    <2>2. CASE DoStartSvc(c)
      BY <2>2 DEF DoStartSvc
    <2>3. CASE IsInstalled(c) \/ UnInstallService(c)
      BY <2>3 DEF IsInstalled, UnInstallService, Uninstalled
    <2>4. CASE DeleteIt(c) \/ CloseDeleted(c)
      BY <2>4 DEF DeleteIt, CloseDeleted, Uninstalled
    <2>5. CASE CreateService(c)
      BY <2>5 DEF CreateService
    <2>. QED  BY <2>1, <2>2, <2>3, <2>4, <2>5 DEF Client
  <1>7. ASSUME NEW d \in SvcClients, d # c PROVE SettlesOnItsWay(d)'
    BY <1>1, <1>7 DEF AloneInv, OthersIdle, SettlesOnItsWay
  <1>. QED  BY <1>0, <1>2, <1>3, <1>4, <1>5, <1>6, <1>7 DEF AloneInv

LEMMA AloneKept == AloneInv /\ [SvcNext]_svcVars => AloneInv'
  <1>. SUFFICES ASSUME AloneInv, [SvcNext]_svcVars PROVE AloneInv'
    OBVIOUS
  <1>0. HeldWhileHolding'
    BY HeldKept DEF AloneInv
  <1>1. CASE ServiceRuns
    <2>1. /\ state' \in [{Svc} -> Life!States]
          /\ entry' = Settle(entry, held, state')
          /\ UNCHANGED <<held, manager, call, at, ret, alone>>
      BY <1>1 DEF ServiceRuns, AloneInv, MarkedIsHeld, Life!ServiceMoves, Life!Serve,
         Life!GiveUp, Life!Finish, Life!Die, Life!Moves, Life!States
    <2>2. entry' = entry \/ (entry = "marked" /\ entry' = "absent")
      BY <2>1 DEF Settle
    <2>3. MarkedIsHeld'
      BY <2>1 DEF Settle, MarkedIsHeld
    <2>. QED  BY <1>0, <2>1, <2>2, <2>3 DEF AloneInv, CallOfStep, OthersIdle, SettlesOnItsWay
  <1>2. ASSUME NEW c \in SvcClients, NEW f \in Calls, SvcCall(c, f)
        PROVE  AloneInv'
    <2>1. CallOfStep'
      BY <1>2 DEF SvcCall, FirstStep, Goes, AloneInv, HeldWhileHolding, CallOfStep, Calls,
         Deleting, Stopping, Starting
    <2>2. OthersIdle'
      BY <1>2 DEF SvcCall, Goes, AloneInv, HeldWhileHolding, OthersIdle
    <2>3. MarkedIsHeld'
      BY <1>2 DEF SvcCall, AloneInv, MarkedIsHeld
    <2>4. ASSUME NEW d \in SvcClients PROVE SettlesOnItsWay(d)'
      BY <1>2 DEF SvcCall, FirstStep, Goes, AloneInv, HeldWhileHolding, SettlesOnItsWay
    <2>5. ret' \in [SvcClients -> BOOLEAN]
      BY <1>2 DEF SvcCall, AloneInv
    <2>. QED  BY <1>0, <2>1, <2>2, <2>3, <2>4, <2>5 DEF AloneInv
  <1>3. ASSUME NEW c \in SvcClients, Client(c) PROVE AloneInv'
    BY <1>3, ClientSettles
  <1>4. CASE UNCHANGED svcVars
    BY <1>0, <1>4 DEF svcVars, AloneInv, CallOfStep, OthersIdle, MarkedIsHeld, SettlesOnItsWay
  <1>. QED  BY <1>1, <1>2, <1>3, <1>4 DEF SvcNext

LEMMA AloneInitially == SvcInit => AloneInv
  <1>. SUFFICES ASSUME SvcInit PROVE AloneInv
    OBVIOUS
  <1>1. HeldWhileHolding /\ CallOfStep /\ OthersIdle
    BY DEF SvcInit, HeldWhileHolding, Holding, Steps, CallOfStep, Deleting, Stopping,
             Starting, OthersIdle
  <1>2. MarkedIsHeld
    BY DEF SvcInit, MarkedIsHeld, Life!LifeInit, Life!States
  <1>. QED  BY <1>1, <1>2 DEF SvcInit, AloneInv, SettlesOnItsWay

\* What InstallService and UnInstallService answer is so, as long as no other
\* client's call overlaps theirs (ServiceCtrl.cpp:50-95, 98-146).
THEOREM AloneSettlesHolds == SvcSpec => []AloneSettles
  <1>2. AloneInv => AloneSettles
    <2>. SUFFICES ASSUME AloneInv, NEW c \in SvcClients, at[c] = "idle", alone[c], c \in manager
                  PROVE  /\ call[c] = "InstallService" => (ret[c] <=> entry = "installed")
                         /\ call[c] = "UnInstallService" => entry # "installed"
                         /\ state[Svc] = "STOPPED" => entry # "marked"
      BY DEF AloneSettles
    <2>1. \A d \in SvcClients : at[d] = "idle"
      BY DEF AloneInv, OthersIdle
    <2>2. held = {}
      BY <2>1 DEF AloneInv, HeldWhileHolding, Holding
    <2>. QED  BY <2>2 DEF AloneInv, MarkedIsHeld, SettlesOnItsWay, HeldWhileHolding
  <1>. QED  BY <1>2, AloneInitially, AloneKept, PTL DEF SvcSpec

\* However the clients' calls overlap, a service that was deleted is gone once all
\* calls have returned and it has stopped: nothing keeps the marked entry, so
\* that a later InstallService can create it again.
NothingStaysMarked ==
  (\A c \in SvcClients : at[c] = "idle") /\ state[Svc] = "STOPPED" => entry # "marked"

\* No order of installs, starts, stops and uninstalls of any number of clients
\* leaves a marked entry behind (ServiceCtrl.cpp).
THEOREM NothingStaysMarkedHolds == SvcSpec => []NothingStaysMarked
  <1>1. AloneInv => NothingStaysMarked
    BY DEF AloneInv, HeldWhileHolding, MarkedIsHeld, NothingStaysMarked, Holding
  <1>. QED  BY <1>1, AloneInitially, AloneKept, PTL DEF SvcSpec

\* What no other part of the invariant says of the manager's side.
EntryTyped == entry \in {"absent", "installed", "marked"} /\ manager \subseteq SvcClients

LEMMA EntryKept == EntryTyped /\ [SvcNext]_svcVars => EntryTyped'
  <1>. SUFFICES ASSUME EntryTyped, [SvcNext]_svcVars PROVE EntryTyped'
    OBVIOUS
  <1>. USE DEF EntryTyped, OpenService, CannotOpen, CloseService, Settle
  <1>1. CASE ServiceRuns
    BY <1>1 DEF ServiceRuns
  <1>2. ASSUME NEW c \in SvcClients, NEW f \in Calls, SvcCall(c, f) PROVE EntryTyped'
    BY <1>2 DEF SvcCall
  <1>3. ASSUME NEW c \in SvcClients, Client(c) PROVE EntryTyped'
    <2>1. CASE DoStopSvc(c) \/ DoStartSvc(c)
      BY <1>3, <2>1 DEF Client, DoStopSvc, DoStartSvc
    <2>2. CASE IsInstalled(c) \/ UnInstallService(c)
      BY <1>3, <2>2 DEF Client, IsInstalled, UnInstallService
    <2>3. CASE DeleteIt(c) \/ CloseDeleted(c) \/ CreateService(c)
      BY <1>3, <2>3 DEF Client, DeleteIt, CloseDeleted, CreateService
    <2>. QED  BY <1>3, <2>1, <2>2, <2>3 DEF Client
  <1>4. CASE UNCHANGED svcVars
    BY <1>4 DEF svcVars
  <1>. QED  BY <1>1, <1>2, <1>3, <1>4 DEF SvcNext

\* Type correctness of the service control.
THEOREM SvcTypeCorrect == SvcSpec => []SvcTypeOK
  <1>1. SvcInit => EntryTyped
    BY DEF SvcInit, EntryTyped
  <1>2. AloneInv /\ EntryTyped => SvcTypeOK
    BY DEF AloneInv, HeldWhileHolding, CallOfStep, OthersIdle, MarkedIsHeld, EntryTyped, SvcTypeOK
  <1>. QED  BY <1>1, <1>2, AloneInitially, AloneKept, EntryKept, PTL DEF SvcSpec

-----------------------------------------------------------------------------
\* A client's step starts or stops the service or leaves it alone.
LEMMA ClientLife ==
  ASSUME NEW c \in SvcClients, Client(c)
  PROVE  Life!Start(Svc) \/ Life!AcceptStop(Svc) \/ state' = state
  BY DEF Client, DoStopSvc, DoStartSvc

\* What the clients and the service manager do between them is what ServiceLife
\* says a service goes through: the calls of DoStartSvc and DoStopSvc start and
\* stop it, and no other step of a call moves it (ServiceCtrl.cpp:140-239).
THEOREM ServiceCtrlDrivesLife == SvcSpec => Life!LifeSpec
  <1>1. SvcInit => Life!LifeInit
    BY DEF SvcInit
  <1>2. [SvcNext]_svcVars => [Life!LifeNext]_state
    <2>. SUFFICES ASSUME [SvcNext]_svcVars PROVE Life!LifeNext \/ state' = state
      OBVIOUS
    <2>1. CASE ServiceRuns
      BY <2>1 DEF ServiceRuns, Life!LifeNext
    <2>2. ASSUME NEW c \in SvcClients, Client(c) PROVE Life!LifeNext \/ state' = state
      BY <2>2, ClientLife DEF Life!LifeNext
    <2>3. ASSUME NEW c \in SvcClients, NEW f \in Calls, SvcCall(c, f) PROVE state' = state
      BY <2>3 DEF SvcCall
    <2>4. CASE UNCHANGED svcVars
      BY <2>4 DEF svcVars
    <2>. QED  BY <2>1, <2>2, <2>3, <2>4 DEF SvcNext
  <1>. QED  BY <1>1, <1>2, PTL DEF SvcSpec, Life!LifeSpec

-----------------------------------------------------------------------------
\* Log, for any paths, levels and bounds.

\* What is open is a file, and the last number of a file whose path is none that
\* callers give is at most the one the object has counted to.
NumbersCounted ==
  /\ m_iLogAddIndex \in Nat
  /\ m_pFileLog \in Files \cup {NoFile}
  /\ m_szLogPath \in Names
  /\ \A f \in Files :
       /\ f \in Names
       /\ f \notin Bases => f[Len(f)] \in Nat /\ f[Len(f)] <= m_iLogAddIndex

\* Writing to a file adds it to the files, and no other.
LEMMA AppendedFiles ==
  ASSUME NEW d, NEW f PROVE DOMAIN Append1(d, f) = DOMAIN d \cup {f}
  BY DEF Append1

\* The next name ends with the next number.
LEMMA NextName ==
  ASSUME NumbersCounted
  PROVE  LET next == Append(m_szLogPath, NextNumber(m_iLogAddIndex))
         IN  /\ next \in Names
             /\ Len(next) \in Nat
             /\ next[Len(next)] = m_iLogAddIndex + 1
  BY DEF NumbersCounted, NextNumber, Names

\* What writing a line does to the files, as long as the file is not full and
\* when it is.
LEMMA LineWritten ==
  ASSUME NumbersCounted, NEW level \in Levels, WriteLine(level)
  PROVE  LET next == Append(m_szLogPath, NextNumber(m_iLogAddIndex)) IN
         /\ m_pFileLog' \in DOMAIN disk' \cup {NoFile}
         /\ \/ /\ DOMAIN disk' = Files
               /\ m_szLogPath' = m_szLogPath /\ m_iLogAddIndex' = m_iLogAddIndex
            \/ /\ DOMAIN disk' \subseteq Files \cup {next}
               /\ m_szLogPath' \in {m_szLogPath, next}
               /\ m_iLogAddIndex' = m_iLogAddIndex + 1
  <1>. DEFINE next == Append(m_szLogPath, NextNumber(m_iLogAddIndex))
              written == Append1(disk, m_pFileLog)
  <1>1. m_pFileLog \in Files
    BY DEF WriteLine, NumbersCounted
  <1>2. DOMAIN written = Files
    BY <1>1, AppendedFiles DEF Files
  <1>3. CASE written[m_pFileLog] <= MaxSize
    BY <1>1, <1>2, <1>3 DEF WriteLine
  <1>4. CASE ~ (written[m_pFileLog] <= MaxSize)
    <2>1. DOMAIN Append1(written, next) = Files \cup {next}
      BY <1>2, AppendedFiles
    <2>2. /\ disk' \in {written, Append1(written, next)}
          /\ m_szLogPath' \in {m_szLogPath, next}
          /\ m_iLogAddIndex' = m_iLogAddIndex + 1
      BY <1>4 DEF WriteLine, Opens, NextNumber
    <2>3. \/ m_pFileLog' = next /\ disk' = Append1(written, next)
          \/ m_pFileLog' = NoFile
          \/ m_pFileLog' = m_pFileLog /\ disk' = written
      BY <1>4 DEF WriteLine, Opens
    <2>. HIDE DEF next, written
    <2>. QED  BY <1>1, <1>2, <2>1, <2>2, <2>3 DEF next
  <1>. QED  BY <1>3, <1>4

LEMMA NumbersKept == NumbersCounted /\ [LogNext]_logVars => NumbersCounted'
  <1>. SUFFICES ASSUME NumbersCounted, [LogNext]_logVars PROVE NumbersCounted'
    OBVIOUS
  <1>1. ASSUME NEW level \in Levels, WriteLine(level) PROVE NumbersCounted'
    <2>. DEFINE next == Append(m_szLogPath, NextNumber(m_iLogAddIndex))
    <2>1. /\ next \in Names
          /\ Len(next) \in Nat
          /\ next[Len(next)] = m_iLogAddIndex + 1
      BY NextName
    <2>. HIDE DEF next
    <2>2. CASE /\ m_pFileLog' \in DOMAIN disk' \cup {NoFile}
               /\ DOMAIN disk' = Files
               /\ m_szLogPath' = m_szLogPath /\ m_iLogAddIndex' = m_iLogAddIndex
      BY <2>2 DEF NumbersCounted, Files
    <2>3. CASE /\ m_pFileLog' \in DOMAIN disk' \cup {NoFile}
               /\ DOMAIN disk' \subseteq Files \cup {next}
               /\ m_szLogPath' \in {m_szLogPath, next}
               /\ m_iLogAddIndex' = m_iLogAddIndex + 1
      BY <2>1, <2>3 DEF NumbersCounted, Files
    <2>. QED  BY <1>1, <2>2, <2>3, LineWritten DEF next
  <1>2. ASSUME NEW b \in Bases, NEW level \in Levels, InitLog(b, level) PROVE NumbersCounted'
    <2>1. b \in Names
      BY BasesAssumption
    <2>2. /\ DOMAIN disk' \subseteq Files \cup {b}
          /\ m_pFileLog' \in DOMAIN disk' \cup {NoFile}
      <3>1. DOMAIN Append1(disk, b) = Files \cup {b}
        BY AppendedFiles DEF Files
      <3>2. \/ m_pFileLog' = b /\ disk' = Append1(disk, b)
            \/ m_pFileLog' = NoFile /\ disk' = disk
        BY <1>2 DEF InitLog, Opens
      <3>. QED  BY <3>1, <3>2, Zenon DEF Files
    <2>3. m_szLogPath' = b /\ m_iLogAddIndex' = m_iLogAddIndex
      BY <1>2 DEF InitLog
    <2>. QED  BY <2>1, <2>2, <2>3 DEF NumbersCounted, Files
  <1>3. CASE UnInitLog
    BY <1>3 DEF UnInitLog, NumbersCounted, NoFile, Files, Names
  <1>4. ASSUME NEW level \in Levels, WriteLineFaults(level) PROVE NumbersCounted'
    BY <1>4 DEF WriteLineFaults, NumbersCounted, Files
  <1>5. CASE UNCHANGED logVars
    BY <1>5 DEF logVars, NumbersCounted, Files
  <1>. QED  BY <1>1, <1>2, <1>3, <1>4, <1>5 DEF LogNext

\* When the log changes to a file this object has written before, that file's
\* path is one its callers give (Log.cpp:91-97): no number the object has put
\* behind a path is ever put there again.
THEOREM GoesOnInNewFileHolds == LogSpec => GoesOnInNewFile
  <1>. DEFINE Fresh == m_pFileLog' \notin {m_pFileLog, NoFile}
                         => m_pFileLog' \notin Files \/ m_pFileLog' \in Bases
  <1>1. LogInit => NumbersCounted
    BY DEF LogInit, NumbersCounted, NoFile, Files, Names
  <1>2. NumbersCounted /\ [LogNext]_logVars => [Fresh]_logVars
    <2>. SUFFICES ASSUME NumbersCounted, LogNext, m_pFileLog' \notin {m_pFileLog, NoFile},
                         m_pFileLog' \notin Bases
                  PROVE  m_pFileLog' \notin Files
      OBVIOUS
    <2>. DEFINE next == Append(m_szLogPath, NextNumber(m_iLogAddIndex))
    \* A file a caller opens has a path of the caller's.
    <2>1. ASSUME NEW b \in Bases, NEW level \in Levels, InitLog(b, level) PROVE FALSE
      BY <2>1 DEF InitLog, Opens
    <2>2. PICK level \in Levels : WriteLine(level)
      BY <2>1 DEF LogNext, UnInitLog, WriteLineFaults
    <2>3. m_pFileLog' = next
      <3>1. CASE Append1(disk, m_pFileLog)[m_pFileLog] <= MaxSize
        BY <2>2, <3>1 DEF WriteLine
      <3>2. CASE ~ (Append1(disk, m_pFileLog)[m_pFileLog] <= MaxSize)
        BY <2>2, <3>2 DEF WriteLine, Opens
      <3>. QED  BY <3>1, <3>2
    <2>4. next[Len(next)] = m_iLogAddIndex + 1
      BY NextName
    <2>. HIDE DEF next
    <2>. QED  BY <2>3, <2>4 DEF NumbersCounted
  <1>. QED  BY <1>1, <1>2, NumbersKept, PTL DEF LogSpec, GoesOnInNewFile

\* The files have lengths, and the level and the stage their types.
LogTyped ==
  /\ m_iMiniRank \in Levels /\ logStage \in {"running", "down"}
  /\ \A f \in Files : disk[f] \in Nat

\* A file that gets one more line keeps its type, and so do the others.
LEMMA AppendedTyped ==
  ASSUME NEW d, NEW f
  PROVE  \A g \in DOMAIN Append1(d, f) :
           (\A h \in DOMAIN d : d[h] \in Nat) => Append1(d, f)[g] \in Nat
  <1>. SUFFICES ASSUME \A h \in DOMAIN d : d[h] \in Nat, NEW g \in DOMAIN Append1(d, f)
                PROVE  Append1(d, f)[g] \in Nat
    OBVIOUS
  <1>1. g \in DOMAIN d \cup {f}
    BY AppendedFiles
  <1>2. Lengths(d, g) \in Nat
    BY DEF Lengths
  <1>3. Append1(d, f)[g] = Lengths(d, g) + IF g = f THEN 1 ELSE 0
    BY <1>1 DEF Append1
  <1>. QED  BY <1>1, <1>2, <1>3

LEMMA LogTypedKept == LogTyped /\ [LogNext]_logVars => LogTyped'
  <1>. SUFFICES ASSUME LogTyped, [LogNext]_logVars PROVE LogTyped'
    OBVIOUS
  <1>1. ASSUME NEW level \in Levels, WriteLine(level) PROVE LogTyped'
    <2>. DEFINE next == Append(m_szLogPath, NextNumber(m_iLogAddIndex))
                written == Append1(disk, m_pFileLog)
    <2>1. \A g \in DOMAIN written : written[g] \in Nat
      BY AppendedTyped DEF LogTyped, Files
    <2>2. \A g \in DOMAIN Append1(written, next) : Append1(written, next)[g] \in Nat
      <3>. HIDE DEF next, written
      <3>. QED  BY <2>1, AppendedTyped
    <2>3. /\ disk' \in {written, Append1(written, next)}
          /\ logStage' \in {"running", "down"} /\ UNCHANGED m_iMiniRank
      <3>1. CASE written[m_pFileLog] <= MaxSize
        BY <1>1, <3>1 DEF WriteLine, LogTyped
      <3>2. CASE ~ (written[m_pFileLog] <= MaxSize)
        BY <1>1, <3>2 DEF WriteLine, Opens
      <3>. QED  BY <3>1, <3>2
    <2>. HIDE DEF next, written
    <2>4. \A g \in DOMAIN disk' : disk'[g] \in Nat
      BY <2>1, <2>2, <2>3
    <2>. QED  BY <2>3, <2>4 DEF LogTyped, Files
  <1>2. ASSUME NEW b \in Bases, NEW level \in Levels, InitLog(b, level) PROVE LogTyped'
    <2>1. \A g \in DOMAIN Append1(disk, b) : Append1(disk, b)[g] \in Nat
      BY AppendedTyped DEF LogTyped, Files
    <2>2. disk' \in {disk, Append1(disk, b)} /\ m_iMiniRank' = level /\ UNCHANGED logStage
      BY <1>2 DEF InitLog, Opens
    <2>. QED  BY <2>1, <2>2 DEF LogTyped, Files
  <1>3. CASE UnInitLog
    BY <1>3 DEF UnInitLog, LogTyped, Files
  <1>4. ASSUME NEW level \in Levels, WriteLineFaults(level) PROVE LogTyped'
    BY <1>4 DEF WriteLineFaults, LogTyped, Files
  <1>5. CASE UNCHANGED logVars
    BY <1>5 DEF logVars, LogTyped, Files
  <1>. QED  BY <1>1, <1>2, <1>3, <1>4, <1>5 DEF LogNext

\* Type correctness of the log: what is open is on the disk, and every file has
\* a name and a length.
THEOREM LogTypeCorrect == LogSpec => []LogTypeOK
  <1>1. LogInit => NumbersCounted /\ LogTyped
    BY DEF LogInit, NumbersCounted, LogTyped, NoFile, Files, Names
  <1>2. NumbersCounted /\ LogTyped => LogTypeOK
    BY DEF NumbersCounted, LogTyped, LogTypeOK
  <1>. QED  BY <1>1, <1>2, NumbersKept, LogTypedKept, PTL DEF LogSpec

-----------------------------------------------------------------------------
\* GINA, for any templates, procedures, versions and number of open dialogs.

\* The way to the hook: the table holds Winlogon's function until WlxInitialize.
WayToHook ==
  /\ ginaStage \in {"loaded", "negotiated", "refused", "initialised"}
  /\ tableVersion \in Nat
  /\ ginaStage \in {"loaded", "negotiated"} => slot = "winlogon"
  /\ ginaStage \in {"negotiated", "initialised"} => g_dwVersion <= tableVersion
  /\ ginaStage = "initialised" => pfDialogBox = "winlogon"

Dialogs == [template : Templates, proc : DlgProcs, hooked : BOOLEAN,
            inited : BOOLEAN, controls : Nat]

\* A dialog is hooked by its kind, its procedure is the one kept for that kind,
\* and it got the controls with its WM_INITDIALOG.
Served(d) ==
  /\ d.hooked <=> KindOf(d.template) \in DialogKinds
  /\ d.hooked => pfDlgProc[KindOf(d.template)] = d.proc
  /\ d.controls = IF d.inited /\ KindOf(d.template) \in Extended THEN 1 ELSE 0

\* One dialog of each kind is open.
DialogsServed ==
  /\ dialogs \in Seq(Dialogs) /\ bInit \subseteq Extended
  /\ pfDlgProc \in [DialogKinds -> DlgProcs \cup {NoProc}]
  /\ \A i \in DOMAIN dialogs : Served(dialogs[i])
  /\ \A i, j \in DOMAIN dialogs :
       i # j => ~ Exclusive(dialogs[i].template, dialogs[j].template)

\* Two templates of one kind of dialog exclude each other.
LEMMA KindsExclusive ==
  ASSUME NEW t, NEW u, KindOf(t) \in DialogKinds, KindOf(t) = KindOf(u)
  PROVE  Exclusive(t, u)
  BY DEF KindOf, DialogKinds, Exclusive

\* So do they in the other order.
LEMMA ExclusiveBoth ==
  ASSUME NEW t, NEW u, Exclusive(t, u) PROVE Exclusive(u, t)
  BY DEF Exclusive

LEMMA HookKept == WayToHook /\ [GinaNext]_ginaVars => WayToHook'
  BY VersionsAssumption DEF WayToHook, GinaNext, ginaVars, WlxNegotiate, WlxInitialize,
     InitDialog, EndDialog, HookedWlxDialogBoxParam

\* A dialog that opens takes the variable of its kind, and no open dialog uses it.
LEMMA OpeningServed ==
  ASSUME DialogsServed, NEW t \in Templates, NEW p \in DlgProcs, HookedWlxDialogBoxParam(t, p)
  PROVE  DialogsServed'
  <1>. DEFINE n == Len(dialogs)
              new == Opened(t, p, KindOf(t) \in DialogKinds)
  <1>1. new \in Dialogs
    BY DEF Opened, Dialogs
  <1>2. /\ dialogs' = Append(dialogs, new) /\ bInit' = bInit
        /\ pfDlgProc' = [k \in DialogKinds |-> IF k = KindOf(t) THEN p ELSE pfDlgProc[k]]
        /\ \A i \in DOMAIN dialogs : ~ Exclusive(dialogs[i].template, t)
    BY DEF HookedWlxDialogBoxParam
  <1>3. /\ dialogs \in Seq(Dialogs) /\ n \in Nat /\ DOMAIN dialogs = 1 .. n
        /\ dialogs' \in Seq(Dialogs)
        /\ DOMAIN dialogs' = 1 .. n + 1 /\ dialogs'[n + 1] = new
        /\ \A i \in 1 .. n : dialogs'[i] = dialogs[i]
    <2>. HIDE DEF new
    <2>. QED  BY <1>1, <1>2 DEF DialogsServed
  <1>4. Served(new)'
    BY <1>2 DEF Served, Opened, DialogKinds, Extended
  <1>5. ASSUME NEW i \in 1 .. n PROVE Served(dialogs[i])'
    <2>1. KindOf(dialogs[i].template) \in DialogKinds => KindOf(dialogs[i].template) # KindOf(t)
      BY <1>2, <1>3, <1>5, KindsExclusive
    <2>2. Served(dialogs[i])
      BY <1>3, <1>5 DEF DialogsServed
    <2>. QED  BY <1>2, <1>3, <1>5, <2>1, <2>2 DEF Served
  <1>6. new.template = t
    BY DEF Opened
  <1>7. \A i, j \in DOMAIN dialogs' :
          i # j => ~ Exclusive(dialogs'[i].template, dialogs'[j].template)
    <2>. HIDE DEF new
    <2>. SUFFICES ASSUME NEW i \in 1 .. n + 1, NEW j \in 1 .. n + 1, i # j
                  PROVE  ~ Exclusive(dialogs'[i].template, dialogs'[j].template)
      BY <1>3
    <2>1. CASE i \in 1 .. n /\ j \in 1 .. n
      BY <1>3, <2>1 DEF DialogsServed
    <2>2. CASE i \in 1 .. n /\ j = n + 1
      BY <1>2, <1>3, <1>6, <2>2
    <2>3. CASE i = n + 1 /\ j \in 1 .. n
      BY <1>2, <1>3, <1>6, <2>3, ExclusiveBoth
    <2>. QED  BY <1>3, <2>1, <2>2, <2>3
  <1>8. \A i \in DOMAIN dialogs' : Served(dialogs[i])'
    <2>. HIDE DEF new
    <2>. SUFFICES ASSUME NEW i \in 1 .. n + 1 PROVE Served(dialogs[i])'
      BY <1>3
    <2>1. CASE i = n + 1
      BY <1>3, <1>4, <2>1 DEF new
    <2>2. CASE i \in 1 .. n
      BY <1>5, <2>2
    <2>. QED  BY <1>3, <2>1, <2>2
  <1>9. pfDlgProc' \in [DialogKinds -> DlgProcs \cup {NoProc}]
    BY <1>2 DEF DialogsServed
  <1>. QED  BY <1>2, <1>3, <1>7, <1>8, <1>9 DEF DialogsServed

\* WM_INITDIALOG changes the topmost dialog only.
LEMMA InitServed ==
  ASSUME DialogsServed, InitDialog PROVE DialogsServed'
  <1>. DEFINE top == Len(dialogs)
              k == KindOf(dialogs[top].template)
              new == [dialogs[top] EXCEPT !.inited = TRUE,
                                          !.controls = IF k \in Extended THEN @ + 1 ELSE @]
  <1>1. /\ dialogs \in Seq(Dialogs) /\ top \in Nat /\ DOMAIN dialogs = 1 .. top
        /\ top \in DOMAIN dialogs
    BY DEF InitDialog, DialogsServed
  <1>2. dialogs[top] \in Dialogs /\ Served(dialogs[top]) /\ ~ dialogs[top].inited
    BY <1>1 DEF InitDialog, DialogsServed
  <1>3. new \in Dialogs /\ new.template = dialogs[top].template
    <2>. DEFINE d == dialogs[top]
                count == IF k \in Extended THEN d.controls + 1 ELSE d.controls
    <2>1. d \in Dialogs
      BY <1>2
    <2>2. count \in Nat
      BY <2>1 DEF Dialogs
    <2>3. new = [d EXCEPT !.inited = TRUE, !.controls = count]
      OBVIOUS
    <2>. HIDE DEF d, count, new
    <2>4. new \in Dialogs /\ new.template = d.template
      BY <2>1, <2>2, <2>3 DEF Dialogs
    <2>. QED  BY <2>4 DEF d
  <1>4. /\ dialogs' = [dialogs EXCEPT ![top] = new]
        /\ bInit' = bInit \cup ({k} \cap Extended) /\ UNCHANGED pfDlgProc
    BY <1>1 DEF InitDialog
  <1>5. /\ new.hooked = dialogs[top].hooked /\ new.proc = dialogs[top].proc
        /\ new.inited
        /\ new.controls = IF k \in Extended THEN 1 ELSE 0
    <2>1. dialogs[top].controls = 0
      BY <1>2 DEF Served
    <2>. QED  BY <1>2, <2>1 DEF Dialogs
  <1>6. /\ dialogs' \in Seq(Dialogs) /\ DOMAIN dialogs' = DOMAIN dialogs
        /\ dialogs'[top] = new
        /\ \A i \in DOMAIN dialogs : i # top => dialogs'[i] = dialogs[i]
    <2>. HIDE DEF new, top
    <2>1. dialogs \in [1 .. top -> Dialogs]
      BY <1>1 DEF top
    <2>2. dialogs' \in [1 .. top -> Dialogs]
      BY <1>1, <1>3, <1>4, <2>1
    <2>. QED  BY <1>1, <1>3, <1>4, <2>1, <2>2
  <1>7. \A i \in DOMAIN dialogs' : dialogs'[i].template = dialogs[i].template
    <2>. HIDE DEF new
    <2>. QED  BY <1>3, <1>6
  <1>8. \A i \in DOMAIN dialogs' : Served(dialogs[i])'
    <2>. HIDE DEF new
    <2>. SUFFICES ASSUME NEW i \in DOMAIN dialogs PROVE Served(dialogs[i])'
      BY <1>6
    <2>1. CASE i = top
      <3>1. /\ dialogs'[i].hooked = dialogs[i].hooked /\ dialogs'[i].proc = dialogs[i].proc
            /\ dialogs'[i].template = dialogs[i].template /\ dialogs'[i].inited
            /\ dialogs'[i].controls = IF KindOf(dialogs[i].template) \in Extended THEN 1 ELSE 0
        BY <1>3, <1>5, <1>6, <2>1
      <3>. QED  BY <1>2, <1>4, <2>1, <3>1 DEF Served
    <2>2. CASE i # top
      BY <1>4, <1>6, <2>2 DEF DialogsServed, Served
    <2>. QED  BY <2>1, <2>2
  <1>. QED  BY <1>4, <1>6, <1>7, <1>8 DEF DialogsServed

\* A dialog that ends leaves those below it as they are.
LEMMA EndServed ==
  ASSUME DialogsServed, EndDialog PROVE DialogsServed'
  <1>1. /\ dialogs \in Seq(Dialogs) /\ Len(dialogs) \in Nat
        /\ DOMAIN dialogs = 1 .. Len(dialogs) /\ Len(dialogs) # 0
    BY DEF DialogsServed, EndDialog
  <1>2. /\ dialogs' \in Seq(Dialogs) /\ DOMAIN dialogs' = 1 .. Len(dialogs) - 1
        /\ \A i \in DOMAIN dialogs' : dialogs'[i] = dialogs[i] /\ i \in DOMAIN dialogs
    BY <1>1 DEF EndDialog
  <1>3. UNCHANGED <<pfDlgProc, bInit>>
    BY DEF EndDialog
  <1>. QED  BY <1>2, <1>3 DEF DialogsServed, Served

LEMMA ServedKept == DialogsServed /\ [GinaNext]_ginaVars => DialogsServed'
  <1>. SUFFICES ASSUME DialogsServed, [GinaNext]_ginaVars PROVE DialogsServed'
    OBVIOUS
  <1>1. CASE UNCHANGED <<dialogs, pfDlgProc, bInit>>
    BY <1>1 DEF DialogsServed, Served
  <1>. QED
    BY <1>1, OpeningServed, InitServed, EndServed
       DEF GinaNext, ginaVars, WlxNegotiate, WlxInitialize

\* The hooks take nothing from Winlogon or MSGINA, whatever dialogs are opened
\* above each other, and what they add is there once (XGina.cpp:73, 154-168, 202).
THEOREM HooksAreTransparentHolds == GinaSpec => []HooksAreTransparent
  <1>1. GinaInit => WayToHook /\ DialogsServed
    BY VersionsAssumption DEF GinaInit, WayToHook, DialogsServed, Extended, DialogKinds
  <1>2. WayToHook /\ DialogsServed => HooksAreTransparent
    <2>. SUFFICES ASSUME WayToHook, DialogsServed, NEW i \in DOMAIN dialogs
                  PROVE  /\ dialogs[i].hooked =>
                              pfDlgProc[KindOf(dialogs[i].template)] = dialogs[i].proc
                         /\ dialogs[i].inited /\ KindOf(dialogs[i].template) \in bInit
                              => dialogs[i].controls = 1
      BY DEF HooksAreTransparent, WayToHook
    <2>. QED  BY DEF DialogsServed, Served
  <1>. QED  BY <1>1, <1>2, HookKept, ServedKept, PTL DEF GinaSpec

\* What the table and the versions are.
GinaTyped ==
  /\ tableVersion \in 0 .. NewestVersion /\ g_dwVersion \in 0 .. StubVersion
  /\ slot \in {"winlogon", "hook"} /\ pfDialogBox \in {"none", "winlogon", "hook"}

LEMMA GinaTypedKept == GinaTyped /\ [GinaNext]_ginaVars => GinaTyped'
  <1>. SUFFICES ASSUME GinaTyped, [GinaNext]_ginaVars PROVE GinaTyped'
    OBVIOUS
  <1>. USE DEF GinaTyped
  <1>1. CASE WlxNegotiate
    BY <1>1, VersionsAssumption DEF WlxNegotiate
  <1>2. CASE WlxInitialize
    BY <1>2 DEF WlxInitialize
  <1>3. CASE InitDialog \/ EndDialog
    BY <1>3 DEF InitDialog, EndDialog
  <1>4. ASSUME NEW t \in Templates, NEW p \in DlgProcs, HookedWlxDialogBoxParam(t, p)
        PROVE  GinaTyped'
    BY <1>4 DEF HookedWlxDialogBoxParam
  <1>5. CASE UNCHANGED ginaVars
    BY <1>5 DEF ginaVars
  <1>. QED  BY <1>1, <1>2, <1>3, <1>4, <1>5 DEF GinaNext

\* Type correctness of the GINA.
THEOREM GinaTypeCorrect == GinaSpec => []GinaTypeOK
  <1>1. GinaInit => WayToHook /\ DialogsServed /\ GinaTyped
    BY VersionsAssumption
       DEF GinaInit, WayToHook, DialogsServed, GinaTyped, Extended, DialogKinds
  <1>2. WayToHook /\ DialogsServed /\ GinaTyped => GinaTypeOK
    BY DEF WayToHook, DialogsServed, GinaTyped, GinaTypeOK, Dialogs
  <1>. QED  BY <1>1, <1>2, HookKept, ServedKept, GinaTypedKept, PTL DEF GinaSpec

-----------------------------------------------------------------------------
(***************************************************************************)
(* The run of all six.  What it checks of one component's behaviours is    *)
(* about that component alone: the others stand still, so that everything  *)
(* proved of each of them is true of the run.                              *)
(***************************************************************************)

\* A behaviour of the run is a behaviour of each of its components: a step of one
\* of them touches no variable of another.
THEOREM LibraryRunsComponents ==
  LibrarySpec => SvcSpec /\ ComSpec /\ Tile2Spec /\ SingleSpec /\ GinaSpec /\ LogSpec
  <1>. DEFINE libraryVars == <<part, svcVars, comVars, tile2Vars, singleVars, ginaVars, logVars>>
  <1>1. LibraryInit => /\ SvcInit /\ ComInit /\ Tile2Init
                       /\ SingleInit /\ GinaInit /\ LogInit
    BY DEF LibraryInit
  <1>2. [LibraryNext]_libraryVars =>
          /\ [SvcNext]_svcVars /\ [ComNext]_comVars /\ [Tile2Next]_tile2Vars
          /\ [SingleNext]_singleVars /\ [GinaNext]_ginaVars /\ [LogNext]_logVars
    BY DEF LibraryNext, CtrlStep, ComStep, TileStep, SingleStep, GinaStep, LogStep
  <1>. QED
    BY <1>1, <1>2, PTL
       DEF LibrarySpec, SvcSpec, ComSpec, Tile2Spec, SingleSpec, GinaSpec, LogSpec

\* Every component of the run keeps the types of its variables.
THEOREM LibraryTypeCorrect == LibrarySpec => []LibraryTypeOK
  <1>1. LibrarySpec => /\ []SvcTypeOK /\ []ComTypeOK /\ []Tile2TypeOK
                       /\ []SingleTypeOK /\ []GinaTypeOK /\ []LogTypeOK
    BY LibraryRunsComponents, SvcTypeCorrect, ComTypeCorrect, Tile2TypeCorrect,
       SingleTypeCorrect, GinaTypeCorrect, LogTypeCorrect
  <1>2. SvcTypeOK /\ ComTypeOK /\ Tile2TypeOK /\ SingleTypeOK /\ GinaTypeOK /\ LogTypeOK
          => LibraryTypeOK
    BY DEF LibraryTypeOK
  <1>. QED  BY <1>1, <1>2, PTL

=============================================================================
