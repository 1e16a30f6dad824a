----------------------- MODULE XCredentialV2Provider -----------------------
(***************************************************************************)
(* CXCreProviderV2 (XCredentialV2/CredentialV2_Imp.cpp), the credential    *)
(* provider of Windows 8 and later, with the event windows it owns.        *)
(*                                                                         *)
(* LogonUI calls a provider from one thread, in the order its interface    *)
(* documents: a usage scenario, the array of users, then any number of     *)
(* Advise .. UnAdvise periods in which it asks for the tiles.  The event   *)
(* window's thread calls OnConnectStatusChanged at any moment of that.     *)
(*                                                                         *)
(* The variables beginning with m_ are the members of the object.  The     *)
(* others are LogonUI's side: the references it holds, the callback it     *)
(* considers valid, what it was last told, and whether it has been asked   *)
(* to enumerate again.                                                     *)
(***************************************************************************)
EXTENDS CmdEventWnd

CONSTANTS Scenarios,   \* CREDENTIAL_PROVIDER_USAGE_SCENARIO
          Supported,   \* CPUS_LOGON and CPUS_UNLOCK_WORKSTATION
          Sinks,       \* ICredentialProviderEvents objects of LogonUI
          UserArrays,  \* ICredentialProviderUserArray objects of LogonUI
          UserCount,   \* what GetCount of each of them returns
          RawTile,     \* a credential constructed but never initialised
          MaxClients   \* bound: references LogonUI takes on one provider

ASSUME SupportedAssumption  == Supported \subseteq Scenarios
ASSUME ObjectsAssumption    == /\ NULL \notin Sinks \cup UserArrays \cup Scenarios
                               /\ Sinks \cap UserArrays = {}
                               /\ IsFiniteSet(Providers)
ASSUME UserCountAssumption  == UserCount \in [UserArrays -> Nat]
ASSUME MaxClientsAssumption == MaxClients \in Nat \ {0}

VARIABLES
  life,          \* the provider's memory: none, alive or destroyed
  m_cRef,        \* its reference count
  m_cpus,        \* the usage scenario
  m_fRecreateEnumeratedCredentials,
  m_pCredProviderUserArray,
  m_dwCredentialCount,
  m_pCredential, \* the array of tiles, empty when the pointer is NULL
  m_pEventWin,   \* the current event window
  m_pcpe,        \* the callback stored by Advise
  held,          \* references this provider holds on LogonUI's objects
  phase,         \* LogonUI: where it is in its protocol with the provider
  clients,       \* LogonUI: the references it holds on the provider
  advised,       \* LogonUI: the callback between Advise and UnAdvise
  answer,        \* LogonUI: what GetCredentialCount last told it
  changed,       \* LogonUI: CredentialsChanged came and was not acted upon
  reg            \* the callback the window thread saw in its NULL check

provVars == <<life, m_cRef, m_cpus, m_fRecreateEnumeratedCredentials,
              m_pCredProviderUserArray, m_dwCredentialCount, m_pCredential,
              m_pEventWin, m_pcpe, held, phase, clients, advised, answer, changed>>

vars == <<wndVars, provVars, reg>>

Tile == [cpus : Scenarios, users : UserArrays, index : Nat, win : Windows]
Slots == Tile \cup {NULL, RawTile}
Replies == [count : Nat, status : BOOLEAN]

TypeOK ==
  /\ WndTypeOK
  /\ life \in [Providers -> {"none", "alive", "destroyed"}]
  /\ m_cRef \in [Providers -> Int]
  /\ m_cpus \in [Providers -> Scenarios \cup {NULL}]
  /\ m_fRecreateEnumeratedCredentials \in [Providers -> BOOLEAN]
  /\ m_pCredProviderUserArray \in [Providers -> UserArrays \cup {NULL}]
  /\ m_dwCredentialCount \in [Providers -> Nat]
  /\ m_pCredential \in [Providers -> Seq(Slots)]
  /\ m_pEventWin \in [Providers -> Windows \cup {NULL}]
  /\ m_pcpe \in [Providers -> Sinks \cup {NULL}]
  /\ held \in [Providers -> [Sinks \cup UserArrays -> Int]]
  /\ phase \in [Providers -> {"none", "created", "scenario", "ready", "released"}]
  /\ clients \in [Providers -> Nat]
  /\ advised \in [Providers -> Sinks \cup {NULL}]
  /\ answer \in [Providers -> Replies \cup {NULL}]
  /\ changed \in [Providers -> BOOLEAN]
  /\ reg \in [Windows -> Sinks \cup {NULL}]

Init ==
  /\ WndInit
  /\ life = [p \in Providers |-> "none"]
  /\ m_cRef = [p \in Providers |-> 0]
  /\ m_cpus = [p \in Providers |-> NULL]
  /\ m_fRecreateEnumeratedCredentials = [p \in Providers |-> FALSE]
  /\ m_pCredProviderUserArray = [p \in Providers |-> NULL]
  /\ m_dwCredentialCount = [p \in Providers |-> 0]
  /\ m_pCredential = [p \in Providers |-> <<>>]
  /\ m_pEventWin = [p \in Providers |-> NULL]
  /\ m_pcpe = [p \in Providers |-> NULL]
  /\ held = [p \in Providers |-> [x \in Sinks \cup UserArrays |-> 0]]
  /\ phase = [p \in Providers |-> "none"]
  /\ clients = [p \in Providers |-> 0]
  /\ advised = [p \in Providers |-> NULL]
  /\ answer = [p \in Providers |-> NULL]
  /\ changed = [p \in Providers |-> FALSE]
  /\ reg = [w \in Windows |-> NULL]

\* LogonUI calls a method of p only while it holds a reference on it.
Callable(p) == Running /\ clients[p] > 0

\* Mutant: the old object keeps its reference.
SwappedNoRelease(p, old, new) ==
  [x \in Sinks \cup UserArrays |-> held[p][x] + (IF x = new THEN 1 ELSE 0)]

\* The references p holds after Release on old and AddRef on new, either of
\* which may be NULL.
Swapped(p, old, new) ==
  [x \in Sinks \cup UserArrays |->
     held[p][x] - (IF x = old THEN 1 ELSE 0) + (IF x = new THEN 1 ELSE 0)]

-----------------------------------------------------------------------------
(***************************************************************************)
(* Creation and the reference count.                                       *)
(***************************************************************************)

\* The count starts at one and the constructor adds one; QueryInterface adds
\* LogonUI's and CreateInstance gives its own back.  The constructor leaves
\* m_cpus and the recreate flag as it finds them.
BirthCount == 1 + 1 + 1 - 1

CreateInstance(p) ==
  /\ Running
  /\ phase[p] = "none"
  /\ phase' = [phase EXCEPT ![p] = "created"]
  /\ life' = [life EXCEPT ![p] = "alive"]
  /\ m_cRef' = [m_cRef EXCEPT ![p] = BirthCount]
  /\ clients' = [clients EXCEPT ![p] = 1]
  /\ \E cpus \in Scenarios : m_cpus' = [m_cpus EXCEPT ![p] = cpus]
  /\ \E flag \in BOOLEAN :
       m_fRecreateEnumeratedCredentials' =
         [m_fRecreateEnumeratedCredentials EXCEPT ![p] = flag]
  /\ UNCHANGED <<wndVars, m_pCredProviderUserArray, m_dwCredentialCount,
                 m_pCredential, m_pEventWin, m_pcpe, held, advised, answer,
                 changed, reg>>

QueryInterface(p) ==
  /\ Callable(p)
  /\ clients[p] < MaxClients
  /\ m_cRef' = [m_cRef EXCEPT ![p] = @ + 1]
  /\ clients' = [clients EXCEPT ![p] = @ + 1]
  /\ UNCHANGED <<wndVars, life, m_cpus, m_fRecreateEnumeratedCredentials,
                 m_pCredProviderUserArray, m_dwCredentialCount, m_pCredential,
                 m_pEventWin, m_pcpe, held, phase, advised, answer, changed, reg>>

\* ~CXCreProviderV2: the tiles and the user array are released, the current
\* event window is deleted and gives its reference back, and a last Release
\* runs on the dying object.  The callback is not released.
Destroy(p) ==
  LET w == m_pEventWin[p] IN
  /\ life' = [life EXCEPT ![p] = "destroyed"]
  /\ m_pCredential' = [m_pCredential EXCEPT ![p] = <<>>]
  /\ m_pCredProviderUserArray' = [m_pCredProviderUserArray EXCEPT ![p] = NULL]
  /\ held' = [held EXCEPT ![p] = Swapped(p, m_pCredProviderUserArray[p], NULL)]
  /\ m_pEventWin' = [m_pEventWin EXCEPT ![p] = NULL]
  /\ m_cRef' = [m_cRef EXCEPT ![p] = @ - (IF w = NULL THEN 2 ELSE 3)]
  /\ IF w = NULL THEN UNCHANGED wndVars ELSE Destruct(w)

\* LogonUI ends every Advise period before it drops its last reference.
Release(p) ==
  /\ Callable(p)
  /\ clients[p] = 1 => advised[p] = NULL
  /\ clients' = [clients EXCEPT ![p] = @ - 1]
  /\ phase' = [phase EXCEPT ![p] = IF clients[p] = 1 THEN "released" ELSE @]
  /\ IF m_cRef[p] = 1
     THEN Destroy(p)
     ELSE /\ m_cRef' = [m_cRef EXCEPT ![p] = @ - 1]
          /\ UNCHANGED <<wndVars, life, m_pCredential, m_pCredProviderUserArray,
                         held, m_pEventWin>>
  /\ UNCHANGED <<m_cpus, m_fRecreateEnumeratedCredentials, m_dwCredentialCount,
                 m_pcpe, advised, answer, changed, reg>>

-----------------------------------------------------------------------------
(***************************************************************************)
(* The scenario and the users.                                             *)
(***************************************************************************)

\* Mutant: Initialize stores the provider without a reference.
OpenWindowNoAddRef(w, p) ==
  /\ Construct(w, p)
  /\ m_pEventWin' = [m_pEventWin EXCEPT ![p] = w]
  /\ UNCHANGED m_cRef

\* Mutant: the window that is replaced is deleted.
OpenWindowDeletingOld(w, p) ==
  LET old == m_pEventWin[p] IN
  /\ wobj[w] = "unused"
  /\ wobj' = [v \in Windows |-> IF v = w THEN "alive"
                                ELSE IF v = old THEN "deleted" ELSE wobj[v]]
  /\ m_pProvider' = [v \in Windows |-> IF v = w THEN p
                                       ELSE IF v = old THEN NULL ELSE m_pProvider[v]]
  /\ posted' = [v \in Windows |-> IF v = old /\ m_hWnd[v]
                                  THEN Append(posted[v], "exit") ELSE posted[v]]
  /\ m_hWnd' = [v \in Windows |-> v # old /\ m_hWnd[v]]
  /\ thread' = [thread EXCEPT ![w] = "start"]
  /\ m_pEventWin' = [m_pEventWin EXCEPT ![p] = w]
  /\ m_cRef' = [m_cRef EXCEPT ![p] = IF old = NULL THEN @ + 1 ELSE @]
  /\ UNCHANGED <<m_fConnected, screen, input, registered, fault>>

\* Mutant: a window that exists is started a second time.
OpenWindowTwice(w, p) ==
  IF m_pEventWin[p] = NULL
  THEN /\ Construct(w, p)
       /\ m_pEventWin' = [m_pEventWin EXCEPT ![p] = w]
       /\ m_cRef' = [m_cRef EXCEPT ![p] = @ + 1]
  ELSE /\ thread' = [thread EXCEPT ![m_pEventWin[p]] = "start"]
       /\ UNCHANGED <<wobj, m_pProvider, m_hWnd, m_fConnected, screen, posted, input,
                      registered, fault, m_pEventWin, m_cRef>>

\* new CCmdEventWnd and Initialize(this): the new window becomes the current
\* one and holds a reference on the provider.  The window it replaces is
\* neither deleted nor told.
OpenWindow(w, p) ==
  /\ Construct(w, p)
  /\ m_pEventWin' = [m_pEventWin EXCEPT ![p] = w]
  /\ m_cRef' = [m_cRef EXCEPT ![p] = @ + 1]

\* Mutant: the tiles of the last scenario are kept.
RequireNoTiles(p) == UNCHANGED m_fRecreateEnumeratedCredentials


\* The tiles are made again by the next GetCredentialCount.
RequireTiles(p) ==
  m_fRecreateEnumeratedCredentials' = [m_fRecreateEnumeratedCredentials EXCEPT ![p] = TRUE]

\* LOGON and UNLOCK are accepted.
SetUsageScenario(p, cpus) ==
  /\ Callable(p)
  /\ cpus \in Supported
  /\ m_cpus' = [m_cpus EXCEPT ![p] = cpus]
  /\ RequireTiles(p)
  /\ \E w \in Windows : OpenWindow(w, p)
  /\ phase' = [phase EXCEPT ![p] = "scenario"]
  /\ answer' = [answer EXCEPT ![p] = NULL]
  /\ UNCHANGED <<life, m_pCredProviderUserArray, m_dwCredentialCount,
                 m_pCredential, m_pcpe, held, clients, advised, changed, reg>>

\* Any other scenario is refused before anything is stored, and LogonUI does
\* not enumerate the provider for it.
RefuseUsageScenario(p, cpus) ==
  /\ Callable(p)
  /\ cpus \in Scenarios \ Supported
  /\ phase' = [phase EXCEPT ![p] = "created"]
  /\ answer' = [answer EXCEPT ![p] = NULL]
  /\ UNCHANGED <<wndVars, life, m_cRef, m_cpus, m_fRecreateEnumeratedCredentials,
                 m_pCredProviderUserArray, m_dwCredentialCount, m_pCredential,
                 m_pEventWin, m_pcpe, held, clients, advised, changed, reg>>

\* SetUserArray swaps the array and its reference.
SetUserArray(p, users) ==
  /\ Callable(p)
  /\ phase[p] = "scenario"
  /\ m_pCredProviderUserArray' = [m_pCredProviderUserArray EXCEPT ![p] = users]
  /\ held' = [held EXCEPT ![p] = Swapped(p, m_pCredProviderUserArray[p], users)]
  /\ phase' = [phase EXCEPT ![p] = "ready"]
  /\ UNCHANGED <<wndVars, life, m_cRef, m_cpus, m_fRecreateEnumeratedCredentials,
                 m_dwCredentialCount, m_pCredential, m_pEventWin, m_pcpe, clients,
                 advised, answer, changed, reg>>

-----------------------------------------------------------------------------
(***************************************************************************)
(* The callback.                                                           *)
(***************************************************************************)
Advise(p, sink) ==
  /\ Callable(p)
  /\ phase[p] = "ready"
  /\ advised[p] = NULL
  /\ m_pcpe' = [m_pcpe EXCEPT ![p] = sink]
  /\ held' = [held EXCEPT ![p] = Swapped(p, NULL, sink)]
  /\ advised' = [advised EXCEPT ![p] = sink]
  /\ answer' = [answer EXCEPT ![p] = NULL]
  /\ changed' = [changed EXCEPT ![p] = FALSE]
  /\ UNCHANGED <<wndVars, life, m_cRef, m_cpus, m_fRecreateEnumeratedCredentials,
                 m_pCredProviderUserArray, m_dwCredentialCount, m_pCredential,
                 m_pEventWin, phase, clients, reg>>

UnAdvise(p) ==
  /\ Callable(p)
  /\ advised[p] # NULL
  /\ held' = [held EXCEPT ![p] = Swapped(p, m_pcpe[p], NULL)]
  /\ m_pcpe' = [m_pcpe EXCEPT ![p] = NULL]
  /\ advised' = [advised EXCEPT ![p] = NULL]
  /\ UNCHANGED <<wndVars, life, m_cRef, m_cpus, m_fRecreateEnumeratedCredentials,
                 m_pCredProviderUserArray, m_dwCredentialCount, m_pCredential,
                 m_pEventWin, phase, clients, answer, changed, reg>>

\* OnConnectStatusChanged on the window thread, up to its NULL check.  The
\* owner it calls is the one the window holds.
CheckCallback(w) ==
  LET p == m_pProvider[w] IN
  /\ Running
  /\ p # NULL
  /\ IF life[p] = "alive"
     THEN /\ MoveThread(w, "notify", IF m_pcpe[p] = NULL THEN "pump" ELSE "call")
          /\ reg' = [reg EXCEPT ![w] = m_pcpe[p]]
          /\ UNCHANGED fault
     ELSE /\ MoveThread(w, "notify", "notify")
          /\ fault' = "freedProvider"
          /\ UNCHANGED reg
  /\ UNCHANGED provVars

\* The call itself.  The pointer is read a second time after the check, and
\* the call goes through whichever of the two reads the build kept; no lock
\* keeps UnAdvise out.  A callback that LogonUI has taken back is a NULL
\* pointer or a released object.
CallCallback(w) ==
  LET p == m_pProvider[w] IN
  /\ Running
  /\ p # NULL
  /\ \E sink \in {reg[w], m_pcpe[p]} :
       IF sink # NULL /\ sink = advised[p]
       THEN /\ changed' = [changed EXCEPT ![p] = TRUE]
            /\ MoveThread(w, "call", "pump")
            /\ UNCHANGED fault
       ELSE /\ fault' = "deadCallback"
            /\ MoveThread(w, "call", "call")
            /\ UNCHANGED changed
  /\ reg' = [reg EXCEPT ![w] = NULL]
  /\ UNCHANGED <<life, m_cRef, m_cpus, m_fRecreateEnumeratedCredentials,
                 m_pCredProviderUserArray, m_dwCredentialCount, m_pCredential,
                 m_pEventWin, m_pcpe, held, phase, clients, advised, answer>>

-----------------------------------------------------------------------------
(***************************************************************************)
(* The tiles.                                                              *)
(***************************************************************************)

\* EnumerateCredentials over the current user array.  An Initialize that
\* fails leaves NULL in the array, a GetAt that fails leaves the credential
\* there uninitialised, and neither stops the loop.
EnumerateCredentials(p, failed, raw) ==
  [i \in 1 .. UserCount[m_pCredProviderUserArray[p]] |->
     IF i \in failed THEN NULL
     ELSE IF i \in raw THEN RawTile
     ELSE [cpus |-> m_cpus[p], users |-> m_pCredProviderUserArray[p],
           index |-> i, win |-> m_pEventWin[p]]]

\* ReleaseEnumeratedCredentials calls Release through every slot it finds.
ReleasesNullTile(p) == \E i \in DOMAIN m_pCredential[p] : m_pCredential[p][i] = NULL

\* The recreate flag is consumed, the tiles are made anew for the current
\* user array, and LogonUI learns their number and, by way of the default
\* tile, the status of the current window.
GetCredentialCount(p) ==
  LET indexes == 1 .. UserCount[m_pCredProviderUserArray[p]] IN
  /\ Callable(p)
  /\ phase[p] = "ready"
  /\ IF m_fRecreateEnumeratedCredentials[p]
     THEN /\ ~ ReleasesNullTile(p)
          /\ \E failed \in SUBSET indexes : \E raw \in SUBSET (indexes \ failed) :
               m_pCredential' = [m_pCredential EXCEPT
                                   ![p] = EnumerateCredentials(p, failed, raw)]
          /\ m_dwCredentialCount' = [m_dwCredentialCount EXCEPT
                                       ![p] = UserCount[m_pCredProviderUserArray[p]]]
     ELSE UNCHANGED <<m_pCredential, m_dwCredentialCount>>
  /\ m_fRecreateEnumeratedCredentials' =
       [m_fRecreateEnumeratedCredentials EXCEPT ![p] = FALSE]
  /\ answer' = [answer EXCEPT ![p] =
                  [count  |-> m_dwCredentialCount'[p],
                   status |-> m_fConnected[m_pEventWin[p]]]]
  /\ changed' = [changed EXCEPT ![p] = FALSE]
  /\ UNCHANGED <<wndVars, life, m_cRef, m_cpus, m_pCredProviderUserArray,
                 m_pEventWin, m_pcpe, held, phase, clients, advised, reg>>

\* The same call when the previous enumeration left a NULL slot behind: the
\* Release through it takes LogonUI down.
GetCredentialCountFaults(p) ==
  /\ Callable(p)
  /\ phase[p] = "ready"
  /\ m_fRecreateEnumeratedCredentials[p]
  /\ ReleasesNullTile(p)
  /\ OwnerFault
  /\ UNCHANGED <<provVars, reg>>

\* LogonUI asks for every tile GetCredentialCount announced.  QueryInterface
\* through a NULL slot takes LogonUI down; otherwise the provider is
\* unchanged and LogonUI holds the tile.
GetCredentialAt(p, i) ==
  /\ Callable(p)
  /\ phase[p] = "ready"
  /\ answer[p] # NULL
  /\ i <= m_dwCredentialCount[p]
  /\ IF m_pCredential[p][i] = NULL THEN OwnerFault ELSE UNCHANGED wndVars
  /\ UNCHANGED <<provVars, reg>>

-----------------------------------------------------------------------------
WindowStep(w) ==
  /\ WindowThread(w) \/ ModalLoop(w) \/ UserInput(w)
  /\ UNCHANGED <<provVars, reg>>

LogonUI(p) ==
  \/ CreateInstance(p)
  \/ QueryInterface(p)
  \/ Release(p)
  \/ \E cpus \in Scenarios : SetUsageScenario(p, cpus) \/ RefuseUsageScenario(p, cpus)
  \/ \E users \in UserArrays : SetUserArray(p, users)
  \/ \E sink \in Sinks : Advise(p, sink)
  \/ UnAdvise(p)
  \/ GetCredentialCount(p)
  \/ GetCredentialCountFaults(p)
  \/ \E i \in 1 .. m_dwCredentialCount[p] : GetCredentialAt(p, i)

Next ==
  \/ \E p \in Providers : LogonUI(p)
  \/ \E w \in Windows : WindowStep(w) \/ CheckCallback(w) \/ CallCallback(w)

Spec == Init /\ [][Next]_vars

\* Every window thread that can run does, a callback returns, and LogonUI
\* acts on CredentialsChanged.  Neither the user nor LogonUI's other calls
\* are owed.
Fairness ==
  /\ \A w \in Windows :
       /\ WF_vars(WindowThread(w) /\ UNCHANGED <<provVars, reg>>)
       /\ WF_vars(CheckCallback(w) \/ CallCallback(w))
  /\ \A p \in Providers :
       WF_vars(changed[p] /\ (GetCredentialCount(p) \/ GetCredentialCountFaults(p)))

FairSpec == Spec /\ Fairness

-----------------------------------------------------------------------------
(***************************************************************************)
(* Properties.                                                             *)
(***************************************************************************)

\* The reference count of a provider is the reference CreateInstance never
\* gives back, LogonUI's references, and one for every window that points at
\* it: AddRef in Initialize, Release in the window's destructor (CmdEventWnd
\* .cpp:49, :31).  An unbalanced pair would delete the provider under the
\* window thread or under LogonUI.
RefAccounting ==
  \A p \in Providers :
    life[p] = "alive" =>
      m_cRef[p] = 1 + clients[p] + Cardinality({w \in Windows : m_pProvider[w] = p})

\* The window thread takes no reference on its window or on its provider, yet
\* never runs into freed memory: a provider that owns a window is never
\* destroyed, whatever LogonUI releases and whenever the user clicks.
NoFreedMemory == fault \notin {"freedWindow", "freedProvider"}

\* The provider holds one reference on the callback it stores and one on the
\* user array it stores, and none on anything else, through any sequence of
\* Advise, UnAdvise and SetUserArray: nothing leaks, nothing is released
\* twice.
HeldExactly ==
  \A p \in Providers : \A x \in Sinks \cup UserArrays :
    held[p][x] = IF x \in {m_pcpe[p], m_pCredProviderUserArray[p]} THEN 1 ELSE 0

\* LogonUI is never left with a status that is not the window's: once it has
\* enumerated an advised provider, either the status it was told is current,
\* or a notification is pending, or the window thread is on its way to send
\* one.  Flipping m_fConnected after the callback, or not at all after a
\* NULL check, would lose one.
NoLostChange ==
  \A p \in Providers :
    \/ advised[p] = NULL
    \/ answer[p] = NULL
    \/ changed[p]
    \/ thread[m_pEventWin[p]] \in {"notify", "call"}
    \/ answer[p].status = m_fConnected[m_pEventWin[p]]

\* What GetCredentialAt serves was made for the present: when no recreation
\* is due, every initialised tile carries the current scenario, user array
\* and event window, and the array has as many slots as the count says and as
\* LogonUI was told.
TilesAreCurrent ==
  \A p \in Providers :
    /\ Len(m_pCredential[p]) = m_dwCredentialCount[p]
    /\ answer[p] # NULL => answer[p].count = m_dwCredentialCount[p]
    /\ phase[p] = "ready" /\ ~ m_fRecreateEnumeratedCredentials[p] =>
         /\ m_dwCredentialCount[p] = UserCount[m_pCredProviderUserArray[p]]
         /\ \A i \in 1 .. m_dwCredentialCount[p] :
              m_pCredential[p][i] \in {NULL, RawTile,
                [cpus |-> m_cpus[p], users |-> m_pCredProviderUserArray[p],
                 index |-> i, win |-> m_pEventWin[p]]}

\* A change of status reaches LogonUI, as long as it stays advised: it is
\* asked to enumerate again, does, and is told the new status.
ChangeReachesLogonUI ==
  \A p \in Providers :
    (/\ advised[p] # NULL /\ answer[p] # NULL
     /\ answer[p].status # m_fConnected[m_pEventWin[p]])
    ~> (\/ ~ Running
        \/ advised[p] = NULL
        \/ answer[p] = NULL
        \/ phase[p] # "ready"
        \/ answer[p].status = m_fConnected[m_pEventWin[p]])

\* The provider uses its windows as CmdEventWnd expects, and its callback and
\* its failures are among those CmdEventWnd allows for: every step of this
\* specification is a step of the window's or leaves the window alone.
ImplementsEventWindow == WndSpec

\* The same with the scheduling: a provider that is fair to its callbacks is
\* fair to its windows.
ImplementsFairEventWindow == WndFairSpec

\* What GetCredentialAt promises for every index below the count
\* (CredentialV2_Imp.cpp:357): a tile, not a crash.
NoNullTile == fault # "nullTile"

\* The callback is not used once LogonUI has said it is no longer valid
\* (CredentialV2_Imp.cpp:275).
NoDeadCallback == fault # "deadCallback"

=============================================================================
