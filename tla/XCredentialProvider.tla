------------------------ MODULE XCredentialProvider ------------------------
(***************************************************************************)
(* CXCreProvider (XCredential/Credential_Imp.cpp), the credential provider *)
(* of Vista and 7, with its event windows and its array of tiles.  It      *)
(* wraps the system's password provider, and every call it answers it      *)
(* first hands on to that one.                                             *)
(*                                                                         *)
(* The windows are those of CmdEventWnd and the tiles those of TileArray,  *)
(* which XCredentialTile implements.  What this module adds is that both   *)
(* belong to the same provider: a tile keeps a raw pointer to the window   *)
(* of its scenario, and a scenario that fails deletes the window.          *)
(***************************************************************************)
EXTENDS CmdEventWnd, Functions

CONSTANTS This,       \* the provider object
          Sinks,      \* ICredentialProviderEvents objects of LogonUI
          Tiles,      \* the tiles a process may make
          MaxTiles,   \* bound: tiles one enumeration makes
          MaxClients  \* bound: references LogonUI takes on the provider

ASSUME OneProvider        == Providers = {This}
ASSUME SinksAssumption    == NULL \notin Sinks
ASSUME BoundsAssumption   == MaxTiles \in Nat /\ MaxClients \in Nat \ {0}

VARIABLES
  life,           \* the provider's memory: none, alive or destroyed
  m_cRef,         \* its reference count
  m_pOrgProvider, \* whether it has a wrapped provider
  m_pEventWin,    \* its current event window
  m_pcpe,         \* the callback stored by Advise
  held,           \* references it holds on LogonUI's callbacks
  tile, array, lost, taken,  \* its tiles, see TileArray
  tileWin,        \* the member m_pEventWin of each tile
  phase,          \* LogonUI: where it is in its protocol with the provider
  clients,        \* LogonUI: the references it holds on the provider
  advised,        \* LogonUI: the callback between Advise and UnAdvise
  answered,       \* LogonUI: GetCredentialCount has succeeded in this scenario
  reg             \* the callback the window thread saw in its NULL check

provVars  == <<life, m_cRef, m_pOrgProvider, m_pEventWin, m_pcpe, held>>
arrayVars == <<tile, array, lost, taken>>
tileVars  == <<arrayVars, tileWin>>
logonVars == <<phase, clients, advised, answered>>
vars == <<wndVars, provVars, tileVars, logonVars, reg>>

Array == INSTANCE TileArray

ProviderTypeOK ==
  /\ WndTypeOK
  /\ Array!ArrayTypeOK
  /\ life \in {"none", "alive", "destroyed"}
  /\ m_cRef \in Int
  /\ m_pOrgProvider \in BOOLEAN
  /\ m_pEventWin \in Windows \cup {NULL}
  /\ m_pcpe \in Sinks \cup {NULL}
  /\ held \in [Sinks -> Int]
  /\ tileWin \in [Tiles -> Windows \cup {NULL}]
  /\ phase \in {"none", "created", "failing", "ready", "released"}
  /\ clients \in Nat
  /\ advised \in Sinks \cup {NULL}
  /\ answered \in BOOLEAN
  /\ reg \in [Windows -> Sinks \cup {NULL}]

Init ==
  /\ WndInit
  /\ Array!ArrayInit
  /\ life = "none"
  /\ m_cRef = 0
  /\ m_pOrgProvider = FALSE
  /\ m_pEventWin = NULL
  /\ m_pcpe = NULL
  /\ held = [s \in Sinks |-> 0]
  /\ tileWin = [c \in Tiles |-> NULL]
  /\ phase = "none"
  /\ clients = 0
  /\ advised = NULL
  /\ answered = FALSE
  /\ reg = [w \in Windows |-> NULL]

\* LogonUI's thread is not inside a call of the provider.
Idle == Running /\ phase # "failing"

\* LogonUI calls the provider only while it holds a reference on it.
Callable == Idle /\ clients > 0

-----------------------------------------------------------------------------
(***************************************************************************)
(* Creation and the reference count.                                       *)
(***************************************************************************)

\* Mutant: the constructor takes no reference.
BirthCountBalanced == 1 + 1 - 1

\* The count starts at one and the constructor adds one; QueryInterface adds
\* LogonUI's and CreateInstance gives its own back.
BirthCount == 1 + 1 + 1 - 1

CreateInstance ==
  /\ Running
  /\ phase = "none"
  /\ phase' = "created"
  /\ life' = "alive"
  /\ m_cRef' = BirthCount
  /\ clients' = 1
  /\ UNCHANGED <<wndVars, m_pOrgProvider, m_pEventWin, m_pcpe, held, tileVars,
                 advised, answered, reg>>

QueryInterface ==
  /\ Callable
  /\ clients < MaxClients
  /\ m_cRef' = m_cRef + 1
  /\ clients' = clients + 1
  /\ UNCHANGED <<wndVars, life, m_pOrgProvider, m_pEventWin, m_pcpe, held, tileVars,
                 phase, advised, answered, reg>>

\* ~CXCreProvider: the array, the wrapped provider and the window go, the
\* window gives its reference back, and a last Release runs on the dying
\* object.
Destroy ==
  /\ life' = "destroyed"
  /\ Array!Enumerate(<<>>, FALSE)
  /\ m_pOrgProvider' = FALSE
  /\ m_pEventWin' = NULL
  /\ m_cRef' = m_cRef - (IF m_pEventWin = NULL THEN 2 ELSE 3)
  /\ IF m_pEventWin = NULL THEN UNCHANGED wndVars ELSE Destruct(m_pEventWin)

\* LogonUI ends every Advise period before it drops its last reference.
Release ==
  /\ Callable
  /\ clients = 1 => advised = NULL
  /\ clients' = clients - 1
  /\ phase' = IF clients = 1 THEN "released" ELSE phase
  /\ IF m_cRef = 1
     THEN Destroy
     ELSE /\ m_cRef' = m_cRef - 1
          /\ UNCHANGED <<wndVars, life, m_pOrgProvider, m_pEventWin, arrayVars>>
  /\ UNCHANGED <<m_pcpe, held, tileWin, advised, answered, reg>>

-----------------------------------------------------------------------------
(***************************************************************************)
(* SetUsageScenario.                                                       *)
(***************************************************************************)

\* The wrapped provider is made and asked, and whatever it says a new event
\* window is started.  The window it replaces is neither deleted nor told.
\* If the wrapped provider refuses the scenario the call goes on to its
\* failure path, and the new window's thread is already running.
SetUsageScenario(w, accepted) ==
  /\ Callable
  /\ m_pOrgProvider' = TRUE
  /\ Construct(w, This)
  /\ m_pEventWin' = w
  /\ m_cRef' = m_cRef + 1
  /\ phase' = IF accepted THEN "ready" ELSE "failing"
  /\ answered' = FALSE
  /\ UNCHANGED <<life, m_pcpe, held, tileVars, clients, advised, reg>>

\* Mutant: the failure path leaves the window to the next scenario.
FailUsageScenarioKeepsWindow ==
  /\ Running
  /\ clients > 0
  /\ m_pOrgProvider' = FALSE
  /\ phase' = "created"
  /\ answered' = FALSE
  /\ UNCHANGED <<wndVars, life, m_cRef, m_pEventWin, m_pcpe, held, tileVars, clients,
                 advised, reg>>

\* Mutant: the window's memory goes, its destructor does not run.
FailUsageScenarioFrees ==
  /\ Running
  /\ clients > 0
  /\ m_pOrgProvider' = FALSE
  /\ m_pEventWin' = NULL
  /\ wobj' = [w \in Windows |-> IF w = m_pEventWin THEN "deleted" ELSE wobj[w]]
  /\ phase' = "created"
  /\ answered' = FALSE
  /\ UNCHANGED <<m_pProvider, m_hWnd, m_fConnected, thread, screen, posted, input,
                 registered, fault, life, m_cRef, m_pcpe, held, tileVars, clients,
                 advised, reg>>

\* Mutant: the failed scenario is reported as a success.
FailUsageScenarioSucceeds ==
  /\ Running
  /\ clients > 0
  /\ m_pOrgProvider' = FALSE
  /\ m_pEventWin' = NULL
  /\ IF m_pEventWin = NULL
     THEN UNCHANGED <<wndVars, m_cRef>>
     ELSE Destruct(m_pEventWin) /\ m_cRef' = m_cRef - 1
  /\ phase' = "created"
  /\ UNCHANGED <<life, m_pcpe, held, tileVars, clients, advised, answered, reg>>

\* Mutant: the window's reference on the provider is forgotten.
FailUsageScenarioForgets ==
  /\ Running
  /\ clients > 0
  /\ m_pOrgProvider' = FALSE
  /\ m_pEventWin' = NULL
  /\ UNCHANGED m_cRef
  /\ IF m_pEventWin = NULL THEN UNCHANGED wndVars ELSE Destruct(m_pEventWin)
  /\ phase' = "created"
  /\ answered' = FALSE
  /\ UNCHANGED <<life, m_pcpe, held, tileVars, clients, advised, reg>>

\* The failure path, at once when there is no wrapped provider to be had or
\* after the refusal: the wrapped provider goes and so does the current
\* window, be it new or that of the last scenario.  The tiles stay.
FailUsageScenario ==
  /\ Running
  /\ clients > 0
  /\ m_pOrgProvider' = FALSE
  /\ m_pEventWin' = NULL
  /\ IF m_pEventWin = NULL
     THEN UNCHANGED <<wndVars, m_cRef>>
     ELSE Destruct(m_pEventWin) /\ m_cRef' = m_cRef - 1
  /\ phase' = "created"
  /\ answered' = FALSE
  /\ UNCHANGED <<life, m_pcpe, held, tileVars, clients, advised, reg>>

-----------------------------------------------------------------------------
(***************************************************************************)
(* The callback.                                                           *)
(***************************************************************************)
Advise(sink) ==
  /\ Callable
  /\ phase = "ready"
  /\ advised = NULL
  /\ m_pcpe' = sink
  /\ held' = [held EXCEPT ![sink] = @ + 1]
  /\ advised' = sink
  /\ UNCHANGED <<wndVars, life, m_cRef, m_pOrgProvider, m_pEventWin, tileVars, phase,
                 clients, answered, reg>>

\* Mutant: without a wrapped provider nothing is done, as in Advise.
UnAdviseOnlyWrapped ==
  /\ Callable
  /\ advised # NULL
  /\ IF m_pOrgProvider
     THEN held' = [held EXCEPT ![m_pcpe] = @ - 1] /\ m_pcpe' = NULL
     ELSE UNCHANGED held /\ m_pcpe' = NULL
  /\ advised' = NULL
  /\ UNCHANGED <<wndVars, life, m_cRef, m_pOrgProvider, m_pEventWin, tileVars, phase,
                 clients, answered, reg>>

\* The callback is given back with or without a wrapped provider.
UnAdvise ==
  /\ Callable
  /\ advised # NULL
  /\ m_pcpe # NULL
  /\ held' = [held EXCEPT ![m_pcpe] = @ - 1]
  /\ m_pcpe' = NULL
  /\ advised' = NULL
  /\ UNCHANGED <<wndVars, life, m_cRef, m_pOrgProvider, m_pEventWin, tileVars, phase,
                 clients, answered, reg>>

\* OnConnectStatusChanged on the window thread, up to its NULL check.  The
\* owner is found through the window.
CheckCallback(w) ==
  /\ Running
  /\ m_pProvider[w] # NULL
  /\ IF life = "alive"
     THEN /\ MoveThread(w, "notify", IF m_pcpe = NULL THEN "pump" ELSE "call")
          /\ reg' = [reg EXCEPT ![w] = m_pcpe]
          /\ UNCHANGED fault
     ELSE /\ MoveThread(w, "notify", "notify")
          /\ fault' = "freedProvider"
          /\ UNCHANGED reg
  /\ UNCHANGED <<provVars, tileVars, logonVars>>

\* The call itself, through the pointer as it was checked or as it is now.
\* The window may have been deleted since, and with it the reference it held
\* on the provider.
CallCallback(w) ==
  /\ Running
  /\ \E sink \in {reg[w], m_pcpe} :
       \/ /\ life = "alive" /\ sink # NULL /\ sink = advised
          /\ MoveThread(w, "call", "pump")
          /\ UNCHANGED fault
       \/ /\ life # "alive" \/ sink = NULL \/ sink # advised
          /\ MoveThread(w, "call", "call")
          /\ fault' = IF life = "alive" THEN "deadCallback" ELSE "freedProvider"
  /\ reg' = [reg EXCEPT ![w] = NULL]
  /\ UNCHANGED <<provVars, tileVars, logonVars>>

-----------------------------------------------------------------------------
(***************************************************************************)
(* The tiles.                                                              *)
(***************************************************************************)

\* Mutant: tiles are given the window they are made with only once.
PointedKeeps(made, kept) ==
  [c \in Tiles |-> IF kept /\ made # <<>> /\ c = made[1] /\ array = <<>>
                   THEN m_pEventWin ELSE tileWin[c]]

\* Initialize gives every new tile the current window.
Pointed(made, kept) ==
  [c \in Tiles |-> IF kept /\ c \in Range(made) THEN m_pEventWin ELSE tileWin[c]]

\* The tiles are made anew, one for each of the wrapped provider's.  The
\* wrapped provider may fail before or after some of them are made.
GetCredentialCount(made, kept) ==
  /\ Callable
  /\ phase = "ready"
  /\ Array!Enumerate(made, kept)
  /\ tileWin' = Pointed(made, kept)
  /\ answered' = kept
  /\ UNCHANGED <<wndVars, provVars, phase, clients, advised, reg>>

\* LogonUI asks for the tiles it was told of.
GetCredentialAt(c) ==
  /\ Callable
  /\ answered
  /\ Array!Take(c)
  /\ UNCHANGED <<wndVars, provVars, tileWin, logonVars, reg>>

\* LogonUI may keep a tile longer than the provider.
DropTile(c) ==
  /\ Idle
  /\ Array!Drop(c)
  /\ UNCHANGED <<wndVars, provVars, tileWin, logonVars, reg>>

\* SetSelected reads the status through the tile's pointer; that changes
\* nothing, unless the window has been deleted since.
SetSelected(c) ==
  /\ Idle
  /\ c \in taken
  /\ tileWin[c] # NULL
  /\ OwnerTouchesFreed(tileWin[c])
  /\ UNCHANGED <<provVars, tileVars, logonVars, reg>>

-----------------------------------------------------------------------------
WindowStep(w) ==
  /\ WindowThread(w) \/ ModalLoop(w) \/ UserInput(w)
  /\ UNCHANGED <<provVars, tileVars, logonVars, reg>>

LogonUI ==
  \/ CreateInstance
  \/ QueryInterface
  \/ Release
  \/ \E w \in Windows : \E accepted \in BOOLEAN : SetUsageScenario(w, accepted)
  \/ FailUsageScenario
  \/ \E sink \in Sinks : Advise(sink)
  \/ UnAdvise
  \/ \E n \in 0 .. MaxTiles : \E made \in Array!Fresh(n) : \E kept \in BOOLEAN :
       GetCredentialCount(made, kept)
  \/ \E c \in Tiles : GetCredentialAt(c) \/ DropTile(c) \/ SetSelected(c)

Next ==
  \/ LogonUI
  \/ \E w \in Windows : WindowStep(w) \/ CheckCallback(w) \/ CallCallback(w)

Spec == Init /\ [][Next]_vars

-----------------------------------------------------------------------------
(***************************************************************************)
(* Properties.                                                             *)
(***************************************************************************)

\* The count is the reference nobody gives back, LogonUI's, and one for every
\* window that points at the provider, also after a failed scenario has
\* deleted a window inside the call (Credential_Imp.cpp:252-274, CmdEventWnd
\* .cpp:29-33); the provider holds one reference on the callback it stores and
\* none on any other, also when UnAdvise comes without a wrapped provider
\* (:335-351).
ReferencesBalance ==
  /\ life = "alive" =>
       m_cRef = 1 + clients + Cardinality({w \in Windows : m_pProvider[w] = This})
  /\ \A s \in Sinks : held[s] = IF s = m_pcpe THEN 1 ELSE 0

\* GetCredentialCount and Initialize use m_pOrgProvider and m_pEventWin
\* without a check of the window (Credential_Imp.cpp:487, :533): whatever
\* scenarios succeeded and failed before, an accepted one has both, the
\* window alive and pointing back, and a failed one leaves neither.
ReadyHasWindow ==
  /\ phase = "ready" =>
       /\ m_pOrgProvider
       /\ m_pEventWin # NULL
       /\ wobj[m_pEventWin] = "alive"
       /\ m_pProvider[m_pEventWin] = This
  /\ phase = "created" => ~ m_pOrgProvider /\ m_pEventWin = NULL

\* What GetCredentialAt serves has a window to ask: once LogonUI has an
\* answer, every tile of the array is alive and points at the current window,
\* although tiles of a scenario that failed keep a pointer to a deleted one
\* (Credential_Imp.cpp:271, :632, :693).
ServedTilesAreCurrent ==
  answered => \A c \in Range(array) :
                /\ tile[c] = "alive"
                /\ tileWin[c] = m_pEventWin
                /\ wobj[m_pEventWin] = "alive"

\* The window thread is inside the provider with no reference of its own, and
\* a failed scenario gives the window's back under it (CmdEventWnd.cpp:29-33,
\* Credential_Imp.cpp:188-195): the provider is still there when it returns.
ProviderOutlivesCallback == fault # "freedProvider"

\* The provider uses its windows as CmdEventWnd expects, deletions in the
\* middle of a start or of a callback included: what holds of the event window
\* alone holds here.
ImplementsEventWindow == WndSpec

=============================================================================
