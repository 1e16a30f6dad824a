--------------------- MODULE XCredentialProvider_proofs ---------------------
(***************************************************************************)
(* Theorems about XCredentialProvider, for any sets of windows, callbacks  *)
(* and tiles.                                                              *)
(***************************************************************************)
EXTENDS XCredentialProvider, CmdEventWnd_proofs, FiniteSetTheorems

-----------------------------------------------------------------------------
(***************************************************************************)
(* The provider implements the window's specification.                     *)
(***************************************************************************)

\* What a callback does is what CmdEventWnd allows an owner to do.
LEMMA CallbackIsWindowStep ==
  ASSUME ProviderTypeOK, NEW w \in Windows, CheckCallback(w) \/ CallCallback(w)
  PROVE  WndNext
<1>1. CASE CheckCallback(w) /\ life = "alive"
  <2>1. Callback(w)
    BY <1>1 DEF CheckCallback, Callback, MoveThread
  <2> QED
    BY <2>1 DEF WndNext
<1>2. CASE CheckCallback(w) /\ life # "alive"
  <2>1. FaultInCallback(w)
    BY <1>2 DEF CheckCallback, FaultInCallback, MoveThread, ProviderTypeOK, WndTypeOK
  <2> QED
    BY <2>1 DEF WndNext
<1>3. CASE CallCallback(w)
  <2>1. CASE UNCHANGED fault /\ MoveThread(w, "call", "pump")
    <3>1. Callback(w)
      BY <1>3, <2>1 DEF CallCallback, Callback
    <3> QED
      BY <3>1 DEF WndNext
  <2>2. CASE fault' \in {"deadCallback", "freedProvider"} /\ MoveThread(w, "call", "call")
    <3>1. FaultInCallback(w)
      BY <1>3, <2>2 DEF CallCallback, FaultInCallback, MoveThread, ProviderTypeOK,
         WndTypeOK
    <3> QED
      BY <3>1 DEF WndNext
  <2> QED
    BY <1>3, <2>1, <2>2 DEF CallCallback
<1> QED
  BY <1>1, <1>2, <1>3

\* Every step of the provider is a step of its windows or leaves them alone.
LEMMA StepIsWindowStep == ProviderTypeOK /\ [Next]_vars => [WndNext]_wndVars
<1> SUFFICES ASSUME ProviderTypeOK, [Next]_vars PROVE [WndNext]_wndVars
  OBVIOUS
<1>1. CASE UNCHANGED vars
  BY <1>1 DEF vars
<1>2. CASE LogonUI
  <2>1. CASE CreateInstance \/ QueryInterface \/ UnAdvise
    BY <2>1 DEF CreateInstance, QueryInterface, UnAdvise
  <2>2. CASE Release
    <3>1. CASE m_cRef = 1 /\ m_pEventWin # NULL
      <4>1. Delete(m_pEventWin)
        BY <2>2, <3>1 DEF Release, Destroy, Delete, Callable, Idle
      <4> QED
        BY <3>1, <4>1 DEF WndNext, ProviderTypeOK
    <3> QED
      BY <2>2, <3>1 DEF Release, Destroy
  <2>3. ASSUME NEW w \in Windows, NEW accepted \in BOOLEAN, SetUsageScenario(w, accepted)
        PROVE  [WndNext]_wndVars
    <3>1. Create(w, This)
      BY <2>3 DEF SetUsageScenario, Callable, Idle, Create
    <3> QED
      BY <3>1, OneProvider DEF WndNext
  <2>4. CASE FailUsageScenario
    <3>1. CASE m_pEventWin # NULL
      <4>1. Delete(m_pEventWin)
        BY <2>4, <3>1 DEF FailUsageScenario, Delete
      <4> QED
        BY <3>1, <4>1 DEF WndNext, ProviderTypeOK
    <3>2. CASE m_pEventWin = NULL
      BY <2>4, <3>2 DEF FailUsageScenario
    <3> QED
      BY <3>1, <3>2
  <2>5. ASSUME NEW sink \in Sinks, Advise(sink)
        PROVE  [WndNext]_wndVars
    BY <2>5 DEF Advise
  <2>6. ASSUME NEW made, NEW kept, GetCredentialCount(made, kept)
        PROVE  [WndNext]_wndVars
    BY <2>6 DEF GetCredentialCount
  <2>7. ASSUME NEW c \in Tiles, GetCredentialAt(c) \/ DropTile(c)
        PROVE  [WndNext]_wndVars
    BY <2>7 DEF GetCredentialAt, DropTile
  <2>8. ASSUME NEW c \in Tiles, SetSelected(c)
        PROVE  [WndNext]_wndVars
    <3>1. tileWin[c] \in Windows
      BY <2>8 DEF SetSelected, ProviderTypeOK
    <3> QED
      BY <2>8, <3>1 DEF SetSelected, WndNext
  <2> QED
    BY <1>2, <2>1, <2>2, <2>3, <2>4, <2>5, <2>6, <2>7, <2>8 DEF LogonUI
<1>3. ASSUME NEW w \in Windows, WindowStep(w)
      PROVE  [WndNext]_wndVars
  BY <1>3 DEF WindowStep, WndNext
<1>4. ASSUME NEW w \in Windows, CheckCallback(w) \/ CallCallback(w)
      PROVE  [WndNext]_wndVars
  BY <1>4, CallbackIsWindowStep
<1> QED
  BY <1>1, <1>2, <1>3, <1>4 DEF Next

-----------------------------------------------------------------------------
(***************************************************************************)
(* The inductive invariant.                                                *)
(***************************************************************************)

\* The provider lives from its creation on, and whoever can still run in it
\* or call it was there after its creation.
ProviderStays ==
  /\ life # "destroyed"
  /\ phase = "none" <=> life = "none"
  /\ clients > 0 => life = "alive"
  /\ phase = "failing" => clients > 0
  /\ \A w \in Windows : thread[w] # "none" => life = "alive"

\* The current window is alive and points back, and only a window that is
\* alive points anywhere.
WindowsLinked ==
  /\ m_pEventWin # NULL => wobj[m_pEventWin] = "alive" /\ m_pProvider[m_pEventWin] = This
  /\ \A w \in Windows : m_pProvider[w] # NULL => wobj[w] = "alive" /\ life = "alive"

\* What a scenario that succeeded or failed leaves.
ScenarioLeaves ==
  /\ phase = "ready" => m_pOrgProvider /\ m_pEventWin # NULL
  /\ phase \in {"none", "created"} => ~ m_pOrgProvider /\ m_pEventWin = NULL

\* The tiles of the array, and whom they ask.
ServedTiles ==
  /\ \A c \in Range(array) : tile[c] = "alive"
  /\ answered => /\ m_pEventWin # NULL
                 /\ \A c \in Range(array) : tileWin[c] = m_pEventWin

\* The stored callback is the one LogonUI considers valid.
CallbackLinked == m_pcpe = advised

IInv ==
  /\ ProviderTypeOK
  /\ ProviderStays
  /\ WindowsLinked
  /\ ScenarioLeaves
  /\ ServedTiles
  /\ CallbackLinked
  /\ ReferencesBalance

\* The windows that hold a reference on the provider.
Holders == {w \in Windows : m_pProvider[w] = This}

\* They are finitely many.
LEMMA HoldersFinite == IsFiniteSet(Holders) /\ Cardinality(Holders) \in Nat
<1>1. Holders \subseteq Windows
  BY DEF Holders
<1>2. IsFiniteSet(Holders)
  BY <1>1, WindowsAssumption, FS_Subset
<1> QED
  BY <1>2, FS_CardinalityType

\* A Release of LogonUI's is never the last: the reference CreateInstance
\* forgot is still there.
LEMMA ReleaseKeeps ==
  ASSUME IInv, Release
  PROVE  /\ m_cRef' = m_cRef - 1
         /\ UNCHANGED <<wndVars, life, m_pOrgProvider, m_pEventWin, arrayVars>>
<1>1. clients > 0 /\ clients \in Nat /\ life = "alive"
  BY DEF Release, Callable, IInv, ProviderStays, ProviderTypeOK
<1>2. m_cRef = 1 + clients + Cardinality(Holders)
  BY <1>1 DEF IInv, ReferencesBalance, Holders
<1>3. m_cRef # 1
  BY <1>1, <1>2, HoldersFinite
<1> QED
  BY <1>3 DEF Release

-----------------------------------------------------------------------------
(***************************************************************************)
(* What the two threads leave alone.                                       *)
(***************************************************************************)

\* A window thread leaves the objects and their owner alone, and it runs only
\* where one was started.
LEMMA ThreadKeeps ==
  ASSUME WndTypeOK, NEW w \in Windows,
         WindowStep(w) \/ CheckCallback(w) \/ CallCallback(w)
  PROVE  /\ UNCHANGED <<wobj, m_pProvider, provVars, tileVars, logonVars>>
         /\ \A v \in Windows : thread'[v] # "none" => thread[v] # "none"
<1> USE DEF WndTypeOK
<1>1. CASE WindowStep(w)
  <2>1. CASE UserInput(w)
    BY <1>1, <2>1 DEF WindowStep, UserInput
  <2>2. CASE MyRegisterClass(w) \/ OpenEventWindow(w) \/ StoreHandle(w) \/ ShowEventWindow(w)
    BY <1>1, <2>2 DEF WindowStep, MyRegisterClass, OpenEventWindow, StoreHandle,
       ShowEventWindow
  <2>3. CASE StartFailed(w) \/ CallGetMessage(w) \/ TakePosted(w)
    BY <1>1, <2>3 DEF WindowStep, StartFailed, CallGetMessage, TakePosted
  <2>4. CASE TakeInput(w) \/ Toggle(w) \/ TouchFreedWindow(w)
    BY <1>1, <2>4 DEF WindowStep, TakeInput, AnswerInput, Toggle, TouchFreedWindow
  <2>5. CASE ModalLoop(w)
    BY <1>1, <2>5, ModalLoopKeeps DEF WindowStep
  <2> QED
    BY <1>1, <2>1, <2>2, <2>3, <2>4, <2>5 DEF WindowStep, WindowThread
<1>2. CASE CheckCallback(w)
  BY <1>2 DEF CheckCallback, MoveThread
<1>3. CASE CallCallback(w)
  BY <1>3 DEF CallCallback, MoveThread
<1> QED
  BY <1>1, <1>2, <1>3

\* Of LogonUI's calls only two reach the windows, the opening of one and the
\* failure of a scenario; SetSelected may fault on one.
LEMMA LogonUIKeepsWindows ==
  ASSUME IInv, LogonUI,
         ~ FailUsageScenario,
         \A w \in Windows, accepted \in BOOLEAN : ~ SetUsageScenario(w, accepted)
  PROVE  UNCHANGED <<wobj, m_pProvider, thread, m_pEventWin, m_pOrgProvider>>
<1>1. CASE Release
  BY <1>1, ReleaseKeeps DEF wndVars
<1>2. CASE ~ Release
  BY <1>2 DEF LogonUI, CreateInstance, QueryInterface, Advise, UnAdvise,
     GetCredentialCount, GetCredentialAt, DropTile, SetSelected, OwnerTouchesFreed,
     wndVars, provVars
<1> QED
  BY <1>1, <1>2

-----------------------------------------------------------------------------
(***************************************************************************)
(* The conjuncts of the invariant, one lemma for each.                     *)
(***************************************************************************)

\* An enumeration keeps the types of the tiles.
LEMMA EnumerateType ==
  ASSUME Array!ArrayTypeOK, NEW n \in Nat, NEW made \in Array!Fresh(n),
         NEW kept \in BOOLEAN, Array!Enumerate(made, kept)
  PROVE  Array!ArrayTypeOK' /\ Range(made) \subseteq Tiles
<1>1. made \in [1 .. n -> Tiles]
  BY DEF Array!Fresh
<1>2. made \in Seq(Tiles)
  BY <1>1
<1>3. Range(made) \subseteq Tiles /\ Array!Range(made) \subseteq Tiles
  BY <1>1 DEF Range, Array!Range
<1>4. array' \in Seq(Tiles)
  BY <1>2, EmptySeq DEF Array!Enumerate
<1>5. tile' \in [Tiles -> {"unused", "alive", "deleted"}]
  BY DEF Array!Enumerate, Array!ArrayTypeOK
<1> QED
  BY <1>3, <1>4, <1>5 DEF Array!Enumerate, Array!ArrayTypeOK

\* Every step keeps the types.
LEMMA TypeStep == IInv /\ [Next]_vars => ProviderTypeOK'
<1> SUFFICES ASSUME IInv, [Next]_vars PROVE ProviderTypeOK'
  OBVIOUS
<1>a. ProviderTypeOK
  BY DEF IInv
<1>0. WndTypeOK'
  BY <1>a, StepIsWindowStep, WndTypeOKStep DEF ProviderTypeOK
<1>b. ASSUME UNCHANGED arrayVars PROVE Array!ArrayTypeOK'
  BY <1>a, <1>b DEF arrayVars, ProviderTypeOK, Array!ArrayTypeOK
<1>1. CASE UNCHANGED vars
  BY <1>a, <1>0, <1>b, <1>1 DEF vars, provVars, tileVars, logonVars, ProviderTypeOK
<1>2. CASE LogonUI
  <2>1. CASE CreateInstance \/ QueryInterface
    BY <1>a, <1>0, <1>b, <2>1 DEF CreateInstance, QueryInterface, BirthCount, tileVars,
       ProviderTypeOK
  <2>2. CASE Release
    <3>1. clients' \in Nat
      BY <1>a, <2>2 DEF Release, Callable, ProviderTypeOK
    <3> QED
      BY <1>a, <1>0, <1>b, <2>2, <3>1, ReleaseKeeps DEF Release, ProviderTypeOK
  <2>3. ASSUME NEW w \in Windows, NEW accepted \in BOOLEAN, SetUsageScenario(w, accepted)
        PROVE  ProviderTypeOK'
    <3>1. /\ m_cRef' \in Int
          /\ m_pEventWin' \in Windows \cup {NULL}
          /\ phase' \in {"none", "created", "failing", "ready", "released"}
      BY <1>a, <2>3 DEF SetUsageScenario, ProviderTypeOK
    <3>0. m_pOrgProvider' \in BOOLEAN /\ answered' \in BOOLEAN
      BY <2>3 DEF SetUsageScenario
    <3>2. UNCHANGED <<life, m_pcpe, held, arrayVars, tileWin, clients, advised, reg>>
      BY <2>3 DEF SetUsageScenario, tileVars
    <3> QED
      BY <1>a, <1>0, <1>b, <3>0, <3>1, <3>2 DEF ProviderTypeOK
  <2>4. CASE FailUsageScenario
    <3>1. /\ m_cRef' \in Int
          /\ m_pEventWin' \in Windows \cup {NULL}
          /\ phase' \in {"none", "created", "failing", "ready", "released"}
      BY <1>a, <2>4 DEF FailUsageScenario, ProviderTypeOK
    <3>0. m_pOrgProvider' \in BOOLEAN /\ answered' \in BOOLEAN
      BY <2>4 DEF FailUsageScenario
    <3>2. UNCHANGED <<life, m_pcpe, held, arrayVars, tileWin, clients, advised, reg>>
      BY <2>4 DEF FailUsageScenario, tileVars
    <3> QED
      BY <1>a, <1>0, <1>b, <3>0, <3>1, <3>2 DEF ProviderTypeOK
  <2>5. ASSUME NEW sink \in Sinks, Advise(sink)
        PROVE  ProviderTypeOK'
    BY <1>a, <1>0, <1>b, <2>5 DEF Advise, tileVars, ProviderTypeOK
  <2>6. CASE UnAdvise
    BY <1>a, <1>0, <1>b, <2>6 DEF UnAdvise, tileVars, ProviderTypeOK
  <2>7. ASSUME NEW n \in 0 .. MaxTiles, NEW made \in Array!Fresh(n), NEW kept \in BOOLEAN,
               GetCredentialCount(made, kept)
        PROVE  ProviderTypeOK'
    <3>1. Array!ArrayTypeOK'
      BY <1>a, <2>7, EnumerateType DEF GetCredentialCount, ProviderTypeOK
    <3>2. tileWin' \in [Tiles -> Windows \cup {NULL}]
      BY <1>a, <2>7 DEF GetCredentialCount, Pointed, ProviderTypeOK
    <3> QED
      BY <1>a, <1>0, <2>7, <3>1, <3>2 DEF GetCredentialCount, provVars, ProviderTypeOK
  <2>8. ASSUME NEW c \in Tiles, GetCredentialAt(c) \/ DropTile(c)
        PROVE  ProviderTypeOK'
    <3>1. Array!ArrayTypeOK'
      BY <1>a, <2>8 DEF GetCredentialAt, DropTile, Array!Take, Array!Drop,
         ProviderTypeOK, Array!ArrayTypeOK
    <3> QED
      BY <1>a, <1>0, <2>8, <3>1 DEF GetCredentialAt, DropTile, provVars, logonVars,
         ProviderTypeOK
  <2>9. ASSUME NEW c \in Tiles, SetSelected(c)
        PROVE  ProviderTypeOK'
    BY <1>a, <1>0, <1>b, <2>9 DEF SetSelected, provVars, tileVars, logonVars,
       ProviderTypeOK
  <2> QED
    BY <1>2, <2>1, <2>2, <2>3, <2>4, <2>5, <2>6, <2>7, <2>8, <2>9 DEF LogonUI
<1>3. ASSUME NEW w \in Windows, WindowStep(w) \/ CheckCallback(w) \/ CallCallback(w)
      PROVE  ProviderTypeOK'
  <2>1. UNCHANGED <<provVars, tileVars, logonVars>>
    BY <1>a, <1>3, ThreadKeeps DEF ProviderTypeOK
  <2>2. reg' \in [Windows -> Sinks \cup {NULL}]
    BY <1>a, <1>3 DEF WindowStep, CheckCallback, CallCallback, ProviderTypeOK
  <2> QED
    BY <1>a, <1>0, <1>b, <2>1, <2>2 DEF provVars, tileVars, logonVars, ProviderTypeOK
<1> QED
  BY <1>1, <1>2, <1>3 DEF Next

\* Nothing destroys the provider.
LEMMA StaysStep == IInv /\ [Next]_vars => ProviderStays'
<1> SUFFICES ASSUME IInv, [Next]_vars PROVE ProviderStays'
  OBVIOUS
<1>a. ProviderTypeOK /\ WndTypeOK /\ ProviderStays
  BY DEF IInv, ProviderTypeOK
<1>1. CASE UNCHANGED vars
  BY <1>a, <1>1 DEF vars, wndVars, provVars, logonVars, ProviderStays
<1>2. CASE LogonUI
  <2>1. CASE CreateInstance
    BY <1>a, <2>1 DEF CreateInstance, wndVars, ProviderStays
  <2>2. CASE Release
    <3>1. clients > 0 /\ life = "alive" /\ phase \notin {"none", "failing"}
      BY <1>a, <2>2 DEF Release, Callable, Idle, ProviderStays
    <3>2. phase' \notin {"none", "failing"}
      BY <2>2, <3>1 DEF Release
    <3> QED
      BY <1>a, <2>2, <3>1, <3>2, ReleaseKeeps DEF wndVars, ProviderStays
  <2>3. ASSUME NEW w \in Windows, NEW accepted \in BOOLEAN, SetUsageScenario(w, accepted)
        PROVE  ProviderStays'
    BY <1>a, <2>3 DEF SetUsageScenario, Callable, Construct, ProviderStays
  <2>4. CASE FailUsageScenario
    BY <1>a, <2>4 DEF FailUsageScenario, Destruct, wndVars, ProviderStays
  <2>5. CASE QueryInterface
    BY <1>a, <2>5 DEF QueryInterface, Callable, wndVars, ProviderStays, ProviderTypeOK
  <2>6. ASSUME \/ \E sink \in Sinks : Advise(sink)
               \/ UnAdvise
               \/ \E made, kept : GetCredentialCount(made, kept)
               \/ \E c \in Tiles : GetCredentialAt(c) \/ DropTile(c) \/ SetSelected(c)
        PROVE  ProviderStays'
    BY <1>a, <2>6 DEF Advise, UnAdvise, GetCredentialCount, GetCredentialAt, DropTile,
       SetSelected, OwnerTouchesFreed, wndVars, provVars, logonVars, ProviderStays
  <2> QED
    BY <1>2, <2>1, <2>2, <2>3, <2>4, <2>5, <2>6 DEF LogonUI
<1>3. ASSUME NEW w \in Windows, WindowStep(w) \/ CheckCallback(w) \/ CallCallback(w)
      PROVE  ProviderStays'
  BY <1>a, <1>3, ThreadKeeps DEF provVars, logonVars, ProviderStays
<1> QED
  BY <1>1, <1>2, <1>3 DEF Next

\* Every step keeps the windows linked.
LEMMA LinkedStep == IInv /\ [Next]_vars => WindowsLinked'
<1> SUFFICES ASSUME IInv, [Next]_vars PROVE WindowsLinked'
  OBVIOUS
<1>a. ProviderTypeOK /\ WndTypeOK /\ ProviderStays /\ WindowsLinked
  BY DEF IInv, ProviderTypeOK
<1>1. CASE UNCHANGED vars
  BY <1>a, <1>1 DEF vars, wndVars, provVars, WindowsLinked
<1>2. CASE LogonUI
  <2>1. ASSUME NEW w \in Windows, NEW accepted \in BOOLEAN, SetUsageScenario(w, accepted)
        PROVE  WindowsLinked'
    BY <1>a, <2>1 DEF SetUsageScenario, Callable, Construct, ProviderStays, WndTypeOK,
       WindowsLinked
  <2>2. CASE FailUsageScenario
    <3>1. CASE m_pEventWin = NULL
      BY <1>a, <2>2, <3>1 DEF FailUsageScenario, wndVars, WindowsLinked
    <3>2. CASE m_pEventWin # NULL
      <4>1. /\ m_pEventWin' = NULL
            /\ wobj' = [wobj EXCEPT ![m_pEventWin] = "deleted"]
            /\ m_pProvider' = [m_pProvider EXCEPT ![m_pEventWin] = NULL]
            /\ UNCHANGED life
        BY <2>2, <3>2 DEF FailUsageScenario, Destruct
      <4> QED
        BY <1>a, <4>1 DEF WndTypeOK, WindowsLinked
    <3> QED
      BY <3>1, <3>2
  <2>3. CASE /\ ~ FailUsageScenario
             /\ \A w \in Windows, accepted \in BOOLEAN : ~ SetUsageScenario(w, accepted)
    <3>1. UNCHANGED <<wobj, m_pProvider, m_pEventWin>>
      BY <1>2, <2>3, LogonUIKeepsWindows
    <3>2. life = "alive" => life' = "alive"
      <4>1. CASE Release
        BY <4>1, ReleaseKeeps
      <4>2. CASE ~ Release
        BY <1>2, <2>3, <4>2 DEF LogonUI, CreateInstance, QueryInterface, Advise, UnAdvise,
           GetCredentialCount, GetCredentialAt, DropTile, SetSelected, provVars
      <4> QED
        BY <4>1, <4>2
    <3> QED
      BY <1>a, <3>1, <3>2 DEF WindowsLinked
  <2> QED
    BY <2>1, <2>2, <2>3
<1>3. ASSUME NEW w \in Windows, WindowStep(w) \/ CheckCallback(w) \/ CallCallback(w)
      PROVE  WindowsLinked'
  BY <1>a, <1>3, ThreadKeeps DEF provVars, WindowsLinked
<1> QED
  BY <1>1, <1>2, <1>3 DEF Next

\* Every scenario leaves what the calls that follow it rely on.
LEMMA ScenarioStep == IInv /\ [Next]_vars => ScenarioLeaves'
<1> SUFFICES ASSUME IInv, [Next]_vars PROVE ScenarioLeaves'
  OBVIOUS
<1>a. ProviderTypeOK /\ WndTypeOK /\ ProviderStays /\ ScenarioLeaves
  BY DEF IInv, ProviderTypeOK
<1>1. CASE UNCHANGED vars
  BY <1>a, <1>1 DEF vars, provVars, logonVars, ScenarioLeaves
<1>2. CASE LogonUI
  <2>1. ASSUME NEW w \in Windows, NEW accepted \in BOOLEAN, SetUsageScenario(w, accepted)
        PROVE  ScenarioLeaves'
    BY <1>a, <2>1, NullAssumption DEF SetUsageScenario, ScenarioLeaves
  <2>2. CASE FailUsageScenario
    BY <2>2 DEF FailUsageScenario, ScenarioLeaves
  <2>3. CASE /\ ~ FailUsageScenario
             /\ \A w \in Windows, accepted \in BOOLEAN : ~ SetUsageScenario(w, accepted)
    <3>1. UNCHANGED <<m_pOrgProvider, m_pEventWin>>
      BY <1>2, <2>3, LogonUIKeepsWindows
    <3>2. \/ UNCHANGED phase
          \/ phase = "none" /\ phase' = "created"
          \/ phase' = "released"
      BY <1>2, <2>3 DEF LogonUI, CreateInstance, QueryInterface, Release, Advise, UnAdvise,
         GetCredentialCount, GetCredentialAt, DropTile, SetSelected, logonVars
    <3> QED
      BY <1>a, <3>1, <3>2 DEF ScenarioLeaves
  <2> QED
    BY <2>1, <2>2, <2>3
<1>3. ASSUME NEW w \in Windows, WindowStep(w) \/ CheckCallback(w) \/ CallCallback(w)
      PROVE  ScenarioLeaves'
  BY <1>a, <1>3, ThreadKeeps DEF provVars, logonVars, ScenarioLeaves
<1> QED
  BY <1>1, <1>2, <1>3 DEF Next

\* The tiles the array holds are alive, and an answer stands for tiles that
\* ask the current window.
LEMMA ServedStep == IInv /\ [Next]_vars => ServedTiles'
<1> SUFFICES ASSUME IInv, [Next]_vars PROVE ServedTiles'
  OBVIOUS
<1>a. ProviderTypeOK /\ Array!ArrayTypeOK /\ ScenarioLeaves /\ ServedTiles
  BY DEF IInv, ProviderTypeOK
<1>b. ASSUME UNCHANGED <<tileVars, answered, m_pEventWin>> PROVE ServedTiles'
  BY <1>a, <1>b DEF tileVars, arrayVars, ServedTiles
<1>c. ASSUME UNCHANGED tileVars, answered' = FALSE PROVE ServedTiles'
  BY <1>a, <1>c DEF tileVars, arrayVars, ServedTiles
<1>1. CASE UNCHANGED vars
  BY <1>b, <1>1 DEF vars, provVars, logonVars
<1>2. CASE LogonUI
  <2>1. CASE \/ FailUsageScenario
             \/ \E w \in Windows, accepted \in BOOLEAN : SetUsageScenario(w, accepted)
    BY <1>c, <2>1 DEF FailUsageScenario, SetUsageScenario
  <2>2. CASE Release
    BY <1>b, <2>2, ReleaseKeeps DEF Release, tileVars
  <2>3. ASSUME NEW n \in 0 .. MaxTiles, NEW made \in Array!Fresh(n), NEW kept \in BOOLEAN,
               GetCredentialCount(made, kept)
        PROVE  ServedTiles'
    <3>1. /\ Array!Enumerate(made, kept)
          /\ tileWin' = Pointed(made, kept)
          /\ answered' = kept
          /\ UNCHANGED m_pEventWin
          /\ m_pEventWin # NULL
      BY <1>a, <2>3 DEF GetCredentialCount, provVars, ScenarioLeaves
    <3>2. CASE ~ kept
      <4>1. array' = <<>> /\ Range(array') = {}
        BY <3>1, <3>2 DEF Array!Enumerate, Range
      <4> QED
        BY <3>1, <3>2, <4>1 DEF ServedTiles
    <3>3. CASE kept
      <4>0. Range(made) \subseteq Tiles
        BY <1>a, <3>1, BoundsAssumption, EnumerateType
      <4>1. array' = made
        BY <3>1, <3>3 DEF Array!Enumerate
      <4>2. \A c \in Range(made) : tile[c] = "unused" /\ c \in Array!Range(made)
        BY DEF Array!Fresh, Range, Array!Range
      <4>3. \A c \in Range(made) : c \notin Array!Range(array)
        BY <1>a, <4>2 DEF ServedTiles, Range, Array!Range
      <4>4. \A c \in Range(made) : tile'[c] = "alive"
        BY <3>1, <4>0, <4>2, <4>3 DEF Array!Enumerate
      <4>5. \A c \in Range(made) : tileWin'[c] = m_pEventWin
        BY <3>1, <3>3, <4>0 DEF Pointed
      <4> QED
        BY <3>1, <4>1, <4>4, <4>5 DEF ServedTiles
    <3> QED
      BY <3>2, <3>3
  <2>4. ASSUME NEW c \in Tiles, GetCredentialAt(c) \/ DropTile(c)
        PROVE  ServedTiles'
    <3>1. /\ UNCHANGED <<array, tileWin, answered, m_pEventWin>>
          /\ \A d \in Range(array) : tile'[d] = tile[d]
      <4>1. CASE GetCredentialAt(c)
        BY <4>1 DEF GetCredentialAt, Array!Take, provVars, logonVars
      <4>2. CASE DropTile(c)
        <5>1. tile' = [tile EXCEPT ![c] = IF c \in Array!Range(array) \cup lost
                                          THEN @ ELSE "deleted"]
          BY <4>2 DEF DropTile, Array!Drop
        <5>2. \A d \in Range(array) : d \in Array!Range(array) /\ d \in Tiles
          BY <1>a DEF Range, Array!Range, Array!ArrayTypeOK
        <5>3. \A d \in Range(array) : tile'[d] = tile[d]
          BY <1>a, <5>1, <5>2 DEF Array!ArrayTypeOK
        <5> QED
          BY <4>2, <5>3 DEF DropTile, Array!Drop, provVars, logonVars
      <4> QED
        BY <2>4, <4>1, <4>2
    <3> QED
      BY <1>a, <3>1 DEF ServedTiles
  <2>5. CASE \/ CreateInstance \/ QueryInterface \/ UnAdvise
             \/ \E sink \in Sinks : Advise(sink)
             \/ \E c \in Tiles : SetSelected(c)
    BY <1>b, <2>5 DEF CreateInstance, QueryInterface, UnAdvise, Advise, SetSelected,
       provVars, logonVars
  <2> QED
    BY <1>2, <2>1, <2>2, <2>3, <2>4, <2>5 DEF LogonUI
<1>3. ASSUME NEW w \in Windows, WindowStep(w) \/ CheckCallback(w) \/ CallCallback(w)
      PROVE  ServedTiles'
  BY <1>a, <1>b, <1>3, ThreadKeeps DEF provVars, logonVars, ProviderTypeOK
<1> QED
  BY <1>1, <1>2, <1>3 DEF Next

\* Every step keeps the stored callback LogonUI's.
LEMMA CallbackStep == IInv /\ [Next]_vars => CallbackLinked'
<1> SUFFICES ASSUME IInv, [Next]_vars PROVE CallbackLinked'
  OBVIOUS
<1>a. ProviderTypeOK /\ CallbackLinked
  BY DEF IInv
<1>1. CASE UNCHANGED vars
  BY <1>a, <1>1 DEF vars, provVars, logonVars, CallbackLinked
<1>2. CASE LogonUI
  BY <1>a, <1>2 DEF LogonUI, CreateInstance, QueryInterface, Release, SetUsageScenario,
     FailUsageScenario, Advise, UnAdvise, GetCredentialCount, GetCredentialAt, DropTile,
     SetSelected, provVars, logonVars, CallbackLinked
<1>3. ASSUME NEW w \in Windows, WindowStep(w) \/ CheckCallback(w) \/ CallCallback(w)
      PROVE  CallbackLinked'
  BY <1>a, <1>3, ThreadKeeps DEF provVars, logonVars, ProviderTypeOK, CallbackLinked
<1> QED
  BY <1>1, <1>2, <1>3 DEF Next

\* The count, as ReferencesBalance states it.
Counted == life = "alive" => m_cRef = 1 + clients + Cardinality(Holders)

\* Every step keeps the count.
LEMMA CountStep == IInv /\ [Next]_vars => Counted'
<1> SUFFICES ASSUME IInv, [Next]_vars PROVE Counted'
  OBVIOUS
<1>a. ProviderTypeOK /\ WndTypeOK /\ ProviderStays /\ WindowsLinked
  BY DEF IInv, ProviderTypeOK
<1>b. Counted
  BY DEF IInv, ReferencesBalance, Counted, Holders
<1>c. IsFiniteSet(Holders) /\ Cardinality(Holders) \in Nat
  BY HoldersFinite
<1>d. ASSUME UNCHANGED m_pProvider PROVE Holders' = Holders
  BY <1>d DEF Holders
<1>1. CASE UNCHANGED vars
  BY <1>b, <1>d, <1>1 DEF vars, wndVars, provVars, logonVars, Counted
<1>2. CASE LogonUI
  <2>1. CASE CreateInstance
    <3>1. life # "alive" /\ UNCHANGED m_pProvider
      BY <1>a, <2>1 DEF CreateInstance, ProviderStays, wndVars
    <3>2. Holders = {}
      BY <1>a, <3>1, NullAssumption, OneProvider DEF Holders, WindowsLinked
    <3>3. Cardinality(Holders) = 0
      BY <3>2, FS_EmptySet
    <3> QED
      BY <1>d, <2>1, <3>1, <3>3 DEF CreateInstance, BirthCount, Counted
  <2>2. CASE QueryInterface
    BY <1>a, <1>b, <1>c, <1>d, <2>2 DEF QueryInterface, wndVars, Counted, ProviderTypeOK
  <2>3. CASE Release
    <3>1. clients' = clients - 1
      BY <2>3 DEF Release
    <3> QED
      BY <1>a, <1>b, <1>c, <1>d, <2>3, <3>1, ReleaseKeeps DEF wndVars, Counted,
         ProviderTypeOK
  <2>4. ASSUME NEW w \in Windows, NEW accepted \in BOOLEAN, SetUsageScenario(w, accepted)
        PROVE  Counted'
    <3>1. /\ wobj[w] = "unused"
          /\ m_pProvider' = [m_pProvider EXCEPT ![w] = This]
          /\ m_cRef' = m_cRef + 1
          /\ UNCHANGED <<life, clients>>
      BY <2>4 DEF SetUsageScenario, Construct
    <3>2. m_pProvider[w] = NULL
      BY <1>a, <3>1 DEF WindowsLinked
    <3>3. Holders' = Holders \cup {w} /\ w \notin Holders
      BY <1>a, <3>1, <3>2, NullAssumption, OneProvider DEF Holders, WndTypeOK
    <3>4. Cardinality(Holders') = Cardinality(Holders) + 1
      BY <1>c, <3>3, FS_AddElement
    <3> QED
      BY <1>a, <1>b, <1>c, <3>1, <3>4 DEF Counted, ProviderTypeOK
  <2>5. CASE FailUsageScenario
    <3>1. CASE m_pEventWin = NULL
      BY <1>b, <1>d, <2>5, <3>1 DEF FailUsageScenario, wndVars, Counted
    <3>2. CASE m_pEventWin # NULL
      <4>1. /\ m_pProvider' = [m_pProvider EXCEPT ![m_pEventWin] = NULL]
            /\ m_cRef' = m_cRef - 1
            /\ UNCHANGED <<life, clients>>
        BY <2>5, <3>2 DEF FailUsageScenario, Destruct
      <4>2. m_pEventWin \in Holders
        BY <1>a, <3>2 DEF WindowsLinked, Holders, ProviderTypeOK
      <4>3. Holders' = Holders \ {m_pEventWin}
        BY <1>a, <4>1, <4>2, NullAssumption, OneProvider DEF Holders, WndTypeOK
      <4>4. Cardinality(Holders') = Cardinality(Holders) - 1
        BY <1>c, <4>2, <4>3, FS_RemoveElement
      <4> QED
        BY <1>a, <1>b, <1>c, <4>1, <4>4 DEF Counted, ProviderTypeOK
    <3> QED
      BY <3>1, <3>2
  <2>6. ASSUME \/ \E sink \in Sinks : Advise(sink)
               \/ UnAdvise
               \/ \E made, kept : GetCredentialCount(made, kept)
               \/ \E c \in Tiles : GetCredentialAt(c) \/ DropTile(c) \/ SetSelected(c)
        PROVE  Counted'
    <3>1. UNCHANGED <<life, clients, m_cRef, m_pProvider>>
      BY <2>6 DEF Advise, UnAdvise, GetCredentialCount, GetCredentialAt, DropTile,
         SetSelected, OwnerTouchesFreed, wndVars, provVars, logonVars
    <3> QED
      BY <1>b, <1>d, <3>1 DEF Counted
  <2> QED
    BY <1>2, <2>1, <2>2, <2>3, <2>4, <2>5, <2>6 DEF LogonUI
<1>3. ASSUME NEW w \in Windows, WindowStep(w) \/ CheckCallback(w) \/ CallCallback(w)
      PROVE  Counted'
  BY <1>a, <1>b, <1>d, <1>3, ThreadKeeps DEF provVars, logonVars, Counted
<1> QED
  BY <1>1, <1>2, <1>3 DEF Next

\* Every step keeps the references on the callbacks.
LEMMA HeldStep ==
  IInv /\ [Next]_vars => \A s \in Sinks : held'[s] = IF s = m_pcpe' THEN 1 ELSE 0
<1> SUFFICES ASSUME IInv, [Next]_vars, NEW s \in Sinks
             PROVE  held'[s] = IF s = m_pcpe' THEN 1 ELSE 0
  OBVIOUS
<1>a. ProviderTypeOK /\ CallbackLinked /\ s # NULL
  BY SinksAssumption DEF IInv
<1>b. \A t \in Sinks : held[t] = IF t = m_pcpe THEN 1 ELSE 0
  BY DEF IInv, ReferencesBalance
<1>1. CASE UNCHANGED <<held, m_pcpe>>
  BY <1>b, <1>1
<1>2. ASSUME NEW sink \in Sinks, Advise(sink)
      PROVE  held'[s] = IF s = m_pcpe' THEN 1 ELSE 0
  <2>1. m_pcpe = NULL /\ m_pcpe' = sink /\ held' = [held EXCEPT ![sink] = @ + 1]
    BY <1>a, <1>2 DEF Advise, CallbackLinked
  <2> QED
    BY <1>a, <1>b, <2>1, SinksAssumption DEF ProviderTypeOK
<1>3. CASE UnAdvise
  <2>1. m_pcpe \in Sinks /\ m_pcpe' = NULL /\ held' = [held EXCEPT ![m_pcpe] = @ - 1]
    BY <1>a, <1>3 DEF UnAdvise, ProviderTypeOK
  <2> QED
    BY <1>a, <1>b, <2>1 DEF ProviderTypeOK
<1>4. CASE LogonUI /\ ~ UnAdvise /\ \A sink \in Sinks : ~ Advise(sink)
  BY <1>1, <1>4 DEF LogonUI, CreateInstance, QueryInterface, Release, SetUsageScenario,
     FailUsageScenario, GetCredentialCount, GetCredentialAt, DropTile, SetSelected,
     provVars
<1>5. ASSUME NEW w \in Windows, WindowStep(w) \/ CheckCallback(w) \/ CallCallback(w)
      PROVE  held'[s] = IF s = m_pcpe' THEN 1 ELSE 0
  BY <1>a, <1>1, <1>5, ThreadKeeps DEF provVars, ProviderTypeOK
<1> QED
  BY <1>1, <1>2, <1>3, <1>4, <1>5 DEF Next, vars, provVars

-----------------------------------------------------------------------------
(***************************************************************************)
(* The theorems.                                                           *)
(***************************************************************************)

\* The initial state has the types and nothing in it.
LEMMA IInvInit == Init => IInv
<1> SUFFICES ASSUME Init PROVE IInv
  OBVIOUS
<1>1. WndTypeOK
  <2>1. <<>> \in Seq({"toggle", "exit"}) /\ <<>> \in Seq({"click", "close"})
    BY EmptySeq
  <2> QED
    BY <2>1 DEF Init, WndInit, WndTypeOK, Positions, Starting, Pumping, Faults
<1>2. ProviderTypeOK
  <2>1. Array!ArrayTypeOK
    BY EmptySeq DEF Init, Array!ArrayInit, Array!ArrayTypeOK
  <2>2. m_pOrgProvider \in BOOLEAN /\ answered \in BOOLEAN
    BY DEF Init
  <2>3. /\ m_pEventWin \in Windows \cup {NULL}
        /\ m_pcpe \in Sinks \cup {NULL}
        /\ advised \in Sinks \cup {NULL}
        /\ phase \in {"none", "created", "failing", "ready", "released"}
        /\ life \in {"none", "alive", "destroyed"}
        /\ m_cRef \in Int /\ clients \in Nat
    BY DEF Init
  <2>4. /\ held \in [Sinks -> Int]
        /\ tileWin \in [Tiles -> Windows \cup {NULL}]
        /\ reg \in [Windows -> Sinks \cup {NULL}]
    BY DEF Init
  <2> QED
    BY <1>1, <2>1, <2>2, <2>3, <2>4 DEF ProviderTypeOK
<1>3. ProviderStays /\ WindowsLinked /\ ScenarioLeaves /\ CallbackLinked
  BY DEF Init, WndInit, ProviderStays, WindowsLinked, ScenarioLeaves, CallbackLinked
<1>4. ServedTiles
  BY DEF Init, Array!ArrayInit, ServedTiles, Range
<1>5. ReferencesBalance
  BY SinksAssumption DEF Init, ReferencesBalance
<1> QED
  BY <1>2, <1>3, <1>4, <1>5 DEF IInv

LEMMA BalanceStep == IInv /\ [Next]_vars => ReferencesBalance'
BY CountStep, HeldStep DEF ReferencesBalance, Counted, Holders

LEMMA IInvStep == IInv /\ [Next]_vars => IInv'
BY TypeStep, StaysStep, LinkedStep, ScenarioStep, ServedStep, CallbackStep, BalanceStep
DEF IInv

LEMMA Invariant == Spec => []IInv
BY IInvInit, IInvStep, PTL DEF Spec

\* Every variable keeps its type, through accepted and failed scenarios.
THEOREM ProviderTypeCorrect == Spec => []ProviderTypeOK
<1>1. IInv => ProviderTypeOK
  BY DEF IInv
<1> QED
  BY <1>1, Invariant, PTL

\* AddRef and Release are balanced: CreateInstance, LogonUI, the windows and
\* the callbacks (Credential_Imp.cpp:129-184, :320-351, CmdEventWnd.cpp:29-49).
THEOREM BalanceCorrect == Spec => []ReferencesBalance
<1>1. IInv => ReferencesBalance
  BY DEF IInv
<1> QED
  BY <1>1, Invariant, PTL

\* Whatever scenarios failed before, GetCredentialCount finds the wrapped
\* provider and the window it uses unchecked (Credential_Imp.cpp:487, :533).
THEOREM ReadyIsServed == Spec => []ReadyHasWindow
<1>1. IInv => ReadyHasWindow
  BY DEF IInv, ScenarioLeaves, WindowsLinked, ReadyHasWindow
<1> QED
  BY <1>1, Invariant, PTL

\* The tiles LogonUI is served ask a window that is there, although others
\* keep a pointer to one that is gone (Credential_Imp.cpp:271, :693).
THEOREM TilesServedAreCurrent == Spec => []ServedTilesAreCurrent
<1>1. IInv => ServedTilesAreCurrent
  BY DEF IInv, ServedTiles, WindowsLinked, ServedTilesAreCurrent
<1> QED
  BY <1>1, Invariant, PTL

\* The window thread that is inside the provider when a failed scenario gives
\* the window's reference back still finds the provider there.
THEOREM CallbackOutlived == Spec => []ProviderOutlivesCallback
<1>1. Init => ProviderOutlivesCallback
  BY DEF Init, WndInit, ProviderOutlivesCallback
<1>2. ProviderOutlivesCallback /\ IInv /\ [Next]_vars => ProviderOutlivesCallback'
  <2> SUFFICES ASSUME ProviderOutlivesCallback, IInv, [Next]_vars
               PROVE  ProviderOutlivesCallback'
    OBVIOUS
  <2>a. ProviderStays /\ WindowsLinked /\ WndTypeOK
    BY DEF IInv, ProviderTypeOK
  <2>1. CASE UNCHANGED vars
    BY <2>1 DEF vars, wndVars, ProviderOutlivesCallback
  <2>2. CASE LogonUI
    <3>1. CASE Release
      BY <3>1, ReleaseKeeps DEF wndVars, ProviderOutlivesCallback
    <3>2. CASE ~ Release
      <4>1. UNCHANGED fault \/ fault' = "freedWindow"
        BY <2>2, <3>2 DEF LogonUI, CreateInstance, QueryInterface, SetUsageScenario,
           FailUsageScenario, Advise, UnAdvise, GetCredentialCount, GetCredentialAt,
           DropTile, SetSelected, OwnerTouchesFreed, Crash, Construct, Destruct, wndVars
      <4> QED
        BY <4>1 DEF ProviderOutlivesCallback
    <3> QED
      BY <3>1, <3>2
  <2>3. ASSUME NEW w \in Windows, WindowStep(w)
        PROVE  ProviderOutlivesCallback'
    <3>1. UNCHANGED fault \/ fault' = "freedWindow"
      BY <2>3, ModalLoopKeeps DEF WindowStep, WindowThread, UserInput, MyRegisterClass,
         OpenEventWindow, StoreHandle, ShowEventWindow, StartFailed, CallGetMessage,
         TakePosted, TakeInput, AnswerInput, Toggle, TouchFreedWindow, Crash
    <3> QED
      BY <3>1 DEF ProviderOutlivesCallback
  <2>4. ASSUME NEW w \in Windows, CheckCallback(w)
        PROVE  ProviderOutlivesCallback'
    BY <2>a, <2>4 DEF CheckCallback, WindowsLinked, ProviderOutlivesCallback
  <2>5. ASSUME NEW w \in Windows, CallCallback(w)
        PROVE  ProviderOutlivesCallback'
    <3>1. thread[w] = "call" /\ life = "alive"
      BY <2>a, <2>5 DEF CallCallback, MoveThread, ProviderStays
    <3> QED
      BY <2>5, <3>1 DEF CallCallback, ProviderOutlivesCallback
  <2> QED
    BY <2>1, <2>2, <2>3, <2>4, <2>5 DEF Next
<1> QED
  BY <1>1, <1>2, Invariant, PTL DEF Spec

\* The provider implements the window: what CmdEventWnd_proofs shows of the
\* window on its own holds of its windows.
THEOREM V1ImplementsWindow == Spec => ImplementsEventWindow
<1>1. Init => WndInit
  BY DEF Init
<1> QED
  BY <1>1, StepIsWindowStep, ProviderTypeCorrect, PTL DEF Spec, WndSpec,
     ImplementsEventWindow

\* So one event window at most is on the screen, through any number of
\* scenarios, failed ones that delete the window included (CmdEventWnd.cpp:86).
THEOREM V1OneWindow == Spec => []OneEventWindow
BY V1ImplementsWindow, OneWindow, PTL DEF ImplementsEventWindow

\* A scenario that fails while the last window's thread is pumping leaves that
\* thread an exit message (Credential_Imp.cpp:271, CmdEventWnd.cpp:22-26) ...
THEOREM V1TellsPump == Spec => DeletionTellsPump
BY V1ImplementsWindow, PumpIsTold, PTL DEF ImplementsEventWindow

\* ... and that thread can go on until it takes it, nearer with every step,
\* although its object and its reference on the provider are gone; only a modal
\* loop on that thread holds it up, and may lose the message (CmdEventWnd.cpp:213).
THEOREM V1ExitComesNearer == Spec => []ToldCanGoOn /\ ExitGetsNearer
BY V1ImplementsWindow, ToldThreadGoesOn, ExitComesNearer, PTL DEF ImplementsEventWindow

-----------------------------------------------------------------------------
(***************************************************************************)
(* The provider implements the array of tiles.                             *)
(***************************************************************************)

\* A call of LogonUI's is a step of the array or leaves it alone.
LEMMA CallIsArrayStep ==
  ASSUME IInv, LogonUI
  PROVE  [Array!ArrayNext]_arrayVars
<1>1. ASSUME NEW n \in 0 .. MaxTiles, NEW made \in Array!Fresh(n), NEW kept \in BOOLEAN,
             GetCredentialCount(made, kept)
      PROVE  Array!ArrayNext
  BY <1>1 DEF GetCredentialCount, Array!ArrayNext
<1>2. ASSUME NEW c \in Tiles, GetCredentialAt(c) \/ DropTile(c) PROVE Array!ArrayNext
  BY <1>2 DEF GetCredentialAt, DropTile, Array!ArrayNext
<1>3. CASE Release
  BY <1>3, ReleaseKeeps
<1>4. CASE \/ CreateInstance \/ QueryInterface \/ FailUsageScenario \/ UnAdvise
           \/ \E w \in Windows : \E accepted \in BOOLEAN : SetUsageScenario(w, accepted)
           \/ \E sink \in Sinks : Advise(sink)
           \/ \E c \in Tiles : SetSelected(c)
  BY <1>4 DEF CreateInstance, QueryInterface, FailUsageScenario, UnAdvise,
     SetUsageScenario, Advise, SetSelected, tileVars
<1> QED
  BY <1>1, <1>2, <1>3, <1>4 DEF LogonUI

\* The tiles behave as TileArray says, whatever becomes of the scenarios, the
\* windows and the provider's own references (Credential_Imp.cpp:197-215,
\* :440-541).
THEOREM V1ImplementsArray == Spec => Array!ArraySpec
<1>1. Init => Array!ArrayInit
  BY DEF Init
<1>2. IInv /\ [Next]_vars => [Array!ArrayNext]_Array!arrayVars
  <2> SUFFICES ASSUME IInv, [Next]_vars PROVE [Array!ArrayNext]_arrayVars
    BY DEF arrayVars, Array!arrayVars
  <2>1. CASE UNCHANGED vars
    BY <2>1 DEF vars, tileVars
  <2>2. CASE LogonUI
    BY <2>2, CallIsArrayStep
  <2>3. ASSUME NEW w \in Windows, WindowStep(w) \/ CheckCallback(w) \/ CallCallback(w)
        PROVE  UNCHANGED arrayVars
    BY <2>3 DEF WindowStep, CheckCallback, CallCallback, tileVars
  <2> QED
    BY <2>1, <2>2, <2>3 DEF Next
<1> QED
  BY <1>1, <1>2, Invariant, PTL DEF Spec, Array!ArraySpec

\* What TileArray needs to keep its promise: a tile that a failed enumeration
\* has lost is not in the array, so no clean-up reaches it.
ArrayInv ==
  /\ Array!ArrayTypeOK
  /\ Array!ReachableIsAlive
  /\ lost \cap Array!Range(array) = {}

LEMMA ArrayInvStep == ArrayInv /\ [Array!ArrayNext]_arrayVars => ArrayInv'
<1> SUFFICES ASSUME ArrayInv, [Array!ArrayNext]_arrayVars PROVE ArrayInv'
  OBVIOUS
<1> USE DEF ArrayInv, Array!ReachableIsAlive
<1>0. Array!Range(array) \subseteq Tiles
  BY DEF Array!ArrayTypeOK, Array!Range
<1>1. CASE UNCHANGED arrayVars
  BY <1>1 DEF arrayVars, Array!ArrayTypeOK, Array!Range
<1>2. ASSUME NEW n \in 0 .. MaxTiles, NEW made \in Array!Fresh(n), NEW kept \in BOOLEAN,
             Array!Enumerate(made, kept)
      PROVE  ArrayInv'
  <2>1. Array!ArrayTypeOK' /\ Array!Range(made) \subseteq Tiles
    <3>1. Range(made) = Array!Range(made)
      BY DEF Range, Array!Range
    <3> QED
      BY <1>2, <3>1, BoundsAssumption, EnumerateType
  <2>2. \A c \in Array!Range(made) : tile[c] = "unused"
    BY DEF Array!Fresh, Array!Range
  <2>3. Array!Range(made) \cap (Array!Range(array) \cup lost \cup taken) = {}
    BY <2>2
  <2>4. \A c \in Tiles : tile'[c] = IF c \in Array!Range(array) \ taken THEN "deleted"
                                    ELSE IF c \in Array!Range(made) THEN "alive" ELSE tile[c]
    BY <1>2 DEF Array!Enumerate
  <2>5. lost \cup taken \subseteq Tiles /\ taken' = taken
    BY <1>2 DEF Array!ArrayTypeOK, Array!Enumerate
  <2>6. CASE kept
    <3>1. array' = made /\ lost' = lost
      BY <1>2, <2>6 DEF Array!Enumerate
    <3> QED
      BY <1>0, <2>1, <2>3, <2>4, <2>5, <3>1
  <2>7. CASE ~ kept
    <3>1. Array!Range(array') = {} /\ lost' = lost \cup Array!Range(made)
      BY <1>2, <2>7 DEF Array!Enumerate, Array!Range
    <3> QED
      BY <1>0, <2>1, <2>3, <2>4, <2>5, <3>1 DEF Array!Range
  <2> QED
    BY <2>6, <2>7
<1>3. ASSUME NEW c \in Tiles, Array!Take(c) PROVE ArrayInv'
  BY <1>0, <1>3 DEF Array!Take, Array!ArrayTypeOK, Array!Range
<1>4. ASSUME NEW c \in Tiles, Array!Drop(c) PROVE ArrayInv'
  <2>1. Array!Range(array)' = Array!Range(array) /\ lost' = lost /\ taken' = taken \ {c}
    BY <1>4 DEF Array!Drop, Array!Range
  <2>2. /\ Array!ArrayTypeOK'
        /\ \A d \in Tiles : d \in Array!Range(array) \cup lost \cup taken'
                              => tile'[d] = tile[d]
    BY <1>4 DEF Array!Drop, Array!ArrayTypeOK
  <2> QED
    BY <1>0, <2>1, <2>2 DEF Array!ArrayTypeOK
<1> QED
  BY <1>1, <1>2, <1>3, <1>4 DEF Array!ArrayNext

\* TileArray keeps what it promises: no clean-up, failed enumeration or Release
\* takes a tile that somebody can still reach.
THEOREM ArrayKeepsReachable == Array!ArraySpec => []Array!ReachableIsAlive
<1>1. Array!ArrayInit => ArrayInv
  BY EmptySeq DEF Array!ArrayInit, ArrayInv, Array!ArrayTypeOK, Array!ReachableIsAlive,
                  Array!Range
<1>2. ArrayInv /\ [Array!ArrayNext]_Array!arrayVars => ArrayInv'
  BY ArrayInvStep DEF arrayVars, Array!arrayVars
<1>3. ArrayInv => Array!ReachableIsAlive
  BY DEF ArrayInv
<1> QED
  BY <1>1, <1>2, <1>3, PTL DEF Array!ArraySpec

\* So does the provider: the tiles LogonUI holds stay alive through scenarios
\* that fail and enumerations that replace them.
THEOREM V1KeepsReachable == Spec => []Array!ReachableIsAlive
BY V1ImplementsArray, ArrayKeepsReachable, PTL

=============================================================================
