-------------------- MODULE XCredentialV2Provider_proofs --------------------
(***************************************************************************)
(* Theorems about XCredentialV2Provider, for any sets of providers,        *)
(* windows, scenarios, callbacks and user arrays.                          *)
(***************************************************************************)
EXTENDS XCredentialV2Provider, CmdEventWnd_proofs, FiniteSetTheorems

-----------------------------------------------------------------------------
(***************************************************************************)
(* The provider implements the window's specification.                     *)
(***************************************************************************)

\* Every step of the provider is a step of its windows or leaves them alone.
LEMMA StepIsWindowStep == TypeOK /\ [Next]_vars => [WndNext]_wndVars
<1> SUFFICES ASSUME TypeOK, [Next]_vars PROVE [WndNext]_wndVars
  OBVIOUS
<1>1. CASE UNCHANGED vars
  BY <1>1 DEF vars
<1>2. ASSUME NEW p \in Providers, LogonUI(p)
      PROVE  [WndNext]_wndVars
  <2>1. CASE CreateInstance(p)
    BY <2>1 DEF CreateInstance
  <2>2. CASE QueryInterface(p)
    BY <2>2 DEF QueryInterface
  <2>3. CASE Release(p)
    <3>2. CASE m_cRef[p] = 1 /\ m_pEventWin[p] # NULL
      <4>1. Delete(m_pEventWin[p])
        BY <2>3, <3>2 DEF Release, Destroy, Delete, Callable
      <4> QED
        BY <3>2, <4>1 DEF WndNext, TypeOK
    <3> QED
      BY <2>3, <3>2 DEF Release, Destroy
  <2>4. ASSUME NEW cpus \in Scenarios, SetUsageScenario(p, cpus)
        PROVE  [WndNext]_wndVars
    <3>1. PICK w \in Windows : OpenWindow(w, p)
      BY <2>4 DEF SetUsageScenario
    <3>2. Create(w, p)
      BY <2>4, <3>1 DEF SetUsageScenario, Callable, OpenWindow, Create
    <3> QED
      BY <3>2 DEF WndNext
  <2>5. ASSUME NEW cpus \in Scenarios, RefuseUsageScenario(p, cpus)
        PROVE  [WndNext]_wndVars
    BY <2>5 DEF RefuseUsageScenario
  <2>6. ASSUME NEW users \in UserArrays, SetUserArray(p, users)
        PROVE  [WndNext]_wndVars
    BY <2>6 DEF SetUserArray
  <2>7. ASSUME NEW sink \in Sinks, Advise(p, sink)
        PROVE  [WndNext]_wndVars
    BY <2>7 DEF Advise
  <2>8. CASE UnAdvise(p)
    BY <2>8 DEF UnAdvise
  <2>9. CASE GetCredentialCount(p)
    BY <2>9 DEF GetCredentialCount
  <2>10. CASE GetCredentialCountFaults(p)
    BY <2>10 DEF GetCredentialCountFaults, WndNext
  <2>11. ASSUME NEW i \in 1 .. m_dwCredentialCount[p], GetCredentialAt(p, i)
         PROVE  [WndNext]_wndVars
    BY <2>11 DEF GetCredentialAt, WndNext
  <2> QED
    BY <1>2, <2>1, <2>2, <2>3, <2>4, <2>5, <2>6, <2>7, <2>8, <2>9, <2>10, <2>11
    DEF LogonUI
<1>3. ASSUME NEW w \in Windows, WindowStep(w)
      PROVE  [WndNext]_wndVars
  BY <1>3 DEF WindowStep, WndNext
<1>4. ASSUME NEW w \in Windows, CheckCallback(w)
      PROVE  [WndNext]_wndVars
  <2>1. CASE life[m_pProvider[w]] = "alive"
    <3>1. Callback(w)
      BY <1>4, <2>1 DEF CheckCallback, Callback, MoveThread
    <3> QED
      BY <3>1 DEF WndNext
  <2>2. CASE life[m_pProvider[w]] # "alive"
    <3>1. FaultInCallback(w)
      BY <1>4, <2>2 DEF CheckCallback, FaultInCallback, MoveThread, TypeOK, WndTypeOK
    <3> QED
      BY <3>1 DEF WndNext
  <2> QED
    BY <2>1, <2>2
<1>5. ASSUME NEW w \in Windows, CallCallback(w)
      PROVE  [WndNext]_wndVars
  <2>1. Callback(w) \/ FaultInCallback(w)
    <3>1. CASE UNCHANGED fault /\ MoveThread(w, "call", "pump")
      BY <1>5, <3>1 DEF CallCallback, Callback
    <3>2. CASE fault' = "deadCallback" /\ MoveThread(w, "call", "call")
      BY <1>5, <3>2 DEF CallCallback, FaultInCallback, MoveThread, TypeOK, WndTypeOK
    <3> QED
      BY <1>5, <3>1, <3>2 DEF CallCallback
  <2> QED
    BY <2>1 DEF WndNext
<1> QED
  BY <1>1, <1>2, <1>3, <1>4, <1>5 DEF Next

-----------------------------------------------------------------------------
(***************************************************************************)
(* Types.                                                                  *)
(***************************************************************************)

\* The references held after a swap are integers again.
LEMMA SwappedType ==
  ASSUME TypeOK, NEW p \in Providers, NEW old, NEW new
  PROVE  Swapped(p, old, new) \in [Sinks \cup UserArrays -> Int]
BY DEF TypeOK, Swapped

\* An enumeration has one slot per user.
LEMMA EnumerationType ==
  ASSUME TypeOK, NEW p \in Providers, m_pCredProviderUserArray[p] \in UserArrays,
         m_cpus[p] \in Scenarios, m_pEventWin[p] \in Windows,
         NEW failed, NEW raw
  PROVE  /\ EnumerateCredentials(p, failed, raw) \in Seq(Slots)
         /\ Len(EnumerateCredentials(p, failed, raw))
              = UserCount[m_pCredProviderUserArray[p]]
<1> DEFINE n == UserCount[m_pCredProviderUserArray[p]]
<1>1. n \in Nat
  BY UserCountAssumption
<1>2. \A i \in 1 .. n :
        (IF i \in failed THEN NULL
         ELSE IF i \in raw THEN RawTile
         ELSE [cpus |-> m_cpus[p], users |-> m_pCredProviderUserArray[p],
               index |-> i, win |-> m_pEventWin[p]]) \in Slots
  BY <1>1 DEF Slots, Tile
<1>3. EnumerateCredentials(p, failed, raw) \in [1 .. n -> Slots]
  BY <1>2 DEF EnumerateCredentials
<1> HIDE DEF n
<1>4. /\ EnumerateCredentials(p, failed, raw) \in Seq(Slots)
      /\ Len(EnumerateCredentials(p, failed, raw)) = n
  <2> DEFINE e == EnumerateCredentials(p, failed, raw)
  <2> HIDE DEF e
  <2>1. e \in [1 .. n -> Slots]
    BY <1>3 DEF e
  <2>2. e \in Seq(Slots) /\ Len(e) = n
    BY <1>1, <2>1
  <2> QED
    BY <2>2 DEF e
<1> QED
  BY <1>4 DEF n

-----------------------------------------------------------------------------
(***************************************************************************)
(* The inductive invariant.                                                *)
(***************************************************************************)

\* LogonUI enumerates a provider only once it has a window, a scenario and a
\* user array, and it keeps the window while an answer stands.
ReadyHasAll ==
  \A p \in Providers :
    /\ phase[p] \in {"scenario", "ready"} =>
         m_pEventWin[p] \in Windows /\ m_cpus[p] \in Scenarios
    /\ phase[p] = "ready" => m_pCredProviderUserArray[p] \in UserArrays
    /\ answer[p] # NULL => m_pEventWin[p] \in Windows

\* Nothing is ever destroyed: a provider lives from its creation on, and an
\* object that is no longer unused stays alive.
NothingDies ==
  /\ \A p \in Providers :
       /\ life[p] # "destroyed"
       /\ phase[p] = "none" <=> life[p] = "none"
       /\ clients[p] > 0 => life[p] = "alive"
  /\ \A w \in Windows :
       /\ wobj[w] # "deleted"
       /\ wobj[w] = "unused" => m_pProvider[w] = NULL
       /\ m_pProvider[w] # NULL => life[m_pProvider[w]] = "alive"

\* The stored callback is the one LogonUI considers valid, and the current
\* window of a provider points back at it.
Linked ==
  \A p \in Providers :
    /\ m_pcpe[p] = advised[p]
    /\ m_pEventWin[p] # NULL => m_pProvider[m_pEventWin[p]] = p

IInv ==
  /\ TypeOK
  /\ ReadyHasAll
  /\ NothingDies
  /\ Linked
  /\ RefAccounting

\* The windows that hold a reference on p.
WindowsOf(p) == {w \in Windows : m_pProvider[w] = p}

\* They are finitely many.
LEMMA WindowsOfFinite ==
  ASSUME NEW p PROVE IsFiniteSet(WindowsOf(p)) /\ Cardinality(WindowsOf(p)) \in Nat
<1>1. WindowsOf(p) \subseteq Windows
  BY DEF WindowsOf
<1>2. IsFiniteSet(WindowsOf(p))
  BY <1>1, WindowsAssumption, FS_Subset
<1> QED
  BY <1>2, FS_CardinalityType

\* A Release of LogonUI's is never the last: the reference CreateInstance
\* forgot is still there.
LEMMA ReleaseKeeps ==
  ASSUME IInv, NEW p \in Providers, Release(p)
  PROVE  /\ m_cRef' = [m_cRef EXCEPT ![p] = @ - 1]
         /\ UNCHANGED <<wndVars, life, m_pCredential, m_pCredProviderUserArray,
                        held, m_pEventWin>>
<1>1. clients[p] > 0 /\ clients[p] \in Nat /\ life[p] = "alive"
  BY DEF Release, Callable, IInv, NothingDies, TypeOK
<1>2. m_cRef[p] = 1 + clients[p] + Cardinality(WindowsOf(p))
  BY <1>1 DEF IInv, RefAccounting, WindowsOf
<1>3. m_cRef[p] # 1
  BY <1>1, <1>2, WindowsOfFinite
<1> QED
  BY <1>3 DEF Release

-----------------------------------------------------------------------------
(***************************************************************************)
(* Types.                                                                  *)
(***************************************************************************)

\* Every step keeps the types.
LEMMA TypeOKStep == IInv /\ [Next]_vars => TypeOK'
<1> SUFFICES ASSUME IInv, [Next]_vars PROVE TypeOK'
  OBVIOUS
<1>a. TypeOK /\ ReadyHasAll
  BY DEF IInv
<1>0. WndTypeOK'
  BY <1>a, StepIsWindowStep, WndTypeOKStep DEF TypeOK
<1>1. CASE UNCHANGED vars
  BY <1>a, <1>0, <1>1 DEF vars, provVars, TypeOK
<1>2. ASSUME NEW p \in Providers, LogonUI(p)
      PROVE  TypeOK'
  <2>1. CASE CreateInstance(p)
    <3>1. m_cRef' \in [Providers -> Int] /\ clients' \in [Providers -> Nat]
      BY <1>a, <2>1 DEF CreateInstance, BirthCount, TypeOK
    <3>2. /\ phase' \in [Providers -> {"none", "created", "scenario", "ready", "released"}]
          /\ life' \in [Providers -> {"none", "alive", "destroyed"}]
      BY <1>a, <2>1 DEF CreateInstance, TypeOK
    <3>3. /\ m_cpus' \in [Providers -> Scenarios \cup {NULL}]
          /\ m_fRecreateEnumeratedCredentials' \in [Providers -> BOOLEAN]
      BY <1>a, <2>1 DEF CreateInstance, TypeOK
    <3> QED
      BY <1>a, <1>0, <2>1, <3>1, <3>2, <3>3 DEF CreateInstance, TypeOK
  <2>2. CASE QueryInterface(p)
    <3>1. m_cRef' \in [Providers -> Int] /\ clients' \in [Providers -> Nat]
      BY <1>a, <2>2 DEF QueryInterface, TypeOK
    <3> QED
      BY <1>a, <1>0, <2>2, <3>1 DEF QueryInterface, TypeOK
  <2>3. CASE Release(p)
    <3>1. m_cRef' \in [Providers -> Int]
      BY <1>a, <2>3, ReleaseKeeps DEF TypeOK
    <3>2. clients' \in [Providers -> Nat]
      BY <1>a, <2>3 DEF Release, Callable, TypeOK
    <3>3. phase' \in [Providers -> {"none", "created", "scenario", "ready", "released"}]
      BY <1>a, <2>3 DEF Release, TypeOK
    <3> QED
      BY <1>a, <1>0, <2>3, <3>1, <3>2, <3>3, ReleaseKeeps DEF Release, TypeOK
  <2>4. ASSUME NEW cpus \in Scenarios, SetUsageScenario(p, cpus)
        PROVE  TypeOK'
    <3>1. PICK w \in Windows : OpenWindow(w, p)
      BY <2>4 DEF SetUsageScenario
    <3>2. m_cRef' \in [Providers -> Int] /\ m_pEventWin' \in [Providers -> Windows \cup {NULL}]
      BY <1>a, <3>1 DEF OpenWindow, TypeOK
    <3>3. /\ m_cpus' \in [Providers -> Scenarios \cup {NULL}]
          /\ m_fRecreateEnumeratedCredentials' \in [Providers -> BOOLEAN]
      BY <1>a, <2>4 DEF SetUsageScenario, RequireTiles, TypeOK
    <3>4. /\ phase' \in [Providers -> {"none", "created", "scenario", "ready", "released"}]
          /\ answer' \in [Providers -> Replies \cup {NULL}]
      BY <1>a, <2>4 DEF SetUsageScenario, TypeOK
    <3> QED
      BY <1>a, <1>0, <2>4, <3>2, <3>3, <3>4 DEF SetUsageScenario, TypeOK
  <2>5. ASSUME NEW cpus \in Scenarios, RefuseUsageScenario(p, cpus)
        PROVE  TypeOK'
    BY <1>a, <1>0, <2>5 DEF RefuseUsageScenario, TypeOK
  <2>6. ASSUME NEW users \in UserArrays, SetUserArray(p, users)
        PROVE  TypeOK'
    BY <1>a, <1>0, <2>6, SwappedType DEF SetUserArray, TypeOK
  <2>7. ASSUME NEW sink \in Sinks, Advise(p, sink)
        PROVE  TypeOK'
    BY <1>a, <1>0, <2>7, SwappedType DEF Advise, TypeOK
  <2>8. CASE UnAdvise(p)
    BY <1>a, <1>0, <2>8, SwappedType DEF UnAdvise, TypeOK
  <2>9. CASE GetCredentialCount(p)
    <3>0. /\ m_pEventWin[p] \in Windows
          /\ m_cpus[p] \in Scenarios
          /\ m_pCredProviderUserArray[p] \in UserArrays
      BY <1>a, <2>9 DEF GetCredentialCount, ReadyHasAll
    <3>1. m_pCredential' \in [Providers -> Seq(Slots)]
      <4>1. CASE m_fRecreateEnumeratedCredentials[p]
        <5>1. PICK failed, raw : m_pCredential' = [m_pCredential EXCEPT
                                   ![p] = EnumerateCredentials(p, failed, raw)]
          BY <2>9, <4>1 DEF GetCredentialCount
        <5>2. EnumerateCredentials(p, failed, raw) \in Seq(Slots)
          BY <1>a, <3>0, EnumerationType
        <5> QED
          BY <1>a, <5>1, <5>2 DEF TypeOK
      <4>2. CASE ~ m_fRecreateEnumeratedCredentials[p]
        BY <1>a, <2>9, <4>2 DEF GetCredentialCount, TypeOK
      <4> QED
        BY <4>1, <4>2
    <3>2. m_dwCredentialCount' \in [Providers -> Nat]
      <4>1. CASE m_fRecreateEnumeratedCredentials[p]
        <5>1. m_dwCredentialCount' = [m_dwCredentialCount EXCEPT
                                        ![p] = UserCount[m_pCredProviderUserArray[p]]]
          BY <2>9, <4>1 DEF GetCredentialCount
        <5>2. UserCount[m_pCredProviderUserArray[p]] \in Nat
          BY <3>0, UserCountAssumption
        <5> QED
          BY <1>a, <5>1, <5>2 DEF TypeOK
      <4>2. CASE ~ m_fRecreateEnumeratedCredentials[p]
        BY <1>a, <2>9, <4>2 DEF GetCredentialCount, TypeOK
      <4> QED
        BY <4>1, <4>2
    <3>3. answer' \in [Providers -> Replies \cup {NULL}]
      <4> DEFINE r == [count  |-> m_dwCredentialCount'[p],
                       status |-> m_fConnected[m_pEventWin[p]]]
      <4>1. m_fConnected[m_pEventWin[p]] \in BOOLEAN
        BY <1>a, <3>0 DEF TypeOK, WndTypeOK
      <4>2. m_dwCredentialCount'[p] \in Nat
        BY <3>2
      <4>3. r \in Replies
        BY <4>1, <4>2 DEF Replies
      <4>4. answer' = [answer EXCEPT ![p] = r]
        BY <2>9 DEF GetCredentialCount
      <4> HIDE DEF r
      <4> QED
        BY <1>a, <4>3, <4>4 DEF TypeOK
    <3>4. /\ m_fRecreateEnumeratedCredentials' \in [Providers -> BOOLEAN]
          /\ changed' \in [Providers -> BOOLEAN]
      BY <1>a, <2>9 DEF GetCredentialCount, TypeOK
    <3> QED
      BY <1>a, <1>0, <2>9, <3>1, <3>2, <3>3, <3>4 DEF GetCredentialCount, TypeOK
  <2>10. CASE GetCredentialCountFaults(p)
    BY <1>a, <1>0, <2>10 DEF GetCredentialCountFaults, provVars, TypeOK
  <2>11. ASSUME NEW i \in 1 .. m_dwCredentialCount[p], GetCredentialAt(p, i)
         PROVE  TypeOK'
    BY <1>a, <1>0, <2>11 DEF GetCredentialAt, provVars, TypeOK
  <2> QED
    BY <1>2, <2>1, <2>2, <2>3, <2>4, <2>5, <2>6, <2>7, <2>8, <2>9, <2>10, <2>11
    DEF LogonUI
<1>3. ASSUME NEW w \in Windows, WindowStep(w)
      PROVE  TypeOK'
  BY <1>a, <1>0, <1>3 DEF WindowStep, provVars, TypeOK
<1>4. ASSUME NEW w \in Windows, CheckCallback(w)
      PROVE  TypeOK'
  <2>1. reg' \in [Windows -> Sinks \cup {NULL}]
    BY <1>a, <1>4 DEF CheckCallback, TypeOK, WndTypeOK
  <2> QED
    BY <1>a, <1>0, <1>4, <2>1 DEF CheckCallback, provVars, TypeOK
<1>5. ASSUME NEW w \in Windows, CallCallback(w)
      PROVE  TypeOK'
  <2>1. changed' \in [Providers -> BOOLEAN] /\ reg' \in [Windows -> Sinks \cup {NULL}]
    BY <1>a, <1>5 DEF CallCallback, TypeOK
  <2> QED
    BY <1>a, <1>0, <1>5, <2>1 DEF CallCallback, TypeOK
<1> QED
  BY <1>1, <1>2, <1>3, <1>4, <1>5 DEF Next

-----------------------------------------------------------------------------
(***************************************************************************)
(* The rest of the invariant, one lemma for each conjunct.                 *)
(***************************************************************************)

\* Every step keeps what LogonUI relies on when it enumerates.
LEMMA ReadyStep == IInv /\ [Next]_vars => ReadyHasAll'
<1> SUFFICES ASSUME IInv, [Next]_vars PROVE ReadyHasAll'
  OBVIOUS
<1>a. TypeOK /\ ReadyHasAll
  BY DEF IInv
<1>1. CASE UNCHANGED vars
  BY <1>a, <1>1 DEF vars, provVars, ReadyHasAll
<1>2. ASSUME NEW p \in Providers, LogonUI(p)
      PROVE  ReadyHasAll'
  <2>1. CASE CreateInstance(p)
    <3>1. phase'[p] = "created" /\ UNCHANGED <<m_pEventWin, m_pCredProviderUserArray, answer>>
      BY <1>a, <2>1 DEF CreateInstance, TypeOK
    <3>2. \A q \in Providers : q # p => phase'[q] = phase[q] /\ m_cpus'[q] = m_cpus[q]
      BY <1>a, <2>1 DEF CreateInstance, TypeOK
    <3> QED
      BY <1>a, <3>1, <3>2 DEF ReadyHasAll
  <2>2. CASE QueryInterface(p)
    BY <1>a, <2>2 DEF QueryInterface, ReadyHasAll
  <2>3. CASE Release(p)
    <3>1. \A q \in Providers : phase'[q] = phase[q] \/ phase'[q] = "released"
      BY <1>a, <2>3 DEF Release, TypeOK
    <3>2. UNCHANGED <<m_pEventWin, m_pCredProviderUserArray, m_cpus, answer>>
      BY <2>3, ReleaseKeeps DEF Release
    <3> QED
      BY <1>a, <3>1, <3>2 DEF ReadyHasAll
  <2>4. ASSUME NEW cpus \in Scenarios, SetUsageScenario(p, cpus)
        PROVE  ReadyHasAll'
    <3>1. PICK w \in Windows : OpenWindow(w, p)
      BY <2>4 DEF SetUsageScenario
    <3>2. /\ m_pEventWin' = [m_pEventWin EXCEPT ![p] = w]
          /\ m_cpus' = [m_cpus EXCEPT ![p] = cpus]
          /\ phase' = [phase EXCEPT ![p] = "scenario"]
          /\ answer' = [answer EXCEPT ![p] = NULL]
          /\ UNCHANGED m_pCredProviderUserArray
      BY <2>4, <3>1 DEF SetUsageScenario, OpenWindow
    <3> QED
      BY <1>a, <3>2 DEF TypeOK, ReadyHasAll
  <2>5. ASSUME NEW cpus \in Scenarios, RefuseUsageScenario(p, cpus)
        PROVE  ReadyHasAll'
    BY <1>a, <2>5 DEF RefuseUsageScenario, TypeOK, ReadyHasAll
  <2>6. ASSUME NEW users \in UserArrays, SetUserArray(p, users)
        PROVE  ReadyHasAll'
    BY <1>a, <2>6 DEF SetUserArray, TypeOK, ReadyHasAll
  <2>7. ASSUME NEW sink \in Sinks, Advise(p, sink)
        PROVE  ReadyHasAll'
    BY <1>a, <2>7 DEF Advise, TypeOK, ReadyHasAll
  <2>8. CASE UnAdvise(p)
    BY <1>a, <2>8 DEF UnAdvise, ReadyHasAll
  <2>9. CASE GetCredentialCount(p)
    <3>1. /\ phase[p] = "ready"
          /\ \A q \in Providers : q # p => answer'[q] = answer[q]
          /\ UNCHANGED <<phase, m_pEventWin, m_cpus, m_pCredProviderUserArray>>
      BY <1>a, <2>9 DEF GetCredentialCount, TypeOK
    <3> QED
      BY <1>a, <3>1 DEF ReadyHasAll
  <2>10. CASE GetCredentialCountFaults(p)
    BY <1>a, <2>10 DEF GetCredentialCountFaults, provVars, ReadyHasAll
  <2>11. ASSUME NEW i \in 1 .. m_dwCredentialCount[p], GetCredentialAt(p, i)
         PROVE  ReadyHasAll'
    BY <1>a, <2>11 DEF GetCredentialAt, provVars, ReadyHasAll
  <2> QED
    BY <1>2, <2>1, <2>2, <2>3, <2>4, <2>5, <2>6, <2>7, <2>8, <2>9, <2>10, <2>11
    DEF LogonUI
<1>3. ASSUME NEW w \in Windows, WindowStep(w) \/ CheckCallback(w) \/ CallCallback(w)
      PROVE  ReadyHasAll'
  BY <1>a, <1>3 DEF WindowStep, CheckCallback, CallCallback, provVars, ReadyHasAll
<1> QED
  BY <1>1, <1>2, <1>3 DEF Next

\* A window thread leaves the objects and their owners alone.
LEMMA ThreadKeepsObjects ==
  ASSUME NEW w, WindowStep(w) \/ CheckCallback(w) \/ CallCallback(w)
  PROVE  UNCHANGED <<wobj, m_pProvider, life, phase, clients, m_cRef, m_pcpe,
                     advised, m_pEventWin, held, answer, m_pCredProviderUserArray>>
<1>1. CASE WindowStep(w)
  BY <1>1, ModalLoopKeeps DEF WindowStep, WindowThread, UserInput, MyRegisterClass,
     OpenEventWindow, StoreHandle, ShowEventWindow, StartFailed, CallGetMessage,
     TakePosted, TakeInput, AnswerInput, Toggle, TouchFreedWindow, provVars
<1>2. CASE CheckCallback(w)
  BY <1>2 DEF CheckCallback, MoveThread, provVars
<1>3. CASE CallCallback(w)
  BY <1>3 DEF CallCallback, MoveThread
<1> QED
  BY <1>1, <1>2, <1>3

\* So do LogonUI's calls, but for the creation of a provider, the opening of
\* a window and the references LogonUI takes and gives back.
QuietCall(p) ==
  \/ \E cpus \in Scenarios : RefuseUsageScenario(p, cpus)
  \/ \E users \in UserArrays : SetUserArray(p, users)
  \/ \E sink \in Sinks : Advise(p, sink)
  \/ UnAdvise(p)
  \/ GetCredentialCount(p)
  \/ GetCredentialCountFaults(p)
  \/ \E i \in 1 .. m_dwCredentialCount[p] : GetCredentialAt(p, i)

Quiet(p) ==
  /\ UNCHANGED <<wobj, m_pProvider, life, clients, m_cRef, m_pEventWin>>
  /\ clients[p] > 0
  /\ \/ UNCHANGED phase
     \/ phase' = [phase EXCEPT ![p] = "created"]
     \/ phase' = [phase EXCEPT ![p] = "ready"]

LEMMA QuietCalls == ASSUME NEW p, QuietCall(p) PROVE Quiet(p)
<1>1. ASSUME NEW cpus \in Scenarios, RefuseUsageScenario(p, cpus) PROVE Quiet(p)
  BY <1>1 DEF RefuseUsageScenario, wndVars, Callable, Quiet
<1>2. ASSUME NEW users \in UserArrays, SetUserArray(p, users) PROVE Quiet(p)
  BY <1>2 DEF SetUserArray, wndVars, Callable, Quiet
<1>3. ASSUME NEW sink \in Sinks, Advise(p, sink) PROVE Quiet(p)
  BY <1>3 DEF Advise, wndVars, Callable, Quiet
<1>4. CASE UnAdvise(p)
  BY <1>4 DEF UnAdvise, wndVars, Callable, Quiet
<1>5. CASE GetCredentialCount(p)
  BY <1>5 DEF GetCredentialCount, wndVars, Callable, Quiet
<1>6. CASE GetCredentialCountFaults(p)
  BY <1>6 DEF GetCredentialCountFaults, OwnerFault, provVars, Callable, Quiet
<1>7. ASSUME NEW i \in 1 .. m_dwCredentialCount[p], GetCredentialAt(p, i) PROVE Quiet(p)
  BY <1>7 DEF GetCredentialAt, OwnerFault, wndVars, provVars, Callable, Quiet
<1> QED
  BY <1>1, <1>2, <1>3, <1>4, <1>5, <1>6, <1>7 DEF QuietCall

\* A call of LogonUI's is one of the four that matter to the references, or
\* a quiet one.
LEMMA LogonUICases ==
  ASSUME NEW p, LogonUI(p)
  PROVE  \/ CreateInstance(p)
         \/ QueryInterface(p)
         \/ Release(p)
         \/ \E cpus \in Scenarios : SetUsageScenario(p, cpus)
         \/ QuietCall(p)
BY DEF LogonUI, QuietCall

\* Every step keeps every object alive.
LEMMA NothingDiesStep == IInv /\ [Next]_vars => NothingDies'
<1> SUFFICES ASSUME IInv, [Next]_vars PROVE NothingDies'
  OBVIOUS
<1>a. TypeOK /\ NothingDies
  BY DEF IInv
<1>1. CASE UNCHANGED vars
  BY <1>a, <1>1 DEF vars, wndVars, provVars, NothingDies
<1>2. ASSUME NEW p \in Providers, LogonUI(p)
      PROVE  NothingDies'
  <2>1. CASE CreateInstance(p)
    <3>1. /\ phase' = [phase EXCEPT ![p] = "created"]
          /\ life' = [life EXCEPT ![p] = "alive"]
          /\ clients' = [clients EXCEPT ![p] = 1]
          /\ UNCHANGED <<wobj, m_pProvider>>
      BY <2>1 DEF CreateInstance, wndVars
    <3> QED
      BY <1>a, <3>1 DEF TypeOK, WndTypeOK, NothingDies
  <2>2. CASE QueryInterface(p)
    <3>1. /\ clients[p] > 0
          /\ clients' = [clients EXCEPT ![p] = @ + 1]
          /\ UNCHANGED <<wobj, m_pProvider, life, phase>>
      BY <2>2 DEF QueryInterface, Callable, wndVars
    <3> QED
      BY <1>a, <3>1 DEF TypeOK, NothingDies
  <2>3. CASE Release(p)
    <3>1. /\ clients[p] > 0
          /\ clients' = [clients EXCEPT ![p] = @ - 1]
          /\ phase' = [phase EXCEPT ![p] = IF clients[p] = 1 THEN "released" ELSE @]
          /\ UNCHANGED <<wobj, m_pProvider, life>>
      BY <2>3, ReleaseKeeps DEF Release, Callable, wndVars
    <3>2. life[p] = "alive" /\ phase[p] # "none"
      BY <1>a, <3>1 DEF NothingDies
    <3>3. phase'[p] # "none" /\ \A q \in Providers : q # p => phase'[q] = phase[q]
      BY <1>a, <3>1, <3>2 DEF TypeOK
    <3>4. \A q \in Providers : q # p => clients'[q] = clients[q]
      BY <1>a, <3>1 DEF TypeOK
    <3> QED
      <4>1. \A q \in Providers :
              /\ life'[q] # "destroyed"
              /\ phase'[q] = "none" <=> life'[q] = "none"
              /\ clients'[q] > 0 => life'[q] = "alive"
        <5> TAKE q \in Providers
        <5>1. life'[q] = life[q] /\ life[q] # "destroyed"
          BY <1>a, <3>1 DEF NothingDies
        <5>2. CASE q = p
          BY <3>2, <3>3, <5>1, <5>2
        <5>3. CASE q # p
          BY <1>a, <3>3, <3>4, <5>1, <5>3 DEF NothingDies
        <5> QED
          BY <5>2, <5>3
      <4> QED
        BY <1>a, <3>1, <4>1 DEF NothingDies
  <2>4. ASSUME NEW cpus \in Scenarios, SetUsageScenario(p, cpus)
        PROVE  NothingDies'
    <3>1. PICK w \in Windows : OpenWindow(w, p)
      BY <2>4 DEF SetUsageScenario
    <3>2. /\ clients[p] > 0
          /\ phase' = [phase EXCEPT ![p] = "scenario"]
          /\ wobj' = [wobj EXCEPT ![w] = "alive"]
          /\ m_pProvider' = [m_pProvider EXCEPT ![w] = p]
          /\ UNCHANGED <<life, clients>>
      BY <2>4, <3>1 DEF SetUsageScenario, OpenWindow, Construct, Callable
    <3> QED
      BY <1>a, <3>2 DEF TypeOK, WndTypeOK, NothingDies
  <2>5. CASE QuietCall(p)
    <3>1. Quiet(p)
      BY <2>5, QuietCalls
    <3>2. \A q \in Providers : phase'[q] = "none" <=> phase[q] = "none"
      <4>1. phase[p] # "none"
        BY <1>a, <3>1 DEF Quiet, NothingDies
      <4>2. CASE UNCHANGED phase
        BY <4>2
      <4>3. CASE phase' = [phase EXCEPT ![p] = "created"]
        BY <1>a, <4>1, <4>3 DEF TypeOK
      <4>4. CASE phase' = [phase EXCEPT ![p] = "ready"]
        BY <1>a, <4>1, <4>4 DEF TypeOK
      <4> QED
        BY <3>1, <4>2, <4>3, <4>4 DEF Quiet
    <3> QED
      BY <1>a, <3>1, <3>2 DEF Quiet, NothingDies
  <2> QED
    BY <1>2, <2>1, <2>2, <2>3, <2>4, <2>5, LogonUICases
<1>3. ASSUME NEW w \in Windows, WindowStep(w) \/ CheckCallback(w) \/ CallCallback(w)
      PROVE  NothingDies'
  BY <1>a, <1>3, ThreadKeepsObjects DEF NothingDies
<1> QED
  BY <1>1, <1>2, <1>3 DEF Next

\* Opening a window adds one to the windows of its owner and none to those of
\* any other provider.
LEMMA OpenCount ==
  ASSUME IInv, NEW p \in Providers, NEW w \in Windows, wobj[w] = "unused",
         m_pProvider' = [m_pProvider EXCEPT ![w] = p], NEW q \in Providers
  PROVE  Cardinality(WindowsOf(q)')
           = Cardinality(WindowsOf(q)) + (IF q = p THEN 1 ELSE 0)
<1>1. m_pProvider \in [Windows -> Providers \cup {NULL}] /\ m_pProvider[w] = NULL
  BY DEF IInv, TypeOK, WndTypeOK, NothingDies
<1>2. CASE q = p
  <2>1. WindowsOf(q)' = WindowsOf(q) \cup {w} /\ w \notin WindowsOf(q)
    BY <1>1, <1>2, NullAssumption DEF WindowsOf
  <2> QED
    BY <1>2, <2>1, WindowsOfFinite, FS_AddElement
<1>3. CASE q # p
  <2>1. WindowsOf(q)' = WindowsOf(q)
    BY <1>1, <1>3, NullAssumption DEF WindowsOf
  <2> QED
    BY <1>3, <2>1, WindowsOfFinite
<1> QED
  BY <1>2, <1>3

\* Every step keeps the account of the references.
LEMMA RefAccountingStep == IInv /\ [Next]_vars => RefAccounting'
<1> SUFFICES ASSUME IInv, [Next]_vars, NEW q \in Providers, life'[q] = "alive"
             PROVE  m_cRef'[q] = 1 + clients'[q] + Cardinality(WindowsOf(q)')
  BY DEF RefAccounting, WindowsOf
<1>a. TypeOK /\ NothingDies
  BY DEF IInv
<1>b. life[q] = "alive" => m_cRef[q] = 1 + clients[q] + Cardinality(WindowsOf(q))
  BY DEF IInv, RefAccounting, WindowsOf
<1>c. Cardinality(WindowsOf(q)) \in Nat
  BY WindowsOfFinite
<1>d. ASSUME UNCHANGED m_pProvider PROVE WindowsOf(q)' = WindowsOf(q)
  BY <1>d DEF WindowsOf
<1>1. CASE UNCHANGED vars
  BY <1>b, <1>d, <1>1 DEF vars, wndVars, provVars
<1>2. ASSUME NEW p \in Providers, LogonUI(p)
      PROVE  m_cRef'[q] = 1 + clients'[q] + Cardinality(WindowsOf(q)')
  <2>1. CASE CreateInstance(p)
    <3>1. /\ phase[p] = "none"
          /\ life' = [life EXCEPT ![p] = "alive"]
          /\ m_cRef' = [m_cRef EXCEPT ![p] = 2]
          /\ clients' = [clients EXCEPT ![p] = 1]
          /\ UNCHANGED m_pProvider
      BY <2>1 DEF CreateInstance, BirthCount, wndVars
    <3>2. CASE q = p
      <4>1. WindowsOf(q) = {}
        BY <1>a, <3>1, <3>2, NullAssumption DEF WindowsOf, NothingDies
      <4>2. Cardinality(WindowsOf(q)) = 0
        BY <4>1, FS_EmptySet
      <4> QED
        BY <1>a, <1>d, <3>1, <3>2, <4>2 DEF TypeOK
    <3>3. CASE q # p
      BY <1>a, <1>b, <1>d, <3>1, <3>3 DEF TypeOK
    <3> QED
      BY <3>2, <3>3
  <2>2. CASE QueryInterface(p)
    <3>1. /\ m_cRef' = [m_cRef EXCEPT ![p] = @ + 1]
          /\ clients' = [clients EXCEPT ![p] = @ + 1]
          /\ UNCHANGED <<life, m_pProvider>>
      BY <2>2 DEF QueryInterface, wndVars
    <3> QED
      BY <1>a, <1>b, <1>c, <1>d, <3>1 DEF TypeOK
  <2>3. CASE Release(p)
    <3>1. /\ m_cRef' = [m_cRef EXCEPT ![p] = @ - 1]
          /\ clients' = [clients EXCEPT ![p] = @ - 1]
          /\ UNCHANGED <<life, m_pProvider>>
      BY <2>3, ReleaseKeeps DEF Release, wndVars
    <3> QED
      BY <1>a, <1>b, <1>c, <1>d, <3>1 DEF TypeOK
  <2>4. ASSUME NEW cpus \in Scenarios, SetUsageScenario(p, cpus)
        PROVE  m_cRef'[q] = 1 + clients'[q] + Cardinality(WindowsOf(q)')
    <3>1. PICK w \in Windows : OpenWindow(w, p)
      BY <2>4 DEF SetUsageScenario
    <3>2. /\ wobj[w] = "unused"
          /\ m_pProvider' = [m_pProvider EXCEPT ![w] = p]
          /\ m_cRef' = [m_cRef EXCEPT ![p] = @ + 1]
          /\ UNCHANGED <<life, clients>>
      BY <2>4, <3>1 DEF SetUsageScenario, OpenWindow, Construct
    <3>3. Cardinality(WindowsOf(q)')
            = Cardinality(WindowsOf(q)) + (IF q = p THEN 1 ELSE 0)
      BY <3>2, OpenCount
    <3> QED
      BY <1>a, <1>b, <1>c, <3>2, <3>3 DEF TypeOK
  <2>5. CASE QuietCall(p)
    BY <1>b, <1>d, <2>5, QuietCalls DEF Quiet
  <2> QED
    BY <1>2, <2>1, <2>2, <2>3, <2>4, <2>5, LogonUICases
<1>3. ASSUME NEW w \in Windows, WindowStep(w) \/ CheckCallback(w) \/ CallCallback(w)
      PROVE  m_cRef'[q] = 1 + clients'[q] + Cardinality(WindowsOf(q)')
  BY <1>b, <1>d, <1>3, ThreadKeepsObjects
<1> QED
  BY <1>1, <1>2, <1>3 DEF Next

\* Every step keeps the callback and the window linked to their owners.
LEMMA LinkedStep == IInv /\ [Next]_vars => Linked'
<1> SUFFICES ASSUME IInv, [Next]_vars PROVE Linked'
  OBVIOUS
<1>a. TypeOK /\ NothingDies /\ Linked
  BY DEF IInv
<1>1. CASE UNCHANGED vars
  BY <1>a, <1>1 DEF vars, wndVars, provVars, Linked
<1>2. ASSUME NEW p \in Providers, LogonUI(p)
      PROVE  Linked'
  <2>1. CASE CreateInstance(p)
    BY <1>a, <2>1 DEF CreateInstance, wndVars, Linked
  <2>2. CASE QueryInterface(p)
    BY <1>a, <2>2 DEF QueryInterface, wndVars, Linked
  <2>3. CASE Release(p)
    BY <1>a, <2>3, ReleaseKeeps DEF Release, wndVars, Linked
  <2>4. ASSUME NEW cpus \in Scenarios, SetUsageScenario(p, cpus)
        PROVE  Linked'
    <3>1. PICK w \in Windows : OpenWindow(w, p)
      BY <2>4 DEF SetUsageScenario
    <3>2. /\ wobj[w] = "unused"
          /\ m_pProvider' = [m_pProvider EXCEPT ![w] = p]
          /\ m_pEventWin' = [m_pEventWin EXCEPT ![p] = w]
          /\ UNCHANGED <<m_pcpe, advised>>
      BY <2>4, <3>1 DEF SetUsageScenario, OpenWindow, Construct
    <3>3. ASSUME NEW q \in Providers, q # p, m_pEventWin[q] # NULL
          PROVE  m_pProvider'[m_pEventWin[q]] = q
      <4>1. m_pEventWin[q] \in Windows /\ m_pProvider[m_pEventWin[q]] = q
        BY <1>a, <3>3 DEF TypeOK, Linked
      <4>2. m_pEventWin[q] # w
        BY <1>a, <3>2, <4>1, NullAssumption DEF NothingDies
      <4> QED
        BY <1>a, <3>2, <4>1, <4>2 DEF TypeOK, WndTypeOK
    <3>4. m_pEventWin'[p] = w /\ m_pProvider'[w] = p
      BY <1>a, <3>2 DEF TypeOK, WndTypeOK
    <3>5. \A q \in Providers : q # p => m_pEventWin'[q] = m_pEventWin[q]
      BY <1>a, <3>2 DEF TypeOK
    <3> QED
      BY <1>a, <3>2, <3>3, <3>4, <3>5 DEF Linked
  <2>5. ASSUME NEW sink \in Sinks, Advise(p, sink)
        PROVE  Linked'
    BY <1>a, <2>5 DEF Advise, wndVars, TypeOK, Linked
  <2>6. CASE UnAdvise(p)
    BY <1>a, <2>6 DEF UnAdvise, wndVars, TypeOK, Linked
  <2>7. CASE /\ QuietCall(p)
             /\ ~ UnAdvise(p)
             /\ ~ \E sink \in Sinks : Advise(p, sink)
    <3>1. UNCHANGED <<m_pcpe, advised>>
      BY <2>7 DEF QuietCall, RefuseUsageScenario, SetUserArray, GetCredentialCount,
         GetCredentialCountFaults, GetCredentialAt, provVars
    <3> QED
      BY <1>a, <2>7, <3>1, QuietCalls DEF Quiet, Linked
  <2> QED
    BY <1>2, <2>1, <2>2, <2>3, <2>4, <2>5, <2>6, <2>7, LogonUICases
<1>3. ASSUME NEW w \in Windows, WindowStep(w) \/ CheckCallback(w) \/ CallCallback(w)
      PROVE  Linked'
  BY <1>a, <1>3, ThreadKeepsObjects DEF Linked
<1> QED
  BY <1>1, <1>2, <1>3 DEF Next

\* The initial state has the types, nothing alive and nothing ready.
LEMMA IInvInit == Init => IInv
<1> SUFFICES ASSUME Init PROVE IInv
  OBVIOUS
<1>1. WndTypeOK
  <2>1. <<>> \in Seq({"toggle", "exit"}) /\ <<>> \in Seq({"click", "close"})
    BY EmptySeq
  <2> QED
    BY <2>1 DEF Init, WndInit, WndTypeOK, Positions, Starting, Pumping, Faults
<1>2. TypeOK
  <2>1. <<>> \in Seq(Slots)
    BY EmptySeq
  <2> QED
    BY <1>1, <2>1 DEF Init, TypeOK
<1>3. ReadyHasAll /\ Linked /\ RefAccounting
  BY DEF Init, ReadyHasAll, Linked, RefAccounting
<1>4. NothingDies
  BY DEF Init, WndInit, NothingDies
<1> QED
  BY <1>2, <1>3, <1>4 DEF IInv

LEMMA IInvStep == IInv /\ [Next]_vars => IInv'
BY TypeOKStep, ReadyStep, NothingDiesStep, LinkedStep, RefAccountingStep DEF IInv

LEMMA Invariant == Spec => []IInv
BY IInvInit, IInvStep, PTL DEF Spec

\* Every variable keeps its type (SetUsageScenario, SetUserArray, Advise and
\* the others store what LogonUI handed them and nothing else).
THEOREM TypeCorrect == Spec => []TypeOK
<1>1. IInv => TypeOK
  BY DEF IInv
<1> QED
  BY <1>1, Invariant, PTL

\* The reference count of a provider is exactly the references that exist:
\* AddRef and Release are balanced in every order of calls (CmdEventWnd.cpp
\* :49, :31, CredentialV2_Imp.h:204-218).
THEOREM ReferencesCorrect == Spec => []RefAccounting
<1>1. IInv => RefAccounting
  BY DEF IInv
<1> QED
  BY <1>1, Invariant, PTL

-----------------------------------------------------------------------------
(***************************************************************************)
(* What follows.                                                           *)
(***************************************************************************)

\* No step makes the process touch freed memory: the window thread never
\* finds its object or its provider gone.
LEMMA NoFreedMemoryStep == IInv /\ NoFreedMemory /\ [Next]_vars => NoFreedMemory'
<1> SUFFICES ASSUME IInv, NoFreedMemory, [Next]_vars PROVE NoFreedMemory'
  OBVIOUS
<1>a. NothingDies
  BY DEF IInv
<1>1. CASE UNCHANGED fault
  BY <1>1 DEF NoFreedMemory
<1>2. ASSUME NEW p \in Providers, LogonUI(p)
      PROVE  NoFreedMemory'
  <2>1. UNCHANGED fault \/ fault' = "nullTile"
    <3>1. CASE Release(p)
      BY <3>1, ReleaseKeeps DEF wndVars
    <3>2. CASE ~ Release(p)
      BY <1>2, <3>2 DEF LogonUI, CreateInstance, QueryInterface, SetUsageScenario,
         RefuseUsageScenario, SetUserArray, Advise, UnAdvise, GetCredentialCount,
         GetCredentialCountFaults, GetCredentialAt, OpenWindow, Construct, OwnerFault,
         wndVars
    <3> QED
      BY <3>1, <3>2
  <2> QED
    BY <2>1 DEF NoFreedMemory
<1>3. ASSUME NEW w \in Windows, WindowStep(w)
      PROVE  UNCHANGED fault
  BY <1>a, <1>3, ModalLoopKeeps DEF NothingDies, WindowStep, WindowThread, UserInput,
     MyRegisterClass, OpenEventWindow, StoreHandle, ShowEventWindow, StartFailed,
     CallGetMessage, TakePosted, TakeInput, AnswerInput, Toggle, TouchFreedWindow, Crash
<1>4. ASSUME NEW w \in Windows, CheckCallback(w)
      PROVE  UNCHANGED fault
  BY <1>a, <1>4 DEF NothingDies, CheckCallback
<1>5. ASSUME NEW w \in Windows, CallCallback(w)
      PROVE  UNCHANGED fault \/ fault' = "deadCallback"
  BY <1>5 DEF CallCallback
<1> QED
  BY <1>1, <1>2, <1>3, <1>4, <1>5 DEF Next, NoFreedMemory, vars, wndVars

\* The window thread, which holds no reference, is safe all the same: the
\* forgotten reference of CreateInstance and the windows' own keep every
\* provider, and with it every window, alive.
THEOREM NothingIsFreed == Spec => []NoFreedMemory
<1>1. Init => NoFreedMemory
  BY DEF Init, WndInit, NoFreedMemory
<1> QED
  BY <1>1, Invariant, NoFreedMemoryStep, PTL DEF Spec

-----------------------------------------------------------------------------
(***************************************************************************)
(* The references the provider holds on LogonUI's objects.                 *)
(***************************************************************************)

\* Every step keeps them exact.
LEMMA HeldStep == IInv /\ HeldExactly /\ [Next]_vars => HeldExactly'
<1> SUFFICES ASSUME IInv, HeldExactly, [Next]_vars,
                    NEW q \in Providers, NEW x \in Sinks \cup UserArrays
             PROVE  held'[q][x]
                      = IF x \in {m_pcpe'[q], m_pCredProviderUserArray'[q]} THEN 1 ELSE 0
  BY DEF HeldExactly
<1>a. TypeOK /\ Linked
  BY DEF IInv
<1>b. held[q][x] = IF x \in {m_pcpe[q], m_pCredProviderUserArray[q]} THEN 1 ELSE 0
  BY DEF HeldExactly
<1>c. x # NULL
  BY ObjectsAssumption
<1>d. ASSUME UNCHANGED <<held, m_pcpe, m_pCredProviderUserArray>>
      PROVE  held'[q][x]
               = IF x \in {m_pcpe'[q], m_pCredProviderUserArray'[q]} THEN 1 ELSE 0
  BY <1>b, <1>d
<1>1. CASE UNCHANGED vars
  BY <1>1, <1>d DEF vars, provVars
<1>2. ASSUME NEW p \in Providers, LogonUI(p)
      PROVE  held'[q][x]
               = IF x \in {m_pcpe'[q], m_pCredProviderUserArray'[q]} THEN 1 ELSE 0
  <2>1. ASSUME NEW users \in UserArrays, SetUserArray(p, users)
        PROVE  held'[q][x]
                 = IF x \in {m_pcpe'[q], m_pCredProviderUserArray'[q]} THEN 1 ELSE 0
    <3>1. /\ held' = [held EXCEPT ![p] = Swapped(p, m_pCredProviderUserArray[p], users)]
          /\ m_pCredProviderUserArray' = [m_pCredProviderUserArray EXCEPT ![p] = users]
          /\ UNCHANGED m_pcpe
      BY <2>1 DEF SetUserArray
    <3>2. CASE q = p
      <4>1. held'[q][x] = held[q][x] - (IF x = m_pCredProviderUserArray[p] THEN 1 ELSE 0)
                                     + (IF x = users THEN 1 ELSE 0)
        BY <1>a, <3>1, <3>2 DEF TypeOK, Swapped
      <4>2. m_pcpe[q] \notin UserArrays
        BY <1>a, ObjectsAssumption DEF TypeOK
      <4>3. m_pCredProviderUserArray'[q] = users /\ m_pcpe'[q] = m_pcpe[q]
        BY <1>a, <3>1, <3>2 DEF TypeOK
      <4>4. m_pcpe[q] # m_pCredProviderUserArray[q] \/ m_pcpe[q] = NULL
        BY <1>a, ObjectsAssumption DEF TypeOK
      <4> QED
        BY <1>b, <1>c, <3>2, <4>1, <4>2, <4>3, <4>4
    <3>3. CASE q # p
      BY <1>a, <1>b, <3>1, <3>3 DEF TypeOK
    <3> QED
      BY <3>2, <3>3
  <2>2. ASSUME NEW sink \in Sinks, Advise(p, sink)
        PROVE  held'[q][x]
                 = IF x \in {m_pcpe'[q], m_pCredProviderUserArray'[q]} THEN 1 ELSE 0
    <3>1. /\ m_pcpe[p] = NULL
          /\ held' = [held EXCEPT ![p] = Swapped(p, NULL, sink)]
          /\ m_pcpe' = [m_pcpe EXCEPT ![p] = sink]
          /\ UNCHANGED m_pCredProviderUserArray
      BY <1>a, <2>2 DEF Advise, Linked
    <3>2. CASE q = p
      <4>1. held'[q][x] = held[q][x] + (IF x = sink THEN 1 ELSE 0)
        BY <1>a, <1>b, <1>c, <3>1, <3>2 DEF TypeOK, Swapped
      <4>2. m_pCredProviderUserArray[q] # sink
        BY <1>a, ObjectsAssumption DEF TypeOK
      <4>3. m_pcpe'[q] = sink
        BY <1>a, <3>1, <3>2 DEF TypeOK
      <4> QED
        BY <1>b, <1>c, <3>1, <3>2, <4>1, <4>2, <4>3
    <3>3. CASE q # p
      BY <1>a, <1>b, <3>1, <3>3 DEF TypeOK
    <3> QED
      BY <3>2, <3>3
  <2>3. CASE UnAdvise(p)
    <3>1. /\ held' = [held EXCEPT ![p] = Swapped(p, m_pcpe[p], NULL)]
          /\ m_pcpe' = [m_pcpe EXCEPT ![p] = NULL]
          /\ UNCHANGED m_pCredProviderUserArray
      BY <2>3 DEF UnAdvise
    <3>2. CASE q = p
      <4>1. held'[q][x] = held[q][x] - (IF x = m_pcpe[p] THEN 1 ELSE 0)
        BY <1>a, <1>b, <1>c, <3>1, <3>2 DEF TypeOK, Swapped
      <4>2. m_pcpe[q] # m_pCredProviderUserArray[q] \/ m_pcpe[q] = NULL
        BY <1>a, ObjectsAssumption DEF TypeOK
      <4>3. m_pcpe'[q] = NULL
        BY <1>a, <3>1, <3>2 DEF TypeOK
      <4> QED
        BY <1>b, <1>c, <3>1, <3>2, <4>1, <4>2, <4>3
    <3>3. CASE q # p
      BY <1>a, <1>b, <3>1, <3>3 DEF TypeOK
    <3> QED
      BY <3>2, <3>3
  <2>4. CASE Release(p)
    BY <1>d, <2>4, ReleaseKeeps DEF Release
  <2> QED
    BY <1>2, <1>d, <2>1, <2>2, <2>3, <2>4 DEF LogonUI, CreateInstance, QueryInterface,
       SetUsageScenario, RefuseUsageScenario, GetCredentialCount,
       GetCredentialCountFaults, GetCredentialAt, provVars
<1>3. ASSUME NEW w \in Windows, WindowStep(w) \/ CheckCallback(w) \/ CallCallback(w)
      PROVE  held'[q][x]
               = IF x \in {m_pcpe'[q], m_pCredProviderUserArray'[q]} THEN 1 ELSE 0
  BY <1>d, <1>3, ThreadKeepsObjects
<1> QED
  BY <1>1, <1>2, <1>3 DEF Next

\* Neither the callback nor the user array is leaked or released twice.
THEOREM HoldsExactly == Spec => []HeldExactly
<1>1. Init => HeldExactly
  BY ObjectsAssumption DEF Init, HeldExactly
<1> QED
  BY <1>1, Invariant, HeldStep, PTL DEF Spec

-----------------------------------------------------------------------------
(***************************************************************************)
(* The status LogonUI was told.                                            *)
(***************************************************************************)

\* What NoLostChange says of one provider.
Informed(q) ==
  \/ advised[q] = NULL
  \/ answer[q] = NULL
  \/ changed[q]
  \/ thread[m_pEventWin[q]] \in {"notify", "call"}
  \/ answer[q].status = m_fConnected[m_pEventWin[q]]

\* A step of a window's thread that is not in a callback keeps its status, or
\* goes on to notify.
LEMMA ThreadInforms ==
  ASSUME TypeOK, NEW w \in Windows, WindowStep(w), NEW v \in Windows
  PROVE  \/ thread'[v] = "notify"
         \/ /\ m_fConnected'[v] = m_fConnected[v]
            /\ thread[v] \in {"notify", "call"} => thread'[v] = thread[v]
<1>a. /\ thread \in [Windows -> Positions]
      /\ m_fConnected \in [Windows -> BOOLEAN]
  BY DEF TypeOK, WndTypeOK
<1>1. CASE Toggle(w)
  BY <1>a, <1>1 DEF Toggle
<1>2. CASE MyRegisterClass(w) \/ OpenEventWindow(w) \/ StoreHandle(w) \/ ShowEventWindow(w)
  BY <1>a, <1>2 DEF MyRegisterClass, OpenEventWindow, StoreHandle, ShowEventWindow
<1>3. CASE StartFailed(w) \/ CallGetMessage(w)
  BY <1>a, <1>3 DEF StartFailed, CallGetMessage
<1>4. CASE TakePosted(w) \/ TakeInput(w)
  BY <1>a, <1>4 DEF TakePosted, TakeInput, AnswerInput
<1>5. CASE TouchFreedWindow(w) \/ UserInput(w)
  BY <1>5 DEF TouchFreedWindow, UserInput
<1>6. CASE ModalLoop(w)
  BY <1>a, <1>6, ModalLoopKeeps
<1> QED
  BY <1>1, <1>2, <1>3, <1>4, <1>5, <1>6 DEF WindowStep, WindowThread

\* Every step keeps LogonUI informed.
LEMMA InformedStep == IInv /\ NoLostChange /\ [Next]_vars => NoLostChange'
<1> SUFFICES ASSUME IInv, NoLostChange, [Next]_vars, NEW q \in Providers PROVE Informed(q)'
  BY DEF NoLostChange, Informed
<1>a. TypeOK /\ NothingDies /\ Linked /\ ReadyHasAll
  BY DEF IInv
<1>b. Informed(q)
  BY DEF NoLostChange, Informed
<1>c. answer[q] # NULL => m_pEventWin[q] \in Windows /\ m_pProvider[m_pEventWin[q]] = q
  BY <1>a, NullAssumption DEF ReadyHasAll, Linked
<1>d. ASSUME UNCHANGED <<advised, answer, changed, thread, m_fConnected, m_pEventWin>>
      PROVE  Informed(q)'
  BY <1>b, <1>d DEF Informed
<1>1. CASE UNCHANGED vars
  BY <1>1, <1>d DEF vars, wndVars, provVars
<1>2. ASSUME NEW p \in Providers, LogonUI(p)
      PROVE  Informed(q)'
  <2>1. ASSUME NEW cpus \in Scenarios, SetUsageScenario(p, cpus)
        PROVE  Informed(q)'
    <3>1. PICK w \in Windows : OpenWindow(w, p)
      BY <2>1 DEF SetUsageScenario
    <3>2. /\ wobj[w] = "unused"
          /\ m_pEventWin' = [m_pEventWin EXCEPT ![p] = w]
          /\ answer' = [answer EXCEPT ![p] = NULL]
          /\ \E started \in {"start", "none"} : thread' = [thread EXCEPT ![w] = started]
          /\ UNCHANGED <<advised, changed, m_fConnected>>
      BY <2>1, <3>1 DEF SetUsageScenario, OpenWindow, Construct
    <3>3. CASE q = p
      BY <1>a, <3>2, <3>3 DEF TypeOK, Informed
    <3>4. CASE q # p /\ answer[q] # NULL
      <4>1. m_pEventWin[q] \in Windows /\ m_pEventWin[q] # w
        BY <1>a, <1>c, <3>2, <3>4, NullAssumption DEF NothingDies
      <4>2. m_pEventWin'[q] = m_pEventWin[q] /\ answer'[q] = answer[q]
        BY <1>a, <3>2, <3>4 DEF TypeOK
      <4>3. thread'[m_pEventWin[q]] = thread[m_pEventWin[q]]
        BY <1>a, <3>2, <4>1 DEF TypeOK, WndTypeOK
      <4> QED
        BY <1>b, <3>2, <4>2, <4>3 DEF Informed
    <3>5. CASE q # p /\ answer[q] = NULL
      BY <1>a, <3>2, <3>5 DEF TypeOK, Informed
    <3> QED
      BY <3>3, <3>4, <3>5
  <2>2. ASSUME NEW cpus \in Scenarios, RefuseUsageScenario(p, cpus)
        PROVE  Informed(q)'
    BY <1>a, <1>b, <2>2 DEF RefuseUsageScenario, wndVars, TypeOK, Informed
  <2>3. ASSUME NEW sink \in Sinks, Advise(p, sink)
        PROVE  Informed(q)'
    BY <1>a, <1>b, <2>3 DEF Advise, wndVars, TypeOK, Informed
  <2>4. CASE UnAdvise(p)
    BY <1>a, <1>b, <2>4 DEF UnAdvise, wndVars, TypeOK, Informed
  <2>5. CASE GetCredentialCount(p)
    <3>1. UNCHANGED <<advised, thread, m_fConnected, m_pEventWin>>
      BY <2>5 DEF GetCredentialCount, wndVars
    <3>2. CASE q = p
      <4>1. answer'[q].status = m_fConnected[m_pEventWin[q]]
        BY <1>a, <2>5, <3>2 DEF GetCredentialCount, TypeOK
      <4> QED
        BY <3>1, <4>1 DEF Informed
    <3>3. CASE q # p
      <4>1. answer'[q] = answer[q] /\ changed'[q] = changed[q]
        BY <1>a, <2>5, <3>3 DEF GetCredentialCount, TypeOK
      <4> QED
        BY <1>b, <3>1, <4>1 DEF Informed
    <3> QED
      BY <3>2, <3>3
  <2>6. CASE Release(p)
    BY <1>d, <2>6, ReleaseKeeps DEF Release, wndVars
  <2> QED
    BY <1>2, <1>d, <2>1, <2>2, <2>3, <2>4, <2>5, <2>6 DEF LogonUI, CreateInstance,
       QueryInterface, SetUserArray, GetCredentialCountFaults, GetCredentialAt,
       OwnerFault, wndVars, provVars
<1>3. ASSUME NEW w \in Windows, WindowStep(w)
      PROVE  Informed(q)'
  <2>1. UNCHANGED <<advised, answer, changed, m_pEventWin>>
    BY <1>3 DEF WindowStep, provVars
  <2>2. CASE answer[q] = NULL
    BY <2>1, <2>2 DEF Informed
  <2>3. CASE answer[q] # NULL
    BY <1>a, <1>b, <1>c, <1>3, <2>1, <2>3, ThreadInforms DEF Informed
  <2> QED
    BY <2>2, <2>3
<1>4. ASSUME NEW w \in Windows, CheckCallback(w)
      PROVE  Informed(q)'
  <2>1. UNCHANGED <<advised, answer, changed, m_pEventWin, m_fConnected>>
    BY <1>4 DEF CheckCallback, MoveThread, provVars
  <2>2. CASE m_pEventWin[q] # w \/ answer[q] = NULL
    <3>1. answer[q] # NULL => thread'[m_pEventWin[q]] = thread[m_pEventWin[q]]
      BY <1>a, <1>c, <1>4, <2>2 DEF CheckCallback, MoveThread, TypeOK, WndTypeOK
    <3> QED
      BY <1>b, <2>1, <3>1 DEF Informed
  <2>3. CASE m_pEventWin[q] = w /\ answer[q] # NULL
    <3>1. m_pProvider[w] = q
      BY <1>c, <2>3
    <3>2. thread'[w] \in {"notify", "call"} \/ m_pcpe[q] = NULL
      BY <1>a, <1>4, <3>1 DEF CheckCallback, MoveThread, TypeOK, WndTypeOK
    <3> QED
      BY <1>a, <2>1, <2>3, <3>2 DEF Linked, Informed
  <2> QED
    BY <2>2, <2>3
<1>5. ASSUME NEW w \in Windows, CallCallback(w)
      PROVE  Informed(q)'
  <2>1. UNCHANGED <<advised, answer, m_pEventWin, m_fConnected>>
    BY <1>5 DEF CallCallback, MoveThread
  <2>2. changed[q] => changed'[q]
    BY <1>a, <1>5 DEF CallCallback, TypeOK
  <2>3. CASE m_pEventWin[q] # w \/ answer[q] = NULL
    <3>1. answer[q] # NULL => thread'[m_pEventWin[q]] = thread[m_pEventWin[q]]
      BY <1>a, <1>c, <1>5, <2>3 DEF CallCallback, MoveThread, TypeOK, WndTypeOK
    <3> QED
      BY <1>b, <2>1, <2>2, <3>1 DEF Informed
  <2>4. CASE m_pEventWin[q] = w /\ answer[q] # NULL
    <3>1. m_pProvider[w] = q
      BY <1>c, <2>4
    <3>2. changed'[q] \/ thread'[w] = "call"
      BY <1>a, <1>5, <3>1 DEF CallCallback, MoveThread, TypeOK, WndTypeOK
    <3> QED
      BY <2>1, <2>4, <3>2 DEF Informed
  <2> QED
    BY <2>3, <2>4
<1> QED
  BY <1>1, <1>2, <1>3, <1>4, <1>5 DEF Next

\* No change of status is lost between the window's thread and LogonUI's,
\* although they share m_fConnected and m_pcpe without a lock.
THEOREM NothingLost == Spec => []NoLostChange
<1>1. Init => NoLostChange
  BY DEF Init, NoLostChange
<1> QED
  BY <1>1, Invariant, InformedStep, PTL DEF Spec

-----------------------------------------------------------------------------
(***************************************************************************)
(* What of ChangeReachesLogonUI can be proved: a change of status that     *)
(* LogonUI was not told of is always on its way, the next step of the way  *)
(* is never blocked, and no step leads back.                               *)
(***************************************************************************)

\* LogonUI has enumerated p, is advised, and was told another status than
\* the window now has.
Untold(p) ==
  /\ Running
  /\ phase[p] = "ready"
  /\ advised[p] # NULL
  /\ answer[p] # NULL
  /\ answer[p].status # m_fConnected[m_pEventWin[p]]

\* How far the change has come: the thread has to check the callback, it has
\* to call it, LogonUI has to enumerate again.
Stage(p) == IF changed[p] THEN 3 ELSE IF thread[m_pEventWin[p]] = "call" THEN 2 ELSE 1

\* The step that takes it further.
NextStage(p) ==
  IF changed[p] THEN GetCredentialCount(p) \/ GetCredentialCountFaults(p)
  ELSE CheckCallback(m_pEventWin[p]) \/ CallCallback(m_pEventWin[p])

\* Nothing that step waits for is missing: LogonUI still has a reference on
\* the ready provider, or the thread is in the callback of a living provider
\* that stores the callback LogonUI considers valid.
UntoldCanBeTold ==
  \A p \in Providers : Untold(p) =>
    \/ changed[p] /\ Callable(p) /\ m_pCredProviderUserArray[p] \in UserArrays
    \/ /\ m_pEventWin[p] \in Windows
       /\ thread[m_pEventWin[p]] \in {"notify", "call"}
       /\ m_pProvider[m_pEventWin[p]] = p
       /\ life[p] = "alive"
       /\ m_pcpe[p] = advised[p]

\* No step takes the change back, and its next step takes it further, or
\* LogonUI is told, no longer listens, or is gone.
TellingGoesOn ==
  [][\A p \in Providers : Untold(p) /\ Untold(p)' =>
       /\ Stage(p)' >= Stage(p)
       /\ NextStage(p) => Stage(p)' > Stage(p)]_vars

\* LogonUI keeps a reference on a provider it is advised by.
AdvisedIsHeld == \A p \in Providers : advised[p] # NULL => clients[p] > 0

LEMMA AdvisedIsHeldStep == IInv /\ AdvisedIsHeld /\ [Next]_vars => AdvisedIsHeld'
<1> SUFFICES ASSUME IInv, AdvisedIsHeld, [Next]_vars PROVE AdvisedIsHeld'
  OBVIOUS
<1>a. TypeOK
  BY DEF IInv
<1>1. CASE UNCHANGED vars
  BY <1>1 DEF vars, provVars, AdvisedIsHeld
<1>2. ASSUME NEW p \in Providers, LogonUI(p)
      PROVE  AdvisedIsHeld'
  <2>1. CASE CreateInstance(p)
    BY <1>a, <2>1 DEF CreateInstance, TypeOK, AdvisedIsHeld
  <2>2. CASE QueryInterface(p)
    BY <1>a, <2>2 DEF QueryInterface, TypeOK, AdvisedIsHeld
  <2>3. CASE Release(p)
    BY <1>a, <2>3 DEF Release, Callable, TypeOK, AdvisedIsHeld
  <2>4. ASSUME NEW sink \in Sinks, Advise(p, sink)
        PROVE  AdvisedIsHeld'
    BY <1>a, <2>4 DEF Advise, Callable, TypeOK, AdvisedIsHeld
  <2>5. CASE UnAdvise(p)
    BY <1>a, <2>5 DEF UnAdvise, TypeOK, AdvisedIsHeld
  <2> QED
    BY <1>2, <2>1, <2>2, <2>3, <2>4, <2>5 DEF LogonUI, SetUsageScenario,
       RefuseUsageScenario, SetUserArray, GetCredentialCount, GetCredentialCountFaults,
       GetCredentialAt, provVars, AdvisedIsHeld
<1>3. ASSUME NEW w \in Windows, WindowStep(w) \/ CheckCallback(w) \/ CallCallback(w)
      PROVE  AdvisedIsHeld'
  BY <1>3, ThreadKeepsObjects DEF AdvisedIsHeld
<1> QED
  BY <1>1, <1>2, <1>3 DEF Next

\* An untold change is in the window's hands or in LogonUI's.
LEMMA UntoldFacts ==
  ASSUME IInv, NoLostChange, NEW p \in Providers, Untold(p)
  PROVE  /\ m_pEventWin[p] \in Windows
         /\ m_pProvider[m_pEventWin[p]] = p
         /\ m_pCredProviderUserArray[p] \in UserArrays
         /\ life[p] = "alive"
         /\ m_pcpe[p] = advised[p]
         /\ changed[p] \/ thread[m_pEventWin[p]] \in {"notify", "call"}
<1>1. TypeOK /\ ReadyHasAll /\ NothingDies /\ Linked
  BY DEF IInv
<1>2. m_pEventWin[p] \in Windows /\ m_pCredProviderUserArray[p] \in UserArrays
  BY <1>1 DEF Untold, ReadyHasAll
<1>3. m_pProvider[m_pEventWin[p]] = p /\ m_pcpe[p] = advised[p]
  BY <1>1, <1>2, NullAssumption DEF Linked
<1>4. life[p] = "alive"
  BY <1>1 DEF Untold, NothingDies, TypeOK
<1>5. changed[p] \/ thread[m_pEventWin[p]] \in {"notify", "call"}
  BY DEF Untold, NoLostChange
<1> QED
  BY <1>2, <1>3, <1>4, <1>5

\* A change of status that LogonUI was not told of can always be told: the
\* NULL check in OnConnectStatusChanged (CredentialV2_Imp.cpp:185) and the
\* protocol of LogonUI leave the next step nothing to wait for.
THEOREM UntoldIsOnItsWay == Spec => []UntoldCanBeTold
<1>1. Init => AdvisedIsHeld
  BY DEF Init, AdvisedIsHeld
<1>2. IInv /\ NoLostChange /\ AdvisedIsHeld => UntoldCanBeTold
  BY UntoldFacts DEF Untold, UntoldCanBeTold, AdvisedIsHeld, Callable
<1> QED
  BY <1>1, <1>2, Invariant, NothingLost, AdvisedIsHeldStep, PTL DEF Spec

\* The thread of the window that the change waits for goes on to the callback
\* and through it.
LEMMA ThreadTells ==
  ASSUME IInv, NoLostChange, NEW p \in Providers, Untold(p), Running',
         CheckCallback(m_pEventWin[p]) \/ CallCallback(m_pEventWin[p])
  PROVE  /\ changed[p] => changed'[p]
         /\ changed[p] \/ Stage(p)' > Stage(p)
<1> DEFINE w == m_pEventWin[p]
<1>a. TypeOK
  BY DEF IInv
<1>b. /\ w \in Windows
      /\ m_pProvider[w] = p
      /\ life[p] = "alive"
      /\ m_pcpe[p] = advised[p]
      /\ changed[p] \/ thread[w] \in {"notify", "call"}
  BY UntoldFacts
<1>c. advised[p] # NULL
  BY DEF Untold
<1>1. CASE CheckCallback(w)
  <2>1. UNCHANGED <<changed, m_pEventWin>>
    BY <1>1 DEF CheckCallback, provVars
  <2>2. thread[w] = "notify" /\ thread'[w] = "call"
    BY <1>a, <1>b, <1>c, <1>1 DEF CheckCallback, MoveThread, TypeOK, WndTypeOK
  <2> QED
    BY <2>1, <2>2 DEF Stage
<1>2. CASE CallCallback(w)
  <2>1. m_pEventWin' = m_pEventWin /\ thread[w] = "call"
    BY <1>2 DEF CallCallback, MoveThread
  <2>2. changed'[p]
    BY <1>a, <1>b, <1>2 DEF CallCallback, MoveThread, TypeOK, Running
  <2> QED
    BY <2>1, <2>2 DEF Stage
<1> QED
  BY <1>1, <1>2

\* Other steps of the windows leave an untold change where it is.
LEMMA OthersTellNothing ==
  ASSUME IInv, NoLostChange, NEW p \in Providers, Untold(p), NEW w \in Windows,
         \/ WindowStep(w)
         \/ w # m_pEventWin[p] /\ (CheckCallback(w) \/ CallCallback(w))
  PROVE  /\ changed[p] => changed'[p]
         /\ m_pEventWin' = m_pEventWin
         /\ changed[p] \/ thread'[m_pEventWin[p]] = thread[m_pEventWin[p]]
<1>a. TypeOK
  BY DEF IInv
<1>b. /\ m_pEventWin[p] \in Windows
      /\ m_pProvider[m_pEventWin[p]] = p
      /\ changed[p] \/ thread[m_pEventWin[p]] \in {"notify", "call"}
  BY UntoldFacts
<1>1. CASE WindowStep(w)
  <2>1. UNCHANGED <<changed, m_pEventWin>>
    BY <1>1 DEF WindowStep, provVars
  <2>2. thread[m_pEventWin[p]] \in {"notify", "call"}
          => thread'[m_pEventWin[p]] = thread[m_pEventWin[p]]
    BY <1>a, <1>b, <1>1, ModalLoopKeeps DEF TypeOK, WndTypeOK, WindowStep, WindowThread,
       UserInput, MyRegisterClass, OpenEventWindow, StoreHandle, ShowEventWindow,
       StartFailed, CallGetMessage, TakePosted, TakeInput, AnswerInput, Toggle,
       TouchFreedWindow
  <2> QED
    BY <1>b, <2>1, <2>2
<1>2. CASE w # m_pEventWin[p] /\ CheckCallback(w)
  BY <1>a, <1>b, <1>2 DEF CheckCallback, MoveThread, provVars, TypeOK, WndTypeOK
<1>3. CASE w # m_pEventWin[p] /\ CallCallback(w)
  BY <1>a, <1>b, <1>3 DEF CallCallback, MoveThread, TypeOK, WndTypeOK
<1> QED
  BY <1>1, <1>2, <1>3

\* LogonUI's calls leave an untold change where it is, or end its wait.
LEMMA CallsTellOrKeep ==
  ASSUME IInv, NoLostChange, NEW q \in Providers, Untold(q), Untold(q)',
         NEW p \in Providers, LogonUI(p)
  PROVE  /\ m_pEventWin'[q] = m_pEventWin[q]
         /\ changed'[q] = changed[q]
         /\ thread'[m_pEventWin[q]] = thread[m_pEventWin[q]]
         /\ changed[q] => ~ NextStage(q)
<1>a. TypeOK
  BY DEF IInv
<1>b. /\ m_pEventWin[q] \in Windows /\ m_pProvider[m_pEventWin[q]] = q
      /\ answer'[q] # NULL /\ fault' = "none"
  BY UntoldFacts DEF Untold, Running
<1>c. ASSUME changed[q] PROVE ~ NextStage(q)
  <2>1. ~ GetCredentialCount(q)
    <3> SUFFICES ASSUME GetCredentialCount(q) PROVE FALSE
      OBVIOUS
    <3>1. /\ answer'[q].status = m_fConnected[m_pEventWin[q]]
          /\ UNCHANGED <<m_fConnected, m_pEventWin>>
      BY <1>a DEF GetCredentialCount, wndVars, TypeOK
    <3> QED
      BY <3>1 DEF Untold
  <2>2. ~ GetCredentialCountFaults(q)
    BY <1>b DEF GetCredentialCountFaults, OwnerFault
  <2> QED
    BY <1>c, <2>1, <2>2 DEF NextStage
<1>d. ASSUME UNCHANGED <<m_pEventWin, changed, thread>>
      PROVE  /\ m_pEventWin'[q] = m_pEventWin[q]
             /\ changed'[q] = changed[q]
             /\ thread'[m_pEventWin[q]] = thread[m_pEventWin[q]]
  BY <1>d
<1>1. ASSUME NEW cpus \in Scenarios, SetUsageScenario(p, cpus)
      PROVE  /\ m_pEventWin'[q] = m_pEventWin[q]
             /\ changed'[q] = changed[q]
             /\ thread'[m_pEventWin[q]] = thread[m_pEventWin[q]]
  <2>1. PICK w \in Windows : OpenWindow(w, p)
    BY <1>1 DEF SetUsageScenario
  <2>2. /\ wobj[w] = "unused"
        /\ m_pEventWin' = [m_pEventWin EXCEPT ![p] = w]
        /\ \E started \in {"start", "none"} : thread' = [thread EXCEPT ![w] = started]
    BY <2>1 DEF OpenWindow, Construct
  <2>3. q # p /\ changed' = changed
    BY <1>a, <1>b, <1>1 DEF SetUsageScenario, TypeOK
  <2>4. w # m_pEventWin[q]
    BY <1>b, <2>2, NullAssumption DEF IInv, NothingDies
  <2> QED
    BY <1>a, <1>b, <2>2, <2>3, <2>4 DEF TypeOK, WndTypeOK
<1>2. ASSUME NEW sink \in Sinks, Advise(p, sink)
      PROVE  q # p /\ UNCHANGED <<m_pEventWin, thread>> /\ changed'[q] = changed[q]
  BY <1>a, <1>b, <1>2 DEF Advise, wndVars, TypeOK
<1>3. CASE GetCredentialCount(p)
  <2>1. UNCHANGED <<m_pEventWin, thread, m_fConnected>>
    BY <1>3 DEF GetCredentialCount, wndVars
  <2>2. p # q
    <3>1. p = q => answer'[q].status = m_fConnected[m_pEventWin[q]]
      BY <1>a, <1>3 DEF GetCredentialCount, TypeOK
    <3> QED
      BY <2>1, <3>1 DEF Untold
  <2>3. changed'[q] = changed[q]
    BY <1>a, <1>3, <2>2 DEF GetCredentialCount, TypeOK
  <2> QED
    BY <1>c, <2>1, <2>3
<1>4. CASE Release(p)
  BY <1>c, <1>d, <1>4, ReleaseKeeps DEF Release, wndVars
<1> QED
  BY <1>c, <1>d, <1>1, <1>2, <1>3, <1>4 DEF LogonUI, CreateInstance, QueryInterface,
     RefuseUsageScenario, SetUserArray, UnAdvise, GetCredentialCountFaults,
     GetCredentialAt, OwnerFault, wndVars, provVars

\* A change that is on its way to LogonUI is not taken back, and each step of
\* the way brings it nearer.
THEOREM TellingNeverTurnsBack == Spec => TellingGoesOn
<1>1. ASSUME IInv, NoLostChange, [Next]_vars, NEW q \in Providers, Untold(q), Untold(q)'
      PROVE  /\ Stage(q)' >= Stage(q)
             /\ NextStage(q) => Stage(q)' > Stage(q)
  <2>1. CASE UNCHANGED vars
    <3>1. Stage(q)' = Stage(q)
      BY <2>1 DEF vars, wndVars, provVars, Stage
    <3>2. ~ GetCredentialCount(q) /\ ~ GetCredentialCountFaults(q)
      <4>1. ~ GetCredentialCount(q)
        <5> SUFFICES ASSUME GetCredentialCount(q) PROVE FALSE
          OBVIOUS
        <5>1. answer'[q].status = m_fConnected[m_pEventWin[q]]
          BY <1>1 DEF GetCredentialCount, IInv, TypeOK
        <5> QED
          BY <1>1, <2>1, <5>1 DEF Untold, vars, provVars
      <4> QED
        BY <1>1, <4>1 DEF Untold, Running, GetCredentialCountFaults, OwnerFault
    <3>3. changed[q] \/ ~ NextStage(q)
      BY <1>1, <2>1, <3>1, ThreadTells DEF NextStage, Untold, Stage
    <3> QED
      BY <3>1, <3>2, <3>3 DEF NextStage, Stage
  <2>2. ASSUME NEW p \in Providers, LogonUI(p)
        PROVE  /\ Stage(q)' >= Stage(q)
               /\ NextStage(q) => Stage(q)' > Stage(q)
    <3>1. Stage(q)' = Stage(q)
      BY <1>1, <2>2, CallsTellOrKeep DEF Stage
    <3>2. changed[q] => ~ NextStage(q)
      BY <1>1, <2>2, CallsTellOrKeep
    <3>3. ~ changed[q] => (NextStage(q) => Stage(q)' > Stage(q))
      BY <1>1, ThreadTells DEF NextStage, Untold
    <3> QED
      BY <3>1, <3>2, <3>3 DEF Stage
  <2>3. ASSUME NEW w \in Windows, WindowStep(w) \/ CheckCallback(w) \/ CallCallback(w)
        PROVE  /\ Stage(q)' >= Stage(q)
               /\ NextStage(q) => Stage(q)' > Stage(q)
    <3>1. ~ changed[q] => (NextStage(q) => Stage(q)' > Stage(q))
      BY <1>1, ThreadTells DEF NextStage, Untold
    <3>2. changed[q] => ~ NextStage(q)
      <4> SUFFICES ASSUME changed[q], NextStage(q) PROVE FALSE
        OBVIOUS
      <4>1. LogonUI(q)
        BY DEF NextStage, LogonUI
      <4> QED
        BY <1>1, <4>1, CallsTellOrKeep
    <3>3. Stage(q)' >= Stage(q)
      <4>1. CASE WindowStep(w) \/ w # m_pEventWin[q]
        BY <1>1, <2>3, <4>1, OthersTellNothing DEF Stage
      <4>2. CASE w = m_pEventWin[q] /\ (CheckCallback(w) \/ CallCallback(w))
        <5>1. /\ changed[q] => changed'[q]
              /\ changed[q] \/ Stage(q)' > Stage(q)
          BY <1>1, <4>2, ThreadTells DEF Untold
        <5> QED
          BY <5>1 DEF Stage
      <4> QED
        BY <2>3, <4>1, <4>2
    <3> QED
      BY <3>1, <3>2, <3>3
  <2> QED
    BY <1>1, <2>1, <2>2, <2>3 DEF Next
<1>2. IInv /\ NoLostChange /\ [Next]_vars
        => [\A p \in Providers : Untold(p) /\ Untold(p)' =>
              /\ Stage(p)' >= Stage(p)
              /\ NextStage(p) => Stage(p)' > Stage(p)]_vars
  BY <1>1
<1> QED
  BY <1>2, Invariant, NothingLost, PTL DEF Spec, TellingGoesOn

-----------------------------------------------------------------------------
(***************************************************************************)
(* The tiles.                                                              *)
(***************************************************************************)

\* Between an accepted scenario and its users the tiles are due again.
ScenarioRecreates ==
  \A p \in Providers : phase[p] = "scenario" => m_fRecreateEnumeratedCredentials[p]

\* What TilesAreCurrent and ScenarioRecreates say of one provider.
Present(q) ==
  /\ Len(m_pCredential[q]) = m_dwCredentialCount[q]
  /\ answer[q] # NULL => answer[q].count = m_dwCredentialCount[q]
  /\ phase[q] = "ready" /\ ~ m_fRecreateEnumeratedCredentials[q] =>
       /\ m_dwCredentialCount[q] = UserCount[m_pCredProviderUserArray[q]]
       /\ \A i \in 1 .. m_dwCredentialCount[q] :
            m_pCredential[q][i] \in {NULL, RawTile,
              [cpus |-> m_cpus[q], users |-> m_pCredProviderUserArray[q],
               index |-> i, win |-> m_pEventWin[q]]}
  /\ phase[q] = "scenario" => m_fRecreateEnumeratedCredentials[q]

\* A call that leaves the array and its number alone, and does not make a
\* provider ready whose tiles are not due, keeps them current.
LEMMA ArrayKept ==
  ASSUME NEW q, Present(q),
         m_pCredential'[q] = m_pCredential[q],
         m_dwCredentialCount'[q] = m_dwCredentialCount[q],
         answer'[q] \in {answer[q], NULL},
         \/ m_fRecreateEnumeratedCredentials'[q]
         \/ phase'[q] \notin {"scenario", "ready"}
         \/ /\ phase'[q] = phase[q]
            /\ m_fRecreateEnumeratedCredentials'[q] = m_fRecreateEnumeratedCredentials[q]
            /\ m_cpus'[q] = m_cpus[q]
            /\ m_pCredProviderUserArray'[q] = m_pCredProviderUserArray[q]
            /\ m_pEventWin'[q] = m_pEventWin[q]
  PROVE  Present(q)'
<1>1. CASE m_fRecreateEnumeratedCredentials'[q] \/ phase'[q] \notin {"scenario", "ready"}
  BY <1>1 DEF Present
<1>2. CASE /\ phase'[q] = phase[q]
           /\ m_fRecreateEnumeratedCredentials'[q] = m_fRecreateEnumeratedCredentials[q]
           /\ m_cpus'[q] = m_cpus[q]
           /\ m_pCredProviderUserArray'[q] = m_pCredProviderUserArray[q]
           /\ m_pEventWin'[q] = m_pEventWin[q]
  BY <1>2 DEF Present
<1> QED
  BY <1>1, <1>2

\* GetCredentialCount makes the tiles anew when they are due.
LEMMA CountingMakesCurrent ==
  ASSUME IInv, NEW p \in Providers, Present(p), GetCredentialCount(p)
  PROVE  Present(p)'
<1> DEFINE users == m_pCredProviderUserArray[p]
<1>a. TypeOK /\ ReadyHasAll
  BY DEF IInv
<1>b. /\ phase[p] = "ready"
      /\ UNCHANGED <<phase, m_cpus, m_pCredProviderUserArray, m_pEventWin>>
      /\ m_fRecreateEnumeratedCredentials'[p] = FALSE
      /\ answer'[p].count = m_dwCredentialCount'[p]
  BY <1>a DEF GetCredentialCount, TypeOK
<1>c. users \in UserArrays /\ m_cpus[p] \in Scenarios /\ m_pEventWin[p] \in Windows
  BY <1>a, <1>b DEF ReadyHasAll
<1>1. CASE m_fRecreateEnumeratedCredentials[p]
  <2>1. PICK failed, raw : m_pCredential' = [m_pCredential EXCEPT
                                ![p] = EnumerateCredentials(p, failed, raw)]
    BY <1>1 DEF GetCredentialCount
  <2>2. /\ m_pCredential'[p] = EnumerateCredentials(p, failed, raw)
        /\ m_dwCredentialCount'[p] = UserCount[users]
    BY <1>1, <1>a, <2>1 DEF GetCredentialCount, TypeOK
  <2>3. Len(m_pCredential'[p]) = m_dwCredentialCount'[p]
    BY <1>a, <1>c, <2>2, EnumerationType
  <2>4. \A i \in 1 .. m_dwCredentialCount'[p] :
          m_pCredential'[p][i] \in {NULL, RawTile,
            [cpus |-> m_cpus[p], users |-> users, index |-> i, win |-> m_pEventWin[p]]}
    BY <2>2 DEF EnumerateCredentials
  <2> QED
    BY <1>b, <2>2, <2>3, <2>4 DEF Present
<1>2. CASE ~ m_fRecreateEnumeratedCredentials[p]
  <2>1. UNCHANGED <<m_pCredential, m_dwCredentialCount>>
    BY <1>2 DEF GetCredentialCount
  <2> QED
    BY <1>2, <1>b, <2>1 DEF Present
<1> QED
  BY <1>1, <1>2

\* Every step keeps what is served current.
LEMMA PresentStep ==
  IInv /\ TilesAreCurrent /\ ScenarioRecreates /\ [Next]_vars
    => TilesAreCurrent' /\ ScenarioRecreates'
<1> SUFFICES ASSUME IInv, TilesAreCurrent, ScenarioRecreates, [Next]_vars,
                    NEW q \in Providers
             PROVE  Present(q)'
  BY DEF TilesAreCurrent, ScenarioRecreates, Present
<1>a. TypeOK
  BY DEF IInv
<1>b. Present(q)
  BY DEF TilesAreCurrent, ScenarioRecreates, Present
<1>c. ASSUME UNCHANGED <<m_pCredential, m_dwCredentialCount, answer, phase, m_cpus,
                         m_fRecreateEnumeratedCredentials, m_pCredProviderUserArray,
                         m_pEventWin>>
      PROVE  Present(q)'
  BY <1>b, <1>c, ArrayKept
<1>1. CASE UNCHANGED vars
  BY <1>1, <1>c DEF vars, provVars
<1>2. ASSUME NEW p \in Providers, LogonUI(p)
      PROVE  Present(q)'
  <2>1. CASE CreateInstance(p)
    BY <1>a, <1>b, <2>1, ArrayKept DEF CreateInstance, TypeOK
  <2>2. CASE Release(p)
    BY <1>a, <1>b, <2>2, ReleaseKeeps, ArrayKept DEF Release, TypeOK
  <2>3. ASSUME NEW cpus \in Scenarios, SetUsageScenario(p, cpus)
        PROVE  Present(q)'
    BY <1>a, <1>b, <2>3, ArrayKept DEF SetUsageScenario, RequireTiles, OpenWindow, TypeOK
  <2>4. ASSUME NEW cpus \in Scenarios, RefuseUsageScenario(p, cpus)
        PROVE  Present(q)'
    BY <1>a, <1>b, <2>4, ArrayKept DEF RefuseUsageScenario, TypeOK
  <2>5. ASSUME NEW users \in UserArrays, SetUserArray(p, users)
        PROVE  Present(q)'
    <3>1. m_fRecreateEnumeratedCredentials[p]
      BY <2>5 DEF SetUserArray, ScenarioRecreates
    <3> QED
      BY <1>a, <1>b, <2>5, <3>1, ArrayKept DEF SetUserArray, TypeOK
  <2>6. ASSUME NEW sink \in Sinks, Advise(p, sink)
        PROVE  Present(q)'
    BY <1>a, <1>b, <2>6, ArrayKept DEF Advise, TypeOK
  <2>7. CASE GetCredentialCount(p)
    <3>1. CASE q = p
      BY <1>b, <2>7, <3>1, CountingMakesCurrent
    <3>2. CASE q # p
      BY <1>a, <1>b, <2>7, <3>2, ArrayKept DEF GetCredentialCount, TypeOK
    <3> QED
      BY <3>1, <3>2
  <2> QED
    BY <1>2, <1>c, <2>1, <2>2, <2>3, <2>4, <2>5, <2>6, <2>7 DEF LogonUI,
       QueryInterface, UnAdvise, GetCredentialCountFaults, GetCredentialAt, provVars
<1>3. ASSUME NEW w \in Windows, WindowStep(w) \/ CheckCallback(w) \/ CallCallback(w)
      PROVE  Present(q)'
  BY <1>c, <1>3 DEF WindowStep, CheckCallback, CallCallback, provVars
<1> QED
  BY <1>1, <1>2, <1>3 DEF Next

\* LogonUI is never served a tile of another scenario, user array or window,
\* and never told another number than the array has.
THEOREM TilesServedArePresent == Spec => []TilesAreCurrent
<1>1. Init => TilesAreCurrent /\ ScenarioRecreates
  BY DEF Init, TilesAreCurrent, ScenarioRecreates
<1> QED
  BY <1>1, Invariant, PresentStep, PTL DEF Spec

-----------------------------------------------------------------------------
(***************************************************************************)
(* The windows.                                                            *)
(***************************************************************************)

\* The provider implements the window: what CmdEventWnd_proofs shows of the
\* window on its own holds of the windows of every provider.
THEOREM ProviderImplementsWindow == Spec => ImplementsEventWindow
<1>1. Init => WndInit
  BY DEF Init
<1> QED
  BY <1>1, StepIsWindowStep, TypeCorrect, PTL DEF Spec, WndSpec, ImplementsEventWindow

\* Two providers never show two event windows.
THEOREM OneWindowPerProcess == Spec => []OneEventWindow
BY ProviderImplementsWindow, OneWindow, PTL DEF ImplementsEventWindow
=============================================================================
