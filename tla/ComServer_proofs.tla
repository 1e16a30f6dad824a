--------------------------- MODULE ComServer_proofs ---------------------------
(***************************************************************************)
(* ComServer's invariants for any number of objects, references and locks, *)
(* and when an object of which class is freed.                             *)
(***************************************************************************)
EXTENDS ComServer, TLAPS

\* Every constructor leaves one reference at least.
LEMMA BornCounted == \A k \in Kinds : BornWith(k) \in {1, 2}
  BY DEF BornWith, Kinds

\* Making an object keeps the types of the three functions, and touches the
\* object alone.
LEMMA MakeTyped ==
  ASSUME ComTypeOK, NEW o \in Objects, NEW k \in Kinds, Make(o, k)
  PROVE  /\ kind'   = [kind EXCEPT ![o] = k]
         /\ comRef' = [comRef EXCEPT ![o] = BornWith(k)]
         /\ owners' = [owners EXCEPT ![o] = 1]
         /\ kind'   \in [Objects -> Kinds \cup {"none", "freed"}]
         /\ comRef' \in [Objects -> Int]
         /\ owners' \in [Objects -> Nat]
  <1>1. BornWith(k) \in {1, 2}
    BY BornCounted
  <1>2. BornWith(k) > 0 /\ BornWith(k) \in Int
    BY <1>1
  <1>3. kind' = [kind EXCEPT ![o] = k]
    BY <1>2 DEF Make
  <1>4. /\ comRef' = [comRef EXCEPT ![o] = BornWith(k)]
        /\ owners' = [owners EXCEPT ![o] = 1]
    BY DEF Make
  <1>5. kind' \in [Objects -> Kinds \cup {"none", "freed"}]
    BY <1>3 DEF ComTypeOK
  <1>6. comRef' \in [Objects -> Int] /\ owners' \in [Objects -> Nat]
    BY <1>2, <1>4 DEF ComTypeOK
  <1>. QED  BY <1>3, <1>4, <1>5, <1>6

\* Type correctness of the COM servers (dllmain.cpp).
THEOREM ComTypeCorrect == ComSpec => []ComTypeOK
  <1>1. ComInit => ComTypeOK
    BY DEF ComInit, ComTypeOK
  <1>2. ComTypeOK /\ [ComNext]_comVars => ComTypeOK'
    <2>. SUFFICES ASSUME ComTypeOK, [ComNext]_comVars PROVE ComTypeOK'
      OBVIOUS
    <2>1. ASSUME NEW o \in Objects, DllGetClassObject(o) PROVE ComTypeOK'
      <3>1. CASE Make(o, "factory")
        BY <2>1, <3>1, MakeTyped DEF DllGetClassObject, ComTypeOK, Kinds
      <3>2. CASE ~ Make(o, "factory")
        BY <2>1, <3>2 DEF DllGetClassObject, ComTypeOK
      <3>. QED  BY <3>1, <3>2
    <2>2. ASSUME NEW o \in Objects, CreateInstance(o) PROVE ComTypeOK'
      <3>1. PICK k \in {"provider", "filter"} : Make(o, k)
        BY <2>2 DEF CreateInstance
      <3>. QED  BY <2>2, <3>1, MakeTyped DEF CreateInstance, ComTypeOK, Kinds
    <2>3. ASSUME NEW o \in Objects, MakeTile(o) PROVE ComTypeOK'
      BY <2>3, MakeTyped DEF MakeTile, ComTypeOK, Kinds
    <2>4. ASSUME NEW o \in Objects, ComAddRef(o) PROVE ComTypeOK'
      BY <2>4 DEF ComAddRef, ComTypeOK
    <2>5. ASSUME NEW o \in Objects, ComRelease(o) PROVE ComTypeOK'
      BY <2>5 DEF ComRelease, ComTypeOK
    <2>6. CASE LockServer
      BY <2>6 DEF LockServer, ComTypeOK
    <2>7. CASE DllCanUnloadNow
      BY <2>7 DEF DllCanUnloadNow, ComTypeOK
    <2>8. CASE UNCHANGED comVars
      BY <2>8 DEF comVars, ComTypeOK
    <2>. QED  BY <2>1, <2>2, <2>3, <2>4, <2>5, <2>6, <2>7, <2>8 DEF ComNext
  <1>. QED  BY <1>1, <1>2, PTL DEF ComSpec

-----------------------------------------------------------------------------
\* What the module count is at least: the locks, and one for all the tiles of
\* the first generation together.
ModuleCounted ==
  /\ g_cRef >= locks
  /\ generation = 1 /\ (\E o \in Objects : kind[o] = "tile") => g_cRef >= locks + 1

\* The DLL of the first generation stays loaded as long as a tile of its lives
\* and as long as it is locked (Credential_Imp.cpp:577, dllmain.cpp:115, 163).
THEOREM TileKeepsModuleHolds == ComSpec => []TileKeepsModule
  <1>1. ComInit => ModuleCounted /\ TileKeepsModule
    BY DEF ComInit, ModuleCounted, TileKeepsModule
  <1>2. ComTypeOK /\ ModuleCounted /\ TileKeepsModule /\ [ComNext]_comVars
          => (ModuleCounted /\ TileKeepsModule)'
    <2>. SUFFICES ASSUME ComTypeOK, ModuleCounted, TileKeepsModule, [ComNext]_comVars
                  PROVE  ModuleCounted' /\ TileKeepsModule'
      OBVIOUS
    <2>. USE DEF ModuleCounted, TileKeepsModule, ComTypeOK
    <2>1. CASE UNCHANGED comVars
      BY <2>1 DEF comVars
    <2>2. ASSUME loaded, NEW o \in Objects, DllGetClassObject(o)
          PROVE  ModuleCounted' /\ TileKeepsModule'
      BY <2>2, BornCounted DEF DllGetClassObject, Make, Kinds
    <2>3. ASSUME loaded, NEW o \in Objects, CreateInstance(o)
          PROVE  ModuleCounted' /\ TileKeepsModule'
      BY <2>3, BornCounted DEF CreateInstance, Make, Kinds
    <2>4. ASSUME loaded, NEW o \in Objects, MakeTile(o)
          PROVE  ModuleCounted' /\ TileKeepsModule'
      BY <2>4, BornCounted DEF MakeTile, Make, Kinds
    <2>5. ASSUME loaded, NEW o \in Objects, ComAddRef(o)
          PROVE  ModuleCounted' /\ TileKeepsModule'
      BY <2>5 DEF ComAddRef
    <2>6. ASSUME loaded, NEW o \in Objects, ComRelease(o)
          PROVE  ModuleCounted' /\ TileKeepsModule'
      BY <2>6 DEF ComRelease
    <2>7. ASSUME loaded, LockServer PROVE ModuleCounted' /\ TileKeepsModule'
      BY <2>7 DEF LockServer
    <2>8. ASSUME loaded, DllCanUnloadNow PROVE ModuleCounted' /\ TileKeepsModule'
      <3>1. ModuleCounted' /\ locks' = locks /\ generation' = generation /\ kind' = kind
        BY <2>8 DEF DllCanUnloadNow
      <3>2. locks > 0 => g_cRef > 0
        OBVIOUS
      <3>3. generation = 1 /\ (\E o \in Objects : kind[o] = "tile") => g_cRef > 0
        OBVIOUS
      <3>4. loaded' = (g_cRef > 0)
        BY <2>8 DEF DllCanUnloadNow
      <3>. HIDE DEF ModuleCounted
      <3>. QED  BY <3>1, <3>2, <3>3, <3>4, Zenon
    <2>. QED  BY <2>1, <2>2, <2>3, <2>4, <2>5, <2>6, <2>7, <2>8 DEF ComNext
  <1>. QED  BY <1>1, <1>2, ComTypeCorrect, PTL DEF ComSpec

-----------------------------------------------------------------------------
\* A living object counts at least the references its users hold, and one.
OwnersCounted ==
  \A o \in Objects : Lives(o) => comRef[o] >= owners[o] /\ comRef[o] >= 1

\* No user is left with a reference on an object that has destroyed itself.
THEOREM OwnedObjectsLiveHolds == ComSpec => []OwnedObjectsLive
  <1>1. ComInit => OwnersCounted /\ OwnedObjectsLive
    BY DEF ComInit, OwnersCounted, OwnedObjectsLive, Lives, Kinds
  <1>2. ComTypeOK /\ OwnersCounted /\ OwnedObjectsLive /\ [ComNext]_comVars
          => (OwnersCounted /\ OwnedObjectsLive)'
    <2>. SUFFICES ASSUME ComTypeOK, OwnersCounted, OwnedObjectsLive, [ComNext]_comVars
                  PROVE  OwnersCounted' /\ OwnedObjectsLive'
      OBVIOUS
    <2>. USE DEF OwnersCounted, OwnedObjectsLive, Lives
    <2>1. CASE UNCHANGED comVars
      BY <2>1 DEF comVars
    <2>2. ASSUME NEW o \in Objects, NEW k \in Kinds, Make(o, k)
          PROVE  OwnersCounted' /\ OwnedObjectsLive'
      <3>1. /\ kind'   = [kind EXCEPT ![o] = k]
            /\ comRef' = [comRef EXCEPT ![o] = BornWith(k)]
            /\ owners' = [owners EXCEPT ![o] = 1]
            /\ BornWith(k) \in {1, 2}
        BY <2>2, MakeTyped, BornCounted
      <3>. QED  BY <3>1 DEF ComTypeOK
    <2>3. ASSUME NEW o \in Objects, DllGetClassObject(o)
          PROVE  OwnersCounted' /\ OwnedObjectsLive'
      <3>1. CASE Make(o, "factory")
        BY <2>2, <3>1 DEF Kinds
      <3>2. CASE ~ Make(o, "factory")
        BY <2>3, <3>2 DEF DllGetClassObject, ComTypeOK, Kinds
      <3>. QED  BY <3>1, <3>2
    <2>4. ASSUME NEW o \in Objects, CreateInstance(o) \/ MakeTile(o)
          PROVE  OwnersCounted' /\ OwnedObjectsLive'
      <3>1. PICK k \in {"provider", "filter", "tile"} : Make(o, k)
        BY <2>4 DEF CreateInstance, MakeTile
      <3>. QED  BY <2>2, <3>1 DEF Kinds
    <2>5. ASSUME NEW o \in Objects, ComAddRef(o) PROVE OwnersCounted' /\ OwnedObjectsLive'
      BY <2>5 DEF ComAddRef, ComTypeOK
    <2>6. ASSUME NEW o \in Objects, ComRelease(o) PROVE OwnersCounted' /\ OwnedObjectsLive'
      BY <2>6 DEF ComRelease, ComTypeOK, Kinds
    <2>7. CASE LockServer
      BY <2>7 DEF LockServer
    <2>8. CASE DllCanUnloadNow
      BY <2>8 DEF DllCanUnloadNow
    <2>. QED  BY <2>1, <2>3, <2>4, <2>5, <2>6, <2>7, <2>8 DEF ComNext
  <1>. QED  BY <1>1, <1>2, ComTypeCorrect, PTL DEF ComSpec

-----------------------------------------------------------------------------
\* A living object counts the references its users hold, and for as long as it
\* lives the one its constructor took too many, if it took one.
CountsExact ==
  \A o \in Objects : Lives(o) => comRef[o] = owners[o] + BornWith(kind[o]) - 1

LEMMA CountsExactStep ==
  ComTypeOK /\ CountsExact /\ [ComNext]_comVars => CountsExact'
  <1>. SUFFICES ASSUME ComTypeOK, CountsExact, [ComNext]_comVars PROVE CountsExact'
    OBVIOUS
  <1>1. generation' = generation
    BY DEF ComNext, comVars, DllGetClassObject, CreateInstance, MakeTile, ComAddRef,
       ComRelease, LockServer, DllCanUnloadNow
  <1>2. \A k \in Kinds : BornWith(k)' = BornWith(k) /\ BornWith(k) \in {1, 2}
    BY <1>1, BornCounted DEF BornWith
  <1>3. CASE UNCHANGED <<kind, comRef, owners>>
    BY <1>2, <1>3 DEF CountsExact, Lives, BornWith
  <1>4. ASSUME NEW o \in Objects, NEW k \in Kinds, Make(o, k) PROVE CountsExact'
    <2>1. /\ kind'   = [kind EXCEPT ![o] = k]
          /\ comRef' = [comRef EXCEPT ![o] = BornWith(k)]
          /\ owners' = [owners EXCEPT ![o] = 1]
      BY <1>4, MakeTyped
    <2>. SUFFICES ASSUME NEW x \in Objects, Lives(x)'
                  PROVE  comRef'[x] = owners'[x] + BornWith(kind'[x]) - 1
      BY <1>1 DEF CountsExact, BornWith
    <2>2. CASE x = o
      BY <1>2, <2>1, <2>2 DEF ComTypeOK
    <2>3. CASE x # o
      BY <2>1, <2>3 DEF ComTypeOK, CountsExact, Lives
    <2>. QED  BY <2>2, <2>3
  <1>5. ASSUME NEW o \in Objects, DllGetClassObject(o) PROVE CountsExact'
    <2>1. CASE Make(o, "factory")
      BY <1>4, <2>1 DEF Kinds
    <2>2. CASE ~ Make(o, "factory")
      BY <1>1, <1>5, <2>2 DEF DllGetClassObject, ComTypeOK, CountsExact, Lives, Kinds, BornWith
    <2>. QED  BY <2>1, <2>2
  <1>6. ASSUME NEW o \in Objects, CreateInstance(o) \/ MakeTile(o) PROVE CountsExact'
    <2>1. PICK k \in {"provider", "filter", "tile"} : Make(o, k)
      BY <1>6 DEF CreateInstance, MakeTile
    <2>. QED  BY <1>4, <2>1 DEF Kinds
  <1>7. ASSUME NEW o \in Objects, ComAddRef(o) \/ ComRelease(o) PROVE CountsExact'
    <2>. SUFFICES ASSUME NEW x \in Objects, Lives(x)'
                  PROVE  comRef'[x] = owners'[x] + BornWith(kind'[x]) - 1
      BY <1>1 DEF CountsExact, BornWith
    <2>1. CASE x # o
      BY <1>7, <2>1 DEF ComAddRef, ComRelease, ComTypeOK, CountsExact, Lives
    <2>2. CASE x = o
      <3>1. kind'[o] = kind[o] /\ Lives(o)
        BY <1>7, <2>2 DEF ComAddRef, ComRelease, ComTypeOK, Lives, Kinds
      <3>2. comRef[o] = owners[o] + BornWith(kind[o]) - 1 /\ BornWith(kind[o]) \in {1, 2}
        BY <1>2, <3>1 DEF CountsExact, Lives
      <3>3. comRef'[o] - owners'[o] = comRef[o] - owners[o]
        <4>1. CASE ComAddRef(o)
          BY <4>1 DEF ComAddRef, ComTypeOK
        <4>2. CASE ComRelease(o)
          <5>1. comRef[o] # 1
            BY <3>1, <2>2, <4>2 DEF ComRelease, ComTypeOK, Lives, Kinds
          <5>. QED  BY <4>2, <5>1 DEF ComRelease, ComTypeOK
        <4>. QED  BY <1>7, <4>1, <4>2
      <3>4. comRef'[o] \in Int /\ owners'[o] \in Nat
        BY <1>7 DEF ComAddRef, ComRelease, ComTypeOK
      <3>. QED  BY <2>2, <3>1, <3>2, <3>3, <3>4 DEF ComTypeOK
    <2>. QED  BY <2>1, <2>2
  <1>. QED  BY <1>3, <1>5, <1>6, <1>7 DEF ComNext, comVars, LockServer, DllCanUnloadNow

\* The count of a living object is exact, whatever its users did
\* (CredentialV2_Imp.cpp:28, 150, 465 and Credential_Imp.cpp:28, 152, 575).
THEOREM CountsExactHolds == ComSpec => []CountsExact
  <1>1. ComInit => CountsExact
    BY DEF ComInit, CountsExact, Lives, Kinds
  <1>. QED  BY <1>1, ComTypeCorrect, CountsExactStep, PTL DEF ComSpec

\* A living object destroys itself in the Release of its last user, and only
\* there; but one whose constructor took a reference outlives that Release, and
\* every other: it is leaked.
LastUserFrees ==
  [][\A o \in Objects : Lives(o) =>
       (~ Lives(o)' <=> owners[o] = 1 /\ owners'[o] = 0 /\ BornWith(kind[o]) = 1)]_comVars

\* Every class keeps the promise of a reference count to free no sooner than
\* the last user leaves; the classes born with two never free at all.
THEOREM LastUserFreesHolds == ComSpec => LastUserFrees
  <1>1. ASSUME ComTypeOK, CountsExact, [ComNext]_comVars, NEW o \in Objects, Lives(o)
        PROVE  ~ Lives(o)' <=> owners[o] = 1 /\ owners'[o] = 0 /\ BornWith(kind[o]) = 1
    <2>1. /\ comRef[o] = owners[o] + BornWith(kind[o]) - 1
          /\ BornWith(kind[o]) \in {1, 2}
          /\ owners[o] \in Nat
      BY <1>1, BornCounted DEF CountsExact, Lives, ComTypeOK
    <2>2. CASE kind'[o] = kind[o] /\ owners'[o] = owners[o]
      BY <1>1, <2>1, <2>2 DEF Lives
    <2>3. ASSUME NEW x \in Objects, kind[x] = "none",
                 \A y \in Objects \ {x} : kind'[y] = kind[y] /\ owners'[y] = owners[y]
          PROVE  kind'[o] = kind[o] /\ owners'[o] = owners[o]
      BY <1>1, <2>3 DEF Lives, Kinds
    <2>4. ASSUME NEW x \in Objects,
                 DllGetClassObject(x) \/ CreateInstance(x) \/ MakeTile(x)
          PROVE  kind'[o] = kind[o] /\ owners'[o] = owners[o]
      <3>1. kind[x] = "none"
        BY <2>4 DEF DllGetClassObject, CreateInstance, MakeTile, Make
      <3>2. \A y \in Objects \ {x} : kind'[y] = kind[y] /\ owners'[y] = owners[y]
        BY <1>1, <2>4 DEF DllGetClassObject, CreateInstance, MakeTile, Make, ComTypeOK
      <3>. QED  BY <2>3, <3>1, <3>2
    <2>5. ASSUME NEW x \in Objects, ComAddRef(x)
          PROVE  kind'[o] = kind[o] /\ owners'[o] >= owners[o]
      BY <1>1, <2>5 DEF ComAddRef, ComTypeOK
    <2>6. ASSUME NEW x \in Objects, x # o, ComRelease(x)
          PROVE  kind'[o] = kind[o] /\ owners'[o] = owners[o]
      BY <1>1, <2>6 DEF ComRelease, ComTypeOK
    <2>7. CASE ComRelease(o)
      <3>1. /\ owners[o] > 0
            /\ owners'[o] = owners[o] - 1
            /\ kind'[o] = IF comRef[o] = 1 THEN "freed" ELSE kind[o]
        BY <1>1, <2>7 DEF ComRelease, ComTypeOK
      <3>2. ~ Lives(o)' <=> comRef[o] = 1
        BY <1>1, <3>1 DEF Lives, Kinds
      <3>3. comRef[o] = 1 <=> owners[o] = 1 /\ BornWith(kind[o]) = 1
        BY <2>1, <3>1
      <3>. QED  BY <2>1, <3>1, <3>2, <3>3
    <2>8. CASE LockServer \/ DllCanUnloadNow \/ UNCHANGED comVars
      BY <2>2, <2>8 DEF LockServer, DllCanUnloadNow, comVars
    <2>9. ASSUME NEW x \in Objects, ComAddRef(x)
          PROVE  ~ Lives(o)' <=> owners[o] = 1 /\ owners'[o] = 0 /\ BornWith(kind[o]) = 1
      BY <1>1, <2>1, <2>5, <2>9 DEF Lives
    <2>. QED  BY <1>1, <2>2, <2>4, <2>6, <2>7, <2>8, <2>9 DEF ComNext
  <1>2. ComTypeOK /\ CountsExact /\ [ComNext]_comVars
          => [\A o \in Objects : Lives(o) =>
                (~ Lives(o)' <=> owners[o] = 1 /\ owners'[o] = 0 /\ BornWith(kind[o]) = 1)]_comVars
    BY <1>1
  <1>. QED  BY <1>2, ComTypeCorrect, CountsExactHolds, PTL DEF ComSpec, LastUserFrees

=============================================================================
