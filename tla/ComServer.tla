------------------------------ MODULE ComServer ------------------------------
(***************************************************************************)
(* The COM server each credential DLL is (dllmain.cpp of both generations):*)
(* its class factories, the objects they make with their reference counts, *)
(* and the module count that DllCanUnloadNow answers by.                   *)
(*                                                                         *)
(* Who counts is where the generations differ.  Most constructors take a   *)
(* reference on their own object where the module count was meant, so such *)
(* an object is never destroyed; the tiles of the first generation take    *)
(* the module count and never give it back.                                *)
(***************************************************************************)
EXTENDS Integers, FiniteSets

CONSTANTS Objects,              \* the COM objects a process may see made
          MaxOwners, MaxLocks   \* bounds: references on one object, server locks

ASSUME ObjectsAssumption == IsFiniteSet(Objects)

VARIABLES
  generation,  \* 1: XCredential, 2: XCredentialV2
  loaded,      \* COM keeps the DLL loaded
  g_cRef,      \* the module count
  kind,        \* what each object is: none yet, one of Kinds, or freed
  comRef,      \* the member m_cRef of each object
  owners,      \* the references its users hold on each object
  locks        \* LockServer(TRUE) calls not yet undone

comVars == <<generation, loaded, g_cRef, kind, comRef, owners, locks>>

Kinds == {"factory", "provider", "filter", "tile"}

ComTypeOK ==
  /\ generation \in {1, 2}
  /\ loaded \in BOOLEAN
  /\ g_cRef \in Int
  /\ kind \in [Objects -> Kinds \cup {"none", "freed"}]
  /\ comRef \in [Objects -> Int]
  /\ owners \in [Objects -> Nat]
  /\ locks \in Nat

ComInit ==
  /\ generation \in {1, 2}
  /\ loaded = TRUE
  /\ g_cRef = 0
  /\ kind = [o \in Objects |-> "none"]
  /\ comRef = [o \in Objects |-> 0]
  /\ owners = [o \in Objects |-> 0]
  /\ locks = 0

Lives(o) == kind[o] \in Kinds
Used(k)  == \E o \in Objects : kind[o] = k /\ owners[o] > 0

\* Mutant: the filter of the first generation starts from 0 and adds nothing.
FilterBornWithNone(k) ==
  IF k = "filter" /\ generation = 1 THEN 0
  ELSE IF k = "factory" \/ (k = "tile" /\ generation = 1) THEN 1 ELSE 2

\* The m_cRef a constructor leaves: CXFilter starts from 0, the others from 1,
\* and all but the factories and the tiles of the first generation AddRef.
BornWith(k) ==
  IF k = "factory" \/ (k \in {"filter", "tile"} /\ generation = 1) THEN 1 ELSE 2

\* The object is made, and its user is given a reference.  Where that is by
\* QueryInterface, the Release that follows undoes the constructor's count.
Make(o, k) ==
  /\ kind[o] = "none"
  /\ kind' = [kind EXCEPT ![o] = IF BornWith(k) > 0 THEN k ELSE "freed"]
  /\ comRef' = [comRef EXCEPT ![o] = BornWith(k)]
  /\ owners' = [owners EXCEPT ![o] = 1]

\* CClassFactory_CreateInstance: asked for another interface, the factory is
\* made, refuses and goes with the Release.
DllGetClassObject(o) ==
  /\ \/ Make(o, "factory")
     \/ /\ kind[o] = "none" /\ kind' = [kind EXCEPT ![o] = "freed"]
        /\ UNCHANGED <<comRef, owners>>
  /\ UNCHANGED <<generation, loaded, g_cRef, locks>>

\* CClassFactory::CreateInstance; for any other interface it makes nothing.
CreateInstance(o) ==
  /\ Used("factory")
  /\ \E k \in {"provider", "filter"} : Make(o, k)
  /\ UNCHANGED <<generation, loaded, g_cRef, locks>>

\* Mutant: the constructor of the tile does not count the module.
MakeTileUncounted(o) ==
  Used("provider") /\ Make(o, "tile") /\ UNCHANGED <<generation, loaded, locks, g_cRef>>

\* A provider makes a tile and keeps the reference of its constructor, which
\* in the first generation calls DllAddRef.
MakeTile(o) ==
  /\ Used("provider")
  /\ Make(o, "tile")
  /\ g_cRef' = IF generation = 1 THEN g_cRef + 1 ELSE g_cRef
  /\ UNCHANGED <<generation, loaded, locks>>

ComAddRef(o) ==
  /\ owners[o] \in 1 .. MaxOwners - 1
  /\ comRef' = [comRef EXCEPT ![o] = @ + 1]
  /\ owners' = [owners EXCEPT ![o] = @ + 1]
  /\ UNCHANGED <<generation, loaded, g_cRef, kind, locks>>

\* All destructors but the factories' Release their own object once more,
\* where that of the first generation's tile would have to call DllRelease.
ComRelease(o) ==
  /\ owners[o] > 0
  /\ owners' = [owners EXCEPT ![o] = @ - 1]
  /\ comRef' = [comRef EXCEPT ![o] = IF @ = 1 /\ kind[o] # "factory" THEN -1 ELSE @ - 1]
  /\ kind' = [kind EXCEPT ![o] = IF comRef[o] = 1 THEN "freed" ELSE @]
  /\ UNCHANGED <<generation, loaded, g_cRef, locks>>

\* LockServer, called evenly by the users of a factory.
LockServer ==
  /\ Used("factory")
  /\ \/ locks < MaxLocks /\ locks' = locks + 1 /\ g_cRef' = g_cRef + 1
     \/ locks > 0        /\ locks' = locks - 1 /\ g_cRef' = g_cRef - 1
  /\ UNCHANGED <<generation, loaded, kind, comRef, owners>>

\* COM asks whenever it likes, and unloads the DLL on S_OK; it lets no other
\* call into the DLL in between (external).
DllCanUnloadNow ==
  /\ loaded' = (g_cRef > 0)
  /\ UNCHANGED <<generation, g_cRef, kind, comRef, owners, locks>>

ComNext ==
  /\ loaded
  /\ \/ LockServer \/ DllCanUnloadNow
     \/ \E o \in Objects : \/ DllGetClassObject(o) \/ CreateInstance(o) \/ MakeTile(o)
                           \/ ComAddRef(o) \/ ComRelease(o)

ComSpec == ComInit /\ [][ComNext]_comVars

-----------------------------------------------------------------------------
\* Properties

\* The DLL of the first generation stays loaded as long as a tile of its
\* lives and as long as it is locked (Credential_Imp.cpp:577, dllmain.cpp:115,
\* 163), whatever order users release, lock and ask to unload in.
TileKeepsModule ==
  /\ locks > 0 => loaded
  /\ generation = 1 /\ (\E o \in Objects : kind[o] = "tile") => loaded

\* No user is left with a reference on an object that has destroyed itself,
\* although no two classes count alike (Credential_Imp.cpp:28, 152, 575 and
\* CredentialV2_Imp.cpp:28, 150, 465).
OwnedObjectsLive == \A o \in Objects : owners[o] > 0 => Lives(o)

=============================================================================
