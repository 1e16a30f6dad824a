------------------------------ MODULE Singleton ------------------------------
(***************************************************************************)
(* CSingleton<T> (Design/Singleton) over its static CLock (System/Lock).   *)
(* Instance tests, locks, tests again, makes and unlocks; DestoryInstance  *)
(* tests, deletes and clears without the lock.                             *)
(*                                                                         *)
(* The lock is a static object.  Until its constructor has run only the    *)
(* main thread does; an Instance it calls by then finds m_bCreated false   *)
(* and initialises the section late, and the constructor does so again.    *)
(***************************************************************************)
EXTENDS Naturals

CONSTANTS Threads, Main,  \* all threads, and the one that runs constructors
          Destroyer,      \* the one thread that calls DestoryInstance
          NoThread,       \* stands for the owner of a free section
          MaxInstances    \* bound: objects made

ASSUME MainAssumption      == Main \in Threads
ASSUME DestroyerAssumption == Destroyer \in Threads
ASSUME NoThreadAssumption  == NoThread \notin Threads

VARIABLES
  m_pInstance,  \* the static pointer, 0 when NULL
  living,       \* the instances in memory
  made,         \* instances made so far: the next one gets a new number
  section,      \* m_lock: zeroed, late (m_bCreated by Lock) or constructed
  owner,        \* the thread inside the critical section
  doing,        \* where each thread is in Instance or DestoryInstance
  given         \* what Instance last returned to each thread

singleVars == <<m_pInstance, living, made, section, owner, doing, given>>

Places == {"idle", "test", "lock", "test_again", "make", "unlock", "return",
           "destroy", "delete", "clear"}

SingleTypeOK ==
  /\ m_pInstance \in Nat /\ made \in Nat /\ living \subseteq 1 .. made
  /\ section \in {"zeroed", "late", "constructed"}
  /\ owner \in Threads \cup {NoThread}
  /\ doing \in [Threads -> Places]
  /\ given \in [Threads -> Nat]

SingleInit ==
  /\ m_pInstance = 0 /\ made = 0 /\ living = {}
  /\ section = "zeroed" /\ owner = NoThread
  /\ doing = [t \in Threads |-> "idle"]
  /\ given = [t \in Threads |-> 0]

Does(t, from, to) == doing[t] = from /\ doing' = [doing EXCEPT ![t] = to]

\* The constructor of the lock runs on the main thread, outside any call.
CLock ==
  /\ section # "constructed" /\ doing[Main] = "idle"
  /\ section' = "constructed" /\ owner' = NoThread
  /\ UNCHANGED <<m_pInstance, living, made, doing, given>>

\* Either of the two functions is called.
CallSingleton(t) ==
  /\ section = "constructed" \/ t = Main
  /\ \/ Does(t, "idle", "test")
     \/ t = Destroyer /\ Does(t, "idle", "destroy")
  /\ UNCHANGED <<m_pInstance, living, made, section, owner, given>>

Test(t) ==
  /\ Does(t, "test", IF m_pInstance = 0 THEN "lock" ELSE "return")
  /\ UNCHANGED <<m_pInstance, living, made, section, owner, given>>

\* Lock enters the section, which it initialises when nobody has.
Lock(t) ==
  /\ owner = NoThread
  /\ Does(t, "lock", "test_again")
  /\ section' = IF section = "zeroed" THEN "late" ELSE section
  /\ owner' = t
  /\ UNCHANGED <<m_pInstance, living, made, given>>

\* Mutant: the pointer is not tested again under the lock.
NoSecondTest(t) ==
  Does(t, "test_again", "make") /\ UNCHANGED <<m_pInstance, living, made, section, owner, given>>

TestAgain(t) ==
  /\ Does(t, "test_again", IF m_pInstance = 0 THEN "make" ELSE "unlock")
  /\ UNCHANGED <<m_pInstance, living, made, section, owner, given>>

MakeInstance(t) ==
  /\ made < MaxInstances
  /\ Does(t, "make", "unlock")
  /\ made' = made + 1
  /\ living' = living \cup {made + 1}
  /\ m_pInstance' = made + 1
  /\ UNCHANGED <<section, owner, given>>

UnLock(t) ==
  /\ Does(t, "unlock", "return")
  /\ owner' = NoThread
  /\ UNCHANGED <<m_pInstance, living, made, section, given>>

\* The pointer is read once more, and may have been cleared since the test.
Return(t) ==
  /\ Does(t, "return", "idle")
  /\ given' = [given EXCEPT ![t] = m_pInstance]
  /\ UNCHANGED <<m_pInstance, living, made, section, owner>>

DestoryInstance(t) ==
  \/ /\ Does(t, "destroy", IF m_pInstance = 0 THEN "idle" ELSE "delete")
     /\ UNCHANGED <<m_pInstance, living>>
  \/ /\ Does(t, "delete", "clear")
     /\ living' = living \ {m_pInstance} /\ UNCHANGED m_pInstance
  \/ /\ Does(t, "clear", "idle")
     /\ m_pInstance' = 0 /\ UNCHANGED living

Destroy(t) == DestoryInstance(t) /\ UNCHANGED <<made, section, owner, given>>

SingleNext ==
  \/ CLock
  \/ \E t \in Threads :
       \/ CallSingleton(t) \/ Test(t) \/ Lock(t) \/ TestAgain(t) \/ MakeInstance(t)
       \/ UnLock(t) \/ Return(t) \/ Destroy(t)

SingleSpec == SingleInit /\ [][SingleNext]_singleVars

-----------------------------------------------------------------------------
\* Properties

\* As long as one thread destroys, there is never a second instance and none
\* is lost (Singleton.h:45-51), and what DestoryInstance deletes is there to
\* be deleted (Singleton.h:63), although it does not take the lock.
OneInstance ==
  /\ living \subseteq {m_pInstance}
  /\ \A t \in Threads : doing[t] = "delete" => m_pInstance \in living

=============================================================================
