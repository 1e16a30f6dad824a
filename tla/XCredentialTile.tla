---------------------------- MODULE XCredentialTile ----------------------------
(***************************************************************************)
(* The tiles of the Vista and Windows 7 credential provider (CXCreCredential *)
(* of XCredential/Credential_Imp.cpp) and the array in which the provider  *)
(* keeps them.  A tile wraps a credential of the system's password         *)
(* provider.  It is born with one reference, which belongs to the array,   *)
(* and LogonUI takes its own by GetCredentialAt.                           *)
(*                                                                         *)
(* SetSelected starts a WorkThread that sleeps three seconds and then      *)
(* ticks the tile's check box itself: it calls SetCheckboxValue on the     *)
(* tile, which calls LogonUI back.  The thread holds no reference on the   *)
(* tile, and nothing stops or waits for it.                                *)
(*                                                                         *)
(* External: the wrapped provider, and LogonUI, which makes its calls from *)
(* one thread, advises a tile before it selects it and takes its callback  *)
(* back before it lets the tile go.                                        *)
(***************************************************************************)
EXTENDS Integers, Sequences, FiniteSets, Functions

CONSTANTS Tiles,    \* the CXCreCredential objects a process may construct
          Threads,  \* the WorkThreads it may start
          Sinks,    \* the ICredentialProviderCredentialEvents callbacks
          NULL,     \* the null pointer
          MaxTiles, \* bound: credentials the wrapped provider has
          MaxRefs   \* bound: references of LogonUI on one tile

ASSUME TilesAssumption == IsFiniteSet(Tiles)
ASSUME NullAssumption  == NULL \notin Sinks /\ NULL \notin Tiles
ASSUME BoundAssumption == MaxTiles \in Nat /\ MaxRefs \in Nat

VARIABLES
  cred,                         \* the tile's memory: unused, alive or deleted
  m_cRef,                       \* its reference count
  m_pCredProvCredentialEvents,  \* the callback it stores
  held,                         \* references it holds on callbacks
  m_bCheckPass,                 \* the check box
  m_rgpExtendCredentials,       \* the provider's array, <<>> for NULL or empty
  m_dwCredentialCount,          \* its length, as the provider remembers it
  lost,                         \* tiles the provider made and forgot
  refs,                         \* references LogonUI holds on a tile
  advised,                      \* the callback LogonUI has given to a tile
  watch,                        \* WorkThreads: position, tile, callback read
  stale,                        \* a callback was called after UnAdvise
  fault                         \* what took the process down

vars == <<cred, m_cRef, m_pCredProvCredentialEvents, held, m_bCheckPass,
          m_rgpExtendCredentials, m_dwCredentialCount, lost, refs, advised,
          watch, stale, fault>>

tileVars  == <<m_cRef, m_pCredProvCredentialEvents, held, m_bCheckPass>>
arrayVars == <<m_rgpExtendCredentials, m_dwCredentialCount, lost>>

Idle == [at |-> "none", tile |-> NULL, sink |-> NULL]
Watching == [at : {"sleep", "show", "ended"}, tile : Tiles, sink : Sinks \cup {NULL}]

TileTypeOK ==
  /\ cred \in [Tiles -> {"unused", "alive", "deleted"}]
  /\ m_cRef \in [Tiles -> Nat]
  /\ m_pCredProvCredentialEvents \in [Tiles -> Sinks \cup {NULL}]
  /\ held \in [Tiles -> [Sinks -> Nat]]
  /\ m_bCheckPass \in [Tiles -> BOOLEAN]
  /\ m_rgpExtendCredentials \in Seq(Tiles)
  /\ m_dwCredentialCount \in 0 .. MaxTiles
  /\ lost \subseteq Tiles
  /\ refs \in [Tiles -> 0 .. MaxRefs]
  /\ advised \in [Tiles -> Sinks \cup {NULL}]
  /\ watch \in [Threads -> Watching \cup {Idle}]
  /\ stale \in BOOLEAN
  /\ fault \in {"none", "freedTile", "releasedEvents"}

Init ==
  /\ cred = [c \in Tiles |-> "unused"]
  /\ m_cRef = [c \in Tiles |-> 0]
  /\ m_pCredProvCredentialEvents = [c \in Tiles |-> NULL]
  /\ held = [c \in Tiles |-> [s \in Sinks |-> 0]]
  /\ m_bCheckPass = [c \in Tiles |-> FALSE]
  /\ m_rgpExtendCredentials = <<>>
  /\ m_dwCredentialCount = 0
  /\ lost = {}
  /\ refs = [c \in Tiles |-> 0]
  /\ advised = [c \in Tiles |-> NULL]
  /\ watch = [t \in Threads |-> Idle]
  /\ stale = FALSE
  /\ fault = "none"

Running == fault = "none"

InArray == Range(m_rgpExtendCredentials)

-----------------------------------------------------------------------------
(***************************************************************************)
(* The reference count.                                                    *)
(***************************************************************************)

\* CleanupEvents of the tiles in S.
CleanupEvents(S) ==
  /\ held' = [c \in Tiles |->
                IF c \in S /\ m_pCredProvCredentialEvents[c] # NULL
                THEN [held[c] EXCEPT ![m_pCredProvCredentialEvents[c]] = @ - 1]
                ELSE held[c]]
  /\ m_pCredProvCredentialEvents' = [c \in Tiles |->
                IF c \in S THEN NULL ELSE m_pCredProvCredentialEvents[c]]

\* The tiles of S that one Release deletes.
Last(S) == {c \in S : m_cRef[c] = 1}

-----------------------------------------------------------------------------
(***************************************************************************)
(* The provider.                                                           *)
(***************************************************************************)

\* Mutant: the array is abandoned and not cleaned up.
ReleasedByCleanUpNone == {}

\* CleanUpAllCredentials gives back the array's reference on every tile in it.
ReleasedByCleanUp == InArray

\* Mutant: a failed enumeration leaves the array in place.
GetCredentialCountKeeps(count, made, failed) ==
  LET new  == Range(made)
      dead == Last(ReleasedByCleanUp)
  IN
  /\ Running
  /\ cred' = [c \in Tiles |-> IF c \in dead THEN "deleted"
                              ELSE IF c \in new THEN "alive" ELSE cred[c]]
  /\ m_cRef' = [c \in Tiles |-> IF c \in ReleasedByCleanUp THEN m_cRef[c] - 1
                                ELSE IF c \in new THEN 1 ELSE m_cRef[c]]
  /\ CleanupEvents(dead)
  /\ m_rgpExtendCredentials' = made
  /\ m_dwCredentialCount' = count
  /\ UNCHANGED <<m_bCheckPass, lost, refs, advised, watch, stale, fault>>

\* GetCredentialCount: the old array is cleaned up and as many tiles are made
\* as the wrapped provider has credentials.  When the wrapped provider fails
\* to hand out the last one of made, or fails before the first, the array is
\* deleted but not the tiles in it.
GetCredentialCount(count, made, failed) ==
  LET new  == Range(made)
      dead == Last(ReleasedByCleanUp)
  IN
  /\ Running
  /\ cred' = [c \in Tiles |-> IF c \in dead THEN "deleted"
                              ELSE IF c \in new THEN "alive" ELSE cred[c]]
  /\ m_cRef' = [c \in Tiles |-> IF c \in ReleasedByCleanUp THEN m_cRef[c] - 1
                                ELSE IF c \in new THEN 1 ELSE m_cRef[c]]
  /\ CleanupEvents(dead)
  /\ m_rgpExtendCredentials' = IF failed THEN <<>> ELSE made
  /\ lost' = IF failed THEN lost \cup new ELSE lost
  /\ m_dwCredentialCount' = count
  /\ UNCHANGED <<m_bCheckPass, refs, advised, watch, stale, fault>>

Unused == {c \in Tiles : cred[c] = "unused"}

\* n new objects in the order of their construction.  The unused ones are all
\* alike, so of all the ways to take n of them one will do.
New(n) ==
  LET ways == {made \in [1 .. n -> Unused] :
                 \A i, j \in 1 .. n : made[i] = made[j] => i = j}
  IN  {made \in ways : made = CHOOSE way \in ways : TRUE}

\* All of count tiles are made, or the loop ends at the n-th, or the wrapped
\* provider fails before it has told how many there are.
Enumerate ==
  \/ \E count \in 0 .. MaxTiles :
       \/ \E made \in New(count) : GetCredentialCount(count, made, FALSE)
       \/ \E n \in 1 .. count : \E made \in New(n) : GetCredentialCount(count, made, TRUE)
  \/ GetCredentialCount(m_dwCredentialCount, <<>>, TRUE)

\* GetCredentialAt checks the index and the array and takes a reference.
GetCredentialAt(i) ==
  LET c == m_rgpExtendCredentials[i] IN
  /\ Running
  /\ i <= m_dwCredentialCount
  /\ m_rgpExtendCredentials # <<>>
  /\ refs[c] < MaxRefs
  /\ m_cRef' = [m_cRef EXCEPT ![c] = @ + 1]
  /\ refs' = [refs EXCEPT ![c] = @ + 1]
  /\ UNCHANGED <<cred, m_pCredProvCredentialEvents, held, m_bCheckPass, arrayVars,
                 advised, watch, stale, fault>>

-----------------------------------------------------------------------------
(***************************************************************************)
(* LogonUI and the tile.                                                   *)
(***************************************************************************)

\* Release, and the destructor if it was the last.
Release(c) ==
  /\ Running
  /\ refs[c] > 0
  /\ refs[c] = 1 => advised[c] = NULL
  /\ refs' = [refs EXCEPT ![c] = @ - 1]
  /\ m_cRef' = [m_cRef EXCEPT ![c] = @ - 1]
  /\ CleanupEvents(Last({c}))
  /\ cred' = [cred EXCEPT ![c] = IF m_cRef[c] = 1 THEN "deleted" ELSE @]
  /\ UNCHANGED <<m_bCheckPass, arrayVars, advised, watch, stale, fault>>

\* Mutant: Advise without CleanupEvents.
AdviseNoCleanup(c, sink) ==
  /\ Running
  /\ refs[c] > 0
  /\ advised[c] = NULL
  /\ held' = [held EXCEPT ![c][sink] = @ + 1]
  /\ m_pCredProvCredentialEvents' = [m_pCredProvCredentialEvents EXCEPT ![c] = sink]
  /\ advised' = [advised EXCEPT ![c] = sink]
  /\ UNCHANGED <<cred, m_cRef, m_bCheckPass, arrayVars, refs, watch, stale, fault>>

\* Advise cleans up after the callback before and takes a reference on the new
\* one.
Advise(c, sink) ==
  LET old == m_pCredProvCredentialEvents[c] IN
  /\ Running
  /\ refs[c] > 0
  /\ advised[c] = NULL
  /\ held' = [held EXCEPT ![c] = [s \in Sinks |-> held[c][s]
                 + (IF s = sink THEN 1 ELSE 0) - (IF s = old THEN 1 ELSE 0)]]
  /\ m_pCredProvCredentialEvents' = [m_pCredProvCredentialEvents EXCEPT ![c] = sink]
  /\ advised' = [advised EXCEPT ![c] = sink]
  /\ UNCHANGED <<cred, m_cRef, m_bCheckPass, arrayVars, refs, watch, stale, fault>>

\* Mutant: the callback is released and stays where it is.
UnAdviseReleases(c) ==
  /\ Running
  /\ refs[c] > 0
  /\ advised[c] # NULL
  /\ held' = [held EXCEPT ![c][m_pCredProvCredentialEvents[c]] = @ - 1]
  /\ advised' = [advised EXCEPT ![c] = NULL]
  /\ UNCHANGED <<cred, m_cRef, m_pCredProvCredentialEvents, m_bCheckPass, arrayVars,
                 refs, watch, stale, fault>>

\* UnAdvise is handed on to the wrapped credential; the tile itself keeps the
\* callback and its reference.
UnAdvise(c) ==
  /\ Running
  /\ refs[c] > 0
  /\ advised[c] # NULL
  /\ advised' = [advised EXCEPT ![c] = NULL]
  /\ UNCHANGED <<cred, tileVars, arrayVars, refs, watch, stale, fault>>

\* SetSelected starts a WorkThread every time, or fails to.  A thread that
\* does not start leaves everything as it is.
SetSelected(c, t) ==
  /\ Running
  /\ refs[c] > 0
  /\ advised[c] # NULL
  /\ watch[t] = Idle
  /\ watch' = [watch EXCEPT ![t] = [at |-> "sleep", tile |-> c, sink |-> NULL]]
  /\ UNCHANGED <<cred, tileVars, arrayVars, refs, advised, stale, fault>>

\* SetCheckboxValue as LogonUI calls it, when the user clicks the check box.
SetCheckboxValue(c, checked) ==
  /\ Running
  /\ refs[c] > 0
  /\ advised[c] # NULL
  /\ m_pCredProvCredentialEvents[c] # NULL
  /\ m_bCheckPass' = [m_bCheckPass EXCEPT ![c] = checked]
  /\ UNCHANGED <<cred, m_cRef, m_pCredProvCredentialEvents, held, arrayVars, refs,
                 advised, watch, stale, fault>>

-----------------------------------------------------------------------------
(***************************************************************************)
(* WorkThread.                                                             *)
(***************************************************************************)

\* What a look into a tile that is deleted may lead to.
AfterDeletion(c) == IF cred[c] = "deleted" THEN {"freedTile"} ELSE {}

\* Mutant: a woken thread finds a reason not to tick the box.
WakeDoesNothing(t) ==
  /\ Running
  /\ watch[t].at = "sleep"
  /\ watch' = [watch EXCEPT ![t].at = "ended"]
  /\ UNCHANGED <<cred, tileVars, arrayVars, refs, advised, stale, fault>>

\* After its three seconds the thread calls SetCheckboxValue(TRUE): if the tile
\* has a callback, the box is ticked and LogonUI is to be told.  A tile that
\* is deleted has no wrapped credential any more, so the call does nothing,
\* provided that its memory still reads as the destructor left it.
Wake(t) ==
  LET c == watch[t].tile IN
  /\ Running
  /\ watch[t].at = "sleep"
  /\ IF cred[c] = "alive" /\ m_pCredProvCredentialEvents[c] # NULL
     THEN /\ m_bCheckPass' = [m_bCheckPass EXCEPT ![c] = TRUE]
          /\ watch' = [watch EXCEPT ![t] = [at |-> "show", tile |-> c,
                                            sink |-> m_pCredProvCredentialEvents[c]]]
     ELSE /\ watch' = [watch EXCEPT ![t].at = "ended"]
          /\ UNCHANGED m_bCheckPass
  /\ fault' \in {"none"} \cup AfterDeletion(c)
  /\ UNCHANGED <<cred, m_cRef, m_pCredProvCredentialEvents, held, arrayVars, refs,
                 advised, stale>>

\* A callback object lives as long as LogonUI uses it or a tile holds it.
Live(sink) ==
  /\ sink # NULL
  /\ \E c \in Tiles : advised[c] = sink \/ held[c][sink] > 0

\* The calls through the callback, which is read again for each of them, or
\* not, as the build has it.
Show(t) ==
  LET c == watch[t].tile IN
  /\ Running
  /\ watch[t].at = "show"
  /\ \E sink \in {watch[t].sink, m_pCredProvCredentialEvents[c]} :
       /\ fault' \in {IF Live(sink) THEN "none" ELSE "releasedEvents"}
                     \cup AfterDeletion(c)
       /\ stale' = (stale \/ sink # advised[c])
  /\ watch' = [watch EXCEPT ![t].at = "ended"]
  /\ UNCHANGED <<cred, tileVars, arrayVars, refs, advised>>

WorkThread(t) == Wake(t) \/ Show(t)

-----------------------------------------------------------------------------
LogonUI ==
  \/ Enumerate
  \/ \E i \in DOMAIN m_rgpExtendCredentials : GetCredentialAt(i)
  \/ \E c \in Tiles :
       \/ Release(c)
       \/ UnAdvise(c)
       \/ \E sink \in Sinks : Advise(c, sink)
       \/ \E t \in Threads : SetSelected(c, t)
       \/ \E checked \in BOOLEAN : SetCheckboxValue(c, checked)

Next == LogonUI \/ \E t \in Threads : WorkThread(t)

Spec == Init /\ [][Next]_vars

\* A thread that has been started runs; LogonUI owes nothing.
FairSpec == Spec /\ \A t \in Threads : WF_vars(WorkThread(t))

-----------------------------------------------------------------------------
(***************************************************************************)
(* Properties.                                                             *)
(***************************************************************************)

One(condition) == IF condition THEN 1 ELSE 0

\* The tiles without their counts.
Array == INSTANCE TileArray WITH
           tile <- cred, array <- m_rgpExtendCredentials,
           taken <- {c \in Tiles : refs[c] > 0}

\* The counts do what TileArray says without them: the clean-up deletes those
\* tiles of the array that LogonUI does not hold and no others, a failed
\* enumeration hands out nothing, and LogonUI's last Release deletes a tile
\* exactly when it has left the array (Credential_Imp.cpp:197-215, :432-541).
ImplementsTileArray == Array!ArraySpec

\* A live tile has one reference for each of LogonUI's and one for its birth,
\* which the array holds or a failed enumeration has lost, and a tile that
\* LogonUI or the array can reach is alive: the clean-up, the failure path of
\* GetCredentialCount (Credential_Imp.cpp:512-520) and LogonUI's own releases,
\* in any order, never delete a tile in use.
TileAccounting ==
  \A c \in Tiles :
    /\ refs[c] > 0 \/ c \in InArray => cred[c] = "alive"
    /\ cred[c] = "alive" => m_cRef[c] = refs[c] + One(c \in InArray) + One(c \in lost)

\* A tile holds one reference on the callback it stores and none on any other,
\* although UnAdvise gives nothing back: the next Advise or the destructor
\* does (Credential_Imp.cpp:645, :589).
EventsHeldOnce ==
  \A c \in Tiles : \A s \in Sinks :
    held[c][s] = One(s = m_pCredProvCredentialEvents[c])

\* The provider never serves part of an enumeration: there is no array, or it
\* has as many tiles as the count says and no tile twice, so the clean-up's
\* loop over the count (Credential_Imp.cpp:203) releases each tile once.
WholeArray ==
  LET array == m_rgpExtendCredentials IN
  array # <<>> =>
    /\ Len(array) = m_dwCredentialCount
    /\ \A i, j \in DOMAIN array : array[i] = array[j] => i = j

\* A selected tile ticks its own check box in the end, unless it is deleted
\* before: nothing LogonUI does meanwhile takes the callback from it.
SelectedIsChecked ==
  \A t \in Threads : \A c \in Tiles :
    watch[t] = [at |-> "sleep", tile |-> c, sink |-> NULL]
      ~> (m_bCheckPass[c] \/ cred[c] = "deleted" \/ ~ Running)

\* UnAdvise is called "to tell us to release the callback"
\* (Credential_Imp.cpp:663): no call goes through it afterwards.
NoStaleEvents == ~ stale

=============================================================================
