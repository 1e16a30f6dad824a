------------------------ MODULE XCredentialTile_proofs ------------------------
(***************************************************************************)
(* Proofs about the tiles of the first credential provider, for any number *)
(* of tiles, WorkThreads, callbacks and references.                        *)
(*                                                                         *)
(* The invariant says, tile by tile, who holds the references on it, and   *)
(* of the array that it is whole.  It is inductive only with what the      *)
(* properties do not mention: a lost tile is alive and in no array, and a  *)
(* tile that is not alive stores no callback.                              *)
(*                                                                         *)
(* The last part is the way of a WorkThread: the callback it comes back to *)
(* is there as long as the tile is, which is what carries SelectedIsChecked*)
(***************************************************************************)
EXTENDS XCredentialTile, TLAPS

\* Who holds the references on c.
Counted(c) ==
  /\ refs[c] > 0 \/ c \in InArray \/ c \in lost => cred[c] = "alive"
  /\ cred[c] = "alive" => m_cRef[c] = refs[c] + One(c \in InArray) + One(c \in lost)
  /\ ~ (c \in InArray /\ c \in lost)

\* Which callbacks c holds.
Holding(c) ==
  /\ cred[c] # "alive" => m_pCredProvCredentialEvents[c] = NULL
  /\ \A s \in Sinks : held[c][s] = One(s = m_pCredProvCredentialEvents[c])

IInv ==
  /\ TileTypeOK
  /\ \A c \in Tiles : Counted(c)
  /\ \A c \in Tiles : Holding(c)
  /\ WholeArray

-----------------------------------------------------------------------------
LEMMA InitIInv == Init => IInv
<1> SUFFICES ASSUME Init PROVE IInv
  OBVIOUS
<1> USE TilesAssumption, NullAssumption, BoundAssumption DEF Init
<1>1. InArray = {}
  BY DEF InArray, Range
<1>2. TileTypeOK
  <2>1. held \in [Tiles -> [Sinks -> Nat]]
    OBVIOUS
  <2>2. m_rgpExtendCredentials \in Seq(Tiles) /\ m_dwCredentialCount \in 0 .. MaxTiles
    OBVIOUS
  <2>3. watch \in [Threads -> Watching \cup {Idle}]
    OBVIOUS
  <2>4. refs \in [Tiles -> 0 .. MaxRefs]
    OBVIOUS
  <2> QED
    BY <2>1, <2>2, <2>3, <2>4 DEF TileTypeOK
<1>3. \A c \in Tiles : Counted(c)
  BY <1>1 DEF Counted, One
<1>4. \A c \in Tiles : Holding(c)
  BY DEF Holding, One
<1>5. WholeArray
  BY DEF WholeArray
<1> QED
  BY <1>2, <1>3, <1>4, <1>5 DEF IInv

\* What CleanupEvents does to one tile.
LEMMA CleanedUp ==
  ASSUME IInv, NEW S \in SUBSET Tiles, CleanupEvents(S)
  PROVE  /\ m_pCredProvCredentialEvents' \in [Tiles -> Sinks \cup {NULL}]
         /\ held' \in [Tiles -> [Sinks -> Nat]]
         /\ \A c \in S : /\ m_pCredProvCredentialEvents'[c] = NULL
                         /\ \A s \in Sinks : held'[c][s] = 0
         /\ \A c \in Tiles \ S :
              /\ m_pCredProvCredentialEvents'[c] = m_pCredProvCredentialEvents[c]
              /\ held'[c] = held[c]
<1> DEFINE ev == m_pCredProvCredentialEvents
<1>1. /\ ev \in [Tiles -> Sinks \cup {NULL}]
      /\ held \in [Tiles -> [Sinks -> Nat]]
      /\ \A c \in Tiles : Holding(c)
  BY DEF IInv, TileTypeOK
<1>2. /\ ev' \in [Tiles -> Sinks \cup {NULL}]
      /\ \A c \in S : ev'[c] = NULL
      /\ \A c \in Tiles \ S : ev'[c] = ev[c]
  BY <1>1 DEF CleanupEvents
<1>3. /\ held' = [c \in Tiles |-> held'[c]]
      /\ \A c \in Tiles : held'[c] = IF c \in S /\ ev[c] # NULL
                                     THEN [held[c] EXCEPT ![ev[c]] = @ - 1]
                                     ELSE held[c]
  BY DEF CleanupEvents
<1>4. ASSUME NEW c \in Tiles
      PROVE  /\ held'[c] \in [Sinks -> Nat]
             /\ c \in S => \A s \in Sinks : held'[c][s] = 0
             /\ c \notin S => held'[c] = held[c]
  <2>1. /\ held[c] \in [Sinks -> Nat]
        /\ \A s \in Sinks : held[c][s] = One(s = ev[c])
        /\ ev[c] \in Sinks \cup {NULL}
    BY <1>1 DEF Holding
  <2>2. CASE c \in S /\ ev[c] # NULL
    <3>1. held'[c] = [held[c] EXCEPT ![ev[c]] = @ - 1]
      BY <1>3, <2>2
    <3>2. held[c][ev[c]] = 1 /\ ev[c] \in Sinks
      BY <2>1, <2>2 DEF One
    <3>3. \A s \in Sinks : held'[c][s] = 0
      BY <3>1, <3>2, <2>1 DEF One
    <3>4. held'[c] \in [Sinks -> Nat]
      BY <3>1, <3>2, <2>1
    <3> QED
      BY <3>3, <3>4, <2>2
  <2>3. CASE ~ (c \in S /\ ev[c] # NULL)
    <3>1. held'[c] = held[c]
      BY <1>3, <2>3
    <3>2. c \in S => \A s \in Sinks : held[c][s] = 0
      BY <2>1, <2>3, NullAssumption DEF One
    <3> QED
      BY <3>1, <3>2, <2>1
  <2> QED
    BY <2>2, <2>3
<1>5. held' \in [Tiles -> [Sinks -> Nat]]
  BY <1>3, <1>4
<1> QED
  BY <1>2, <1>4, <1>5

\* A step that leaves the array and the references alone keeps the count.
LEMMA SameCounts ==
  ASSUME IInv, UNCHANGED <<cred, m_cRef, arrayVars, refs>>
  PROVE  (\A c \in Tiles : Counted(c))' /\ WholeArray'
<1>1. InArray' = InArray
  BY DEF InArray, arrayVars
<1>2. WholeArray'
  BY DEF IInv, WholeArray, arrayVars
<1>3. \A c \in Tiles : Counted(c)'
  BY <1>1 DEF IInv, Counted, arrayVars
<1> QED
  BY <1>2, <1>3

\* A step that leaves the callbacks and the tiles' lives alone.
LEMMA SameHolds ==
  ASSUME IInv, UNCHANGED <<cred, m_pCredProvCredentialEvents, held>>
  PROVE  (\A c \in Tiles : Holding(c))'
BY DEF IInv, Holding

-----------------------------------------------------------------------------
\* The made tiles are unused ones, each once.
LEMMA MadeAreNew ==
  ASSUME TileTypeOK, NEW n \in Nat, NEW made \in New(n)
  PROVE  /\ made \in Seq(Tiles)
         /\ Len(made) = n
         /\ Range(made) \subseteq Unused
         /\ \A i, j \in DOMAIN made : made[i] = made[j] => i = j
<1>1. made \in [1 .. n -> Unused] /\ \A i, j \in 1 .. n : made[i] = made[j] => i = j
  BY DEF New
<1>2. Unused \subseteq Tiles
  BY DEF Unused
<1>3. made \in [1 .. n -> Tiles] /\ DOMAIN made = 1 .. n
  BY <1>1, <1>2
<1>4. made \in Seq(Tiles) /\ Len(made) = n
  BY <1>3
<1> QED
  BY <1>1, <1>3, <1>4 DEF Range

LEMMA EnumerateKeeps ==
  ASSUME IInv, NEW count \in 0 .. MaxTiles, NEW made \in Seq(Tiles), NEW failed \in BOOLEAN,
         Range(made) \subseteq Unused,
         \A i, j \in DOMAIN made : made[i] = made[j] => i = j,
         ~ failed => Len(made) = count,
         GetCredentialCount(count, made, failed)
  PROVE  IInv'
<1> DEFINE new  == Range(made)
           dead == Last(ReleasedByCleanUp)
<1>1. /\ cred' = [c \in Tiles |-> IF c \in dead THEN "deleted"
                                  ELSE IF c \in new THEN "alive" ELSE cred[c]]
      /\ m_cRef' = [c \in Tiles |-> IF c \in InArray THEN m_cRef[c] - 1
                                    ELSE IF c \in new THEN 1 ELSE m_cRef[c]]
      /\ CleanupEvents(dead)
      /\ m_rgpExtendCredentials' = IF failed THEN <<>> ELSE made
      /\ lost' = IF failed THEN lost \cup new ELSE lost
      /\ m_dwCredentialCount' = count
      /\ UNCHANGED <<m_bCheckPass, refs, advised, watch, stale, fault>>
  BY DEF GetCredentialCount, ReleasedByCleanUp
<1>2. TileTypeOK /\ (\A c \in Tiles : Counted(c)) /\ (\A c \in Tiles : Holding(c))
  BY DEF IInv
<1>3. InArray \subseteq Tiles
  BY <1>2 DEF TileTypeOK, InArray, Range
<1>4. dead \subseteq Tiles /\ dead = {c \in InArray : m_cRef[c] = 1}
  BY <1>3 DEF Last, ReleasedByCleanUp
<1>5. new \subseteq Tiles /\ \A c \in new : cred[c] = "unused"
  BY DEF Unused
<1>6. InArray' = IF failed THEN {} ELSE new
  BY <1>1 DEF InArray, Range
<1> HIDE DEF new, dead
<1>7. ASSUME NEW c \in Tiles
      PROVE  /\ Counted(c)'
             /\ m_cRef'[c] \in Nat
             /\ cred'[c] \in {"unused", "alive", "deleted"}
             /\ c \in dead => cred'[c] = "deleted"
             /\ c \in new => cred'[c] = "alive" /\ c \notin dead
             /\ c \notin dead /\ c \notin new => cred'[c] = cred[c]
  <2>1. /\ Counted(c)
        /\ m_cRef[c] \in Nat /\ refs[c] \in Nat
        /\ cred[c] \in {"unused", "alive", "deleted"}
    BY <1>2, BoundAssumption DEF TileTypeOK
  <2>2. /\ cred'[c] = IF c \in dead THEN "deleted" ELSE IF c \in new THEN "alive" ELSE cred[c]
        /\ m_cRef'[c] = IF c \in InArray THEN m_cRef[c] - 1 ELSE IF c \in new THEN 1 ELSE m_cRef[c]
        /\ refs'[c] = refs[c]
        /\ lost' = IF failed THEN lost \cup new ELSE lost
    BY <1>1
  <2>3. CASE c \in InArray
    <3>1. cred[c] = "alive" /\ c \notin lost /\ m_cRef[c] = refs[c] + 1 /\ c \notin new
      BY <2>1, <2>3, <1>5 DEF Counted, One
    <3>2. c \in dead <=> refs[c] = 0
      BY <3>1, <2>1, <2>3, <1>4
    <3>3. m_cRef'[c] = refs[c] /\ c \notin InArray' /\ c \notin lost'
      BY <3>1, <2>1, <2>2, <2>3, <1>6
    <3>4. CASE refs[c] = 0
      <4>1. cred'[c] = "deleted"
        BY <3>2, <3>4, <2>2
      <4> QED
        BY <4>1, <3>1, <3>2, <3>3, <3>4, <2>1, <2>2 DEF Counted
    <3>5. CASE refs[c] # 0
      <4>1. cred'[c] = "alive"
        BY <3>1, <3>2, <3>5, <2>2
      <4> QED
        <5>1. One(c \in InArray') = 0 /\ One(c \in lost') = 0
          BY <3>3 DEF One
        <5>2. Counted(c)'
          <6>1. m_cRef'[c] = refs'[c] /\ refs'[c] \in Nat
            BY <3>3, <2>1, <2>2
          <6>2. m_cRef'[c] = refs'[c] + 0 + 0
            BY <6>1
          <6> QED
            BY <6>2, <5>1, <4>1, <3>3 DEF Counted
        <5>3. m_cRef'[c] \in Nat
          BY <3>3, <2>1
        <5>4. c \notin dead /\ c \notin new /\ cred'[c] = cred[c]
          BY <4>1, <3>1, <3>2, <3>5
        <5> QED
          BY <5>2, <5>3, <5>4, <4>1
    <3> QED
      BY <3>4, <3>5
  <2>4. CASE c \notin InArray /\ c \in new
    <3>1. cred[c] = "unused" /\ refs[c] = 0 /\ c \notin lost /\ c \notin dead
      BY <2>1, <2>4, <1>4, <1>5 DEF Counted
    <3>2. /\ m_cRef'[c] = 1 /\ cred'[c] = "alive"
          /\ c \in InArray' <=> ~ failed
          /\ c \in lost' <=> failed
      BY <3>1, <2>2, <2>4, <1>6
    <3> QED
      BY <3>1, <3>2, <2>2, <2>4 DEF Counted, One
  <2>5. CASE c \notin InArray /\ c \notin new
    <3>1. c \notin dead
      BY <2>5, <1>4
    <3>2. /\ m_cRef'[c] = m_cRef[c] /\ cred'[c] = cred[c]
          /\ c \notin InArray'
          /\ c \in lost' <=> c \in lost
      BY <3>1, <2>2, <2>5, <1>6
    <3> QED
      BY <3>1, <3>2, <2>1, <2>2, <2>5 DEF Counted, One
  <2> QED
    BY <2>3, <2>4, <2>5
<1>8. /\ m_pCredProvCredentialEvents' \in [Tiles -> Sinks \cup {NULL}]
      /\ held' \in [Tiles -> [Sinks -> Nat]]
      /\ \A c \in dead : /\ m_pCredProvCredentialEvents'[c] = NULL
                         /\ \A s \in Sinks : held'[c][s] = 0
      /\ \A c \in Tiles \ dead :
           /\ m_pCredProvCredentialEvents'[c] = m_pCredProvCredentialEvents[c]
           /\ held'[c] = held[c]
  BY <1>1, <1>4, CleanedUp
<1>9. ASSUME NEW c \in Tiles PROVE Holding(c)'
  <2>1. CASE c \in dead
    BY <2>1, <1>8, NullAssumption DEF Holding, One
  <2>2. CASE c \notin dead
    <3>1. cred'[c] # "alive" => cred[c] # "alive"
      BY <2>2, <1>5, <1>7
    <3>2. /\ m_pCredProvCredentialEvents'[c] = m_pCredProvCredentialEvents[c]
          /\ held'[c] = held[c]
      BY <2>2, <1>8
    <3>3. Holding(c)
      BY <1>2
    <3> QED
      BY <3>1, <3>2, <3>3 DEF Holding, One
  <2> QED
    BY <2>1, <2>2
<1>10. WholeArray'
  <2>1. CASE failed
    BY <2>1, <1>1 DEF WholeArray
  <2>2. CASE ~ failed
    BY <2>2, <1>1 DEF WholeArray
  <2> QED
    BY <2>1, <2>2
<1>11. TileTypeOK'
  <2>1. cred' \in [Tiles -> {"unused", "alive", "deleted"}] /\ m_cRef' \in [Tiles -> Nat]
    BY <1>1, <1>7
  <2>2. m_rgpExtendCredentials' \in Seq(Tiles) /\ lost' \subseteq Tiles
    BY <1>1, <1>2, <1>5 DEF TileTypeOK
  <2> QED
    BY <2>1, <2>2, <1>1, <1>2, <1>8 DEF TileTypeOK
<1> QED
  BY <1>7, <1>9, <1>10, <1>11 DEF IInv

-----------------------------------------------------------------------------
LEMMA GetCredentialAtKeeps ==
  ASSUME IInv, NEW i \in DOMAIN m_rgpExtendCredentials, GetCredentialAt(i)
  PROVE  IInv'
<1> DEFINE a == m_rgpExtendCredentials[i]
<1>1. TileTypeOK /\ (\A c \in Tiles : Counted(c)) /\ WholeArray
  BY DEF IInv
<1>2. a \in Tiles /\ a \in InArray
  BY <1>1 DEF TileTypeOK, InArray, Range
<1>3. /\ m_cRef' = [m_cRef EXCEPT ![a] = @ + 1]
      /\ refs' = [refs EXCEPT ![a] = @ + 1]
      /\ refs[a] < MaxRefs
      /\ UNCHANGED <<cred, m_pCredProvCredentialEvents, held, m_bCheckPass, arrayVars,
                     advised, watch, stale, fault>>
  BY DEF GetCredentialAt
<1> HIDE DEF a
<1>4. InArray' = InArray
  BY <1>3 DEF InArray, arrayVars
<1>5. m_cRef \in [Tiles -> Nat] /\ refs \in [Tiles -> 0 .. MaxRefs]
  BY <1>1 DEF TileTypeOK
<1>6. m_cRef' \in [Tiles -> Nat] /\ refs' \in [Tiles -> 0 .. MaxRefs]
  BY <1>2, <1>3, <1>5, BoundAssumption
<1>7. ASSUME NEW c \in Tiles PROVE Counted(c)'
  <2>1. Counted(c)
    BY <1>1
  <2>2. lost' = lost /\ cred' = cred
    BY <1>3 DEF arrayVars
  <2>3. CASE c = a
    <3>1. m_cRef'[c] = m_cRef[c] + 1 /\ refs'[c] = refs[c] + 1 /\ cred[c] = "alive"
      BY <2>1, <2>3, <1>2, <1>3, <1>5 DEF Counted
    <3> QED
      BY <3>1, <2>1, <2>2, <1>4, <1>5, BoundAssumption DEF Counted, One
  <2>4. CASE c # a
    <3>1. m_cRef'[c] = m_cRef[c] /\ refs'[c] = refs[c]
      BY <2>4, <1>3, <1>5
    <3> QED
      BY <3>1, <2>1, <2>2, <1>4 DEF Counted, One
  <2> QED
    BY <2>3, <2>4
<1>8. (\A c \in Tiles : Holding(c))'
  BY <1>3, SameHolds
<1>9. WholeArray'
  BY <1>1, <1>3 DEF WholeArray, arrayVars
<1>10. TileTypeOK'
  BY <1>1, <1>3, <1>6 DEF TileTypeOK, arrayVars
<1> QED
  BY <1>7, <1>8, <1>9, <1>10 DEF IInv

LEMMA ReleaseKeeps ==
  ASSUME IInv, NEW a \in Tiles, Release(a)
  PROVE  IInv'
<1>1. TileTypeOK /\ (\A c \in Tiles : Counted(c)) /\ (\A c \in Tiles : Holding(c))
      /\ WholeArray
  BY DEF IInv
<1>2. /\ refs[a] > 0
      /\ refs' = [refs EXCEPT ![a] = @ - 1]
      /\ m_cRef' = [m_cRef EXCEPT ![a] = @ - 1]
      /\ CleanupEvents(Last({a}))
      /\ cred' = [cred EXCEPT ![a] = IF m_cRef[a] = 1 THEN "deleted" ELSE @]
      /\ UNCHANGED <<m_bCheckPass, arrayVars, advised, watch, stale, fault>>
  BY DEF Release
<1>3. /\ m_cRef \in [Tiles -> Nat]
      /\ refs \in [Tiles -> 0 .. MaxRefs]
      /\ cred \in [Tiles -> {"unused", "alive", "deleted"}]
  BY <1>1 DEF TileTypeOK
<1>4. /\ cred[a] = "alive"
      /\ m_cRef[a] = refs[a] + One(a \in InArray) + One(a \in lost)
      /\ ~ (a \in InArray /\ a \in lost)
  BY <1>1, <1>2 DEF Counted
<1>5. InArray' = InArray /\ lost' = lost
  BY <1>2 DEF InArray, arrayVars
<1>6. m_cRef[a] > 0
  BY <1>2, <1>3, <1>4, BoundAssumption DEF One
<1>7. /\ m_cRef' \in [Tiles -> Nat]
      /\ refs' \in [Tiles -> 0 .. MaxRefs]
      /\ cred' \in [Tiles -> {"unused", "alive", "deleted"}]
  BY <1>2, <1>3, <1>6, BoundAssumption
<1>8. ASSUME NEW c \in Tiles PROVE Counted(c)'
  <2>1. CASE c = a
    <3>1. refs'[c] = refs[c] - 1 /\ m_cRef'[c] = m_cRef[c] - 1
      BY <2>1, <1>2, <1>3
    <3>2. CASE m_cRef[a] = 1
      <4>1. refs[a] = 1 /\ a \notin InArray /\ a \notin lost
        BY <3>2, <1>2, <1>3, <1>4, BoundAssumption DEF One
      <4>2. cred'[c] = "deleted"
        BY <3>2, <2>1, <1>2, <1>3
      <4> QED
        BY <4>1, <4>2, <3>1, <2>1, <1>5 DEF Counted
    <3>3. CASE m_cRef[a] # 1
      <4>1. cred'[c] = "alive"
        BY <3>3, <2>1, <1>2, <1>3, <1>4
      <4> QED
        BY <4>1, <3>1, <2>1, <1>3, <1>4, <1>5, BoundAssumption DEF Counted, One
    <3> QED
      BY <3>2, <3>3
  <2>2. CASE c # a
    <3>1. refs'[c] = refs[c] /\ m_cRef'[c] = m_cRef[c] /\ cred'[c] = cred[c]
      BY <2>2, <1>2, <1>3
    <3> QED
      BY <3>1, <1>1, <1>5 DEF Counted, One
  <2> QED
    BY <2>1, <2>2
<1>9. Last({a}) = IF m_cRef[a] = 1 THEN {a} ELSE {}
  BY DEF Last
<1>10. /\ m_pCredProvCredentialEvents' \in [Tiles -> Sinks \cup {NULL}]
       /\ held' \in [Tiles -> [Sinks -> Nat]]
       /\ \A c \in Last({a}) : /\ m_pCredProvCredentialEvents'[c] = NULL
                               /\ \A s \in Sinks : held'[c][s] = 0
       /\ \A c \in Tiles \ Last({a}) :
            /\ m_pCredProvCredentialEvents'[c] = m_pCredProvCredentialEvents[c]
            /\ held'[c] = held[c]
  <2>1. Last({a}) \subseteq Tiles
    BY <1>9
  <2> QED
    BY <2>1, <1>2, CleanedUp
<1>11. ASSUME NEW c \in Tiles PROVE Holding(c)'
  <2>1. CASE c \in Last({a})
    BY <2>1, <1>10, NullAssumption DEF Holding, One
  <2>2. CASE c \notin Last({a})
    <3>1. cred'[c] # "alive" => cred[c] # "alive"
      BY <2>2, <1>2, <1>3, <1>9
    <3>2. /\ m_pCredProvCredentialEvents'[c] = m_pCredProvCredentialEvents[c]
          /\ held'[c] = held[c]
      BY <2>2, <1>10
    <3>3. Holding(c)
      BY <1>1
    <3> QED
      BY <3>1, <3>2, <3>3 DEF Holding, One
  <2> QED
    BY <2>1, <2>2
<1>12. WholeArray'
  BY <1>1, <1>2 DEF WholeArray, arrayVars
<1>13. TileTypeOK'
  BY <1>1, <1>2, <1>7, <1>10 DEF TileTypeOK, arrayVars
<1> QED
  BY <1>8, <1>11, <1>12, <1>13 DEF IInv

LEMMA AdviseKeeps ==
  ASSUME IInv, NEW a \in Tiles, NEW sink \in Sinks, Advise(a, sink)
  PROVE  IInv'
<1> DEFINE old == m_pCredProvCredentialEvents[a]
<1>1. TileTypeOK /\ (\A c \in Tiles : Counted(c)) /\ (\A c \in Tiles : Holding(c))
  BY DEF IInv
<1>2. /\ refs[a] > 0
      /\ held' = [held EXCEPT ![a] = [s \in Sinks |-> held[a][s]
                     + (IF s = sink THEN 1 ELSE 0) - (IF s = old THEN 1 ELSE 0)]]
      /\ m_pCredProvCredentialEvents' = [m_pCredProvCredentialEvents EXCEPT ![a] = sink]
      /\ advised' = [advised EXCEPT ![a] = sink]
      /\ UNCHANGED <<cred, m_cRef, m_bCheckPass, arrayVars, refs, watch, stale, fault>>
  BY DEF Advise
<1>3. /\ m_pCredProvCredentialEvents \in [Tiles -> Sinks \cup {NULL}]
      /\ held \in [Tiles -> [Sinks -> Nat]]
      /\ advised \in [Tiles -> Sinks \cup {NULL}]
  BY <1>1 DEF TileTypeOK
<1>4. cred[a] = "alive" /\ \A s \in Sinks : held[a][s] = One(s = old)
  BY <1>1, <1>2 DEF Counted, Holding
<1>5. held'[a] \in [Sinks -> Nat] /\ \A s \in Sinks : held'[a][s] = One(s = sink)
  <2>1. held'[a] = [s \in Sinks |-> held[a][s]
                      + (IF s = sink THEN 1 ELSE 0) - (IF s = old THEN 1 ELSE 0)]
    BY <1>2, <1>3
  <2>2. ASSUME NEW s \in Sinks PROVE held'[a][s] = One(s = sink)
    BY <2>1, <1>4 DEF One
  <2>3. \A s \in Sinks : held'[a][s] \in Nat
    BY <2>2 DEF One
  <2> QED
    BY <2>1, <2>2, <2>3
<1>6. held' \in [Tiles -> [Sinks -> Nat]]
  <2>1. held' = [c \in Tiles |-> held'[c]] /\ \A c \in Tiles : c # a => held'[c] = held[c]
    BY <1>2, <1>3
  <2> QED
    BY <2>1, <1>3, <1>5
<1>7. ASSUME NEW c \in Tiles PROVE Holding(c)'
  <2>1. CASE c = a
    BY <2>1, <1>2, <1>3, <1>4, <1>5 DEF Holding, One
  <2>2. CASE c # a
    <3>1. /\ held'[c] = held[c] /\ cred'[c] = cred[c]
          /\ m_pCredProvCredentialEvents'[c] = m_pCredProvCredentialEvents[c]
      BY <2>2, <1>2, <1>3
    <3> QED
      BY <3>1, <1>1 DEF Holding, One
  <2> QED
    BY <2>1, <2>2
<1>8. (\A c \in Tiles : Counted(c))' /\ WholeArray'
  BY <1>2, SameCounts
<1>9. TileTypeOK'
  <2>1. /\ m_pCredProvCredentialEvents' \in [Tiles -> Sinks \cup {NULL}]
        /\ advised' \in [Tiles -> Sinks \cup {NULL}]
    BY <1>2, <1>3
  <2> QED
    BY <2>1, <1>1, <1>2, <1>6 DEF TileTypeOK, arrayVars
<1> QED
  BY <1>7, <1>8, <1>9 DEF IInv

\* The steps that change neither references nor callbacks need their types only.
LEMMA QuietKeeps ==
  ASSUME IInv, UNCHANGED <<cred, m_cRef, m_pCredProvCredentialEvents, held, arrayVars, refs>>,
         m_bCheckPass' \in [Tiles -> BOOLEAN],
         advised' \in [Tiles -> Sinks \cup {NULL}],
         watch' \in [Threads -> Watching \cup {Idle}],
         stale' \in BOOLEAN,
         fault' \in {"none", "freedTile", "releasedEvents"}
  PROVE  IInv'
<1>1. (\A c \in Tiles : Counted(c))' /\ WholeArray'
  BY SameCounts
<1>2. (\A c \in Tiles : Holding(c))'
  BY SameHolds
<1>3. TileTypeOK'
  BY DEF IInv, TileTypeOK, arrayVars
<1> QED
  BY <1>1, <1>2, <1>3 DEF IInv

\* A thread that is at work looks at a tile.
LEMMA WatchedTile ==
  ASSUME TileTypeOK, NEW t \in Threads, watch[t].at \in {"sleep", "show"}
  PROVE  watch[t] \in Watching /\ watch[t].tile \in Tiles
         /\ [watch EXCEPT ![t].at = "ended"] \in [Threads -> Watching \cup {Idle}]
<1>1. watch \in [Threads -> Watching \cup {Idle}]
  BY DEF TileTypeOK
<1>2. watch[t] # Idle
  BY DEF Idle
<1>3. watch[t] \in Watching
  BY <1>1, <1>2
<1>4. watch[t].tile \in Tiles /\ [watch[t] EXCEPT !.at = "ended"] \in Watching
  BY <1>3 DEF Watching
<1> QED
  BY <1>1, <1>3, <1>4

LEMMA WorkThreadKeeps ==
  ASSUME IInv, NEW t \in Threads, WorkThread(t)
  PROVE  IInv'
<1> DEFINE c == watch[t].tile
<1>1. /\ TileTypeOK
      /\ m_pCredProvCredentialEvents \in [Tiles -> Sinks \cup {NULL}]
      /\ m_bCheckPass \in [Tiles -> BOOLEAN]
      /\ watch \in [Threads -> Watching \cup {Idle}]
      /\ advised \in [Tiles -> Sinks \cup {NULL}]
      /\ stale \in BOOLEAN
  BY DEF IInv, TileTypeOK
<1>2. watch[t] \in Watching /\ c \in Tiles
      /\ [watch EXCEPT ![t].at = "ended"] \in [Threads -> Watching \cup {Idle}]
  BY <1>1, WatchedTile DEF WorkThread, Wake, Show
<1>3. CASE Wake(t)
  <2>1. fault' \in {"none", "freedTile", "releasedEvents"}
    BY <1>3 DEF Wake, AfterDeletion
  <2>2. UNCHANGED <<cred, m_cRef, m_pCredProvCredentialEvents, held, arrayVars, refs,
                    advised, stale>>
    BY <1>3 DEF Wake
  <2>3. CASE cred[c] = "alive" /\ m_pCredProvCredentialEvents[c] # NULL
    <3>1. /\ m_bCheckPass' = [m_bCheckPass EXCEPT ![c] = TRUE]
          /\ watch' = [watch EXCEPT ![t] = [at |-> "show", tile |-> c,
                                            sink |-> m_pCredProvCredentialEvents[c]]]
      BY <2>3, <1>3 DEF Wake
    <3>2. [at |-> "show", tile |-> c, sink |-> m_pCredProvCredentialEvents[c]] \in Watching
      BY <1>1, <1>2 DEF Watching
    <3>3. m_bCheckPass' \in [Tiles -> BOOLEAN]
      BY <3>1, <1>1
    <3>4. watch' \in [Threads -> Watching \cup {Idle}]
      BY <3>1, <3>2, <1>1
    <3> QED
      BY <3>3, <3>4, <2>1, <2>2, <1>1, QuietKeeps
  <2>4. CASE ~ (cred[c] = "alive" /\ m_pCredProvCredentialEvents[c] # NULL)
    <3>1. watch' = [watch EXCEPT ![t].at = "ended"] /\ m_bCheckPass' = m_bCheckPass
      BY <2>4, <1>3 DEF Wake
    <3> QED
      BY <3>1, <2>1, <2>2, <1>1, <1>2, QuietKeeps
  <2> QED
    BY <2>3, <2>4
<1>4. CASE Show(t)
  <2>1. fault' \in {"none", "freedTile", "releasedEvents"} /\ stale' \in BOOLEAN
    BY <1>1, <1>4 DEF Show, AfterDeletion
  <2>2. /\ UNCHANGED <<cred, tileVars, arrayVars, refs, advised>>
        /\ watch' = [watch EXCEPT ![t].at = "ended"]
    BY <1>4 DEF Show
  <2> QED
    BY <2>1, <2>2, <1>1, <1>2, QuietKeeps DEF tileVars
<1> QED
  BY <1>3, <1>4 DEF WorkThread

-----------------------------------------------------------------------------
LEMMA EnumerateStepKeeps ==
  ASSUME IInv, Enumerate
  PROVE  IInv'
<1>1. TileTypeOK /\ m_dwCredentialCount \in 0 .. MaxTiles
  BY DEF IInv, TileTypeOK
<1>2. ASSUME NEW count \in 0 .. MaxTiles, NEW made \in New(count),
             GetCredentialCount(count, made, FALSE)
      PROVE  IInv'
  <2>1. /\ made \in Seq(Tiles) /\ Len(made) = count
        /\ Range(made) \subseteq Unused
        /\ \A i, j \in DOMAIN made : made[i] = made[j] => i = j
    BY <1>1, MadeAreNew, BoundAssumption
  <2> QED
    BY <2>1, <1>2, EnumerateKeeps
<1>3. ASSUME NEW count \in 0 .. MaxTiles, NEW n \in 1 .. count, NEW made \in New(n),
             GetCredentialCount(count, made, TRUE)
      PROVE  IInv'
  <2>1. n \in Nat
    OBVIOUS
  <2>2. /\ made \in Seq(Tiles)
        /\ Range(made) \subseteq Unused
        /\ \A i, j \in DOMAIN made : made[i] = made[j] => i = j
    BY <2>1, <1>1, MadeAreNew
  <2> QED
    BY <2>2, <1>3, EnumerateKeeps
<1>4. ASSUME GetCredentialCount(m_dwCredentialCount, <<>>, TRUE)
      PROVE  IInv'
  <2>1. <<>> \in Seq(Tiles) /\ DOMAIN <<>> = {} /\ Range(<<>>) = {}
    BY DEF Range
  <2>2. /\ Range(<<>>) \subseteq Unused
        /\ \A i, j \in DOMAIN <<>> : <<>>[i] = <<>>[j] => i = j
    BY <2>1
  <2> QED
    BY <2>1, <2>2, <1>1, <1>4, EnumerateKeeps
<1> QED
  BY <1>2, <1>3, <1>4 DEF Enumerate

LEMMA LogonUIKeeps ==
  ASSUME IInv, LogonUI
  PROVE  IInv'
<1>1. /\ TileTypeOK
      /\ m_bCheckPass \in [Tiles -> BOOLEAN]
      /\ watch \in [Threads -> Watching \cup {Idle}]
      /\ advised \in [Tiles -> Sinks \cup {NULL}]
      /\ stale \in BOOLEAN
      /\ fault \in {"none", "freedTile", "releasedEvents"}
  BY DEF IInv, TileTypeOK
<1>2. CASE Enumerate
  BY <1>2, EnumerateStepKeeps
<1>3. CASE \E i \in DOMAIN m_rgpExtendCredentials : GetCredentialAt(i)
  BY <1>3, GetCredentialAtKeeps
<1>4. ASSUME NEW c \in Tiles, Release(c) PROVE IInv'
  BY <1>4, ReleaseKeeps
<1>5. ASSUME NEW c \in Tiles, UnAdvise(c) PROVE IInv'
  <2>1. advised' \in [Tiles -> Sinks \cup {NULL}]
    BY <1>1, <1>5 DEF UnAdvise
  <2> QED
    BY <2>1, <1>1, <1>5, QuietKeeps DEF UnAdvise, tileVars
<1>6. ASSUME NEW c \in Tiles, NEW sink \in Sinks, Advise(c, sink) PROVE IInv'
  BY <1>6, AdviseKeeps
<1>7. ASSUME NEW c \in Tiles, NEW t \in Threads, SetSelected(c, t) PROVE IInv'
  <2>1. [at |-> "sleep", tile |-> c, sink |-> NULL] \in Watching
    BY DEF Watching
  <2>2. watch' \in [Threads -> Watching \cup {Idle}]
    BY <2>1, <1>1, <1>7 DEF SetSelected
  <2> QED
    BY <2>2, <1>1, <1>7, QuietKeeps DEF SetSelected, tileVars
<1>8. ASSUME NEW c \in Tiles, NEW checked \in BOOLEAN, SetCheckboxValue(c, checked)
      PROVE  IInv'
  <2>1. m_bCheckPass' \in [Tiles -> BOOLEAN]
    BY <1>1, <1>8 DEF SetCheckboxValue
  <2> QED
    BY <2>1, <1>1, <1>8, QuietKeeps DEF SetCheckboxValue
<1> QED
  BY <1>2, <1>3, <1>4, <1>5, <1>6, <1>7, <1>8 DEF LogonUI

LEMMA StepKeeps == IInv /\ [Next]_vars => IInv'
<1> SUFFICES ASSUME IInv, [Next]_vars PROVE IInv'
  OBVIOUS
<1>1. CASE LogonUI
  BY <1>1, LogonUIKeeps
<1>2. ASSUME NEW t \in Threads, WorkThread(t) PROVE IInv'
  BY <1>2, WorkThreadKeeps
<1>3. CASE UNCHANGED vars
  <2>1. UNCHANGED <<cred, m_cRef, m_pCredProvCredentialEvents, held, arrayVars, refs>>
    BY <1>3 DEF vars, arrayVars
  <2> QED
    BY <2>1, <1>3, QuietKeeps DEF vars, IInv, TileTypeOK
<1> QED
  BY <1>1, <1>2, <1>3 DEF Next

LEMMA Invariance == Spec => []IInv
BY InitIInv, StepKeeps, PTL DEF Spec

-----------------------------------------------------------------------------
\* Every variable of the tiles and of the provider's array keeps its type; in
\* particular no reference count, of a tile or of a callback, goes below zero.
THEOREM TileTypeCorrect == Spec => []TileTypeOK
<1>1. IInv => TileTypeOK
  BY DEF IInv
<1> QED
  BY <1>1, Invariance, PTL

\* No order of enumerations, failed enumerations and releases deletes a tile
\* that LogonUI or the array can reach (Release, Credential_Imp.h:104, and the
\* failure path of GetCredentialCount).
THEOREM TilesAccounted == Spec => []TileAccounting
<1>1. IInv => TileAccounting
  BY DEF IInv, Counted, TileAccounting
<1> QED
  BY <1>1, Invariance, PTL

\* However often a tile is advised and unadvised, it holds one reference on the
\* callback it stores and none on the ones before (Advise, CleanupEvents).
THEOREM EventsCorrect == Spec => []EventsHeldOnce
<1>1. IInv => EventsHeldOnce
  BY DEF IInv, Holding, EventsHeldOnce
<1> QED
  BY <1>1, Invariance, PTL

\* The provider's array is the whole of one enumeration or not there at all
\* (GetCredentialCount), so CleanUpAllCredentials releases each tile once.
THEOREM ArrayCorrect == Spec => []WholeArray
<1>1. IInv => WholeArray
  BY DEF IInv
<1> QED
  BY <1>1, Invariance, PTL

-----------------------------------------------------------------------------
(***************************************************************************)
(* The refinement of TileArray.  Its "taken" is the set of tiles on which  *)
(* LogonUI has a reference.                                                *)
(***************************************************************************)
Taken == {c \in Tiles : refs[c] > 0}

ArrayStep == Array!ArrayNext \/ UNCHANGED <<cred, m_rgpExtendCredentials, lost, Taken>>

LEMMA EnumerateMaps ==
  ASSUME IInv, NEW count, NEW n \in 0 .. MaxTiles, NEW made \in New(n), NEW failed \in BOOLEAN,
         GetCredentialCount(count, made, failed)
  PROVE  ArrayStep
<1>1. TileTypeOK /\ \A c \in Tiles : Counted(c)
  BY DEF IInv
<1>2. made \in Array!Fresh(n)
  BY DEF New, Array!Fresh, Unused
<1>3. InArray \subseteq Tiles
  BY <1>1 DEF TileTypeOK, InArray, Range
<1>4. \A c \in InArray : m_cRef[c] = 1 <=> c \notin Taken
  BY <1>1, <1>3, BoundAssumption DEF Counted, One, Taken, TileTypeOK
<1>5. Last(ReleasedByCleanUp) = InArray \ Taken
  BY <1>3, <1>4 DEF Last, ReleasedByCleanUp
<1>6. /\ cred' = [c \in Tiles |-> IF c \in Range(m_rgpExtendCredentials) \ Taken THEN "deleted"
                                  ELSE IF c \in Range(made) THEN "alive" ELSE cred[c]]
      /\ m_rgpExtendCredentials' = IF ~ failed THEN made ELSE <<>>
      /\ lost' = IF ~ failed THEN lost ELSE lost \cup Range(made)
      /\ UNCHANGED Taken
  BY <1>5 DEF GetCredentialCount, InArray, Taken
<1>7. Array!Enumerate(made, ~ failed)
  BY <1>6 DEF Array!Enumerate, Taken, Range, Array!Range
<1>8. (~ failed) \in BOOLEAN
  OBVIOUS
<1>9. Array!ArrayNext
  BY <1>2, <1>7, <1>8 DEF Array!ArrayNext
<1> QED
  BY <1>9 DEF ArrayStep

LEMMA ReleaseMaps ==
  ASSUME IInv, NEW c \in Tiles, Release(c)
  PROVE  ArrayStep
<1>1. /\ TileTypeOK /\ Counted(c)
      /\ refs[c] \in Nat /\ refs[c] > 0 /\ m_cRef[c] \in Nat
  BY BoundAssumption DEF IInv, TileTypeOK, Release
<1>2. /\ refs' = [refs EXCEPT ![c] = @ - 1]
      /\ cred' = [cred EXCEPT ![c] = IF m_cRef[c] = 1 THEN "deleted" ELSE @]
      /\ UNCHANGED <<m_rgpExtendCredentials, lost>>
  BY DEF Release, arrayVars
<1>3. \A d \in Tiles : d # c => refs'[d] = refs[d]
  BY <1>1, <1>2 DEF TileTypeOK
<1>4. refs'[c] = refs[c] - 1
  BY <1>1, <1>2 DEF TileTypeOK
<1>5. m_cRef[c] = refs[c] + One(c \in InArray) + One(c \in lost)
  BY <1>1 DEF Counted
<1>6. CASE refs[c] = 1
  <2>1. Taken' = Taken \ {c}
    BY <1>3, <1>4, <1>6 DEF Taken
  <2>2. m_cRef[c] = 1 <=> c \notin InArray \cup lost
    BY <1>5, <1>6 DEF One
  <2>3. c \in Taken
    BY <1>1 DEF Taken
  <2>4. Array!Drop(c)
    BY <1>2, <2>1, <2>2, <2>3 DEF Array!Drop, Taken, InArray, Range, Array!Range
  <2> QED
    BY <2>4 DEF ArrayStep, Array!ArrayNext
<1>7. CASE refs[c] > 1
  <2>1. Taken' = Taken
    BY <1>1, <1>3, <1>4, <1>7 DEF Taken
  <2>2. m_cRef[c] # 1
    BY <1>1, <1>5, <1>7 DEF One
  <2>3. cred' = cred
    BY <1>1, <1>2, <2>2 DEF TileTypeOK
  <2> QED
    BY <1>2, <2>1, <2>3 DEF ArrayStep
<1> QED
  BY <1>1, <1>6, <1>7

LEMMA GetCredentialAtMaps ==
  ASSUME IInv, NEW i \in DOMAIN m_rgpExtendCredentials, GetCredentialAt(i)
  PROVE  ArrayStep
<1> DEFINE c == m_rgpExtendCredentials[i]
<1>1. c \in Tiles /\ c \in Range(m_rgpExtendCredentials)
  BY DEF IInv, TileTypeOK, Range
<1>2. refs \in [Tiles -> Nat] /\ refs' = [refs EXCEPT ![c] = @ + 1]
  BY BoundAssumption DEF IInv, TileTypeOK, GetCredentialAt
<1>3. Taken' = Taken \cup {c}
  BY <1>1, <1>2 DEF Taken
<1>4. Array!Take(c)
  BY <1>1, <1>3 DEF GetCredentialAt, arrayVars, Array!Take, Taken, Range, Array!Range
<1> HIDE DEF c
<1>5. \E d \in Tiles : Array!Take(d)
  BY <1>1, <1>4 DEF Array!Take
<1>6. Array!ArrayNext
  BY <1>5 DEF Array!ArrayNext
<1> QED
  BY <1>6 DEF ArrayStep

\* The tiles' counts implement the array that has none, for any number of
\* tiles, callbacks, WorkThreads and references (Credential_Imp.cpp:197-215,
\* :432-541; Credential_Imp.h:104-113).
THEOREM TilesImplementArray == Spec => ImplementsTileArray
<1>1. Init => Array!ArrayInit
  BY BoundAssumption DEF Init, Array!ArrayInit
<1>2. IInv /\ [Next]_vars => [Array!ArrayNext]_<<cred, m_rgpExtendCredentials, lost, Taken>>
  <2> SUFFICES ASSUME IInv, [Next]_vars PROVE ArrayStep
    BY DEF ArrayStep
  <2>1. ASSUME NEW count \in 0 .. MaxTiles, NEW made \in New(count),
               GetCredentialCount(count, made, FALSE)
        PROVE  ArrayStep
    BY <2>1, EnumerateMaps
  <2>2. ASSUME NEW count \in 0 .. MaxTiles, NEW n \in 1 .. count, NEW made \in New(n),
               GetCredentialCount(count, made, TRUE)
        PROVE  ArrayStep
    <3>1. n \in 0 .. MaxTiles
      BY BoundAssumption
    <3> QED
      BY <2>2, <3>1, EnumerateMaps
  <2>3. ASSUME GetCredentialCount(m_dwCredentialCount, <<>>, TRUE) PROVE ArrayStep
    <3>1. 0 \in 0 .. MaxTiles
      BY BoundAssumption
    <3>2. <<>> \in New(0)
      BY DEF New
    <3> QED
      BY <2>3, <3>1, <3>2, EnumerateMaps
  <2>4. CASE Enumerate
    BY <2>1, <2>2, <2>3, <2>4 DEF Enumerate
  <2>5. ASSUME NEW i \in DOMAIN m_rgpExtendCredentials, GetCredentialAt(i) PROVE ArrayStep
    BY <2>5, GetCredentialAtMaps
  <2>6. ASSUME NEW c \in Tiles, Release(c) PROVE ArrayStep
    BY <2>6, ReleaseMaps
  <2>7. CASE UNCHANGED <<cred, m_rgpExtendCredentials, lost, refs>>
    BY <2>7 DEF ArrayStep, Taken
  <2>8. ASSUME NEW t \in Threads, WorkThread(t)
        PROVE  UNCHANGED <<cred, m_rgpExtendCredentials, lost, refs>>
    BY <2>8 DEF WorkThread, Wake, Show, arrayVars
  <2>9. ASSUME NEW c \in Tiles,
               \/ UnAdvise(c)
               \/ \E sink \in Sinks : Advise(c, sink)
               \/ \E t \in Threads : SetSelected(c, t)
               \/ \E checked \in BOOLEAN : SetCheckboxValue(c, checked)
        PROVE  UNCHANGED <<cred, m_rgpExtendCredentials, lost, refs>>
    BY <2>9 DEF UnAdvise, Advise, SetSelected, SetCheckboxValue, arrayVars
  <2>10. CASE UNCHANGED vars
    BY <2>7, <2>10 DEF vars
  <2> QED
    BY <2>4, <2>5, <2>6, <2>7, <2>8, <2>9, <2>10 DEF Next, LogonUI
<1> QED
  BY <1>1, <1>2, Invariance, PTL
     DEF Spec, ImplementsTileArray, Array!ArraySpec, Array!arrayVars, Taken

\* No order of enumerations, failed enumerations, GetCredentialAt and Release
\* takes a tile that somebody can still reach: what TileArray promises.
THEOREM TilesKeepReachable == Spec => []Array!ReachableIsAlive
<1>1. IInv => Array!ReachableIsAlive
  <2> SUFFICES ASSUME IInv,
                      NEW c \in Array!Range(m_rgpExtendCredentials) \cup lost \cup Taken
               PROVE  cred[c] = "alive"
    BY DEF Array!ReachableIsAlive, Taken
  <2>1. c \in Tiles /\ (c \in InArray \/ c \in lost \/ refs[c] > 0)
    BY DEF IInv, TileTypeOK, InArray, Range, Array!Range, Taken
  <2> QED
    BY <2>1 DEF IInv, Counted
<1> QED
  BY <1>1, Invariance, PTL

-----------------------------------------------------------------------------
(***************************************************************************)
(* The callback under a WorkThread.  That a selected tile ticks its box in *)
(* the end, SelectedIsChecked, needs fairness and stays with TLC.  What    *)
(* carries it is proved here: whatever LogonUI does in the three seconds,  *)
(* the thread finds a callback in a tile that is not deleted, and it does  *)
(* not leave its sleep without a tick.                                     *)
(***************************************************************************)
Stored(c) == m_pCredProvCredentialEvents[c]

\* A tile lives once.
Once(c) ==
  /\ cred[c] = "deleted" => cred'[c] = "deleted"
  /\ cred[c] = "alive" => cred'[c] \in {"alive", "deleted"}

LEMMA LivesOnce ==
  ASSUME IInv, [Next]_vars, NEW c \in Tiles
  PROVE  Once(c)
<1>0. cred \in [Tiles -> {"unused", "alive", "deleted"}] /\ TileTypeOK
  BY DEF IInv, TileTypeOK
<1>1. ASSUME NEW count, NEW n \in Nat, NEW made \in New(n),
             NEW failed \in BOOLEAN, GetCredentialCount(count, made, failed)
      PROVE  Once(c)
  <2>1. Range(made) \subseteq Unused
    BY <1>0, MadeAreNew
  <2> QED
    BY <1>1, <2>1 DEF GetCredentialCount, Unused, Once
<1>2. CASE Enumerate
  <2>1. ASSUME NEW count \in 0 .. MaxTiles, NEW made \in New(count),
               GetCredentialCount(count, made, FALSE)
        PROVE  Once(c)
    <3>1. count \in Nat
      BY BoundAssumption
    <3> QED
      BY <1>1, <2>1, <3>1
  <2>2. ASSUME NEW count \in 0 .. MaxTiles, NEW n \in 1 .. count, NEW made \in New(n),
               GetCredentialCount(count, made, TRUE)
        PROVE  Once(c)
    <3>1. n \in Nat
      BY BoundAssumption
    <3> QED
      BY <1>1, <2>2, <3>1
  <2>3. ASSUME GetCredentialCount(m_dwCredentialCount, <<>>, TRUE)
        PROVE  Once(c)
    <3>1. <<>> \in New(0)
      BY DEF New
    <3>2. 0 \in Nat
      OBVIOUS
    <3> QED
      BY <1>1, <2>3, <3>1, <3>2
  <2> QED
    BY <1>2, <2>1, <2>2, <2>3 DEF Enumerate
<1>3. ASSUME NEW a \in Tiles, Release(a)
      PROVE  Once(c)
  BY <1>0, <1>3 DEF Release, Once
<1>4. CASE UNCHANGED cred
  BY <1>4 DEF Once
<1> QED
  BY <1>2, <1>3, <1>4 DEF Next, LogonUI, GetCredentialAt, UnAdvise, Advise, SetSelected,
     SetCheckboxValue, WorkThread, Wake, Show, vars

\* Only Advise changes the callback of a tile that goes on living.
LEMMA StoredStays ==
  ASSUME IInv, [Next]_vars, NEW c \in Tiles, cred[c] = "alive", cred'[c] = "alive"
  PROVE  Stored(c)' = Stored(c) \/ \E sink \in Sinks : Advise(c, sink)
<1> USE DEF Stored
<1>0. cred \in [Tiles -> {"unused", "alive", "deleted"}] /\ TileTypeOK
  BY DEF IInv, TileTypeOK
<1>1. ASSUME NEW S \in SUBSET Tiles, CleanupEvents(S), c \notin S
      PROVE  Stored(c)' = Stored(c)
  BY <1>1, CleanedUp
<1>2. ASSUME NEW count, NEW made, NEW failed, GetCredentialCount(count, made, failed)
      PROVE  Stored(c)' = Stored(c)
  <2>1. InArray \subseteq Tiles
    BY <1>0 DEF TileTypeOK, InArray, Range
  <2>2. Last(ReleasedByCleanUp) \in SUBSET Tiles /\ c \notin Last(ReleasedByCleanUp)
    BY <1>2, <2>1 DEF GetCredentialCount, Last, ReleasedByCleanUp
  <2> QED
    BY <1>1, <1>2, <2>2 DEF GetCredentialCount
<1>3. CASE Enumerate
  BY <1>2, <1>3 DEF Enumerate
<1>4. ASSUME NEW a \in Tiles, Release(a) PROVE Stored(c)' = Stored(c)
  <2>1. Last({a}) \in SUBSET Tiles /\ c \notin Last({a})
    BY <1>0, <1>4 DEF Release, Last
  <2> QED
    BY <1>1, <1>4, <2>1 DEF Release
<1>5. ASSUME NEW a \in Tiles, NEW sink \in Sinks, Advise(a, sink), a # c
      PROVE  Stored(c)' = Stored(c)
  BY <1>0, <1>5 DEF Advise, TileTypeOK
<1>6. CASE UNCHANGED m_pCredProvCredentialEvents
  BY <1>6
<1> QED
  BY <1>3, <1>4, <1>5, <1>6 DEF Next, LogonUI, GetCredentialAt, UnAdvise, SetSelected,
     SetCheckboxValue, WorkThread, Wake, Show, tileVars, vars

\* The tile stores the callback that LogonUI has given it, and LogonUI holds
\* the tile as long.
AdvisedIsStored ==
  \A c \in Tiles : advised[c] # NULL => refs[c] > 0 /\ Stored(c) = advised[c]

LEMMA AdvisedIsStoredStep == IInv /\ AdvisedIsStored /\ [Next]_vars => AdvisedIsStored'
<1> SUFFICES ASSUME IInv, AdvisedIsStored, [Next]_vars, NEW c \in Tiles, advised'[c] # NULL
             PROVE  (refs[c] > 0 /\ Stored(c) = advised[c])'
  BY DEF AdvisedIsStored
<1>0. /\ TileTypeOK /\ Counted(c)
      /\ refs \in [Tiles -> Nat] /\ advised \in [Tiles -> Sinks \cup {NULL}]
  BY BoundAssumption DEF IInv, TileTypeOK
<1>1. ASSUME NEW sink \in Sinks, Advise(c, sink)
      PROVE  (refs[c] > 0 /\ Stored(c) = advised[c])'
  BY <1>0, <1>1 DEF Advise, Stored, TileTypeOK
<1>2. CASE \A sink \in Sinks : ~ Advise(c, sink)
  <2>1. advised[c] # NULL /\ advised'[c] = advised[c]
    <3>1. ASSUME NEW a \in Tiles, NEW sink \in Sinks, Advise(a, sink)
          PROVE  advised'[c] = advised[c]
      BY <1>0, <1>2, <3>1 DEF Advise
    <3>2. ASSUME NEW a \in Tiles, UnAdvise(a) PROVE advised'[c] = advised[c]
      BY <1>0, <3>2 DEF UnAdvise
    <3>3. CASE UNCHANGED advised
      BY <3>3
    <3>4. advised'[c] = advised[c]
      BY <3>1, <3>2, <3>3 DEF Next, LogonUI, Enumerate, GetCredentialCount,
         GetCredentialAt, Release, SetSelected, SetCheckboxValue, WorkThread, Wake,
         Show, vars
    <3> QED
      BY <3>4
  <2>2. refs[c] > 0 /\ Stored(c) = advised[c] /\ cred[c] = "alive"
    BY <1>0, <2>1 DEF AdvisedIsStored, Counted
  <2>3. refs'[c] > 0
    <3>1. ASSUME NEW a \in Tiles, Release(a) PROVE refs'[c] > 0
      BY <1>0, <2>1, <2>2, <3>1 DEF Release
    <3>2. ASSUME NEW i \in DOMAIN m_rgpExtendCredentials, GetCredentialAt(i)
          PROVE  refs'[c] > 0
      BY <1>0, <2>2, <3>2 DEF GetCredentialAt
    <3>3. CASE UNCHANGED refs
      BY <2>2, <3>3
    <3> QED
      BY <3>1, <3>2, <3>3 DEF Next, LogonUI, Enumerate, GetCredentialCount,
         UnAdvise, Advise, SetSelected, SetCheckboxValue, WorkThread, Wake, Show, vars
  <2>4. cred'[c] = "alive"
    BY <2>3, StepKeeps DEF IInv, Counted
  <2>5. Stored(c)' = Stored(c)
    BY <1>2, <2>2, <2>4, StoredStays
  <2> QED
    BY <2>1, <2>2, <2>3, <2>5
<1> QED
  BY <1>1, <1>2

\* Between Advise and UnAdvise a tile stores the callback LogonUI gave it, and
\* no other: the clean-up of an enumeration and LogonUI's own releases leave it
\* (Credential_Imp.cpp:633-655).
THEOREM AdvisedCorrect == Spec => []AdvisedIsStored
<1>1. Init => AdvisedIsStored
  BY DEF Init, AdvisedIsStored
<1> QED
  BY <1>1, AdvisedIsStoredStep, Invariance, PTL DEF Spec

\* A WorkThread's tile is deleted, or has a callback.
Serves(c) == cred[c] = "deleted" \/ (cred[c] = "alive" /\ Stored(c) # NULL)

SleeperIsServed ==
  \A t \in Threads : /\ watch[t].at \in {"sleep", "show"} => Serves(watch[t].tile)
                     /\ watch[t].at = "show" => watch[t].sink # NULL

LEMMA SleeperStep ==
  IInv /\ AdvisedIsStored /\ SleeperIsServed /\ [Next]_vars => SleeperIsServed'
<1> SUFFICES ASSUME IInv, AdvisedIsStored, SleeperIsServed, [Next]_vars, NEW t \in Threads
             PROVE  (/\ watch[t].at \in {"sleep", "show"} => Serves(watch[t].tile)
                     /\ watch[t].at = "show" => watch[t].sink # NULL)'
  BY DEF SleeperIsServed
<1>0. TileTypeOK /\ watch \in [Threads -> Watching \cup {Idle}]
  BY DEF IInv, TileTypeOK
<1>1. ASSUME NEW c \in Tiles, Serves(c) PROVE Serves(c)'
  <2>1. CASE cred'[c] = "alive"
    <3>1. cred[c] = "alive"
      BY <1>1, <2>1, LivesOnce DEF Once, Serves
    <3>2. Stored(c)' = Stored(c) \/ \E sink \in Sinks : Advise(c, sink)
      BY <2>1, <3>1, StoredStays
    <3>3. ASSUME NEW sink \in Sinks, Advise(c, sink) PROVE Stored(c)' # NULL
      BY <1>0, <3>3, NullAssumption DEF Advise, Stored, TileTypeOK
    <3> QED
      BY <1>1, <2>1, <3>1, <3>2, <3>3 DEF Serves
  <2>2. CASE cred'[c] # "alive"
    BY <1>1, <2>2, LivesOnce DEF Once, Serves
  <2> QED
    BY <2>1, <2>2
<1>2. ASSUME watch'[t] = watch[t]
      PROVE  (/\ watch[t].at \in {"sleep", "show"} => Serves(watch[t].tile)
              /\ watch[t].at = "show" => watch[t].sink # NULL)'
  <2>1. CASE watch[t].at \in {"sleep", "show"}
    <3>1. watch[t].tile \in Tiles
      BY <1>0, <2>1, WatchedTile
    <3>2. Serves(watch[t].tile)
      BY <2>1 DEF SleeperIsServed
    <3>3. Serves(watch[t].tile)'
      <4> DEFINE c == watch[t].tile
      <4>1. c' = c
        BY <1>2
      <4>2. \/ cred'[c] = "deleted"
            \/ cred'[c] = "alive" /\ m_pCredProvCredentialEvents'[c] # NULL
        BY <3>1, <3>2, <1>1 DEF Serves, Stored
      <4> QED
        BY <4>1, <4>2 DEF Serves, Stored
    <3> QED
      BY <1>2, <2>1, <3>3 DEF SleeperIsServed
  <2>2. CASE watch[t].at \notin {"sleep", "show"}
    BY <1>2, <2>2
  <2> QED
    BY <2>1, <2>2
<1>3. ASSUME NEW c \in Tiles, SetSelected(c, t)
      PROVE  (/\ watch[t].at \in {"sleep", "show"} => Serves(watch[t].tile)
              /\ watch[t].at = "show" => watch[t].sink # NULL)'
  <2>1. watch'[t] = [at |-> "sleep", tile |-> c, sink |-> NULL]
    BY <1>0, <1>3 DEF SetSelected
  <2>2. cred[c] = "alive" /\ Stored(c) # NULL
    BY <1>3 DEF SetSelected, IInv, Counted, AdvisedIsStored
  <2>3. UNCHANGED <<cred, m_pCredProvCredentialEvents>>
    BY <1>3 DEF SetSelected, tileVars
  <2> QED
    BY <2>1, <2>2, <2>3 DEF Serves, Stored
<1>4. CASE WorkThread(t)
  <2>1. watch[t] \in Watching /\ watch[t].tile \in Tiles
    BY <1>0, <1>4, WatchedTile DEF WorkThread, Wake, Show
  <2>2. CASE watch' = [watch EXCEPT ![t].at = "ended"]
    <3>1. watch'[t].at = "ended"
      BY <1>0, <2>1, <2>2 DEF Watching
    <3> QED
      BY <3>1
  <2>3. CASE /\ cred[watch[t].tile] = "alive" /\ Stored(watch[t].tile) # NULL
             /\ watch' = [watch EXCEPT ![t] = [at |-> "show", tile |-> watch[t].tile,
                                               sink |-> Stored(watch[t].tile)]]
             /\ UNCHANGED <<cred, m_pCredProvCredentialEvents>>
    <3>1. watch'[t] = [at |-> "show", tile |-> watch[t].tile, sink |-> Stored(watch[t].tile)]
      BY <1>0, <2>3
    <3> QED
      BY <2>3, <3>1 DEF Serves, Stored
  <2> QED
    BY <1>4, <2>2, <2>3 DEF WorkThread, Wake, Show, Stored
<1>5. CASE watch'[t] # watch[t]
  <2>1. WorkThread(t) \/ \E c \in Tiles : SetSelected(c, t)
    <3>1. ASSUME NEW v \in Threads, v # t, WorkThread(v) PROVE watch'[t] = watch[t]
      BY <1>0, <3>1 DEF WorkThread, Wake, Show
    <3>2. ASSUME NEW c \in Tiles, NEW v \in Threads, v # t, SetSelected(c, v)
          PROVE  watch'[t] = watch[t]
      BY <1>0, <3>2 DEF SetSelected
    <3> QED
      BY <1>5, <3>1, <3>2 DEF Next, LogonUI, Enumerate, GetCredentialCount,
         GetCredentialAt, Release, UnAdvise, Advise, SetCheckboxValue, vars
  <2> QED
    BY <1>3, <1>4, <2>1
<1> QED
  BY <1>2, <1>5

\* Whatever LogonUI does in the three seconds after SetSelected - other
\* scenarios' enumerations, UnAdvise, other callbacks, Release - the WorkThread
\* comes back to a tile that is deleted or has a callback to go through
\* (Credential_Imp.cpp:1052-1066).
THEOREM SleeperFindsCallback == Spec => []SleeperIsServed
<1>1. Init => SleeperIsServed
  BY DEF Init, Idle, SleeperIsServed
<1> QED
  BY <1>1, SleeperStep, AdvisedCorrect, Invariance, PTL DEF Spec

\* A thread that wakes has ticked its tile's box, unless the tile is deleted,
\* and nothing else ends its sleep.
WakesWithTick ==
  [][\A t \in Threads :
       watch[t].at = "sleep" /\ watch'[t] # watch[t] =>
         /\ Wake(t)
         /\ cred[watch[t].tile] = "deleted" \/ m_bCheckPass'[watch[t].tile]]_vars

\* A selected tile that stays alive is ticked before anything is shown
\* (Credential_Imp.cpp:1052-1066).
THEOREM SelectedGetsTicked == Spec => WakesWithTick
<1>1. IInv /\ SleeperIsServed /\ [Next]_vars
        => [\A t \in Threads :
              watch[t].at = "sleep" /\ watch'[t] # watch[t] =>
                /\ Wake(t)
                /\ cred[watch[t].tile] = "deleted" \/ m_bCheckPass'[watch[t].tile]]_vars
  <2> SUFFICES ASSUME IInv, SleeperIsServed, [Next]_vars, NEW t \in Threads,
                      watch[t].at = "sleep", watch'[t] # watch[t]
               PROVE  /\ Wake(t)
                      /\ cred[watch[t].tile] = "deleted" \/ m_bCheckPass'[watch[t].tile]
    OBVIOUS
  <2>0. TileTypeOK /\ watch \in [Threads -> Watching \cup {Idle}]
    BY DEF IInv, TileTypeOK
  <2>1. Wake(t)
    <3>1. ASSUME NEW v \in Threads, v # t, WorkThread(v) PROVE watch'[t] = watch[t]
      BY <2>0, <3>1 DEF WorkThread, Wake, Show
    <3>2. ASSUME NEW c \in Tiles, NEW v \in Threads, SetSelected(c, v)
          PROVE  watch'[t] = watch[t]
      BY <2>0, <3>2 DEF SetSelected, Idle
    <3>3. ~ Show(t)
      BY DEF Show
    <3> QED
      BY <3>1, <3>2, <3>3 DEF Next, LogonUI, Enumerate, GetCredentialCount,
         GetCredentialAt, Release, UnAdvise, Advise, SetCheckboxValue, WorkThread, vars
  <2>2. watch[t].tile \in Tiles /\ Serves(watch[t].tile)
    BY <2>0, WatchedTile DEF SleeperIsServed
  <2>3. CASE cred[watch[t].tile] = "alive"
    <3>1. m_bCheckPass' = [m_bCheckPass EXCEPT ![watch[t].tile] = TRUE]
      BY <2>1, <2>2, <2>3 DEF Wake, Serves, Stored
    <3> QED
      BY <2>0, <2>1, <2>2, <3>1 DEF TileTypeOK
  <2> QED
    BY <2>1, <2>2, <2>3 DEF Serves
<1> QED
  BY <1>1, SleeperFindsCallback, Invariance, PTL DEF Spec, WakesWithTick

\* When a call of a WorkThread goes wrong its tile was deleted, or LogonUI gave
\* the tile another callback between the thread's look and its call.
FaultsAfterChange ==
  [][\A t \in Threads :
       WorkThread(t) =>
         \/ fault' = "none"
         \/ cred[watch[t].tile] = "deleted"
         \/ watch[t].at = "show" /\ Stored(watch[t].tile) # watch[t].sink]_vars

\* A tile that lives and keeps its callback keeps it alive: its one reference
\* is enough for a WorkThread that holds none (Credential_Imp.cpp:645).
THEOREM FaultsNeedChange == Spec => FaultsAfterChange
<1>1. IInv /\ SleeperIsServed
        => \A t \in Threads :
             WorkThread(t) =>
               \/ fault' = "none"
               \/ cred[watch[t].tile] = "deleted"
               \/ watch[t].at = "show" /\ Stored(watch[t].tile) # watch[t].sink
  <2> SUFFICES ASSUME IInv, SleeperIsServed, NEW t \in Threads, WorkThread(t),
                      cred[watch[t].tile] # "deleted",
                      watch[t].at = "show" => Stored(watch[t].tile) = watch[t].sink
               PROVE  fault' = "none"
    OBVIOUS
  <2> DEFINE c == watch[t].tile
  <2>1. TileTypeOK /\ c \in Tiles
    BY WatchedTile DEF IInv, TileTypeOK, WorkThread, Wake, Show
  <2>2. CASE Wake(t)
    BY <2>2 DEF Wake, AfterDeletion
  <2>3. CASE Show(t)
    <3>1. Stored(c) = watch[t].sink /\ Stored(c) # NULL /\ Stored(c) \in Sinks
      BY <2>1, <2>3 DEF Show, SleeperIsServed, TileTypeOK, Stored
    <3>2. held[c][Stored(c)] > 0
      BY <2>1, <3>1 DEF IInv, Holding, One, Stored
    <3>3. Live(Stored(c))
      BY <2>1, <3>1, <3>2 DEF Live
    <3> QED
      BY <2>3, <3>1, <3>3 DEF Show, AfterDeletion, Stored
  <2> QED
    BY <2>2, <2>3 DEF WorkThread
<1> QED
  BY <1>1, SleeperFindsCallback, Invariance, PTL DEF FaultsAfterChange
=============================================================================
