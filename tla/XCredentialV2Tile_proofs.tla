----------------------- MODULE XCredentialV2Tile_proofs -----------------------
(***************************************************************************)
(* XCredentialV2Tile's invariants for strings of any number of characters  *)
(* and any number of callbacks.                                            *)
(***************************************************************************)
EXTENDS XCredentialV2Tile, TLAPS

\* A packed structure whose parts lie behind its head, apart from each other
\* and inside its size, each of a length that fits a USHORT.
Whole(p) ==
  /\ UnpackAccepts(p)
  /\ \A q, r \in Parts : q # r /\ p.len[q] > 0 /\ p.len[r] > 0 =>
       p.at[q] + p.len[q] <= p.at[r] \/ p.at[r] + p.len[r] <= p.at[q]
  /\ \A q \in Parts : p.at[q] >= HeaderSize /\ p.len[q] < 65536

FitUShort(len) == len \in [Parts -> Nat] /\ \A q \in Parts : len[q] < 65536

\* The offsets KerbInteractiveUnlockLogonPack computes make a whole structure,
\* whatever the three lengths are (CreProviderHelp.cpp:263-323).
LEMMA OffsetsWhole ==
  ASSUME NEW len, FitUShort(len), NEW p, p.len = len, p.at = Offsets(len),
         p.cb = HeaderSize + len.domain + len.user + len.password
  PROVE  Whole(p)
  <1>1. /\ len["domain"] \in Nat /\ len["user"] \in Nat /\ len["password"] \in Nat
        /\ len["domain"] < 65536 /\ len["user"] < 65536 /\ len["password"] < 65536
    BY DEF FitUShort, Parts
  <1>2. /\ p.at["domain"]   = HeaderSize
        /\ p.at["user"]     = HeaderSize + len["domain"]
        /\ p.at["password"] = HeaderSize + len["domain"] + len["user"]
        /\ p.cb = HeaderSize + len["domain"] + len["user"] + len["password"]
    BY DEF Offsets
  <1>3. UnpackAccepts(p)
    BY <1>1, <1>2, HeaderAssumption DEF UnpackAccepts, Parts
  <1>4. \A q \in Parts : p.at[q] >= HeaderSize /\ p.len[q] < 65536
    BY <1>1, <1>2, HeaderAssumption DEF Parts
  <1>5. \A q, r \in Parts : q # r => \/ p.at[q] + p.len[q] <= p.at[r]
                                     \/ p.at[r] + p.len[r] <= p.at[q]
    BY <1>1, <1>2, HeaderAssumption DEF Parts
  <1>. QED  BY <1>3, <1>4, <1>5 DEF Whole

\* Offsets and lengths are natural numbers.
LEMMA OffsetsTyped ==
  ASSUME NEW len, FitUShort(len)
  PROVE  /\ Offsets(len) \in [Parts -> Nat]
         /\ HeaderSize + len.domain + len.user + len.password \in Nat
  <1>1. len["domain"] \in Nat /\ len["user"] \in Nat /\ len["password"] \in Nat
    BY DEF FitUShort, Parts
  <1>. QED  BY <1>1, HeaderAssumption DEF Offsets, Parts

-----------------------------------------------------------------------------
\* What GetSerialization has in hand at each of its steps.

Packed == [cb : Nat, at : [Parts -> Nat], len : [Parts -> Nat]]

LocalSteps == {"protect", "split", "init", "pack", "free_split", "free_password"}
OtherSteps == {"size", "alloc", "fill", "drop"}

\* Which way GetSerialization goes is settled by isLocal, which does not change
\* once the tile serves.
WayKept ==
  /\ stage = "constructed" => step = "idle"
  /\ step \in LocalSteps => isLocal
  /\ step \in OtherSteps => ~ isLocal

\* The strings that are to be freed at each step.
CopiesOfStep ==
  /\ copies \subseteq Parts
  /\ step \in {"idle", "protect", "done"} \cup OtherSteps => copies = {}
  /\ step \in {"split", "free_password"} => copies \subseteq {"password"}
  /\ step = "lookup" /\ ~ isLocal => copies = {}

\* What the buffer is at each step.
BufferOfStep ==
  /\ packed \in Packed
  /\ step \in {"pack", "lookup"} /\ isLocal => FitUShort(packed.len)
  /\ step \in {"lookup", "fill"} => buffer = "live"
  /\ step = "lookup" /\ isLocal => Whole(packed)
  /\ response = "finished" =>
       /\ step \in {"free_split", "free_password", "done"}
       /\ buffer = "live" /\ (isLocal => Whole(packed))

\* The tile counts on its callback what it holds.
AdviseCounted ==
  /\ adviser \in Advisers \cup {NoAdviser}
  /\ adviseRefs = [e \in Advisers |-> IF adviser = e THEN 1 ELSE 0]

TileInv == WayKept /\ CopiesOfStep /\ BufferOfStep /\ AdviseCounted

LEMMA TileInitially == Tile2Init => TileInv
  BY AdviserAssumption DEF Tile2Init, TileInv, WayKept, CopiesOfStep, BufferOfStep, AdviseCounted,
     LocalSteps, OtherSteps, Packed, Nothing, Parts

\* The operations of the tile leave its serialisation alone.
LEMMA OperationKeeps ==
  ASSUME TileInv, UNCHANGED serialVars, UNCHANGED isLocal \/ step = "idle",
         stage' = "constructed" => stage = "constructed"
  PROVE  WayKept' /\ CopiesOfStep' /\ BufferOfStep'
  <1>1. UNCHANGED <<step, response, buffer, packed, copies>>
    BY DEF serialVars
  <1>2. CASE UNCHANGED isLocal
    BY <1>1, <1>2 DEF TileInv, WayKept, CopiesOfStep, BufferOfStep
  <1>3. CASE step = "idle"
    BY <1>1, <1>3 DEF TileInv, WayKept, CopiesOfStep, BufferOfStep, LocalSteps, OtherSteps
  <1>. QED  BY <1>2, <1>3

LEMMA AdviseKeeps ==
  ASSUME TileInv, TileAdvise \/ TileUnAdvise
  PROVE  AdviseCounted'
  <1>1. /\ adviser \in Advisers \cup {NoAdviser}
        /\ adviseRefs = [e \in Advisers |-> IF adviser = e THEN 1 ELSE 0]
    BY DEF TileInv, AdviseCounted
  <1>2. Drops(adviser, adviseRefs) = [e \in Advisers |-> 0]
    <2>1. CASE adviser = NoAdviser
      BY <1>1, <2>1, AdviserAssumption DEF Drops
    <2>2. CASE adviser \in Advisers /\ adviser # NoAdviser
      <3>1. Drops(adviser, adviseRefs) = [adviseRefs EXCEPT ![adviser] = @ - 1]
        BY <2>2 DEF Drops
      <3>2. adviseRefs[adviser] - 1 = 0
        BY <1>1, <2>2
      <3>3. \A e \in Advisers \ {adviser} : adviseRefs[e] = 0
        BY <1>1
      <3>. QED  BY <1>1, <2>2, <3>1, <3>2, <3>3
    <2>. QED  BY <1>1, <2>1, <2>2
  <1>3. ASSUME NEW e \in Advisers, adviser' = e,
               adviseRefs' = [Drops(adviser, adviseRefs) EXCEPT ![e] = @ + 1]
        PROVE  AdviseCounted'
    BY <1>2, <1>3 DEF AdviseCounted
  <1>4. ASSUME adviser' = NoAdviser, adviseRefs' = Drops(adviser, adviseRefs)
        PROVE  AdviseCounted'
    BY <1>2, <1>4, AdviserAssumption DEF AdviseCounted
  <1>. QED  BY <1>3, <1>4 DEF TileAdvise, TileUnAdvise

LEMMA TileKept == TileInv /\ [Tile2Next]_tile2Vars => TileInv'
  <1>. SUFFICES ASSUME TileInv, [Tile2Next]_tile2Vars PROVE TileInv'
    OBVIOUS
  <1>1. CASE Initialize
    <2>1. AdviseCounted'
      BY <1>1 DEF Initialize, TileInv, AdviseCounted
    <2>2. step = "idle"
      BY <1>1 DEF Initialize, TileInv, WayKept
    <2>3. UNCHANGED serialVars /\ stage' # "constructed"
      BY <1>1 DEF Initialize
    <2>. QED  BY <2>1, <2>2, <2>3, OperationKeeps DEF TileInv
  <1>2. CASE TileAdvise \/ TileUnAdvise
    <2>1. UNCHANGED <<stage, isLocal>> /\ UNCHANGED serialVars
      BY <1>2 DEF TileAdvise, TileUnAdvise
    <2>. QED  BY <1>2, <2>1, AdviseKeeps, OperationKeeps DEF TileInv
  <1>3. CASE SetStringValue \/ SetDeselected \/ ReportResult
    <2>1. UNCHANGED <<stage, isLocal, adviser, adviseRefs>> /\ UNCHANGED serialVars
      BY <1>3 DEF SetStringValue, SetDeselected, ReportResult
    <2>2. AdviseCounted'
      BY <2>1 DEF TileInv, AdviseCounted
    <2>. QED  BY <2>1, <2>2, OperationKeeps DEF TileInv
  <1>4. ASSUME UNCHANGED credVars, WayKept' /\ CopiesOfStep' /\ BufferOfStep' PROVE TileInv'
    BY <1>4 DEF credVars, TileInv, AdviseCounted
  <1>. USE DEF To, credVars, LocalSteps, OtherSteps, TileInv
  <1>5. CASE GetSerialization
    <2>1. UNCHANGED credVars /\ step' = (IF isLocal THEN "protect" ELSE "size")
      BY <1>5 DEF GetSerialization
    <2>2. response' = "unfinished" /\ copies' = {} /\ packed' = Nothing /\ stage # "constructed"
      BY <1>5 DEF GetSerialization, Serves
    <2>3. WayKept'
      BY <2>1, <2>2 DEF WayKept
    <2>4. CopiesOfStep'
      BY <2>1, <2>2 DEF CopiesOfStep
    <2>5. BufferOfStep'
      BY <2>1, <2>2 DEF BufferOfStep, Packed, Nothing, Parts
    <2>. QED  BY <1>4, <2>1, <2>3, <2>4, <2>5
  <1>6. CASE ProtectPassword
    <2>1. WayKept'
      BY <1>6 DEF ProtectPassword, WayKept
    <2>2. CopiesOfStep'
      BY <1>6 DEF ProtectPassword, CopiesOfStep, Parts
    <2>3. BufferOfStep'
      BY <1>6 DEF ProtectPassword, BufferOfStep
    <2>. QED  BY <1>4, <1>6, <2>1, <2>2, <2>3 DEF ProtectPassword
  <1>7. CASE SplitDomainAndUsername
    <2>1. WayKept'
      BY <1>7 DEF SplitDomainAndUsername, WayKept
    <2>2. CopiesOfStep'
      BY <1>7 DEF SplitDomainAndUsername, CopiesOfStep, Parts
    <2>3. BufferOfStep'
      BY <1>7 DEF SplitDomainAndUsername, BufferOfStep
    <2>. QED  BY <1>4, <1>7, <2>1, <2>2, <2>3 DEF SplitDomainAndUsername
  <1>8. CASE KerbInit
    <2>1. PICK chars \in [Parts -> CharCounts] :
            IF \A q \in Parts : chars[q] <= MaxChars
            THEN To("pack") /\ packed' = [packed EXCEPT !.len = [q \in Parts |-> 2 * chars[q]]]
            ELSE To("free_split") /\ UNCHANGED packed
      BY <1>8 DEF KerbInit
    <2>2. step = "init" /\ UNCHANGED <<credVars, response, buffer, copies>>
      BY <1>8 DEF KerbInit
    <2>3. packed \in Packed /\ response # "finished"
      BY <2>2 DEF BufferOfStep
    <2>4. CASE \A q \in Parts : chars[q] <= MaxChars
      <3>. DEFINE len == [q \in Parts |-> 2 * chars[q]]
      <3>1. FitUShort(len)
        <4>1. \A q \in Parts : chars[q] \in Nat /\ chars[q] <= MaxChars
          BY <2>4, HeaderAssumption
        <4>2. \A q \in Parts : 2 * chars[q] \in Nat /\ 2 * chars[q] < 65536
          BY <4>1, UShortAssumption
        <4>. QED  BY <4>2 DEF FitUShort
      <3>2. step' = "pack" /\ packed' = [packed EXCEPT !.len = len]
        BY <2>1, <2>4
      <3>3. packed' \in Packed /\ packed'.len = len
        BY <2>3, <3>1, <3>2 DEF Packed, FitUShort
      <3>. QED  BY <1>4, <2>2, <2>3, <3>1, <3>2, <3>3
                DEF WayKept, CopiesOfStep, BufferOfStep
    <2>5. CASE ~ \A q \in Parts : chars[q] <= MaxChars
      BY <1>4, <2>1, <2>2, <2>3, <2>5 DEF WayKept, CopiesOfStep, BufferOfStep
    <2>. QED  BY <2>4, <2>5
  <1>9. CASE KerbPack
    <2>1. /\ step = "pack" /\ UNCHANGED <<credVars, response, copies>>
          /\ isLocal /\ packed \in Packed /\ FitUShort(packed.len) /\ response # "finished"
      BY <1>9 DEF KerbPack, WayKept, BufferOfStep
    <2>2. CASE /\ step' = "lookup" /\ buffer' = "live"
               /\ packed' = [packed EXCEPT !.at = Offsets(packed.len),
                    !.cb = HeaderSize + packed.len.domain + packed.len.user + packed.len.password]
      <3>1. /\ packed'.len = packed.len /\ packed'.at = Offsets(packed.len)
            /\ packed'.cb = HeaderSize + packed.len.domain + packed.len.user + packed.len.password
        BY <2>1, <2>2 DEF Packed
      <3>2. Whole(packed')
        BY <2>1, <3>1, OffsetsWhole
      <3>3. packed' \in Packed
        BY <2>1, <2>2, OffsetsTyped DEF Packed
      <3>. QED  BY <1>4, <2>1, <2>2, <3>1, <3>2, <3>3 DEF WayKept, CopiesOfStep, BufferOfStep
    <2>3. CASE step' = "free_split" /\ UNCHANGED <<buffer, packed>>
      BY <1>4, <2>1, <2>3 DEF WayKept, CopiesOfStep, BufferOfStep
    <2>. QED  BY <1>9, <2>2, <2>3 DEF KerbPack
  <1>10. CASE LookupPackage
    <2>1. /\ step = "lookup" /\ UNCHANGED <<credVars, buffer, packed, copies>>
          /\ buffer = "live" /\ (isLocal => Whole(packed)) /\ packed \in Packed
      BY <1>10 DEF LookupPackage, BufferOfStep
    <2>2. \/ response' = "finished"   /\ step' = (IF isLocal THEN "free_split" ELSE "done")
          \/ response' = "unfinished" /\ step' = (IF isLocal THEN "free_split" ELSE "drop")
      BY <1>10 DEF LookupPackage
    <2>3. WayKept'
      BY <2>1, <2>2 DEF WayKept
    <2>4. CopiesOfStep'
      BY <2>1, <2>2 DEF CopiesOfStep
    <2>5. BufferOfStep'
      BY <2>1, <2>2 DEF BufferOfStep
    <2>. QED  BY <1>4, <2>1, <2>3, <2>4, <2>5
  <1>11. CASE FreeSplit
    BY <1>4, <1>11 DEF FreeSplit, WayKept, CopiesOfStep, BufferOfStep, Parts
  <1>12. CASE FreePassword
    BY <1>4, <1>12 DEF FreePassword, WayKept, CopiesOfStep, BufferOfStep, Parts
  <1>13. CASE PackByWindows
    <2>1. WayKept'
      BY <1>13 DEF PackByWindows, WayKept
    <2>2. CopiesOfStep'
      BY <1>13 DEF PackByWindows, WayKept, CopiesOfStep
    <2>3. BufferOfStep'
      BY <1>13 DEF PackByWindows, WayKept, BufferOfStep
    <2>. QED  BY <1>4, <1>13, <2>1, <2>2, <2>3 DEF PackByWindows
  <1>14. CASE TakeSerialization
    BY <1>4, <1>14 DEF TakeSerialization, WayKept, CopiesOfStep, BufferOfStep, Packed, Nothing, Parts
  <1>15. CASE UNCHANGED tile2Vars
    BY <1>15 DEF tile2Vars, serialVars, WayKept, CopiesOfStep, BufferOfStep, AdviseCounted
  <1>. QED
    BY <1>1, <1>2, <1>3, <1>5, <1>6, <1>7, <1>8, <1>9, <1>10, <1>11, <1>12, <1>13, <1>14, <1>15
       DEF Tile2Next

\* A response that makes LogonUI submit the credential has a live buffer, whose
\* parts the unpacking accepts and do not touch (CredentialV2_Imp.cpp:994, 1031).
THEOREM FinishedIsWholeHolds == Tile2Spec => []FinishedIsWhole
  <1>1. TileInv => FinishedIsWhole
    BY DEF TileInv, BufferOfStep, FinishedIsWhole, Whole
  <1>. QED  BY TileInitially, TileKept, <1>1, PTL DEF Tile2Spec

\* GetSerialization ends with its strings freed (CredentialV2_Imp.cpp:998-1001),
\* and the tile holds one reference on its callback.
THEOREM CopiesFreedHolds == Tile2Spec => []CopiesFreed
  <1>1. TileInv => CopiesFreed
    BY DEF TileInv, CopiesOfStep, AdviseCounted, CopiesFreed
  <1>. QED  BY TileInitially, TileKept, <1>1, PTL DEF Tile2Spec

-----------------------------------------------------------------------------
\* The members that the serialisation does not touch, and where it is; the types
\* of the others are in TileInv.
PlainTyped ==
  /\ stage \in {"constructed", "initialised", "dropped"}
  /\ isLocal \in BOOLEAN
  /\ password \in {"none", "empty", "typed"} /\ shown \in {"empty", "typed"}
  /\ qualified \in {"none", "joined", "plain"}
  /\ step \in {"idle", "init", "pack", "lookup", "free_split", "free_password", "done"}
              \cup LocalSteps \cup OtherSteps
  /\ response \in {"unfinished", "finished"} /\ buffer \in {"none", "live", "freed"}

LEMMA PlainKept == PlainTyped /\ [Tile2Next]_tile2Vars => PlainTyped'
  <1>. SUFFICES ASSUME PlainTyped, [Tile2Next]_tile2Vars PROVE PlainTyped'
    OBVIOUS
  <1>. USE DEF PlainTyped, LocalSteps, OtherSteps, To, credVars, serialVars
  <1>1. CASE Initialize
    BY <1>1 DEF Initialize
  <1>2. CASE TileAdvise \/ TileUnAdvise
    BY <1>2 DEF TileAdvise, TileUnAdvise
  <1>3. CASE SetStringValue \/ SetDeselected \/ ReportResult
    BY <1>3 DEF SetStringValue, SetDeselected, ReportResult
  <1>4. CASE GetSerialization
    BY <1>4 DEF GetSerialization
  <1>5. CASE ProtectPassword \/ SplitDomainAndUsername
    BY <1>5 DEF ProtectPassword, SplitDomainAndUsername
  <1>6. CASE KerbInit \/ KerbPack
    BY <1>6 DEF KerbInit, KerbPack
  <1>7. CASE LookupPackage
    BY <1>7 DEF LookupPackage
  <1>8. CASE FreeSplit \/ FreePassword
    BY <1>8 DEF FreeSplit, FreePassword
  <1>9. CASE PackByWindows
    BY <1>9 DEF PackByWindows
  <1>10. CASE TakeSerialization
    BY <1>10 DEF TakeSerialization
  <1>11. CASE UNCHANGED tile2Vars
    BY <1>11 DEF tile2Vars
  <1>. QED
    BY <1>1, <1>2, <1>3, <1>4, <1>5, <1>6, <1>7, <1>8, <1>9, <1>10, <1>11 DEF Tile2Next

\* Type correctness of the tile of the second generation, the lengths and offsets
\* of what it packs and the counts on its callbacks included.
THEOREM Tile2TypeCorrect == Tile2Spec => []Tile2TypeOK
  <1>1. Tile2Init => PlainTyped
    BY DEF Tile2Init, PlainTyped
  <1>2. TileInv /\ PlainTyped => Tile2TypeOK
    BY DEF TileInv, PlainTyped, CopiesOfStep, BufferOfStep, AdviseCounted, Tile2TypeOK,
       LocalSteps, OtherSteps, Packed
  <1>. QED  BY TileInitially, TileKept, PlainKept, <1>1, <1>2, PTL DEF Tile2Spec

=============================================================================
