-------------------------- MODULE XCredentialV2Tile --------------------------
(***************************************************************************)
(* CXCreCredentialV2 (XCredentialV2/CredentialV2_Imp.cpp), one tile of the *)
(* provider of Windows 8 and later: its strings, its callback, and the     *)
(* serialisation of the user's credential with the functions of            *)
(* CreProviderHelp, any step of which may fail.                            *)
(*                                                                         *)
(* A string is abstracted to whether it is there, and where packing        *)
(* depends on it to its number of characters.                              *)
(***************************************************************************)
EXTENDS Integers

CONSTANTS Advisers,     \* ICredentialProviderCredentialEvents2 objects of LogonUI
          NoAdviser,    \* the NULL pointer among them
          HeaderSize,   \* sizeof(KERB_INTERACTIVE_UNLOCK_LOGON)
          MaxChars,     \* characters whose bytes still fit a USHORT: 32767
          CharCounts    \* the lengths that strings may have

ASSUME HeaderAssumption == HeaderSize \in Nat /\ CharCounts \subseteq Nat
ASSUME UShortAssumption == MaxChars \in Nat /\ 2 * MaxChars < 65536
ASSUME AdviserAssumption == NoAdviser \notin Advisers

VARIABLES
  stage,      \* of the tile: constructed, initialised or dropped by its provider
  isLocal,    \* m_fIsLocalUser
  password,   \* m_rgFieldStrings[SFI_PASSWORD]
  qualified,  \* m_pszQualifiedUserName
  adviser,    \* m_pCredProvCredentialEvents
  adviseRefs, \* references the tile holds on each of them
  shown,      \* LogonUI: what its password box shows
  step,       \* how far GetSerialization is
  response,   \* *pcpgsr: whether there is a credential to submit
  buffer,     \* what pcpcs->rgbSerialization points to
  packed,     \* where the parts lie in it, when they were packed here
  copies      \* temporary strings of GetSerialization not yet freed

credVars   == <<stage, isLocal, password, qualified, adviser, adviseRefs, shown>>
serialVars == <<step, response, buffer, packed, copies>>
tile2Vars  == <<credVars, serialVars>>

Parts == {"domain", "user", "password"}
Nothing == [cb |-> 0, at |-> [q \in Parts |-> 0], len |-> [q \in Parts |-> 0]]

Tile2TypeOK ==
  /\ stage \in {"constructed", "initialised", "dropped"}
  /\ isLocal \in BOOLEAN
  /\ password \in {"none", "empty", "typed"} /\ shown \in {"empty", "typed"}
  /\ qualified \in {"none", "joined", "plain"}
  /\ adviser \in Advisers \cup {NoAdviser} /\ adviseRefs \in [Advisers -> Int]
  /\ step \in {"idle", "protect", "split", "init", "pack", "lookup", "free_split",
               "free_password", "size", "alloc", "fill", "drop", "done"}
  /\ response \in {"unfinished", "finished"} /\ buffer \in {"none", "live", "freed"}
  /\ packed \in [cb : Nat, at : [Parts -> Nat], len : [Parts -> Nat]]
  /\ copies \subseteq Parts

Tile2Init ==
  /\ stage = "constructed" /\ isLocal = FALSE
  /\ password = "none" /\ shown = "empty" /\ qualified = "none"
  /\ adviser = NoAdviser /\ adviseRefs = [e \in Advisers |-> 0]
  /\ step = "idle" /\ response = "unfinished" /\ buffer = "none"
  /\ packed = Nothing /\ copies = {}

\* Initialize copies the strings one by one up to the first that fails; the
\* provider then drops the tile, which its own extra reference keeps in memory.
Initialize ==
  /\ stage = "constructed"
  /\ isLocal' \in BOOLEAN
  /\ \/ stage' = "initialised" /\ password' = "empty" /\ qualified' \in {"joined", "plain"}
     \/ /\ stage' = "dropped" /\ password' \in {"none", "empty"}
        /\ qualified' \in {"none", "joined", "plain"}
        /\ qualified' # "none" => password' = "empty"
  /\ UNCHANGED <<adviser, adviseRefs, shown, serialVars>>

Serves == stage = "initialised" /\ step = "idle"

Drops(e, refs) == IF e = NoAdviser THEN refs ELSE [refs EXCEPT ![e] = @ - 1]

\* Advise lets go of the callback it had; QueryInterface may refuse the new one.
TileAdvise ==
  /\ Serves
  /\ \/ \E e \in Advisers : /\ adviser' = e
                            /\ adviseRefs' = [Drops(adviser, adviseRefs) EXCEPT ![e] = @ + 1]
     \/ adviser' = NoAdviser /\ adviseRefs' = Drops(adviser, adviseRefs)
  /\ UNCHANGED <<stage, isLocal, password, qualified, shown, serialVars>>

TileUnAdvise ==
  /\ Serves
  /\ adviser' = NoAdviser /\ adviseRefs' = Drops(adviser, adviseRefs)
  /\ UNCHANGED <<stage, isLocal, password, qualified, shown, serialVars>>

\* Every keystroke: the old string is freed, and its copy may fail.
SetStringValue ==
  /\ Serves
  /\ shown' \in {"empty", "typed"}
  /\ password' \in {shown', "none"}
  /\ UNCHANGED <<stage, isLocal, qualified, adviser, adviseRefs, serialVars>>

\* The password is erased, and the screen is told if there is a callback.
SetDeselected ==
  /\ Serves /\ password # "none"
  /\ \/ password' = "empty" /\ shown' = IF adviser = NoAdviser THEN shown ELSE "empty"
     \/ password' = "none" /\ UNCHANGED shown
  /\ UNCHANGED <<stage, isLocal, qualified, adviser, adviseRefs, serialVars>>

\* ReportResult of a logon that failed: only the screen is told.
ReportResult ==
  /\ Serves /\ adviser # NoAdviser
  /\ shown' = "empty"
  /\ UNCHANGED <<stage, isLocal, password, qualified, adviser, adviseRefs, serialVars>>

-----------------------------------------------------------------------------
\* GetSerialization

GetSerialization ==
  /\ Serves
  /\ step' = IF isLocal THEN "protect" ELSE "size"
  /\ response' = "unfinished" /\ buffer' = "none" /\ packed' = Nothing /\ copies' = {}
  /\ UNCHANGED credVars

To(next) == step' = next

\* ProtectIfNecessaryAndCopyPassword hands out an encrypted copy, or nothing.
ProtectPassword ==
  /\ step = "protect"
  /\ \/ To("split") /\ copies' = {"password"}
     \/ To("done") /\ UNCHANGED copies
  /\ UNCHANGED <<credVars, response, buffer, packed>>

\* SplitDomainAndUsername needs a backslash, and hands out both halves or none.
SplitDomainAndUsername ==
  /\ step = "split"
  /\ \/ qualified = "joined" /\ To("init") /\ copies' = copies \cup {"domain", "user"}
     \/ To("free_password") /\ UNCHANGED copies
  /\ UNCHANGED <<credVars, response, buffer, packed>>

\* KerbInteractiveUnlockLogonInit: UnicodeStringInitWithString of the three.
\* The provider only has tiles to log on or unlock, so the scenario fits.  The
\* string packed as the password is a constant of the source (966), encrypted.
KerbInit ==
  /\ step = "init"
  /\ \E chars \in [Parts -> CharCounts] :
       IF \A q \in Parts : chars[q] <= MaxChars
       THEN To("pack") /\ packed' = [packed EXCEPT !.len = [q \in Parts |-> 2 * chars[q]]]
       ELSE To("free_split") /\ UNCHANGED packed
  /\ UNCHANGED <<credVars, response, buffer, copies>>

\* Mutant: the position is not advanced over the user's name.
UserNotSkipped(len) ==
  [domain |-> HeaderSize, user |-> HeaderSize + len.domain, password |-> HeaderSize + len.domain]

\* The parts lie one after the other behind the structure.
Offsets(len) ==
  [domain   |-> HeaderSize,
   user     |-> HeaderSize + len.domain,
   password |-> HeaderSize + len.domain + len.user]

\* KerbInteractiveUnlockLogonPack.
KerbPack ==
  /\ step = "pack"
  /\ \/ /\ To("lookup") /\ buffer' = "live"
        /\ packed' = [packed EXCEPT !.at = Offsets(packed.len),
             !.cb = HeaderSize + packed.len.domain + packed.len.user + packed.len.password]
     \/ To("free_split") /\ UNCHANGED <<buffer, packed>>
  /\ UNCHANGED <<credVars, response, copies>>

\* RetrieveNegotiateAuthPackage.  When it fails, a packed buffer of this
\* process stays where it is, one of CredPackAuthenticationBuffer is freed.
LookupPackage ==
  /\ step = "lookup"
  /\ \/ response' = "finished" /\ To(IF isLocal THEN "free_split" ELSE "done")
     \/ response' = "unfinished" /\ To(IF isLocal THEN "free_split" ELSE "drop")
  /\ UNCHANGED <<credVars, buffer, packed, copies>>

\* Mutant: one of the two halves is forgotten.
FreeDomainOnly ==
  /\ step = "free_split" /\ To("free_password") /\ copies' = copies \ {"domain"}
  /\ UNCHANGED <<credVars, response, buffer, packed>>

FreeSplit ==
  /\ step = "free_split" /\ To("free_password") /\ copies' = copies \ {"domain", "user"}
  /\ UNCHANGED <<credVars, response, buffer, packed>>

FreePassword ==
  /\ step = "free_password" /\ To("done") /\ copies' = copies \ {"password"}
  /\ UNCHANGED <<credVars, response, buffer, packed>>

\* The account of another provider: CredPackAuthenticationBuffer, called for
\* the size, for memory of that size, and again to fill it.
PackByWindows ==
  /\ \/ step = "size"  /\ step' \in {"alloc", "done"} /\ UNCHANGED buffer
     \/ step = "alloc" /\ To("fill") /\ buffer' = "live"
     \/ step = "alloc" /\ To("done") /\ UNCHANGED buffer
     \/ step = "fill"  /\ step' \in {"lookup", "drop"} /\ UNCHANGED buffer
     \/ step = "drop"  /\ To("done") /\ buffer' = "freed"
  /\ UNCHANGED <<credVars, response, packed, copies>>

\* LogonUI takes what it was given.
TakeSerialization ==
  /\ step = "done" /\ To("idle") /\ buffer' = "none"
  /\ response' = "unfinished" /\ packed' = Nothing
  /\ UNCHANGED <<credVars, copies>>

Tile2Next ==
  \/ Initialize \/ TileAdvise \/ TileUnAdvise
  \/ SetStringValue \/ SetDeselected \/ ReportResult
  \/ GetSerialization \/ ProtectPassword \/ SplitDomainAndUsername \/ KerbInit
  \/ KerbPack \/ LookupPackage \/ FreeSplit \/ FreePassword
  \/ PackByWindows \/ TakeSerialization

Tile2Spec == Tile2Init /\ [][Tile2Next]_tile2Vars

-----------------------------------------------------------------------------
\* Properties

\* The sanity check of KerbInteractiveUnlockLogonUnpackInPlace (530-532).
UnpackAccepts(p) == \A q \in Parts : p.at[q] + p.len[q] <= p.cb

\* The response that makes LogonUI submit the credential comes with a live
\* buffer whose parts lie behind the structure without touching each other,
\* and which the unpacking would accept (CredentialV2_Imp.cpp:994, 1031,
\* CreProviderHelp.cpp:301-310).
FinishedIsWhole ==
  response = "finished" =>
    /\ buffer = "live"
    /\ isLocal =>
         /\ UnpackAccepts(packed)
         /\ \A q, r \in Parts : q # r /\ packed.len[q] > 0 /\ packed.len[r] > 0 =>
              \/ packed.at[q] + packed.len[q] <= packed.at[r]
              \/ packed.at[r] + packed.len[r] <= packed.at[q]
         /\ \A q \in Parts : packed.at[q] >= HeaderSize /\ packed.len[q] < 65536

\* Whichever step fails, GetSerialization ends with every string freed that it
\* was handed (998-1001), and the tile holds one reference on its callback.
CopiesFreed ==
  /\ step \in {"idle", "done"} => copies = {}
  /\ \A e \in Advisers : adviseRefs[e] = IF adviser = e THEN 1 ELSE 0

=============================================================================
