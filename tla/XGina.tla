-------------------------------- MODULE XGina --------------------------------
(***************************************************************************)
(* XGina (XGina.cpp, dllmain.cpp), the GINA that stands between Winlogon   *)
(* and MSGINA.DLL before Vista: it negotiates a version, hooks Winlogon's  *)
(* dispatch table, and puts a dialog procedure of its own before the one   *)
(* MSGINA gives for each of its templates.  That one it keeps in a static  *)
(* variable per kind of dialog, while dialogs of several kinds may be open *)
(* one above the other.                                                    *)
(*                                                                         *)
(* The exported functions that only forward to MSGINA change no state.     *)
(***************************************************************************)
EXTENDS Naturals, Sequences

CONSTANTS DlgProcs,       \* dialog procedures of MSGINA
          NoProc,         \* the NULL pointer among them
          Templates,      \* the dialog templates MSGINA shows
          StubVersion,    \* GINASTUB_VERSION
          NewestVersion,  \* the newest dispatch table there is
          MaxDialogs      \* bound: dialogs open at once

ASSUME VersionsAssumption == StubVersion \in Nat /\ NewestVersion \in Nat

VARIABLES
  ginaStage,      \* loaded, negotiated, refused or initialised
  tableVersion,   \* Winlogon: the version of its dispatch table
  g_dwVersion,    \* the negotiated version, by which the table is laid out
  slot,           \* WlxDialogBoxParam in the table: Winlogon's or the hook
  pfDialogBox,    \* pfWlxDialogBoxParam
  pfDlgProc,      \* the procedure kept for each kind of dialog
  bInit,          \* g_wndEx: the kinds whose extension object exists
  dialogs         \* the open dialogs, the topmost last

ginaVars == <<ginaStage, tableVersion, g_dwVersion, slot, pfDialogBox, pfDlgProc, bInit, dialogs>>

DialogKinds == {"DisplaySAS", "LoggedOutSAS", "WkstaLockedSAS", "LoggedOnSAS", "ChangePassword"}
Extended == {"LoggedOutSAS", "LoggedOnSAS"}

GinaTypeOK ==
  /\ ginaStage \in {"loaded", "negotiated", "refused", "initialised"}
  /\ tableVersion \in 0 .. NewestVersion /\ g_dwVersion \in 0 .. StubVersion
  /\ slot \in {"winlogon", "hook"} /\ pfDialogBox \in {"none", "winlogon", "hook"}
  /\ pfDlgProc \in [DialogKinds -> DlgProcs \cup {NoProc}]
  /\ bInit \subseteq Extended
  /\ dialogs \in Seq([template : Templates, proc : DlgProcs, hooked : BOOLEAN,
                      inited : BOOLEAN, controls : Nat])

GinaInit ==
  /\ ginaStage = "loaded"
  /\ tableVersion \in 0 .. NewestVersion
  /\ g_dwVersion = StubVersion
  /\ slot = "winlogon" /\ pfDialogBox = "none"
  /\ pfDlgProc = [k \in DialogKinds |-> NoProc]
  /\ bInit = {} /\ dialogs = <<>>

\* Mutant: MSGINA is offered the version of Winlogon, however new.
OfferWinlogons ==
  /\ ginaStage = "loaded"
  /\ ginaStage' = "negotiated" /\ g_dwVersion' \in 0 .. tableVersion
  /\ UNCHANGED <<tableVersion, slot, pfDialogBox, pfDlgProc, bInit, dialogs>>

\* WlxNegotiate: it fails when MSGINA or one of its exports is missing, or when
\* MSGINA refuses; otherwise MSGINA settles on at most what it is offered.
WlxNegotiate ==
  /\ ginaStage = "loaded"
  /\ \/ /\ ginaStage' = "negotiated"
        /\ g_dwVersion' \in 0 .. (IF tableVersion < StubVersion THEN tableVersion ELSE StubVersion)
     \/ ginaStage' = "refused" /\ UNCHANGED g_dwVersion
  /\ UNCHANGED <<tableVersion, slot, pfDialogBox, pfDlgProc, bInit, dialogs>>

\* WlxInitialize, which Winlogon calls once: HookWlxDialogBoxParam keeps what
\* the table holds and puts the hook in its place.
WlxInitialize ==
  /\ ginaStage = "negotiated"
  /\ ginaStage' = "initialised"
  /\ pfDialogBox' = slot /\ slot' = "hook"
  /\ UNCHANGED <<tableVersion, g_dwVersion, pfDlgProc, bInit, dialogs>>

\* Mutant: the label of the template 1950 is missing from its case.
LoggedOnLabelLost(t) ==
  CASE t = 1400           -> "DisplaySAS"
    [] t \in {1450, 1500} -> "LoggedOutSAS"
    [] t \in {1850, 1900, 1950} -> "WkstaLockedSAS"
    [] t = 1650           -> "LoggedOnSAS"
    [] t \in {1550, 1700} -> "ChangePassword"
    [] OTHER              -> "none"

\* The kind of dialog a template stands for in HookedWlxDialogBoxParam.
KindOf(t) ==
  CASE t = 1400           -> "DisplaySAS"
    [] t \in {1450, 1500} -> "LoggedOutSAS"
    [] t \in {1850, 1900} -> "WkstaLockedSAS"
    [] t \in {1650, 1950} -> "LoggedOnSAS"
    [] t \in {1550, 1700} -> "ChangePassword"
    [] OTHER              -> "none"

Opened(t, p, hooked) ==
  [template |-> t, proc |-> p, hooked |-> hooked, inited |-> FALSE, controls |-> 0]

\* The templates of one kind are those of different versions of MSGINA, which
\* has one of them open at most once.
Exclusive(t, u) == t = u \/ {t, u} \in {{1450, 1500}, {1850, 1900}, {1650, 1950}, {1550, 1700}}

\* MSGINA opens a dialog through the table, above those that are open.
HookedWlxDialogBoxParam(t, p) ==
  /\ ginaStage = "initialised" /\ slot = "hook"
  /\ Len(dialogs) < MaxDialogs
  /\ \A i \in DOMAIN dialogs : ~ Exclusive(dialogs[i].template, t)
  /\ dialogs' = Append(dialogs, Opened(t, p, KindOf(t) \in DialogKinds))
  /\ pfDlgProc' = [k \in DialogKinds |-> IF k = KindOf(t) THEN p ELSE pfDlgProc[k]]
  /\ UNCHANGED <<ginaStage, tableVersion, g_dwVersion, slot, pfDialogBox, bInit>>

\* WM_INITDIALOG comes once to each dialog.  The procedure of MSGINA has it
\* first; then the logon dialogs make their extension object, if it is not
\* there from an earlier dialog, and that one adds the controls.
InitDialog ==
  LET top == Len(dialogs)
      k   == KindOf(dialogs[top].template)
  IN  /\ dialogs # <<>> /\ ~ dialogs[top].inited
      /\ bInit' = bInit \cup ({k} \cap Extended)
      /\ dialogs' = [dialogs EXCEPT ![top].inited = TRUE,
                                    ![top].controls = IF k \in Extended THEN @ + 1 ELSE @]
      /\ UNCHANGED <<ginaStage, tableVersion, g_dwVersion, slot, pfDialogBox, pfDlgProc>>

EndDialog ==
  /\ dialogs # <<>>
  /\ dialogs' = SubSeq(dialogs, 1, Len(dialogs) - 1)
  /\ UNCHANGED <<ginaStage, tableVersion, g_dwVersion, slot, pfDialogBox, pfDlgProc, bInit>>

GinaNext ==
  \/ WlxNegotiate \/ WlxInitialize \/ InitDialog \/ EndDialog
  \/ \E t \in Templates, p \in DlgProcs : HookedWlxDialogBoxParam(t, p)

GinaSpec == GinaInit /\ [][GinaNext]_ginaVars

-----------------------------------------------------------------------------
\* Properties

\* The hooks take nothing away: the table is laid out by a version Winlogon
\* has, dialogs still reach Winlogon's own function (XGina.cpp:73), and as
\* long as a hooked dialog is open, whatever is opened above it and closed
\* again, its messages go to the procedure it was opened with (154, 202).
\* What is added is there once in each logon dialog (XGina.cpp:155-168).
HooksAreTransparent ==
  /\ ginaStage = "initialised" => pfDialogBox = "winlogon" /\ g_dwVersion <= tableVersion
  /\ \A i \in DOMAIN dialogs : LET d == dialogs[i] IN
       /\ d.hooked => pfDlgProc[KindOf(d.template)] = d.proc
       /\ d.inited /\ KindOf(d.template) \in bInit => d.controls = 1

=============================================================================
