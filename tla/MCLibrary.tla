------------------------------ MODULE MCLibrary ------------------------------
(***************************************************************************)
(* The small components, each a system of its own, in one run: a behaviour *)
(* picks one of them and the others stay in their initial states.          *)
(***************************************************************************)
EXTENDS ServiceCtrl, ComServer, XCredentialV2Tile, Singleton, XGina, Log

VARIABLE part   \* the component this behaviour is about

\* Callers give the log a plain path, or one that ends like the names the log
\* makes itself.
MCBases == {<<s>> : s \in Stems} \cup {<<s, 1>> : s \in Stems}

LibraryInit ==
  /\ part \in {"ctrl", "com", "tile", "singleton", "gina", "log"}
  /\ SvcInit /\ ComInit /\ Tile2Init /\ SingleInit /\ GinaInit /\ LogInit
  /\ part # "ctrl" => entry = "absent" /\ manager = {}
  /\ part # "com"  => generation = 1
  /\ part # "gina" => tableVersion = 0
  /\ part # "log"  => m_iMiniRank = 0

CtrlStep   == part = "ctrl" /\ SvcNext
                /\ UNCHANGED <<part, comVars, tile2Vars, singleVars, ginaVars, logVars>>
ComStep    == part = "com" /\ ComNext
                /\ UNCHANGED <<part, svcVars, tile2Vars, singleVars, ginaVars, logVars>>
TileStep   == part = "tile" /\ Tile2Next
                /\ UNCHANGED <<part, svcVars, comVars, singleVars, ginaVars, logVars>>
SingleStep == part = "singleton" /\ SingleNext
                /\ UNCHANGED <<part, svcVars, comVars, tile2Vars, ginaVars, logVars>>
GinaStep   == part = "gina" /\ GinaNext
                /\ UNCHANGED <<part, svcVars, comVars, tile2Vars, singleVars, logVars>>
LogStep    == part = "log" /\ LogNext
                /\ UNCHANGED <<part, svcVars, comVars, tile2Vars, singleVars, ginaVars>>

LibraryNext == CtrlStep \/ ComStep \/ TileStep \/ SingleStep \/ GinaStep \/ LogStep

LibrarySpec == LibraryInit /\ [][LibraryNext]_<<part, svcVars, comVars, tile2Vars,
                                               singleVars, ginaVars, logVars>>

-----------------------------------------------------------------------------
\* Every component keeps the types of its variables.
LibraryTypeOK ==
  SvcTypeOK /\ ComTypeOK /\ Tile2TypeOK /\ SingleTypeOK /\ GinaTypeOK /\ LogTypeOK

=============================================================================
