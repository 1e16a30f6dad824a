--------------------------------- MODULE Log ---------------------------------
(***************************************************************************)
(* CXLog (DataHandler/Log/Log.cpp), a log file that goes on in another     *)
(* file when it is full: the new path is the current one with "_" and a    *)
(* number behind it.  A path is told from another by its text, so it is    *)
(* modelled as what is left of the text when all numbers are taken off its *)
(* end, followed by these numbers: <<x, 1, 2>> is "x_1_2", whether a       *)
(* caller wrote the numbers or WriteLine did.                              *)
(*                                                                         *)
(* Lengths of files count lines; a head counts as one.  The files are      *)
(* those of one object in one process: the numbers of another start again  *)
(* at 1, and it goes on in the files that are there.  Two paths with       *)
(* different texts are taken for two files.                                *)
(***************************************************************************)
EXTENDS Integers, Sequences

CONSTANTS Stems,      \* texts that do not end in "_" and a number
          Bases,      \* the paths callers give
          Levels,     \* the levels of lines: 0 (LOG_TEMP) and up, LOG_MAX above all
          MaxSize,    \* m_lLogMaxSize
          MaxParts,   \* numbers that fit a path of MAX_PATH characters
          MaxLength,  \* bound: lines in one file
          MaxIndex    \* bound: files the process goes on in

Names == Seq(Stems \cup Nat)

ASSUME LevelsAssumption == Levels \subseteq Nat
ASSUME BasesAssumption  == Bases \subseteq Names /\ <<>> \notin Bases

VARIABLES
  m_pFileLog,     \* the name of the open file, none when the pointer is NULL
  m_szLogPath,    \* the member of that name; empty after UnInitLog
  m_iMiniRank,    \* the lowest level written; uninitialised until InitLog
  m_iLogAddIndex, \* the number the last new file got
  logStage,       \* of the process: it runs, or a call has brought it down
  disk            \* the length of every file

logVars == <<m_pFileLog, m_szLogPath, m_iMiniRank, m_iLogAddIndex, logStage, disk>>

NoFile == <<>>
Files == DOMAIN disk
Lengths(d, f) == IF f \in DOMAIN d THEN d[f] ELSE 0
Append1(d, f) == [g \in DOMAIN d \cup {f} |-> Lengths(d, g) + IF g = f THEN 1 ELSE 0]

LogTypeOK ==
  /\ m_pFileLog \in Files \cup {NoFile}
  /\ m_iMiniRank \in Levels /\ m_iLogAddIndex \in Nat
  /\ logStage \in {"running", "down"}
  /\ \A f \in Files : f \in Names /\ disk[f] \in Nat

LogInit ==
  /\ m_pFileLog = NoFile /\ m_szLogPath = NoFile
  /\ m_iMiniRank \in Levels
  /\ m_iLogAddIndex = 0 /\ logStage = "running"
  /\ disk = <<>>

\* InitLog closes what is open; the file may not open, and the path and the
\* level are kept all the same.
Opens(f, d) ==
  \/ m_pFileLog' = f /\ disk' = Append1(d, f)
  \/ m_pFileLog' = NoFile /\ disk' = d

InitLog(b, level) ==
  /\ logStage = "running" /\ Lengths(disk, b) < MaxLength
  /\ Opens(b, disk)
  /\ m_szLogPath' = b /\ m_iMiniRank' = level
  /\ UNCHANGED <<m_iLogAddIndex, logStage>>

UnInitLog ==
  /\ logStage = "running"
  /\ m_pFileLog' = NoFile /\ m_szLogPath' = NoFile
  /\ UNCHANGED <<m_iMiniRank, m_iLogAddIndex, logStage, disk>>

\* Mutant: the number starts again with every file a caller opens.
NumberOfBase(i) == IF m_szLogPath \in Bases THEN 1 ELSE i + 1

\* The number of the next file.
NextNumber(i) == i + 1

\* WriteLine: a line below the level is dropped; a full file is followed by a
\* new one, whose name must fit the path.
WriteLine(level) ==
  /\ logStage = "running" /\ level >= m_iMiniRank
  /\ m_pFileLog # NoFile
  /\ disk[m_pFileLog] < MaxLength /\ m_iLogAddIndex < MaxIndex
  /\ LET written == Append1(disk, m_pFileLog)
         next    == Append(m_szLogPath, NextNumber(m_iLogAddIndex))
     IN  IF written[m_pFileLog] <= MaxSize
         THEN disk' = written /\ UNCHANGED <<m_pFileLog, m_szLogPath, m_iLogAddIndex, logStage>>
         ELSE /\ m_iLogAddIndex' = NextNumber(m_iLogAddIndex)
              /\ IF Len(m_szLogPath) <= MaxParts
                 THEN Opens(next, written) /\ m_szLogPath' = next /\ UNCHANGED logStage
                 ELSE /\ logStage' = "down" /\ disk' = written
                      /\ UNCHANGED <<m_pFileLog, m_szLogPath>>
  /\ UNCHANGED m_iMiniRank

\* fprintf through the NULL pointer, when InitLog has not been called or the
\* file could not be opened.
WriteLineFaults(level) ==
  /\ logStage = "running" /\ level >= m_iMiniRank
  /\ m_pFileLog = NoFile
  /\ logStage' = "down"
  /\ UNCHANGED <<m_pFileLog, m_szLogPath, m_iMiniRank, m_iLogAddIndex, disk>>

LogNext ==
  \/ UnInitLog
  \/ \E level \in Levels : WriteLine(level) \/ WriteLineFaults(level)
  \/ \E b \in Bases, level \in Levels : InitLog(b, level)

LogSpec == LogInit /\ [][LogNext]_logVars

-----------------------------------------------------------------------------
\* Properties

\* The file a full log goes on in is new: when the log changes to a file this
\* object has written before, that file's path is one its callers give to
\* InitLog (Log.cpp:91-97).  The numbers never meet again, however often the
\* log has been opened in between; only a caller's own "x_1" meets the file
\* "x" goes on in.
GoesOnInNewFile ==
  [][m_pFileLog' \notin {m_pFileLog, NoFile}
       => m_pFileLog' \notin Files \/ m_pFileLog' \in Bases]_logVars

=============================================================================
