------------------------------ MODULE FileToDb ------------------------------
(***************************************************************************)
(* filetodb: the records of dbdata<i>.txt are added file by file.  The     *)
(* files cover rising heights, as main uses their numbering, and each has  *)
(* a record; within a file the lines have any order.  A line fits the 500  *)
(* bytes of readfiletodb's buffer: getline fails at a longer one without   *)
(* reaching the end of the file, and the loop never ends.                  *)
(***************************************************************************)
EXTENDS HeightTable, Sequences

CONSTANTS
  FileSets,  \* what the files may be, in order; a line is a record or Bad
  Bad        \* a line without five fields

ASSUME FileAssumption ==
  /\ Bad \notin Record
  /\ \A fs \in FileSets :
       /\ fs \in Seq(Seq(Record \cup {Bad})) /\ fs # <<>>
       /\ \A f \in DOMAIN fs : \E i \in DOMAIN fs[f] : fs[f][i] # Bad
       /\ \A f \in DOMAIN fs : \A e \in 1 .. f - 1 :
            \A i \in DOMAIN fs[f], j \in DOMAIN fs[e] :
              fs[f][i] # Bad /\ fs[e][j] # Bad => HeightOf[fs[e][j]] < HeightOf[fs[f][i]]

VARIABLES
  files,       \* the files
  file, line,  \* where the run is
  height       \* the height of the last record of the file

fileVars == <<files, file, line, height>>

RecordsOf(f) == {files[f][i] : i \in DOMAIN files[f]} \ {Bad}
AllRecords == UNION {RecordsOf(f) : f \in DOMAIN files}

FileInit == files \in FileSets /\ file = 1 /\ line = 1 /\ height = 0

\* The operator starts at a finished file, or at the first one that is not, and
\* never skips one.
MayStartAt(f) == \A e \in 1 .. f - 1 : \A r \in RecordsOf(e) : HeightOf[r] <= dbHeight

FileStart ==
  /\ my_sql_init("filetodb")
  /\ \E f \in DOMAIN files : MayStartAt(f) /\ file' = f
  /\ line' = 1 /\ height' = 0
  /\ UNCHANGED files

AtLine == program = "filetodb" /\ line <= Len(files[file])
Current == files[file][line]

\* A record of the next height.
ReadNext ==
  /\ AtLine /\ Current # Bad
  /\ HeightOf[Current] = g_sqlblockheight + 1
  /\ height' = HeightOf[Current]
  /\ AddAddrMyDbIndex(Current, g_sqlblockheight)
  /\ line' = line + 1
  /\ UNCHANGED <<files, file, source, dbHeight, program, g_sqlblockheight, runs, unfinished>>

\* The first record of the height after it.  The height in memory moves first,
\* so the UpdateAddrMyDb that follows finds nothing to do.
ReadAfterNext ==
  /\ AtLine /\ Current # Bad
  /\ HeightOf[Current] = g_sqlblockheight + 2
  /\ height' = HeightOf[Current]
  /\ g_sqlblockheight' = HeightOf[Current] - 1
  /\ AddAddrMyDbIndex(Current, g_sqlblockheight')
  /\ line' = line + 1
  /\ UNCHANGED <<files, file, source, dbHeight, program, runs, unfinished>>

\* A line that cannot be split is passed over.
ReadBad ==
  /\ AtLine /\ Current = Bad
  /\ line' = line + 1
  /\ UNCHANGED <<files, file, height, tableVars>>

FileExit == Exit /\ file' = 1 /\ line' = 1 /\ height' = 0 /\ UNCHANGED files

\* Mutant: a record of another height is passed over.
ReadOtherSkips ==
  /\ AtLine /\ Current # Bad
  /\ HeightOf[Current] \notin {g_sqlblockheight + 1, g_sqlblockheight + 2}
  /\ line' = line + 1
  /\ UNCHANGED <<files, file, height, tableVars>>

\* Any other height ends the run.
ReadOther ==
  /\ AtLine /\ Current # Bad
  /\ HeightOf[Current] \notin {g_sqlblockheight + 1, g_sqlblockheight + 2}
  /\ FileExit

\* The end of a file, and the next one or, at the configured file, the end.
EndOfFile ==
  /\ program = "filetodb" /\ line > Len(files[file])
  /\ UpdateAddrMyDb(height)
  /\ \/ file < Len(files) /\ file' = file + 1 /\ UNCHANGED program
     \/ file' = 1 /\ program' = "off"
  /\ line' = 1 /\ height' = 0
  /\ UNCHANGED <<files, source, added, runs, unfinished>>

\* The process is killed, or a statement fails and it exits.
FileCrash == program = "filetodb" /\ FileExit

FileNext ==
  \/ FileStart \/ ReadNext \/ ReadAfterNext \/ ReadBad \/ ReadOther \/ EndOfFile
  \/ FileCrash
=============================================================================
