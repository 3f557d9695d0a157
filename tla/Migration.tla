------------------------------ MODULE Migration ------------------------------
(***************************************************************************)
(* filetodb and tblmgrt on the same database, one at a time and in any     *)
(* order: each goes on from the height the other has left.  The files and  *)
(* the other database hold the same records.                               *)
(***************************************************************************)
EXTENDS FileToDb, TblMgrt

migrationVars == <<tableVars, fileVars, tblVars>>

MigrationInit ==
  /\ TableInit /\ FileInit /\ TblInit
  /\ source = AllRecords

MigrationNext ==
  \/ FileNext /\ UNCHANGED tblVars
  \/ TblNext /\ UNCHANGED fileVars

MigrationSpec == MigrationInit /\ [][MigrationNext]_migrationVars

-----------------------------------------------------------------------------
\* The variables have their types, and the height in the memory of a running
\* program never falls behind the height in the database.
MigrationTypeOK ==
  /\ source \subseteq Record /\ added \in [Record -> Nat]
  /\ dbHeight \in Nat /\ g_sqlblockheight \in Nat
  /\ program \in {"off", "filetodb", "tblmgrt"}
  /\ program # "off" => g_sqlblockheight >= dbHeight
  /\ runs \in 0 .. MaxRuns /\ unfinished \in 0 .. runs
  /\ files \in FileSets /\ file \in DOMAIN files /\ line \in Nat /\ height \in Nat
  /\ i \in 0 .. EndHeight /\ todo \subseteq source
  /\ step \in {"off", "read", "write", "row"} /\ unstored \in BOOLEAN

\* The height in the database is honest: whichever program has moved it,
\* whatever runs have ended early, and however the lines of a file are ordered,
\* every record of that height or below has been added, unless tblmgrt has taken
\* a result it could not store for an empty one.
HeightHonest ==
  ~unstored => \A r \in source : HeightOf[r] <= dbHeight => added[r] >= 1

\* A record is added at most once more than there were runs that ended early:
\* only what such a run of filetodb or tblmgrt had added and not yet covered by
\* a height is repeated.
RepeatedOnlyByFailure ==
  \A r \in Record : added[r] <= 1 + unfinished

\* A record at or below the height in the database is never added again, by
\* either program.
CoveredNeverRepeated ==
  [][\A r \in Record : HeightOf[r] <= dbHeight => added'[r] = added[r]]_migrationVars
=============================================================================
