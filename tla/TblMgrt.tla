------------------------------- MODULE TblMgrt -------------------------------
(***************************************************************************)
(* tblmgrt: the records of another database are moved height by height.    *)
(* my_insert adds a record's amount to btcoin_addr and then inserts its    *)
(* row into btcoin_all with a statement that names four columns and gives  *)
(* five values, which the database always refuses; the program then exits. *)
(***************************************************************************)
EXTENDS HeightTable

CONSTANT EndHeight  \* endheight of the configuration

ASSUME EndAssumption == EndHeight \in Nat

VARIABLES
  i,        \* the height main is at
  todo,     \* records of that height still to be written
  step,     \* "off", "read", "write" or "row"
  unstored  \* history: a result could not be stored

tblVars == <<i, todo, step, unstored>>

TblInit == i = 0 /\ todo = {} /\ step = "off" /\ unstored = FALSE

\* main starts at the configured height.
TblStart ==
  /\ my_sql_init("tblmgrt")
  /\ i' \in 1 .. EndHeight - 1
  /\ todo' = {} /\ step' = "read"
  /\ UNCHANGED unstored

TblExit == Exit /\ i' = 0 /\ todo' = {} /\ step' = "off" /\ UNCHANGED unstored

\* ReadBtcoinRecToWrite: the records of the next height.
Read ==
  /\ step = "read" /\ i = g_sqlblockheight + 1
  /\ todo' = {r \in source : HeightOf[r] = i}
  /\ step' = "write"
  /\ UNCHANGED <<i, unstored, tableVars>>

\* A result that cannot be stored is logged and counts as empty.
ReadUnstored ==
  /\ step = "read" /\ i = g_sqlblockheight + 1
  /\ todo' = {} /\ unstored' = TRUE
  /\ step' = "write"
  /\ UNCHANGED <<i, tableVars>>

\* Another height than the next one ends the run.
ReadOtherHeight == step = "read" /\ i # g_sqlblockheight + 1 /\ TblExit

\* my_insert, the first statement.
WriteAmount ==
  /\ step = "write"
  /\ \E r \in todo : AddAddrMyDbIndex(r, g_sqlblockheight) /\ todo' = todo \ {r}
  /\ step' = "row"
  /\ UNCHANGED <<i, unstored, source, dbHeight, program, g_sqlblockheight, runs, unfinished>>

\* my_insert, the second statement, which is refused.
WriteRow == step = "row" /\ TblExit

\* UpdateAddrMyDb(i), and the next height or the end.
Update ==
  /\ step = "write" /\ todo = {}
  /\ UpdateAddrMyDb(i)
  /\ IF i + 1 < EndHeight
     THEN i' = i + 1 /\ step' = "read" /\ UNCHANGED program
     ELSE i' = 0 /\ step' = "off" /\ program' = "off"
  /\ UNCHANGED <<todo, unstored, source, added, runs, unfinished>>

\* The process is killed, or a query fails and it exits.
TblCrash == program = "tblmgrt" /\ TblExit

TblNext ==
  \/ TblStart \/ Read \/ ReadUnstored \/ ReadOtherHeight
  \/ WriteAmount \/ WriteRow \/ Update \/ TblCrash
=============================================================================
