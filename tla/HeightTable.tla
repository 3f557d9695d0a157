----------------------------- MODULE HeightTable -----------------------------
(***************************************************************************)
(* The database that filetodb and tblmgrt fill, and the code the two       *)
(* programs have in common: the sums of btcoin_addr and the height of      *)
(* btcoin_height.  A record is an identity and a height; the sums are      *)
(* modelled by how often each record has been added.  Adding is not        *)
(* idempotent and there is no transaction, so what a run that ends early   *)
(* leaves behind is met again by the next.                                 *)
(***************************************************************************)
EXTENDS Naturals

CONSTANTS
  Record,    \* the records
  HeightOf,  \* their heights
  MaxRuns    \* bound: how often a program is started

ASSUME TableAssumption ==
  /\ HeightOf \in [Record -> Nat \ {0}]
  /\ MaxRuns \in Nat

VARIABLES
  source,            \* the records there are: in the files and in the other database
  dbHeight,          \* btcoin_height
  added,             \* btcoin_addr: how often each record was added
  program,           \* the program that is running, or "off"
  g_sqlblockheight,  \* its height in memory
  runs,              \* history: how often a program was started
  unfinished         \* history: how often one ended early

tableVars == <<source, dbHeight, added, program, g_sqlblockheight, runs, unfinished>>

TableInit ==
  /\ dbHeight = 0 /\ added = [r \in Record |-> 0]
  /\ program = "off" /\ g_sqlblockheight = 0
  /\ runs = 0 /\ unfinished = 0

\* Mutant: the height is not read back.
my_sql_init_unread(p) ==
  /\ program = "off" /\ runs < MaxRuns
  /\ program' = p /\ runs' = runs + 1
  /\ g_sqlblockheight' = 0
  /\ UNCHANGED <<source, dbHeight, added, unfinished>>

\* A program starts and reads the height.
my_sql_init(p) ==
  /\ program = "off" /\ runs < MaxRuns
  /\ program' = p /\ runs' = runs + 1
  /\ g_sqlblockheight' = dbHeight
  /\ UNCHANGED <<source, dbHeight, added, unfinished>>

\* AddAddrMyDbIndex and the first statement of my_insert: the amount is added
\* unless the height, with g in memory, has been reached.
AddAddrMyDbIndex(r, g) ==
  added' = IF HeightOf[r] <= g THEN added ELSE [added EXCEPT ![r] = @ + 1]

\* Mutant: the height stays in memory.
UpdateInMemory(h) ==
  /\ g_sqlblockheight' = IF h <= g_sqlblockheight THEN g_sqlblockheight ELSE h
  /\ UNCHANGED dbHeight

\* The height moves one up, in memory and in the database.  (The exit(1) for a
\* height further up has no outcome here: the last record of a file has the
\* next height, and ReadBtcoinRecToWrite exits before with another.)
UpdateAddrMyDb(h) ==
  IF h <= g_sqlblockheight
  THEN UNCHANGED <<dbHeight, g_sqlblockheight>>
  ELSE /\ h = g_sqlblockheight + 1
       /\ g_sqlblockheight' = h
       /\ dbHeight' = h

\* exit(1), or the process is killed: what it has written stays.
Exit ==
  /\ program' = "off" /\ g_sqlblockheight' = 0
  /\ unfinished' = unfinished + 1
  /\ UNCHANGED <<source, dbHeight, added, runs>>
=============================================================================
