------------------------------- MODULE NodeSql -------------------------------
(***************************************************************************)
(* The answers of ulordcenter (nodesql.cpp).  A thread of the server takes *)
(* a quest for one masternode or for all of them, looks in the map         *)
(* g_mstdatamap, reads the table ulord_master when it has to, puts what it *)
(* read into the map and replies.  The map has no lock; its insertions     *)
(* take two steps here, and one that overlaps another may be lost.         *)
(***************************************************************************)
EXTENDS Integers

CONSTANTS
  Worker,         \* threads of the server
  Addr,           \* masternode addresses
  Host,           \* host data of a row
  Flag,           \* values of a row's validflag
  None,           \* no host data, no entry, no reply
  MaxWrites       \* bound: how often others write the table

ASSUME NodeAssumption ==
  /\ None \notin Host \cup [host : Host \cup {None}, valid : Flag]
  /\ 0 \in Flag
  /\ MaxWrites \in Nat

VARIABLES
  table,     \* ulord_master: the row of an address, or None
  cache,     \* g_mstdatamap
  pc,        \* per thread: where it is in ParseQuest
  quest,     \* per thread: the address asked for
  rows,      \* per thread: what it read of the table
  todo,      \* per thread: the rows of a quest for all still to be cached
  sent,      \* the rows of the reply sent last, by any thread
  dead,      \* an uncaught exception or a bad access ended the process
  held,      \* history: the hosts the table has had for this address, or None
  flagged,   \* history: the flags the table has had for this address
  writes     \* history: how often the table was written

threadVars == <<pc, quest, rows, todo>>
history == <<held, flagged, writes>>
nodeVars == <<table, cache, threadVars, sent, dead, history>>

Row == [host : Host, valid : Flag]
Entry == [host : Host \cup {None}, valid : Flag]
HostOf(row) == IF row = None THEN None ELSE row.host
ValidOf(row) == IF row = None THEN 0 ELSE row.valid
EntryOf(row) == [host |-> HostOf(row), valid |-> ValidOf(row)]

\* The variables have their types: ParseQuest puts into the map, and sends, only
\* entries whose flag was assigned or is one the uninitialised memory can hold.
NodeTypeOK ==
  /\ table \in [Addr -> Row \cup {None}]
  /\ cache \in [Addr -> Entry \cup {None}]
  /\ pc \in [Worker -> {"boot", "idle", "connect", "read", "add", "insert", "send",
                        "connectAll", "readAll", "addAll", "insertAll"}]
  /\ quest \in [Worker -> Addr \cup {None}]
  /\ rows \in [Worker -> [Addr -> Entry \cup {None}]]
  /\ todo \in [Worker -> SUBSET Addr]
  /\ sent \in [Addr -> Entry \cup {None}]
  /\ dead \in BOOLEAN
  /\ writes \in 0 .. MaxWrites
  /\ held \in [Addr -> SUBSET (Host \cup {None})]
  /\ flagged \in [Addr -> SUBSET Flag]

Nothing == [a \in Addr |-> None]
Only(a, e) == [Nothing EXCEPT ![a] = e]
InRows(r) == {a \in Addr : r[a] # None}

NodeInit ==
  /\ table \in [Addr -> Row \cup {None}]
  /\ cache = Nothing
  /\ pc = [w \in Worker |-> "boot"]
  /\ quest = [w \in Worker |-> None]
  /\ rows = [w \in Worker |-> Nothing]
  /\ todo = [w \in Worker |-> {}]
  /\ sent = Nothing
  /\ dead = FALSE
  /\ writes = 0
  /\ held = [a \in Addr |-> {HostOf(table[a])}]
  /\ flagged = [a \in Addr |-> {ValidOf(table[a])}]

-----------------------------------------------------------------------------
(* The map.                                                                *)

\* Another thread is inserting: the map's tree is being relinked.
Racing(w) == \E v \in Worker \ {w} : pc[v] \in {"insert", "insertAll"}

At(w, label) == ~dead /\ pc[w] = label
Goto(w, label) == pc' = [pc EXCEPT ![w] = label]

\* AddMasterNodeMemory, both of them.  An entry that is there keeps its host and
\* takes the new flag; otherwise the thread goes on to insert.
Add(w, a, e, inserting, after) ==
  IF cache[a] # None
  THEN cache' = [cache EXCEPT ![a].valid = e.valid] /\ Goto(w, after)
  ELSE Goto(w, inserting) /\ UNCHANGED cache

\* insert() adds the entry unless one has come in the meantime.  It may be lost
\* when another insertion is in progress.
Insert(w, a, e) ==
  \/ cache' = IF cache[a] = None THEN [cache EXCEPT ![a] = e] ELSE cache
  \/ Racing(w) /\ UNCHANGED cache

Send(r) == sent' = r

-----------------------------------------------------------------------------
(* Reading the table.                                                      *)

\* ReadMasterNodeToNet: the row of the address, flag included, or nothing.
ReadMasterNodeToNet(a) == Only(a, table[a])

\* ReadAllNodeToNet: every row, with a flag that is never assigned: whatever
\* the memory of mstnode held, the same for all rows of the call.
ReadAllNodeToNet(flag) ==
  [a \in Addr |-> IF table[a] = None THEN None
                  ELSE [host |-> table[a].host, valid |-> flag]]

\* initreaddb, before the loop of the server runs: every row goes to the map.
\* Without a connection the map stays empty.
initreaddb(ok) ==
  /\ \A w \in Worker : pc[w] = "boot"
  /\ ~dead
  /\ IF ok THEN \E flag \in Flag : cache' = ReadAllNodeToNet(flag)
           ELSE UNCHANGED cache
  /\ pc' = [w \in Worker |-> "idle"]
  /\ UNCHANGED <<table, quest, rows, todo, sent, dead, history>>

-----------------------------------------------------------------------------
(* ParseQuest, MST_QUEST_ONE.                                              *)

\* FindFromMasterNodeMemory finds the address: the reply is the entry, of
\* whatever age.
QuestFound(w, a) ==
  /\ At(w, "idle")
  /\ cache[a] # None
  /\ Send(Only(a, cache[a]))
  /\ UNCHANGED <<table, cache, threadVars, dead, history>>

\* Not found, or missed because the map is being changed.
QuestMissed(w, a) ==
  /\ At(w, "idle")
  /\ cache[a] = None \/ Racing(w)
  /\ quest' = [quest EXCEPT ![w] = a]
  /\ Goto(w, "connect")
  /\ UNCHANGED <<table, cache, rows, todo, sent, dead, history>>

\* CreateConnection.  Without a connection there is no reply.
ConnectOne(w, ok) ==
  /\ At(w, "connect")
  /\ Goto(w, IF ok THEN "read" ELSE "idle")
  /\ quest' = IF ok THEN quest ELSE [quest EXCEPT ![w] = None]
  /\ UNCHANGED <<table, cache, rows, todo, sent, dead, history>>

ReadOne(w) ==
  /\ At(w, "read")
  /\ rows' = [rows EXCEPT ![w] = ReadMasterNodeToNet(quest[w])]
  /\ Goto(w, "add")
  /\ UNCHANGED <<table, cache, quest, todo, sent, dead, history>>

\* Mutant: the flag of the entry without host is never set.
OneEntryUnset(w) ==
  LET row == rows[w][quest[w]] IN
  [host |-> HostOf(row), valid |-> IF row = None THEN -1 ELSE row.valid]

\* What was read, or an entry without host and with flag 0.
OneEntry(w) == EntryOf(rows[w][quest[w]])

AddOne(w) ==
  /\ At(w, "add")
  /\ Add(w, quest[w], OneEntry(w), "insert", "send")
  /\ UNCHANGED <<table, quest, rows, todo, sent, dead, history>>

InsertOne(w) ==
  /\ At(w, "insert")
  /\ Insert(w, quest[w], OneEntry(w))
  /\ Goto(w, "send")
  /\ UNCHANGED <<table, quest, rows, todo, sent, dead, history>>

\* DestroyConnection, and the reply.
SendOne(w) ==
  /\ At(w, "send")
  /\ Send(Only(quest[w], OneEntry(w)))
  /\ Goto(w, "idle")
  /\ quest' = [quest EXCEPT ![w] = None]
  /\ rows' = [rows EXCEPT ![w] = Nothing]
  /\ UNCHANGED <<table, cache, todo, dead, history>>

-----------------------------------------------------------------------------
(* ParseQuest, MST_QUEST_ALL.                                              *)

QuestAll(w) ==
  /\ At(w, "idle")
  /\ Goto(w, "connectAll")
  /\ UNCHANGED <<table, cache, quest, rows, todo, sent, dead, history>>

\* GetConnection.  Without a connection there is no reply.
ConnectAll(w, ok) ==
  /\ At(w, "connectAll")
  /\ Goto(w, IF ok THEN "readAll" ELSE "idle")
  /\ UNCHANGED <<table, cache, quest, rows, todo, sent, dead, history>>

ReadAll(w) ==
  /\ At(w, "readAll")
  /\ \E flag \in Flag : rows' = [rows EXCEPT ![w] = ReadAllNodeToNet(flag)]
  /\ todo' = [todo EXCEPT ![w] = InRows(rows'[w])]
  /\ Goto(w, "addAll")
  /\ UNCHANGED <<table, cache, quest, sent, dead, history>>

\* Mutant: every row read goes under the key of the first.
AddAllUnderFirst(w) ==
  /\ At(w, "addAll")
  /\ \E a \in todo[w], b \in InRows(rows[w]) :
       /\ quest' = [quest EXCEPT ![w] = a]
       /\ todo' = [todo EXCEPT ![w] = @ \ {a}]
       /\ IF cache[b] # None THEN cache' = [cache EXCEPT ![b] = rows[w][a]]
                             ELSE UNCHANGED cache
       /\ Goto(w, "insertAll")
  /\ UNCHANGED <<table, rows, sent, dead, history>>

\* The next row of the result goes to the map.
AddAll(w) ==
  /\ At(w, "addAll")
  /\ \E a \in todo[w] :
       /\ quest' = [quest EXCEPT ![w] = a]
       /\ todo' = [todo EXCEPT ![w] = @ \ {a}]
       /\ Add(w, a, rows[w][a], "insertAll", "addAll")
  /\ UNCHANGED <<table, rows, sent, dead, history>>

InsertAll(w) ==
  /\ At(w, "insertAll")
  /\ Insert(w, quest[w], rows[w][quest[w]])
  /\ Goto(w, "addAll")
  /\ UNCHANGED <<table, quest, rows, todo, sent, dead, history>>

\* ReleaseConnection, then the reply, signed with the first row's address.
\* With no row, vecnode[0] is a bad access.
SendAll(w) ==
  /\ At(w, "addAll") /\ todo[w] = {}
  /\ IF InRows(rows[w]) # {}
     THEN Send(rows[w]) /\ UNCHANGED dead
     ELSE dead' = TRUE /\ UNCHANGED sent
  /\ Goto(w, "idle")
  /\ quest' = [quest EXCEPT ![w] = None]
  /\ rows' = [rows EXCEPT ![w] = Nothing]
  /\ UNCHANGED <<table, cache, todo, history>>

-----------------------------------------------------------------------------
\* A statement throws: nothing catches it.
SqlException(w) ==
  /\ At(w, "read") \/ At(w, "readAll")
  /\ dead' = TRUE
  /\ UNCHANGED <<table, cache, threadVars, sent, history>>

\* Another program writes the table.
WriteTable(a, row) ==
  /\ writes < MaxWrites
  /\ table[a] # row
  /\ table' = [table EXCEPT ![a] = row]
  /\ writes' = writes + 1
  /\ held' = [held EXCEPT ![a] = @ \cup {HostOf(row)}]
  /\ flagged' = [flagged EXCEPT ![a] = @ \cup {ValidOf(row)}]
  /\ UNCHANGED <<cache, threadVars, sent, dead>>

\* The steps of a thread that need no connection.
Step(w) ==
  \/ \E a \in Addr : QuestFound(w, a) \/ QuestMissed(w, a)
  \/ QuestAll(w)
  \/ ReadOne(w) \/ AddOne(w) \/ InsertOne(w)
  \/ ReadAll(w) \/ AddAll(w) \/ InsertAll(w)
  \/ SqlException(w)

\* Here the server grants or refuses a connection as it likes.
NodeNext ==
  \/ \E ok \in BOOLEAN : initreaddb(ok)
  \/ \E w \in Worker :
       \/ Step(w) \/ SendOne(w) \/ SendAll(w)
       \/ \E ok \in BOOLEAN : ConnectOne(w, ok) \/ ConnectAll(w, ok)
  \/ \E a \in Addr, row \in Row \cup {None} : WriteTable(a, row)

NodeSpec == NodeInit /\ [][NodeNext]_nodeVars

-----------------------------------------------------------------------------
\* A reply never invents host data nor gives one address the data of another:
\* whatever the map, the threads and the writers of the table do, the host sent
\* for an address is one the table has had for that address since the start, and
\* an empty one means that the address was missing then.
HostWasTrue ==
  \A a \in InRows(sent) : sent[a].host \in held[a]

\* The comment in AddMasterNodeMemory: "0 is invalid;  1 is valid".  The flag
\* sent for an address is one that the table has had for it.
FlagWasTrue ==
  \A a \in InRows(sent) : sent[a].valid \in flagged[a]
=============================================================================
