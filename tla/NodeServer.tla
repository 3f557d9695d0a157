----------------------------- MODULE NodeServer -----------------------------
(***************************************************************************)
(* ParseQuest and the pool together: the threads of NodeSql take their     *)
(* connections from ConnPool.  A quest for all masternodes borrows one     *)
(* from the pool; a quest for one of them makes its own and destroys it.   *)
(***************************************************************************)
EXTENDS NodeSql, Sequences, FiniteSets

CONSTANTS
  Conn, NULL,  \* sql::Connection objects
  _maxSize     \* the limit of the pool, nThread * 2 in ulordmain.cpp

VARIABLES _connList, _curSize, closed, pooled, direct

Pool == INSTANCE ConnPool WITH Thread <- Worker

poolVars == <<_connList, _curSize, closed, pooled, direct>>
serverVars == <<nodeVars, poolVars>>

ServerInit == NodeInit /\ Pool!Init

\* initreaddb, run by main before any thread has work.
BootConnect(w) ==
  /\ \A v \in Worker : pc[v] = "boot" /\ pooled[v] = NULL
  /\ Pool!GetConnection(w)
  /\ IF pooled'[w] = NULL THEN initreaddb(FALSE) ELSE UNCHANGED nodeVars

BootRead(w) == initreaddb(TRUE) /\ Pool!ReleaseConnection(w)

CreateOwn(w) ==
  /\ Pool!CreateDirect(w)
  /\ ConnectOne(w, direct'[w] # NULL)

\* Mutant: the reply is sent and the connection forgotten.
SendOneKeeps(w) == SendOne(w) /\ UNCHANGED poolVars

DestroyAndSend(w) == SendOne(w) /\ Pool!DestroyConnection(w)

\* Mutant: a refused thread asks again instead of giving up.
BorrowOrRetry(w) ==
  /\ Pool!GetConnection(w)
  /\ IF pooled'[w] # NULL THEN ConnectAll(w, TRUE)
     ELSE At(w, "connectAll") /\ UNCHANGED nodeVars

Borrow(w) ==
  /\ Pool!GetConnection(w)
  /\ ConnectAll(w, pooled'[w] # NULL)

\* Mutant: the connection is not given back.
SendAllKeeps(w) == SendAll(w) /\ UNCHANGED poolVars

ReleaseAndSend(w) == SendAll(w) /\ Pool!ReleaseConnection(w)

ThreadStep(w) ==
  \/ Step(w) /\ UNCHANGED poolVars
  \/ CreateOwn(w) \/ DestroyAndSend(w)
  \/ Borrow(w) \/ ReleaseAndSend(w)

Environment ==
  \/ \E a \in Addr, row \in Row \cup {None} : WriteTable(a, row) /\ UNCHANGED poolVars
  \/ Pool!ConnectionLost /\ UNCHANGED nodeVars

ServerNext ==
  \/ \E w \in Worker : BootConnect(w) \/ BootRead(w) \/ ThreadStep(w)
  \/ Environment

\* A thread that is in a quest goes on with it; requests, losses and writers of
\* the table are not promised to come or to stop.
ServerSpec ==
  /\ ServerInit /\ [][ServerNext]_serverVars
  /\ \A w \in Worker : WF_serverVars(pc[w] # "idle" /\ ThreadStep(w))

-----------------------------------------------------------------------------
\* Every path of ParseQuest gives its connection back, the refused ones and the
\* answer found in the map included: a thread has a connection of the pool
\* exactly between GetConnection and the reply to a quest for all, and one of
\* its own exactly between CreateConnection and the reply to a quest for one.
NoLeak ==
  ~dead => \A w \in Worker :
    /\ pc[w] # "boot" =>
         (pooled[w] # NULL <=> pc[w] \in {"readAll", "addAll", "insertAll"})
    /\ direct[w] # NULL <=> pc[w] \in {"read", "add", "insert", "send"}

\* A pool with a connection for each thread is large enough: no quest for all
\* masternodes goes unanswered because the limit was reached (only because the
\* database refuses).
PoolSuffices ==
  \A w \in Worker : At(w, "connectAll") =>
    _connList # <<>> \/ _curSize < _maxSize

\* A quest that misses the map, or asks for all, is over in the end: answered,
\* or refused a connection, or the process has ended.
QuestEnds ==
  \A w \in Worker : (pc[w] \in {"connect", "connectAll"}) ~> (pc[w] = "idle" \/ dead)
=============================================================================
