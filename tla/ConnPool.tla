------------------------------ MODULE ConnPool ------------------------------
(***************************************************************************)
(* The MySQL connection pool of libdbadapter/connection_pool.cpp, used by  *)
(* the threads of ulordcenter.  GetConnection and ReleaseConnection run    *)
(* under _lock, so each is one step.  CreateConnection and                 *)
(* DestroyConnection are public and take no lock: MST_QUEST_ONE uses them  *)
(* directly and its connections are not in the pool's books.               *)
(***************************************************************************)
EXTENDS Naturals, Sequences, FiniteSets

CONSTANTS
  Thread,    \* the threads that handle requests
  Conn,      \* sql::Connection objects
  NULL,
  _maxSize   \* nThread * 2 in ulordcenter

ASSUME PoolAssumption ==
  /\ IsFiniteSet(Thread)
  /\ NULL \notin Conn
  /\ _maxSize \in Nat

VARIABLES
  _connList,  \* the connections nobody uses, in the order they are reused
  _curSize,   \* the pool's count of its connections
  closed,     \* connections whose isClosed() is true
  pooled,     \* per thread: what it got from GetConnection and holds
  direct      \* per thread: what it got from CreateConnection and holds

poolVars == <<_connList, _curSize, closed, pooled, direct>>

Listed == {_connList[i] : i \in DOMAIN _connList}
Held(m) == {m[t] : t \in Thread} \ {NULL}
Live == Listed \cup Held(pooled) \cup Held(direct)
Users == {t \in Thread : pooled[t] # NULL}

\* Mutant: an object kept from an earlier call is handed out again.
CreateConnectionKept(live) == Conn \cup {NULL}

\* _driver->connect: a new object, or NULL when the server refuses.
CreateConnection(live) == (Conn \ live) \cup {NULL}

\* The constructor: InitConnection(maxSize) tries _maxSize connections and
\* keeps those that succeed.
Init ==
  /\ \E n \in 0 .. _maxSize :
       /\ _connList \in [1 .. n -> Conn]
       /\ \A i, j \in 1 .. n : _connList[i] = _connList[j] => i = j
       /\ _curSize = n
  /\ closed = {}
  /\ pooled = [t \in Thread |-> NULL]
  /\ direct = [t \in Thread |-> NULL]

\* Mutant: a connection that could not be replaced stays in the books.
GetListedUncounted(t) ==
  LET con == Head(_connList) IN
  /\ pooled[t] = NULL
  /\ _connList # <<>>
  /\ _connList' = Tail(_connList)
  /\ \E c \in IF con \in closed THEN CreateConnection(Live \ {con}) ELSE {con} :
       pooled' = [pooled EXCEPT ![t] = c]
  /\ closed' = closed \ {con}
  /\ UNCHANGED <<_curSize, direct>>

\* The first listed connection; one found closed is deleted and replaced, and
\* leaves the books if that fails.
GetListed(t) ==
  LET con == Head(_connList) IN
  /\ pooled[t] = NULL
  /\ _connList # <<>>
  /\ _connList' = Tail(_connList)
  /\ IF con \in closed
     THEN \E c \in CreateConnection(Live \ {con}) :
            /\ pooled' = [pooled EXCEPT ![t] = c]
            /\ _curSize' = IF c = NULL THEN _curSize - 1 ELSE _curSize
     ELSE pooled' = [pooled EXCEPT ![t] = con] /\ UNCHANGED _curSize
  /\ closed' = closed \ {con}
  /\ UNCHANGED direct

\* No connection is listed: a new one up to _maxSize, NULL otherwise.
GetNew(t) ==
  /\ pooled[t] = NULL
  /\ _connList = <<>>
  /\ _curSize < _maxSize
  /\ \E c \in CreateConnection(Live) :
       /\ pooled' = [pooled EXCEPT ![t] = c]
       /\ _curSize' = IF c = NULL THEN _curSize ELSE _curSize + 1
  /\ UNCHANGED <<_connList, closed, direct>>

\* Nothing is listed and the limit is reached: NULL, and nothing changes.
GetRefused(t) ==
  /\ pooled[t] = NULL
  /\ _connList = <<>>
  /\ _curSize >= _maxSize
  /\ UNCHANGED poolVars

GetConnection(t) == GetListed(t) \/ GetNew(t) \/ GetRefused(t)

\* Mutant: what GetConnection returned is given back unasked, NULL too.
ReleaseUnasked(t) ==
  /\ _connList' = Append(_connList, pooled[t])
  /\ pooled' = [pooled EXCEPT ![t] = NULL]
  /\ UNCHANGED <<_curSize, closed, direct>>

\* A connection goes to the end of the list; NULL is ignored.
ReleaseConnection(t) ==
  /\ pooled[t] # NULL
  /\ _connList' = Append(_connList, pooled[t])
  /\ pooled' = [pooled EXCEPT ![t] = NULL]
  /\ UNCHANGED <<_curSize, closed, direct>>

\* CreateConnection called by a request, past the pool.
CreateDirect(t) ==
  /\ direct[t] = NULL
  /\ \E c \in CreateConnection(Live) : direct' = [direct EXCEPT ![t] = c]
  /\ UNCHANGED <<_connList, _curSize, closed, pooled>>

DestroyConnection(t) ==
  /\ direct[t] # NULL
  /\ closed' = closed \ {direct[t]}
  /\ direct' = [direct EXCEPT ![t] = NULL]
  /\ UNCHANGED <<_connList, _curSize, pooled>>

\* The server or the network ends a connection at any time.
ConnectionLost ==
  /\ \E c \in Live \ closed : closed' = closed \cup {c}
  /\ UNCHANGED <<_connList, _curSize, pooled, direct>>

Next ==
  \/ \E t \in Thread : \/ GetConnection(t) \/ ReleaseConnection(t)
                       \/ CreateDirect(t) \/ DestroyConnection(t)
  \/ ConnectionLost
Spec == Init /\ [][Next]_poolVars

-----------------------------------------------------------------------------
(* Properties.                                                             *)

\* The variables have their types.
PoolTypeOK ==
  /\ _connList \in Seq(Conn)
  /\ _curSize \in Nat
  /\ closed \subseteq Conn
  /\ pooled \in [Thread -> Conn \cup {NULL}]
  /\ direct \in [Thread -> Conn \cup {NULL}]

\* The books balance after any history of losses, refusals and reconnects:
\* _curSize counts the listed and the lent connections, and never passes
\* _maxSize.  (A miscount in GetConnection would starve the pool for good or
\* let it grow past its limit.)
BooksBalance ==
  /\ _curSize = Len(_connList) + Cardinality(Users)
  /\ _curSize <= _maxSize

\* A connection has one owner: it is listed once, or lent to one thread, or
\* a thread's own; a MySQL connection is not to be used by two threads.
OneOwner ==
  /\ \A i, j \in DOMAIN _connList : _connList[i] = _connList[j] => i = j
  /\ \A t, u \in Thread : pooled[t] # NULL /\ pooled[t] = pooled[u] => t = u
  /\ \A t, u \in Thread : direct[t] # NULL /\ direct[t] = direct[u] => t = u
  /\ Listed \cap Held(pooled) = {}
  /\ Listed \cap Held(direct) = {}
  /\ Held(pooled) \cap Held(direct) = {}
=============================================================================
