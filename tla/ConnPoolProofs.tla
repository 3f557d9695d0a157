--------------------------- MODULE ConnPoolProofs ---------------------------
(***************************************************************************)
(* Proofs about ConnPool, for any number of threads, connections and any   *)
(* _maxSize.                                                               *)
(***************************************************************************)
EXTENDS ConnPool, FiniteSetTheorems, SequenceTheorems, TLAPS

\* The inductive invariant: the types need the books (a decrement of _curSize
\* stays in Nat) and the books need that Users gains or loses one thread.
PoolInv == PoolTypeOK /\ BooksBalance /\ OneOwner

-----------------------------------------------------------------------------

\* The threads that hold a pooled connection are finitely many.
LEMMA UsersFinite ==
  IsFiniteSet(Users) /\ Cardinality(Users) \in Nat
<1>1. Users \in SUBSET Thread
  BY DEF Users
<1>2. IsFiniteSet(Users)
  BY <1>1, FS_Subset, PoolAssumption
<1> QED
  BY <1>2, FS_CardinalityType

\* A thread that gets a connection is one more user.
LEMMA UserTakes ==
  ASSUME PoolTypeOK, NEW t \in Thread, NEW c \in Conn, pooled[t] = NULL,
         pooled' = [pooled EXCEPT ![t] = c]
  PROVE  Cardinality(Users') = Cardinality(Users) + 1
<1>1. Users' = Users \cup {t} /\ t \notin Users
  BY PoolAssumption DEF PoolTypeOK, Users
<1> QED
  BY <1>1, UsersFinite, FS_AddElement

\* A thread that gives its connection back is one less.
LEMMA UserReturns ==
  ASSUME PoolTypeOK, NEW t \in Thread, pooled[t] # NULL,
         pooled' = [pooled EXCEPT ![t] = NULL]
  PROVE  Cardinality(Users') = Cardinality(Users) - 1
<1>1. Users' = Users \ {t} /\ t \in Users
  BY DEF PoolTypeOK, Users
<1> QED
  BY <1>1, UsersFinite, FS_RemoveElement

\* A NULL from GetConnection changes no user.
LEMMA UserGetsNull ==
  ASSUME PoolTypeOK, NEW t \in Thread, pooled[t] = NULL,
         pooled' = [pooled EXCEPT ![t] = NULL]
  PROVE  pooled' = pooled /\ Users' = Users
  BY DEF PoolTypeOK, Users

\* What the first connection of the list is and what remains.
LEMMA ListHead ==
  ASSUME PoolTypeOK, _connList # <<>>
  PROVE  /\ Head(_connList) \in Conn /\ Head(_connList) = _connList[1]
         /\ Tail(_connList) \in Seq(Conn)
         /\ Len(_connList) \in Nat /\ Len(_connList) >= 1
         /\ Len(Tail(_connList)) = Len(_connList) - 1
         /\ \A i \in 1 .. Len(_connList) - 1 : Tail(_connList)[i] = _connList[i + 1]
<1>1. _connList \in Seq(Conn)
  BY DEF PoolTypeOK
<1> QED
  BY <1>1, _connList # <<>>, HeadTailProperties, EmptySeq

-----------------------------------------------------------------------------

\* The constructor establishes the invariant.
LEMMA PoolInitInv == Init => PoolInv
<1> SUFFICES ASSUME Init PROVE PoolInv
  OBVIOUS
<1>1. PICK n \in 0 .. _maxSize :
        /\ _connList \in [1 .. n -> Conn]
        /\ \A i, j \in 1 .. n : _connList[i] = _connList[j] => i = j
        /\ _curSize = n
  BY DEF Init
<1>2. _connList \in Seq(Conn) /\ Len(_connList) = n /\ DOMAIN _connList = 1 .. n
  BY <1>1
<1>3. Users = {} /\ Held(pooled) = {} /\ Held(direct) = {}
  BY DEF Init, Users, Held
<1>4. PoolTypeOK
  BY <1>1, <1>2 DEF Init, PoolTypeOK
<1>5. BooksBalance
  BY <1>1, <1>2, <1>3, FS_EmptySet, PoolAssumption DEF BooksBalance
<1>6. OneOwner
  BY <1>1, <1>2, <1>3 DEF OneOwner, Init
<1> QED
  BY <1>4, <1>5, <1>6 DEF PoolInv

\* GetConnection with a connection in the list.
LEMMA GetListedInv ==
  ASSUME PoolInv, NEW t \in Thread, GetListed(t)
  PROVE  PoolInv'
<1> DEFINE con == Head(_connList)
<1>0. PoolTypeOK /\ BooksBalance /\ OneOwner
  BY DEF PoolInv
<1>1. /\ pooled[t] = NULL /\ _connList # <<>> /\ _connList' = Tail(_connList)
      /\ closed' = closed \ {con} /\ direct' = direct
  BY DEF GetListed
<1>2. /\ con \in Conn /\ con = _connList[1]
      /\ Tail(_connList) \in Seq(Conn)
      /\ Len(_connList) \in Nat /\ Len(_connList) >= 1
      /\ Len(Tail(_connList)) = Len(_connList) - 1
      /\ \A i \in 1 .. Len(_connList) - 1 : Tail(_connList)[i] = _connList[i + 1]
  BY <1>0, <1>1, ListHead
<1>3. DOMAIN _connList = 1 .. Len(_connList) /\ DOMAIN _connList' = 1 .. Len(_connList) - 1
  BY <1>0, <1>1, <1>2, LenProperties DEF PoolTypeOK
<1>4. /\ Listed' \subseteq Listed /\ con \in Listed /\ con \notin Listed'
      /\ \A i, j \in DOMAIN _connList' : _connList'[i] = _connList'[j] => i = j
  BY <1>0, <1>1, <1>2, <1>3 DEF Listed, OneOwner
<1>5. PICK c \in Conn \cup {NULL} :
        /\ pooled' = [pooled EXCEPT ![t] = c]
        /\ _curSize' = IF c = NULL THEN _curSize - 1 ELSE _curSize
        /\ c \notin Live \ {con}
  <2>1. CASE con \in closed
    <3>1. NULL \notin Live
      BY <1>0, PoolAssumption, LenProperties DEF PoolTypeOK, Live, Listed, Held
    <3> QED
      BY <2>1, <3>1 DEF GetListed, CreateConnection
  <2>2. CASE con \notin closed
    BY <2>2, <1>2, PoolAssumption DEF GetListed
  <2> QED
    BY <2>1, <2>2
<1>6. BooksBalance' /\ _curSize' \in Nat
  <2>1. Cardinality(Users') = IF c = NULL THEN Cardinality(Users) ELSE Cardinality(Users) + 1
    <3>1. CASE c = NULL
      BY <3>1, <1>0, <1>1, <1>5, UserGetsNull
    <3>2. CASE c # NULL
      BY <3>2, <1>0, <1>1, <1>5, UserTakes
    <3> QED
      BY <3>1, <3>2
  <2>2. Cardinality(Users) \in Nat
    BY UsersFinite
  <2> QED
    BY <2>1, <2>2, <1>0, <1>1, <1>2, <1>5, PoolAssumption DEF BooksBalance, PoolTypeOK
<1>7. PoolTypeOK'
  BY <1>0, <1>1, <1>2, <1>5, <1>6 DEF PoolTypeOK
<1>8. OneOwner'
  <2>1. Held(direct)' = Held(direct)
    BY <1>1 DEF Held
  <2>2. Held(pooled)' \subseteq Held(pooled) \cup {c}
    BY <1>0, <1>5 DEF Held, PoolTypeOK
  <2>3. con \notin Held(pooled) /\ con \notin Held(direct)
    BY <1>0, <1>4 DEF OneOwner
  <2>4. c \notin Listed' /\ c \notin Held(pooled) /\ c \notin Held(direct)
    BY <1>4, <1>5, <2>3 DEF Live
  <2>5. \A u, v \in Thread : pooled'[u] # NULL /\ pooled'[u] = pooled'[v] => u = v
    <3> SUFFICES ASSUME NEW u \in Thread, NEW v \in Thread,
                        pooled'[u] # NULL, pooled'[u] = pooled'[v]
                 PROVE  u = v
      OBVIOUS
    <3>1. \A w \in Thread : w # t => pooled'[w] = pooled[w]
      BY <1>0, <1>5 DEF PoolTypeOK
    <3>2. pooled'[t] = c
      BY <1>0, <1>5 DEF PoolTypeOK
    <3>3. \A w \in Thread : w # t /\ pooled[w] # NULL => pooled[w] # c
      BY <2>4 DEF Held
    <3> QED
      BY <3>1, <3>2, <3>3, <1>0 DEF OneOwner
  <2> QED
    BY <1>0, <1>1, <1>4, <2>1, <2>2, <2>3, <2>4, <2>5 DEF OneOwner
<1> QED
  BY <1>6, <1>7, <1>8 DEF PoolInv

\* GetConnection with an empty list and room for a new connection.
LEMMA GetNewInv ==
  ASSUME PoolInv, NEW t \in Thread, GetNew(t)
  PROVE  PoolInv'
<1>0. PoolTypeOK /\ BooksBalance /\ OneOwner
  BY DEF PoolInv
<1>1. /\ pooled[t] = NULL /\ _connList' = _connList /\ _curSize < _maxSize
      /\ closed' = closed /\ direct' = direct
  BY DEF GetNew
<1>2. PICK c \in Conn \cup {NULL} :
        /\ pooled' = [pooled EXCEPT ![t] = c]
        /\ _curSize' = IF c = NULL THEN _curSize ELSE _curSize + 1
        /\ c \notin Live
  <2>1. NULL \notin Live
    BY <1>0, PoolAssumption, LenProperties DEF PoolTypeOK, Live, Listed, Held
  <2> QED
    BY <2>1 DEF GetNew, CreateConnection
<1>3. Listed' = Listed /\ Held(direct)' = Held(direct)
  BY <1>1 DEF Listed, Held
<1>4. BooksBalance' /\ _curSize' \in Nat
  <2>1. Cardinality(Users') = IF c = NULL THEN Cardinality(Users) ELSE Cardinality(Users) + 1
    <3>1. CASE c = NULL
      BY <3>1, <1>0, <1>1, <1>2, UserGetsNull
    <3>2. CASE c # NULL
      BY <3>2, <1>0, <1>1, <1>2, UserTakes
    <3> QED
      BY <3>1, <3>2
  <2>2. Cardinality(Users) \in Nat /\ Len(_connList) \in Nat
    BY <1>0, UsersFinite, LenProperties DEF PoolTypeOK
  <2> QED
    BY <2>1, <2>2, <1>0, <1>1, <1>2, PoolAssumption DEF BooksBalance, PoolTypeOK
<1>5. PoolTypeOK'
  BY <1>0, <1>1, <1>2, <1>4 DEF PoolTypeOK
<1>6. OneOwner'
  <2>1. Held(pooled)' \subseteq Held(pooled) \cup {c}
    BY <1>0, <1>2 DEF Held, PoolTypeOK
  <2>2. c \notin Listed /\ c \notin Held(pooled) /\ c \notin Held(direct)
    BY <1>2 DEF Live
  <2>3. \A u, v \in Thread : pooled'[u] # NULL /\ pooled'[u] = pooled'[v] => u = v
    <3>1. /\ pooled'[t] = c
          /\ \A w \in Thread : w # t => pooled'[w] = pooled[w]
      BY <1>0, <1>2 DEF PoolTypeOK
    <3>2. \A w \in Thread : pooled[w] # NULL => pooled[w] # c
      BY <2>2 DEF Held
    <3> QED
      BY <3>1, <3>2, <1>0 DEF OneOwner
  <2> QED
    BY <1>0, <1>1, <1>3, <2>1, <2>2, <2>3 DEF OneOwner
<1> QED
  BY <1>4, <1>5, <1>6 DEF PoolInv

\* ReleaseConnection puts the thread's connection at the end of the list.
LEMMA ReleaseInv ==
  ASSUME PoolInv, NEW t \in Thread, ReleaseConnection(t)
  PROVE  PoolInv'
<1> DEFINE con == pooled[t]
<1>0. PoolTypeOK /\ BooksBalance /\ OneOwner
  BY DEF PoolInv
<1>1. /\ con # NULL /\ _connList' = Append(_connList, con)
      /\ pooled' = [pooled EXCEPT ![t] = NULL]
      /\ _curSize' = _curSize /\ closed' = closed /\ direct' = direct
  BY DEF ReleaseConnection
<1>2. con \in Conn /\ con \in Held(pooled) /\ con \notin Listed /\ con \notin Held(direct)
  BY <1>0, <1>1 DEF PoolTypeOK, Held, OneOwner
<1>3. /\ _connList \in Seq(Conn) /\ Len(_connList) \in Nat
      /\ DOMAIN _connList = 1 .. Len(_connList)
      /\ _connList' \in Seq(Conn) /\ Len(_connList') = Len(_connList) + 1
      /\ DOMAIN _connList' = 1 .. Len(_connList) + 1
      /\ _connList'[Len(_connList) + 1] = con
      /\ \A i \in 1 .. Len(_connList) : _connList'[i] = _connList[i]
  BY <1>0, <1>1, <1>2, LenProperties, AppendProperties DEF PoolTypeOK
<1>4. BooksBalance'
  <2>1. Cardinality(Users') = Cardinality(Users) - 1
    BY <1>0, <1>1, UserReturns
  <2>2. Cardinality(Users) \in Nat
    BY UsersFinite
  <2> QED
    BY <2>1, <2>2, <1>0, <1>1, <1>3, PoolAssumption DEF BooksBalance, PoolTypeOK
<1>5. PoolTypeOK'
  BY <1>0, <1>1, <1>3 DEF PoolTypeOK
<1>6. OneOwner'
  <2>1. Listed' = Listed \cup {con}
    BY <1>3 DEF Listed
  <2>2. Held(direct)' = Held(direct)
    BY <1>1 DEF Held
  <2>3. Held(pooled)' \subseteq Held(pooled) /\ con \notin Held(pooled)'
    BY <1>0, <1>1 DEF Held, PoolTypeOK, OneOwner
  <2>4. \A i, j \in DOMAIN _connList' : _connList'[i] = _connList'[j] => i = j
    <3>1. \A i \in 1 .. Len(_connList) : _connList[i] # con
      BY <1>2, <1>3 DEF Listed
    <3> QED
      BY <3>1, <1>0, <1>3 DEF OneOwner
  <2>5. \A u, v \in Thread : pooled'[u] # NULL /\ pooled'[u] = pooled'[v] => u = v
    BY <1>0, <1>1 DEF OneOwner, PoolTypeOK
  <2>6. /\ Listed' \cap Held(pooled)' = {} /\ Listed' \cap Held(direct)' = {}
        /\ Held(pooled)' \cap Held(direct)' = {}
    <3>1. /\ Listed \cap Held(pooled) = {} /\ Listed \cap Held(direct) = {}
          /\ Held(pooled) \cap Held(direct) = {}
      BY <1>0 DEF OneOwner
    <3> QED
      BY <3>1, <1>2, <2>1, <2>2, <2>3
  <2>7. \A u, v \in Thread : direct'[u] # NULL /\ direct'[u] = direct'[v] => u = v
    BY <1>0, <1>1 DEF OneOwner
  <2> QED
    BY <2>4, <2>5, <2>6, <2>7 DEF OneOwner
<1> QED
  BY <1>4, <1>5, <1>6 DEF PoolInv

\* CreateConnection past the pool.
LEMMA CreateDirectInv ==
  ASSUME PoolInv, NEW t \in Thread, CreateDirect(t)
  PROVE  PoolInv'
<1>0. PoolTypeOK /\ BooksBalance /\ OneOwner
  BY DEF PoolInv
<1>1. _connList' = _connList /\ _curSize' = _curSize /\ closed' = closed /\ pooled' = pooled
  BY DEF CreateDirect
<1>2. PICK c \in Conn \cup {NULL} : direct' = [direct EXCEPT ![t] = c] /\ c \notin Live
  <2>1. NULL \notin Live
    BY <1>0, PoolAssumption, LenProperties DEF PoolTypeOK, Live, Listed, Held
  <2> QED
    BY <2>1 DEF CreateDirect, CreateConnection
<1>3. Users' = Users /\ Listed' = Listed /\ Held(pooled)' = Held(pooled)
  BY <1>1 DEF Users, Listed, Held
<1>4. /\ direct'[t] = c
      /\ \A w \in Thread : w # t => direct'[w] = direct[w]
  BY <1>0, <1>2 DEF PoolTypeOK
<1>5. c \notin Listed /\ c \notin Held(pooled) /\ c \notin Held(direct)
  BY <1>2 DEF Live
<1>6. Held(direct)' \subseteq Held(direct) \cup {c}
  BY <1>4 DEF Held
<1>7. \A u, v \in Thread : direct'[u] # NULL /\ direct'[u] = direct'[v] => u = v
  <2>1. \A w \in Thread : direct[w] # NULL => direct[w] # c
    BY <1>5 DEF Held
  <2> QED
    BY <2>1, <1>4, <1>0 DEF OneOwner
<1>8. OneOwner'
  BY <1>0, <1>1, <1>3, <1>5, <1>6, <1>7 DEF OneOwner
<1>9. PoolTypeOK' /\ BooksBalance'
  BY <1>0, <1>1, <1>2, <1>3 DEF PoolTypeOK, BooksBalance
<1> QED
  BY <1>8, <1>9 DEF PoolInv

\* DestroyConnection of such a connection.
LEMMA DestroyInv ==
  ASSUME PoolInv, NEW t \in Thread, DestroyConnection(t)
  PROVE  PoolInv'
<1>0. PoolTypeOK /\ BooksBalance /\ OneOwner
  BY DEF PoolInv
<1>1. /\ _connList' = _connList /\ _curSize' = _curSize /\ pooled' = pooled
      /\ closed' \subseteq closed /\ direct' = [direct EXCEPT ![t] = NULL]
  BY DEF DestroyConnection
<1>2. Users' = Users /\ Listed' = Listed /\ Held(pooled)' = Held(pooled)
  BY <1>1 DEF Users, Listed, Held
<1>3. Held(direct)' \subseteq Held(direct)
  BY <1>0, <1>1 DEF Held, PoolTypeOK
<1>4. OneOwner'
  BY <1>0, <1>1, <1>2, <1>3 DEF OneOwner, PoolTypeOK
<1>5. PoolTypeOK' /\ BooksBalance'
  BY <1>0, <1>1, <1>2 DEF PoolTypeOK, BooksBalance
<1> QED
  BY <1>4, <1>5 DEF PoolInv

\* A step that leaves the list, the count and the holders alone.
LEMMA BooksUntouched ==
  ASSUME PoolInv, closed' \subseteq Conn,
         UNCHANGED <<_connList, _curSize, pooled, direct>>
  PROVE  PoolInv'
<1>1. Users' = Users /\ Listed' = Listed
  BY DEF Users, Listed
<1>2. Held(pooled)' = Held(pooled) /\ Held(direct)' = Held(direct)
  BY DEF Held
<1>3. PoolTypeOK' /\ BooksBalance'
  BY <1>1 DEF PoolInv, PoolTypeOK, BooksBalance
<1>4. OneOwner'
  BY <1>1, <1>2 DEF PoolInv, OneOwner
<1> QED
  BY <1>3, <1>4 DEF PoolInv

\* One step of any thread, or of the server, preserves the invariant.
LEMMA PoolStepInv == PoolInv /\ [Next]_poolVars => PoolInv'
<1> SUFFICES ASSUME PoolInv, [Next]_poolVars PROVE PoolInv'
  OBVIOUS
<1>1. ASSUME NEW t \in Thread, GetListed(t) PROVE PoolInv'
  BY <1>1, GetListedInv
<1>2. ASSUME NEW t \in Thread, GetNew(t) PROVE PoolInv'
  BY <1>2, GetNewInv
<1>3. closed \subseteq Conn /\ Live \subseteq Conn
  BY PoolAssumption, LenProperties DEF PoolInv, PoolTypeOK, Live, Listed, Held
<1>4. ASSUME NEW t \in Thread, GetRefused(t) PROVE PoolInv'
  BY <1>3, <1>4, BooksUntouched DEF GetRefused, poolVars
<1>5. ASSUME NEW t \in Thread, ReleaseConnection(t) PROVE PoolInv'
  BY <1>5, ReleaseInv
<1>6. ASSUME NEW t \in Thread, CreateDirect(t) PROVE PoolInv'
  BY <1>6, CreateDirectInv
<1>7. ASSUME NEW t \in Thread, DestroyConnection(t) PROVE PoolInv'
  BY <1>7, DestroyInv
<1>8. CASE ConnectionLost
  BY <1>3, <1>8, BooksUntouched DEF ConnectionLost
<1>9. CASE UNCHANGED poolVars
  BY <1>3, <1>9, BooksUntouched DEF poolVars
<1> QED
  BY <1>1, <1>2, <1>4, <1>5, <1>6, <1>7, <1>8, <1>9 DEF Next, GetConnection

\* The inductive invariant holds in every reachable state of the pool.
THEOREM PoolInvariant == Spec => []PoolInv
  BY PoolInitInv, PoolStepInv, PTL DEF Spec

\* GetConnection, ReleaseConnection and the losses between them keep
\* _curSize equal to the connections listed and lent, and within _maxSize.
THEOREM PoolBooks == Spec => []BooksBalance
<1>1. PoolInv => BooksBalance
  BY DEF PoolInv
<1> QED
  BY <1>1, PoolInvariant, PTL

\* No connection is ever in two hands.
THEOREM PoolOneOwner == Spec => []OneOwner
<1>1. PoolInv => OneOwner
  BY DEF PoolInv
<1> QED
  BY <1>1, PoolInvariant, PTL
=============================================================================
