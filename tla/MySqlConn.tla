------------------------------ MODULE MySqlConn ------------------------------
(***************************************************************************)
(* MySQLConnection.cc: execute with its reconnects, and multiInsert, which *)
(* sends its rows in several statements.  The server goes away and comes   *)
(* back at any time, and a statement whose connection is lost may have     *)
(* been applied.  A statement is modelled by the rows it inserts.          *)
(***************************************************************************)
EXTENDS Naturals, Sequences, FiniteSets, SequencesExt

CONSTANTS
  RowLength,  \* sequence: the lengths of the rows, commas included
  MaxPacket,  \* 16 MB less the prefix: a statement this long is sent
  AtCall,     \* the connections a call may find: "null" before the first
              \* open(), "open" after it
  MaxOutages  \* bound: how often the server goes away

ASSUME ConnAssumption ==
  /\ RowLength \in Seq(Nat \ {0}) /\ RowLength # <<>>
  /\ MaxPacket \in Nat \ {0} /\ MaxOutages \in Nat
  /\ AtCall \subseteq {"null", "open"}

VARIABLES
  conn,        \* "null", "open" or "broken"
  reachable,   \* the server can be connected to
  pc,          \* "build", "query", "retry" or "done"
  next,        \* multiInsert: the row to add next
  batch,       \* multiInsert: the rows of the statement under construction
  queryTimes,  \* execute: how often the statement was sent
  applied,     \* history: the statements the server executed
  lost,        \* history: those of them, by position, whose answer was lost
  result,      \* what multiInsert returned
  dead,        \* a null MYSQL was used
  outages      \* history

connVars == <<conn, reachable, pc, next, batch, queryTimes, applied, lost,
              result, dead, outages>>

Rows == 1 .. Len(RowLength)

ConnInit ==
  /\ conn \in AtCall /\ reachable \in BOOLEAN
  /\ conn = "open" => reachable
  /\ pc = "build" /\ next = 1 /\ batch = <<>>
  /\ queryTimes = 0 /\ applied = <<>> /\ lost = {}
  /\ result = FALSE /\ dead = FALSE /\ outages = 0

-----------------------------------------------------------------------------
(* multiInsert.                                                            *)

LengthOf(b) == FoldLeft(+, 0, [k \in DOMAIN b |-> RowLength[b[k]]])

\* A row is added; a statement that has become long enough goes to execute.
AddRow ==
  /\ pc = "build" /\ next \in Rows
  /\ next' = next + 1
  /\ batch' = Append(batch, next)
  /\ pc' = IF LengthOf(batch') >= MaxPacket THEN "query" ELSE "build"
  /\ queryTimes' = 0
  /\ UNCHANGED <<conn, reachable, applied, lost, result, dead, outages>>

\* Mutant: the rows left over at the end are forgotten.
LastRowsForgotten ==
  /\ pc = "build" /\ next \notin Rows
  /\ pc' = "done" /\ result' = TRUE
  /\ UNCHANGED <<conn, reachable, next, batch, queryTimes, applied, lost, dead, outages>>

\* After the last row: what is left is sent, or there is nothing left.
LastRows ==
  /\ pc = "build" /\ next \notin Rows
  /\ IF batch # <<>>
     THEN pc' = "query" /\ queryTimes' = 0 /\ UNCHANGED result
     ELSE pc' = "done" /\ result' = TRUE /\ UNCHANGED queryTimes
  /\ UNCHANGED <<conn, reachable, next, batch, applied, lost, dead, outages>>

\* Mutant: the statement is not started afresh.
ReturnedKept(ok) ==
  IF ok THEN /\ pc' = (IF next \in Rows THEN "build" ELSE "done")
             /\ result' = (next \notin Rows) /\ UNCHANGED batch
        ELSE pc' = "done" /\ result' = FALSE /\ UNCHANGED batch

\* execute returned: true goes on with an empty statement, false ends the call.
Returned(ok) ==
  IF ok THEN pc' = "build" /\ batch' = <<>> /\ UNCHANGED result
        ELSE pc' = "done" /\ result' = FALSE /\ UNCHANGED batch

-----------------------------------------------------------------------------
(* execute.                                                                *)

\* open() when there is no connection; what it returns is not looked at.
Opened == IF conn # "null" THEN conn
          ELSE IF reachable THEN "open" ELSE "null"

Send == queryTimes' = queryTimes + 1

\* The connection could not be opened: mysql_query is given a null pointer.
QueryNull ==
  /\ pc = "query" /\ Opened = "null"
  /\ dead' = TRUE /\ pc' = "done"
  /\ UNCHANGED <<conn, reachable, next, batch, queryTimes, applied, lost, result, outages>>

\* The server executes the statement and says so.
QueryDone ==
  /\ pc = "query" /\ Opened = "open" /\ reachable
  /\ conn' = "open" /\ Send
  /\ applied' = Append(applied, batch)
  /\ Returned(TRUE)
  /\ UNCHANGED <<reachable, next, lost, dead, outages>>

\* The server refuses the statement: not a network error.
QueryRefused ==
  /\ pc = "query" /\ Opened = "open" /\ reachable
  /\ conn' = "open" /\ Send
  /\ Returned(FALSE)
  /\ UNCHANGED <<reachable, next, applied, lost, dead, outages>>

\* Errors 2006 and 2013: the connection is gone; in the second case the server
\* may have executed the statement.
QueryLost ==
  /\ pc = "query" /\ Opened # "null"
  /\ conn' = "broken" /\ Send
  /\ \/ UNCHANGED <<applied, lost>>
     \/ /\ Opened = "open"
        /\ applied' = Append(applied, batch)
        /\ lost' = lost \cup {Len(applied')}
  /\ pc' = "retry"
  /\ UNCHANGED <<reachable, next, batch, result, dead, outages>>

\* Mutant: the count starts again with every new connection.  (The call still
\* gives up after three lost answers, which keeps the mutant's states finite.)
RetryUncounted ==
  /\ pc = "retry"
  /\ IF Cardinality(lost) < 3
     THEN conn' = "null" /\ pc' = "query" /\ queryTimes' = 0 /\ UNCHANGED <<batch, result>>
     ELSE Returned(FALSE) /\ UNCHANGED <<conn, queryTimes>>
  /\ UNCHANGED <<reachable, next, applied, lost, dead, outages>>

\* Mutant: the limit is off by one.
RetryOnceMore ==
  /\ pc = "retry"
  /\ IF queryTimes <= 4
     THEN conn' = "null" /\ pc' = "query" /\ UNCHANGED <<batch, result>>
     ELSE Returned(FALSE) /\ UNCHANGED conn
  /\ UNCHANGED <<reachable, next, queryTimes, applied, lost, dead, outages>>

\* After sleep(10), mysql_ping fails (automatic reconnection is off), so the
\* connection is closed and the statement sent again, up to four times in all.
Retry ==
  /\ pc = "retry"
  /\ IF queryTimes <= 3
     THEN conn' = "null" /\ pc' = "query" /\ UNCHANGED <<batch, result>>
     ELSE Returned(FALSE) /\ UNCHANGED conn
  /\ UNCHANGED <<reachable, next, queryTimes, applied, lost, dead, outages>>

-----------------------------------------------------------------------------
\* The server goes away, with every connection to it, and comes back.
GoesAway ==
  /\ reachable /\ outages < MaxOutages
  /\ reachable' = FALSE /\ outages' = outages + 1
  /\ conn' = IF conn = "open" THEN "broken" ELSE conn
  /\ UNCHANGED <<pc, next, batch, queryTimes, applied, lost, result, dead>>

ComesBack ==
  /\ ~reachable /\ reachable' = TRUE
  /\ UNCHANGED <<conn, pc, next, batch, queryTimes, applied, lost, result, dead, outages>>

Call == \/ AddRow \/ LastRows
        \/ QueryNull \/ QueryDone \/ QueryRefused \/ QueryLost \/ Retry

ConnNext == Call \/ GoesAway \/ ComesBack

\* The calling thread runs.
ConnSpec == ConnInit /\ [][ConnNext]_connVars /\ WF_connVars(Call)

-----------------------------------------------------------------------------
Interval(b) == b # <<>> /\ \A k \in DOMAIN b : b[k] = b[1] + k - 1

\* The variables have their types, and execute sends a statement at most four
\* times.
ConnTypeOK ==
  /\ conn \in {"null", "open", "broken"} /\ reachable \in BOOLEAN
  /\ pc \in {"build", "query", "retry", "done"}
  /\ next \in 1 .. Len(RowLength) + 1
  /\ batch \in Seq(Rows) /\ applied \in Seq(Seq(Rows))
  /\ queryTimes \in 0 .. 4
  /\ lost \subseteq DOMAIN applied
  /\ result \in BOOLEAN /\ dead \in BOOLEAN /\ outages \in 0 .. MaxOutages

\* multiInsert through lost connections: the server sees the rows in order and
\* without gaps, a statement only ever repeated before the next one; and when
\* the call returns true every row has been inserted.
RowsWhole ==
  /\ \A k \in DOMAIN applied :
       /\ Interval(applied[k])
       /\ \/ k = 1 /\ applied[k][1] = 1
          \/ k > 1 /\ applied[k] = applied[k - 1]
          \/ k > 1 /\ applied[k][1] = Last(applied[k - 1]) + 1
  /\ result => applied # <<>> /\ Last(Last(applied)) = Len(RowLength)

\* A row is inserted again only after a statement that inserted it and whose
\* own answer was lost: execute never repeats a statement it has seen succeed.
RepeatedOnlyIfLost ==
  \A j, k \in DOMAIN applied :
    j < k /\ Range(applied[j]) \cap Range(applied[k]) # {} => j \in lost

\* The call does not go on for ever, however often the server goes away: it
\* returns, or the process dies in it (QueryNull).
CallEnds == <>(pc = "done")

\* The comments in execute, "use mysql_ping() to reconnnect" and "rds switch
\* master-slave usually take about 20 seconds": a server that is away for a
\* while costs time or the result, not the process.
SurvivesOutage == ~dead
=============================================================================
