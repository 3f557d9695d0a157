------------------------------ MODULE IdleList ------------------------------
(***************************************************************************)
(* The connections of ulordcenter/server.cc: connectionList_, the time     *)
(* stamp and list position kept in each connection's context, and the      *)
(* timer that cuts the old ones.  std::list is modelled by its links: the  *)
(* server runs onConnection in the loop that owns the connection and       *)
(* onTimer in the base loop, with no lock between them, so with            *)
(* nThread > 1 the stores of two callbacks interleave.  With nThread <= 1  *)
(* every connection belongs to the base loop and callbacks never overlap.  *)
(***************************************************************************)
EXTENDS Integers, FiniteSets

CONSTANTS
  Conn,         \* TcpConnection objects; also the list node each one adds
  End,          \* the list's own node, connectionList_.end()
  Loop,         \* event loops, one thread each
  BaseLoop,     \* the loop of main(), which runs onTimer
  LoopChoices,  \* the connections that may arrive, and the loop of each
  idleSeconds_, \* 60 in ulordmain.cpp
  LastOpen,     \* bound: no connection arrives after this time
  MaxNow,       \* bound: the clock stops here
  MaxJump       \* bound: by how much in all the clock is ever set back

ASSUME IdleAssumption ==
  /\ End \notin Conn
  /\ BaseLoop \in Loop
  /\ \A f \in LoopChoices : DOMAIN f \subseteq Conn /\ \A c \in DOMAIN f : f[c] \in Loop
  /\ idleSeconds_ \in Nat
  /\ LastOpen \in Nat /\ MaxNow \in Nat /\ MaxJump \in Nat

VARIABLES
  loopOf,    \* the loop of each connection that may arrive, by nThread
  now,       \* the system clock
  jumped,    \* by how much it has been set back
  state,     \* per connection: "new", "up", "closing" (shut down) or "down"
  forced,    \* connections with a forced close pending
  last,      \* lastReceiveTime of the connection's context
  position,  \* the list node the context points to; End: no context yet
  next, prev,\* the links of the list
  live,      \* list nodes that are allocated
  cb,        \* per loop: the callback it is in, and where
  aborted,   \* a freed list node or an empty context was used
  overlapped \* history: two callbacks have been in progress at once

world == <<loopOf, now, jumped>>
list == <<next, prev, live>>
idleVars == <<world, state, forced, last, position, list, cb, aborted, overlapped>>

Node == Conn \cup {End}
Idle == [pc |-> "idle", node |-> End, at |-> 0]
Ready(l) == ~aborted /\ cb[l] = Idle
In(l, pc) == ~aborted /\ cb[l].pc = pc
Goto(l, pc, n, t) == cb' = [cb EXCEPT ![l] = [pc |-> pc, node |-> n, at |-> t]]
Return(l) == cb' = [cb EXCEPT ![l] = Idle]
Started == overlapped' = (overlapped \/ \E l \in Loop : cb[l] # Idle)

\* The variables have their types, and onTimer sets up a forced close only for a
\* connection it has shut down and that is still open.
IdleTypeOK ==
  /\ loopOf \in LoopChoices
  /\ now \in Int /\ jumped \in 0 .. MaxJump
  /\ state \in [Conn -> {"new", "up", "closing", "down"}]
  /\ forced \subseteq {c \in Conn : state[c] = "closing"}
  /\ last \in [Conn -> Int]
  /\ position \in [Conn -> Node]
  /\ next \in [Node -> Node] /\ prev \in [Node -> Node]
  /\ live \subseteq Conn
  /\ cb \in [Loop -> [pc : {"idle", "hook", "close", "context", "unhook",
                            "timer", "expired"}, node : Node, at : Int]]
  /\ aborted \in BOOLEAN /\ overlapped \in BOOLEAN

IdleInit ==
  /\ loopOf \in LoopChoices
  /\ now = 0 /\ jumped = 0
  /\ state = [c \in Conn |-> "new"]
  /\ forced = {}
  /\ last = [c \in Conn |-> 0]
  /\ position = [c \in Conn |-> End]
  /\ next = [n \in Node |-> End] /\ prev = [n \in Node |-> End]
  /\ live = {}
  /\ cb = [l \in Loop |-> Idle]
  /\ aborted = FALSE /\ overlapped = FALSE

-----------------------------------------------------------------------------
(* dumpConnectionList walks the list and reads the context of every        *)
(* connection that still exists.                                           *)

\* lock() on a node's weak_ptr: the connection is not closed, or its DOWN
\* callback is still running.
Exists(n) ==
  \/ state[n] # "down"
  \/ cb[loopOf[n]].pc = "unhook" /\ cb[loopOf[n]].node = n

\* The nodes a walk from begin() meets before end() or a freed node.
Met ==
  LET step[i \in 0 .. Cardinality(Conn)] ==
        IF i = 0 THEN {next[End]}
        ELSE step[i - 1] \cup {next[n] : n \in step[i - 1] \cap live}
  IN  step[Cardinality(Conn)] \ {End}

\* What ends the process: the walk uses a freed node, or any_cast finds an
\* empty context.
DumpFails(alive, context) ==
  \E n \in Met : n \notin alive \/ (Exists(n) /\ context[n] = End)

-----------------------------------------------------------------------------
(* onConnection, connected: push_back, --end(), setContext.                *)

\* The stamp is taken and the new node is given its own links.
OnUp(c) ==
  /\ c \in DOMAIN loopOf /\ Ready(loopOf[c])
  /\ state[c] = "new" /\ now <= LastOpen
  /\ state' = [state EXCEPT ![c] = "up"]
  /\ last' = [last EXCEPT ![c] = now]
  /\ live' = live \cup {c}
  /\ next' = [next EXCEPT ![c] = End]
  /\ prev' = [prev EXCEPT ![c] = prev[End]]
  /\ Goto(loopOf[c], "hook", c, 0)
  /\ Started
  /\ UNCHANGED <<world, forced, position, aborted>>

\* The node last in the list is made to point to the new one.
UpHook(c) ==
  /\ In(loopOf[c], "hook") /\ cb[loopOf[c]].node = c
  /\ next' = [next EXCEPT ![prev[End]] = c]
  /\ Goto(loopOf[c], "close", c, 0)
  /\ UNCHANGED <<world, state, forced, last, position, prev, live, aborted, overlapped>>

\* Mutant: push_front, the newest connection first.
UpCloseFront(c) ==
  /\ In(loopOf[c], "close") /\ cb[loopOf[c]].node = c
  /\ IF prev[c] = End
     THEN prev' = [prev EXCEPT ![End] = c] /\ UNCHANGED next
     ELSE /\ next' = [next EXCEPT ![prev[End]] = End, ![c] = next[End], ![End] = c]
          /\ prev' = [prev EXCEPT ![next[End]] = c, ![c] = End]
  /\ Goto(loopOf[c], "context", c, 0)
  /\ UNCHANGED <<world, state, forced, last, position, live, aborted, overlapped>>

\* The list's own node is made to point back to the new one.
UpClose(c) ==
  /\ In(loopOf[c], "close") /\ cb[loopOf[c]].node = c
  /\ prev' = [prev EXCEPT ![End] = c]
  /\ Goto(loopOf[c], "context", c, 0)
  /\ UNCHANGED <<world, state, forced, last, position, next, live, aborted, overlapped>>

\* The position is read back from the list and stored in the context.
UpContext(c) ==
  /\ In(loopOf[c], "context") /\ cb[loopOf[c]].node = c
  /\ position' = [position EXCEPT ![c] = prev[End]]
  /\ aborted' = DumpFails(live, position')
  /\ Return(loopOf[c])
  /\ UNCHANGED <<world, state, forced, last, list, overlapped>>

-----------------------------------------------------------------------------
(* onConnection, not connected: the peer closed, or the forced close came. *)

\* Mutant: the DOWN callback leaves the list alone.
OnDownKeeps(c) ==
  /\ state[c] \in {"up", "closing"}
  /\ Ready(loopOf[c])
  /\ state' = [state EXCEPT ![c] = "down"]
  /\ forced' = forced \ {c}
  /\ Started
  /\ UNCHANGED <<world, last, position, list, cb, aborted>>

\* erase(position), first store: the node before is made to skip it.
OnDown(c) ==
  LET n == position[c] IN
  /\ state[c] \in {"up", "closing"}
  /\ Ready(loopOf[c])
  /\ state' = [state EXCEPT ![c] = "down"]
  /\ forced' = forced \ {c}
  /\ IF n \in live
     THEN /\ next' = [next EXCEPT ![prev[n]] = next[n]]
          /\ Goto(loopOf[c], "unhook", c, 0)
          /\ UNCHANGED aborted
     ELSE aborted' = TRUE /\ UNCHANGED <<next, cb>>
  /\ Started
  /\ UNCHANGED <<world, last, position, prev, live>>

\* Second store, and the node is freed; the connection and its context go once
\* the callback has returned.
DownUnhook(c) ==
  LET n == position[c] IN
  /\ In(loopOf[c], "unhook") /\ cb[loopOf[c]].node = c
  /\ prev' = [prev EXCEPT ![next[n]] = prev[n], ![n] = End]
  /\ next' = [next EXCEPT ![n] = End]
  /\ live' = live \ {n}
  /\ aborted' = (n \notin live \/ DumpFails(live', position))
  /\ last' = [last EXCEPT ![c] = 0]
  /\ position' = [position EXCEPT ![c] = End]
  /\ Return(loopOf[c])
  /\ UNCHANGED <<world, state, forced, overlapped>>

-----------------------------------------------------------------------------
(* onTimer, every second in the base loop.                                 *)

OnTimer ==
  /\ Ready(BaseLoop)
  /\ aborted' = DumpFails(live, position)
  /\ Goto(BaseLoop, "timer", next[End], now)
  /\ Started
  /\ UNCHANGED <<world, state, forced, last, position, list>>

\* The iterator is at a list node that can be read.
At(n) == In(BaseLoop, "timer") /\ cb[BaseLoop].node = n
Age(c) == cb[BaseLoop].at - last[c]
Advance(n) == Goto(BaseLoop, "timer", next[n], cb[BaseLoop].at)

\* Mutant: the connection is shut down and its forced close never set up.
TimerOldUnforced(c) ==
  /\ At(c) /\ c \in live /\ Exists(c) /\ position[c] # End
  /\ Age(c) > idleSeconds_
  /\ state' = IF state[c] = "up" THEN [state EXCEPT ![c] = "closing"] ELSE state
  /\ Advance(c)
  /\ UNCHANGED <<world, forced, last, position, list, aborted, overlapped>>

\* Mutant: the forced close is set up without shutdown().
TimerOldNotShut(c) ==
  /\ At(c) /\ c \in live /\ Exists(c) /\ position[c] # End
  /\ Age(c) > idleSeconds_
  /\ forced' = IF state[c] = "up" THEN forced \cup {c} ELSE forced
  /\ Advance(c)
  /\ UNCHANGED <<world, state, last, position, list, aborted, overlapped>>

\* Too old: shutdown() and forceCloseWithDelay(3.5), once.
TimerOld(c) ==
  /\ At(c) /\ c \in live /\ Exists(c) /\ position[c] # End
  /\ Age(c) > idleSeconds_
  /\ IF state[c] = "up"
     THEN /\ state' = [state EXCEPT ![c] = "closing"]
          /\ forced' = forced \cup {c}
     ELSE UNCHANGED <<state, forced>>
  /\ Advance(c)
  /\ UNCHANGED <<world, last, position, list, aborted, overlapped>>

\* Stamped in the future: the clock was set back, and the stamp follows it.
TimerJump(c) ==
  /\ At(c) /\ c \in live /\ Exists(c) /\ position[c] # End
  /\ Age(c) < 0
  /\ last' = [last EXCEPT ![c] = cb[BaseLoop].at]
  /\ Advance(c)
  /\ UNCHANGED <<world, state, forced, position, list, aborted, overlapped>>

\* Young enough: the ones behind it are taken to be younger and the walk ends.
\* It also ends at end().
TimerEnd ==
  /\ In(BaseLoop, "timer")
  /\ LET n == cb[BaseLoop].node IN
       \/ n = End
       \/ /\ n \in live /\ Exists(n) /\ position[n] # End
          /\ Age(n) \in 0 .. idleSeconds_
  /\ Return(BaseLoop)
  /\ UNCHANGED <<world, state, forced, last, position, list, aborted, overlapped>>

\* The connection is gone: its node is erased, in the same two stores.
TimerExpired(c) ==
  /\ At(c) /\ c \in live /\ ~Exists(c)
  /\ next' = [next EXCEPT ![prev[c]] = next[c]]
  /\ Goto(BaseLoop, "expired", c, cb[BaseLoop].at)
  /\ UNCHANGED <<world, state, forced, last, position, prev, live, aborted, overlapped>>

TimerUnhook(c) ==
  /\ In(BaseLoop, "expired") /\ cb[BaseLoop].node = c
  /\ prev' = [prev EXCEPT ![next[c]] = prev[c], ![c] = End]
  /\ next' = [next EXCEPT ![c] = End]
  /\ live' = live \ {c}
  /\ aborted' = (c \notin live)
  /\ Advance(c)
  /\ UNCHANGED <<world, state, forced, last, position, overlapped>>

\* The iterator is at a freed node, or the context is still empty.
TimerFails(c) ==
  /\ At(c)
  /\ c \notin live \/ (Exists(c) /\ position[c] = End)
  /\ aborted' = TRUE
  /\ UNCHANGED <<world, state, forced, last, position, list, cb, overlapped>>

-----------------------------------------------------------------------------
Tick ==
  /\ ~aborted /\ now < MaxNow
  /\ now' = now + 1
  /\ UNCHANGED <<loopOf, jumped, state, forced, last, position, list, cb, aborted, overlapped>>

\* The system clock is set back.
SetBack ==
  /\ ~aborted /\ jumped < MaxJump
  /\ now' = now - 1
  /\ jumped' = jumped + 1
  /\ UNCHANGED <<loopOf, state, forced, last, position, list, cb, aborted, overlapped>>

TimerStep ==
  \/ TimerEnd
  \/ \E c \in Conn : \/ TimerOld(c) \/ TimerJump(c) \/ TimerFails(c)
                     \/ TimerExpired(c) \/ TimerUnhook(c)

ConnStep(c) ==
  /\ c \in DOMAIN loopOf
  /\ UpHook(c) \/ UpClose(c) \/ UpContext(c) \/ DownUnhook(c)

\* forceClose, 3.5 s after onTimer asked for it.
ForceClose(c) == c \in forced /\ OnDown(c)

IdleNext ==
  \/ Tick \/ SetBack
  \/ OnTimer \/ TimerStep
  \/ \E c \in Conn : OnUp(c) \/ OnDown(c) \/ ConnStep(c)

\* The loops run the callbacks they have started, the timer fires again and
\* again, a forced close comes, and the clock runs on.  Nothing makes a peer
\* connect or close.
IdleFairness ==
  /\ WF_idleVars(Tick)
  /\ SF_idleVars(OnTimer)
  /\ WF_idleVars(TimerStep)
  /\ \A c \in Conn : WF_idleVars(ConnStep(c)) /\ SF_idleVars(ForceClose(c))

IdleSpec == IdleInit /\ [][IdleNext]_idleVars
IdleFairSpec == IdleSpec /\ IdleFairness

-----------------------------------------------------------------------------
Open == {c \in Conn : state[c] \in {"up", "closing"}}

\* onConnection and onTimer keep connectionList_ exactly: between callbacks it
\* holds the open connections and no others, its two chains of links agree,
\* every context points to its own node, and no callback has used a freed node
\* or an empty context.  So the "Expired" branch of onTimer is never needed.
\* With several loops this lasts until two callbacks overlap.
ListExact ==
  ~overlapped =>
  /\ ~aborted
  /\ (\A l \in Loop : cb[l] = Idle) =>
       /\ live = Open
       /\ Met = Open
       /\ \A n \in Open : position[n] = n
       /\ \A n \in Open \cup {End} : prev[next[n]] = n /\ next[prev[n]] = n

\* onTimer stops at the first connection that is young enough.  When it
\* returns, every connection older than idleSeconds_ plus what the clock was
\* ever set back has been shut down: stopping early misses nobody else.
TimedOutAreCut ==
  [][~overlapped /\ cb[BaseLoop].pc = "timer" /\ cb'[BaseLoop] = Idle =>
       \A c \in Conn : state[c] = "up" /\ position[c] # End =>
         cb[BaseLoop].at - last[c] <= idleSeconds_ + jumped]_idleVars

\* A connection is closed in the end, whatever its peer does: onTimer shuts it
\* down and the forced close follows, unless two callbacks of different loops
\* have overlapped.
EndsUnlessOverlapped ==
  \A c \in Conn : (state[c] = "up") ~> (state[c] = "down" \/ overlapped)

\* The comment in ParseQuest: a connection that timed out is to be cut.  Every
\* connection is closed in the end, unless the process itself has ended.
EveryConnectionEnds ==
  \A c \in Conn : (state[c] = "up") ~> (state[c] = "down" \/ aborted)
=============================================================================
