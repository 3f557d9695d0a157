# utsuite in TLA+

A verification project for utsuite, the tool suite of the Ulord blockchain. It
holds TLA+ modules for the concurrent and the persistent parts of the suite, the
TLC configurations that check them on small instances, and TLAPS proofs of the
main invariants of two of them for every value of their constants.

`PROJECT.json` is the index: the components, the runs, the source lines behind
every definition, one mutant for each checked property, the hazards, the
findings and the theorems. Paths below are relative to the repository's `src/`.

- [1. The system](#1-the-system)
- [2. Modules and the code they model](#2-modules-and-the-code-they-model)
- [3. Runs](#3-runs)
- [4. Bounds and fairness](#4-bounds-and-fairness)
- [5. Disagreements found](#5-disagreements-found)
- [6. Proofs](#6-proofs)
- [7. What is not modelled](#7-what-is-not-modelled)
- [8. Plan](#8-plan)
- [9. Running it](#9-running-it)

## 1. The system

Four groups of programs, which share libraries more than they talk to each
other.

**Transport between processes.** `libqtutils/loopbuf.cpp` is `CLoopBuf`, a byte
ring in shared memory. One process pushes framed packets (length, sync word,
body), one pops them, and there is no lock: the producer owns `nTailPos`, the
consumer owns `nHeadPos`, and each reads the other's position. The only program
with a loop over it is `walletd`, behind a `return` that is never passed
(`walletd/walletd.cpp:226`).

**The masternode registry.** `ulordcenter` is a TCP server on the muduo library.
Clients ask for one masternode or for all of them. Its parts:

    unode ---- TCP ----> codec.h ----> server.cc ----> nodesql.cpp ----> MySQL
              bytes      messages      onStringMessage  ParseQuest
                                       connectionList_  g_mstdatamap
                                       onTimer          connection_pool.cpp

`main` (`ulordcenter/ulordmain.cpp`) makes a pool of `nThread * 2` connections,
starts the server with an idle limit of 60 seconds, and fills the map from the
database before its loop runs. With `nThread > 1` (the shipped `bin/ucenter.ini`
has `thread=2`) the connections are spread over I/O threads. Those threads run
`onConnection` and `ParseQuest`, while `onTimer` runs in the base loop. Only the
pool has a lock. `unode` is the client: it sends one quest a second after it
connects, and reads the reply in a callback.

**Migration of balances.** `filetodb` adds the records of numbered text files to
`btcoin_addr` and keeps the height reached in `btcoin_height`. `tblmgrt` does the
same from another database. Both are run again after they stop early.
`libdbadapter/MySQLConnection.cc` is a client class with reconnection and
inserts in several statements.

**The wallet and the tools.** `walletd` is a command line, one command per
process, over `libwallet`, a trimmed Bitcoin and Dash wallet: key pool, encrypted
key store, Berkeley DB layer, address book. `mysign` signs messages, `uttools`
computes statistics, `equihash` and `hello` are proof-of-work code, `claimtest`
is empty. `leveldb`, `secp256k1` and `libsodium` are vendored.

The top-level CMake file builds `libqtutils`, `libwallet`, `mysign`, `uttools`,
`walletd` and `equihash`; the lines for the other programs are commented out,
and they are built one by one.

### Inventory

| Part | Source | Module | Status |
|---|---|---|---|
| Packet ring | `libqtutils/loopbuf.cpp` | `LoopBuf`, `PacketQueue` | partly: opening, closing and use flags are missing |
| Connection pool | `libdbadapter/connection_pool.cpp` | `ConnPool` | modelled |
| Connection list and idle timer | `ulordcenter/server.cc` | `IdleList` | modelled |
| Quests and the map | `ulordcenter/nodesql.cpp` | `NodeSql`, `NodeServer` | modelled |
| Length-header codec | `ulordcenter/codec.h`, `unode/codec.h` | `Codec`, `PacketQueue` | modelled, one direction |
| Balance import | `filetodb/` | `HeightTable`, `FileToDb`, `Migration` | modelled |
| Table migration | `tblmgrt/` | `HeightTable`, `TblMgrt`, `Migration` | modelled |
| MySQL client class | `libdbadapter/MySQLConnection.cc` | `MySqlConn` | partly: `open`, `close`, `execute`, `multiInsert` |
| Client | `unode/` | | planned: `Session` |
| Key pool and address issue | `libwallet/wallet.cpp`, `initwallet.cpp`, `walletd/` | | planned: `KeyPool` |
| Encrypted key store | `libwallet/crypter.cpp`, `wallet.cpp` | | planned: `CryptoKeyStore` |
| Wallet database layer | `libwallet/db.cpp`, `walletdb.cpp` | | planned: `WalletDb` |
| Statistics, small arithmetic | `uttools/`, `libwallet/` | | planned as operators |
| Everything else | | | not modelled, see section 7 |

## 2. Modules and the code they model

Every component is one module with its variables, one action for each operation
or observable step, `Next` and the properties. An `MC` module beside it gives
TLC small values. Definitions marked `Mutant:` are wrong variants of the
definition that follows them. They are used by no specification; each is there
to show that some property notices the mistake it stands for.

### `LoopBuf`: the packet ring

State: the mapping (`m_pShmBuf`, `nHeadPos`, `nTailPos`), the locals of the one
process inside `PushIn` (`ppc`, `pArgs`, `pPart`, `pTry`, `pHead`, `pTail`) and of
the one inside `PopOut` (`cpc`, `cPart`, `cTail`, `nFullDataSize`, `cLeft`,
`cBuf`). A byte is its index in the stream of all bytes ever pushed, so a byte
that is lost, repeated, overwritten or misplaced shows.

| Action | Code |
|---|---|
| `PushIn`, `PushLoad`, `PushCheck` | `PushIn` with its three attempts, the snapshot of the head and `IS_PUSH_SIZE_ENOUGH` in `PushInNoblock` |
| `PushCopy`, `PushAdvance` | `PUSH_DATA`: the `memcpy`, then the store to `nTailPos`; once for the header and once for each argument |
| `PopOut`, `PopCheck` | the snapshot of the tail, `IS_POP_SIZE_ENOUGH` and the length check |
| `PopCopy`, `PopWrap`, `PopRest`, `PopAdvance` | `POP_DATA`: copy, park the head at `m_nBufSize`, copy the rest, store the head; then the sync word and the size of the caller's buffer |
| `PopZeroHead`, `PopZeroTail` | `SetZero` and `RUN_CHECK_SYNCWORD`, which are two stores |
| `ProducerCrash`, `ConsumerCrash` | the process dies inside a call and attaches to the mapping again |

Assumptions on the code and the machine:

- One producer and one consumer, as the class has no lock.
- Loads and stores happen in program order. The top-level CMake file sets a
  debug build, which does not optimise, and x86 keeps the order of stores and of
  loads. An optimising compiler could reorder them: the fields are not atomic.
- `PUSH_DATA` loads `nTailPos` several times. Only the producer stores it, except
  during a reset, so the loads are merged into two, one for the copy and one for
  the store. The second may be older or newer than a reset.
- Bytes that are not the length field of a frame may read as any member of
  `GarbageLens`.
- `RUN_CHECK_SYNCWORD` compares four bytes with `@@@@`, whoever put them there. The
  sync word of a frame always passes. Other bytes pass or not, as the model
  chooses, if some of them are data of a frame whose size is in `SyncSizes`, and
  never pass otherwise: the frames of those sizes stand for the packets whose
  data holds the sync word.
- A crash is an action of its own. The process starts again with a new call and
  finds the mapping as it was (`Init` with `bSetZero` false).

`PacketQueue` is the abstract specification: a queue that accepts packets and
hands out the oldest. `LoopBuf` implements it with `queue` mapped to the frames
that are published to the last byte and not handed out. `Codec` implements the
same module.

### `ConnPool`: the pool

State: `_connList`, `_curSize`, which connections are closed, and what each
thread holds from `GetConnection` (`pooled`) and from the public
`CreateConnection` (`direct`). `GetConnection` and `ReleaseConnection` hold
`_lock` for their whole body, so each is one step. `GetConnection` is three
actions, one for each path: listed, new, refused. `ConnectionLost` closes any
connection at any time. `DestroyConnPool` is not an action: only the destructor
calls it, and the singleton is never deleted.

### `IdleList`: the connection list

`connectionList_` is a `std::list`, modelled by its links. `push_back` is three
stores and `erase` is two and a free. `onConnection` runs in the loop that owns
the connection (`loopOf`) and `onTimer` in the base loop, so with several loops
the stores of two callbacks interleave. `position` is the iterator in the
connection's context; `dumpConnectionList`, which the callbacks call, can end the
process by using a freed node or an empty context, and this is what `aborted`
records. In `onTimer` the calls of `connected()`, `shutdown()` and
`forceCloseWithDelay()` for one connection are one step (`TimerOld`): an I/O loop
that closes the connection between them turns the later calls into no-ops. `Tick` and `SetBack` move the clock, for the code has a branch for a
time jump. `onStringMessage` does not refresh `lastReceiveTime`: the code that did
is commented out, so the model has no refresh.

### `NodeSql` and `NodeServer`: the quests

`NodeSql` is `ParseQuest` for both quest types, with the two
`AddMasterNodeMemory` functions, `FindFromMasterNodeMemory`, the two table reads
and `initreaddb`. Each thread goes through program points between which others
run. `g_mstdatamap` has no lock. A racing insertion is undefined behaviour, and the
outcomes allowed here are that a lookup misses an entry or an insertion is lost;
a corrupted tree that ends the process is not modelled. `ReadAllNodeToNet` never
assigns `_validflag`, so that field is any member of `Flag`. `WriteTable` is
another program changing the table. An exception from a statement is caught
nowhere and ends the process, and so does `vecnode[0]` with no row.

`NodeServer` composes `NodeSql` with `ConnPool`: an action of a thread that needs a
connection is the conjunction of the step of `ParseQuest` and the step of the pool.

### `Codec`: messages on a byte stream

One direction of a connection. `send` prepends the header, `Arrive` moves any
number of bytes into the receive buffer and starts `onMessage`, and one turn of
its loop is `Deliver`, `Refuse` or `Wait`. A byte is known by its message and its
place. A header read at a wrong place gives any length.

### `HeightTable`, `FileToDb`, `TblMgrt` and `Migration`

`HeightTable` is the database and the code that `filetodb` and `tblmgrt` have twice
over: `my_sql_init`, `AddAddrMyDbIndex`, `UpdateAddrMyDb`. `btcoin_addr` is modelled
by how often each record was added, for adding is not idempotent and there are no
transactions. A crash may come between any two statements.

`FileToDb` is `readfiletodb` line by line and the loop of `main`. The operator starts
at any file such that all earlier files are done, and ends at any later one. The
files cover rising heights and each has at least one record; within a file the
lines may have any order. Two inputs are excluded. A file without a record passes an
uninitialised height to `UpdateAddrMyDb` (`filetodb/btstat.cpp:127`). At a line of
500 characters or more `getline` fails without reaching the end of the file, and
the loop never ends (`filetodb/btstat.cpp:85`). The `exit(1)` of `UpdateAddrMyDb`
for a height more than one up is not an outcome of the model: the last record of
a file has the next height, and `ReadBtcoinRecToWrite` has exited before with
any other. `TblMgrt`
follows `my_insert` statement by statement: the second statement always fails.

`Migration` lets the two take turns on one database, in any order, each going on
from the height the other has left. The two never run at once. The source table
of `tblmgrt` holds the records that are in the files.

### `MySqlConn`: the client class

One call of `multiInsert` with the `execute` calls it makes, while the server
goes away and comes back. `AtCall` says what the call finds: no connection yet, or
an open one. A statement whose connection is lost may have been
executed. `mysql_ping` fails after a loss, because the class never turns automatic
reconnection on. `mysql_query` with a null connection is modelled as the end
of the process. `mysql_init` running out of memory is not modelled.

## 3. Runs

Every property of a passing run has a mutant in `PROJECT.json`, and TLC finds the
property violated when the mutant takes the place of the definition it varies.

| Run | Checks | What it shows | States |
|---|---|---|---|
| `ring` | `TypeOK`, `UnreadIntact`, `NeverEmptied`, `ImplementsPacketQueue`, `EveryPacketHandedOut` | In every interleaving of one- and two-part pushes with pops, around the end of the ring several times, no unread byte is overwritten, packets come out whole, once and in order, and every packet accepted comes out | 133,397 |
| `ring_crash` | `IntactUnlessTorn` | With crashes, packets too large for the consumer, data that holds the sync word, and resets, what is handed out is still whole packets in order, unless a push or a reset was cut in two or data was taken for a header; and the next reset between two pushes heals both | 1,137,221 |
| `pool` | `PoolTypeOK`, `BooksBalance`, `OneOwner` | Lost connections and failed reconnects never make the count wrong, and no connection has two owners | 241 (symmetry) |
| `idle` | `IdleTypeOK`, `ListExact`, `TimedOutAreCut`, `EndsUnlessOverlapped` | With one loop, and with several until two callbacks overlap: the list is exact, stopping the walk at the first young connection misses nobody by more than the clock was set back, and every connection is closed in the end | 101,179 |
| `nodes` | `NodeTypeOK`, `HostWasTrue` | With the lookups that miss and the insertions that are lost in a race on the map, as far as section 2 models it, a reply never has host data the table did not have for that address | 540,812 (symmetry) |
| `server` | `NoLeak`, `PoolSuffices`, `QuestEnds` | Every path of `ParseQuest` gives its connection back, the limit never makes a quest fail, and every quest is over in the end | 169,368 |
| `codec` | `CodecTypeOK`, `ShutsOnlyAtOversize`, `CodecIsQueue`, `EveryMessageArrives` | However the stream is cut, messages arrive once, whole and in order, up to the first one over the limit | 9,758 |
| `migration` | `MigrationTypeOK`, `HeightHonest`, `RepeatedOnlyByFailure`, `CoveredNeverRepeated` | Whichever program runs and wherever it ends, the stored height is honest (unless `tblmgrt` took a failed result for an empty one), a record is added again only because a run ended early, and never once its height is stored | 196,227 |
| `mysql` | `ConnTypeOK`, `RowsWhole`, `RepeatedOnlyIfLost`, `CallEnds` | Rows go to the server in order and without gaps, a row is inserted again only after a statement with that row whose own answer was lost, and the call ends: it returns, or it dies of a null connection | 7,739 |

Three more runs are expected to be violated: `idle_race`, `nodes_flag` and
`mysql_outage`. Each checks one sentence of the repository's comments; see
section 5.

**What `ring_crash` leaves out.** The run goes on through torn and misled states,
but `IntactUnlessTorn` claims nothing of what is handed out in them.

*Torn.* A crash or a reset has cut a push in two, or a crash a reset. Without
this exclusion TLC shows a packet handed out twice:

1. A small packet is pushed, popped and handed out, so the head is at 4.
2. A packet larger than the consumer's buffer is pushed. `PopOut` takes its
   snapshot of the tail while only the header is published. The announced size
   fails the length check, and `PopOut` decides to empty the ring.
3. The push finishes. `PopOut` stores 0 to the head and crashes before the store
   to the tail.
4. The ring now reaches from 0 to the old tail, and the first packet, still in the
   mapping, is handed out again.

A push that dies between its header and its body, or that is overlapped by a
reset, leaves half a frame, and the next frame's header is then taken for its body.

*Misled.* A return of -1, or a crash between header and body, leaves the head
inside a frame. If the data found there holds a length and the sync word,
`PopOut` takes it for a header and hands out data as a packet. The property says
that this is the only way: `PopOut` is never misled while the head is at the start
of a frame, nor by data without the sync word.

Both end with the next reset that finds no push in the middle: from then on
packets come out whole again, and none that was handed out before. Nothing in the
repository says what should happen until then, so these are hazards in
`PROJECT.json`, not findings.

## 4. Bounds and fairness

Every bound is a named constant of its module and appears in a guard.

| Module | Bounds | Why they are enough |
|---|---|---|
| `LoopBuf` | a ring of 12 bytes, gap 2 or 4, header 3, bodies of 1 to 4 bytes, `MaxFrames` 5, or 3 with crashes | a frame takes up to 7 bytes, so the frames go around the ring more than once, with the split falling in the header, at its edges and in the body; a full ring, an empty ring and a refused push all occur. With crashes, three frames are one that is cut, one that meets the damage and one after the reset. A misled `PopOut` may read the same bytes for ever, so `FewHandedOut` stops that run at the third packet handed out. Larger bounds (`MaxFrames` 4) pass too and take longer. The proofs remove the bounds of `ring` |
| `ConnPool` | 3 threads, 5 objects, limit 2 | more threads than connections, so refusals occur; the proofs remove these bounds |
| `IdleList` | 3 connections in the base loop or 2 with an I/O loop each, limit of 1 second, clock up to 3, set back at most once | three nodes give a first, a middle and a last one; two loops and the base loop are enough for every pair of callbacks to overlap. The clock passes the idle limit after the last arrival, which `LastOpen` bounds |
| `NodeSql` | 2 threads, 2 addresses, 2 hosts, 2 writes of the table | a race needs two threads; a mix-up of addresses needs two. `Flag` is `{0}` where the property is about hosts, to keep the run small, and `{0, 1}` where it is about flags |
| `NodeServer` | 2 threads, 1 address, 3 connections, pool limit 2, 1 write | the code has two pool connections per thread, so one per thread is the harder case. With three connection objects an attempt to open a fourth fails, as a server may refuse it |
| `Codec` | header 4, limit 5, lengths 0, 1, 4, 5, 6, three messages | an empty message, one as long as a header, one at the limit, one over it |
| `Migration` | 2 files of 3 lines, up to 4 records at 3 heights, 3 starts | every order of lines, equal heights, steps of one and of two heights, bad lines anywhere; each program before, between and after runs of the other |
| `MySqlConn` | 5 rows, statements of up to 3 bytes, 2 outages | a statement of one row and of several, and a last one that is not full |

`CHECK_DEADLOCK FALSE` stands where a behaviour ends because a bound is reached or
because the program itself ends. The ring and the pool run with deadlock checked.

Fairness:

- `LoopBuf`: weak fairness of the consumer, which polls `PopOut` in a loop, and of
  a `PushIn` that was called. Nothing makes the producer call it.
- `IdleList`: the clock runs, started callbacks run to their end (weak fairness),
  and the timer and a pending forced close come although other callbacks keep the
  loop busy (strong fairness). muduo runs expired timers and ready channels in
  every turn of a loop, so none of them is put off for ever. No peer is assumed to
  connect or to close.
- `NodeServer`: weak fairness of each thread that is in a quest. Quests are not
  assumed to come.
- `Codec`: TCP delivers (weak fairness of `Arrive`), and `onMessage` runs on. `send`
  is not fair.
- `MySqlConn`: the calling thread runs. The server is not assumed to come back.

## 5. Disagreements found

Each is a run that TLC reports as violated, and a finding in `PROJECT.json` with
the quoted line.

| Run | The comment | What the code does |
|---|---|---|
| `idle_race` | a connection that timed out is cut (`nodesql.cpp:120`) | With two I/O threads, two `push_back` calls that overlap lose a node, and that connection is never cut |
| `nodes_flag` | the flag is 0 for invalid and 1 for valid (`nodesql.cpp:55`) | `ReadAllNodeToNet` never assigns the flag, and its value goes into the map and to clients |
| `mysql_outage` | `execute` reconnects while the database switches over (`MySQLConnection.cc:166`) | The open connection is lost, the ping fails and the connection is closed. The server is still away, the result of `open()` is ignored and a null connection is used, with three of four attempts left |

Read in the source while modelling, and in the model as the code has it, without
a run of their own:

- The gap of 16 bytes between tail and head (`loopbuf.cpp:28`) is not always kept:
  when a packet fits up to the end of the ring the head is not looked at
  (`loopbuf.cpp:48`). No packet is harmed, as `ring` and the proofs show.
- `_maxSize` is called the largest number of connections
  (`connection_pool.h:19`), but a quest for one masternode opens its own past the
  pool (`nodesql.cpp:129`).
- The check that would read the database again after `TIME_INTERVAL`
  (`nodesql.cpp:32`) is commented out: an entry is used as long as the process
  runs. So `HostWasTrue` says "has had", not "has".
- `tblmgrt` takes a result that cannot be stored for an empty one and moves the
  height on (`tblmgrt/btstat.cpp:126`). `HeightHonest` excludes exactly this.

## 6. Proofs

TLAPS proves 2,319 obligations in five modules, with no step left open.

### The ring (`LoopBufInv`, `LoopBufPushProofs`, `LoopBufPopProofs`, `LoopBufProofs`)

Under `ConfigFits`, for a ring, gap, header and set of calls of any size and any
number of frames:

- `RingTypes`: the positions stay inside the ring;
- `RingUnreadIntact`: no push overwrites an unread byte;
- `RingNeverEmptied`: `PopOut` never meets a wrong length or sync word;
- `RingInOrder`: what was handed out is the first packets accepted, whole and in
  order.

`ConfigFits` says that every packet has at least one byte, fits the buffer the
consumer passes, and passes the length check. Without it the theorems are false:
a packet larger than the buffer is dropped after its header was consumed. The
theorems are about `Spec`, which has no crashes.

*The argument.* `UnreadIntact` is not inductive. A producer that has passed its
space check goes on to push two or three parts against a head it loaded once, so
the invariant must say that what is still to be pushed fits in front of that stale
head (`Room`), and that the true head can only have moved from it towards the tail
(`Behind`). The consumer works on a stale tail, which can only have been left
behind by the true one (`Ahead`). And the consumer must stand at the start of a
frame whenever it reads a length, which needs that the frames follow each other
without gaps (`FramesOK`) and that the bytes popped so far are the first bytes of
the current frame (`ConsOK`). `IInv` is the conjunction of these with `TypeOK`,
`UnreadIntact` and `InOrder`. `LoopBufInv` has the lemmas on positions in the
ring. The two step modules have one lemma for each action, and `LoopBufProofs`
puts them together.

### The pool (`ConnPoolProofs`)

For any finite set of threads, any set of connections and any limit:

- `PoolBooks`: `_curSize` is the number of listed and lent connections and within
  the limit;
- `PoolOneOwner`: no connection is listed twice or held by two threads.

`PoolInv` is `PoolTypeOK`, `BooksBalance` and `OneOwner`. `OneOwner` depends on the
other two only through types. The work is in the cardinalities: lending a
connection adds one thread to the finite set of users and takes one element off
the list.

### Only model-checked

The liveness properties and everything that needs `ENABLED` are out of this
prover's reach, and so is induction over data, such as the value of a fold or a
recursive function for every input. The refinements of `PacketQueue`, `IdleList`,
`NodeSql`, `NodeServer`, `Codec`, `Migration` and `MySqlConn` are checked by TLC
within the bounds of section 4 and not proved. Some of them could be; see the
plan.

## 7. What is not modelled

- **Opening and closing a ring** (`Init` with an existing mapping, the use flags):
  operating-system calls; a later module.
- **`query`, `update`, `getVariable`, `ping`** of `MySQLConnection`: they read what
  `execute` leaves, or repeat its reconnection.
- **Signing and serialisation** in `ParseQuest`: no state changes. Quests that no
  client of this repository sends are not inputs.
- **`unode`** and the **wallet**: planned, section 8. No property here covers
  them.
- **Transactions, coins, script, chain parameters** in `libwallet`: taken over from
  Bitcoin; the programs here use address extraction and signing only.
- **`equihash`, `hello`, cryptographic primitives**: deterministic functions over
  large values, out of reach for TLC.
- **Configuration readers, logging, string and UTF-8 helpers, SQL scripts**: no
  protocol state; what they yield is a constant of some module.
- **`leveldb`, `secp256k1`, `libsodium`**: vendored copies of other projects.
- **`claimtest`**: an empty program.

## 8. Plan

Order of the modules, with what each composes and which properties it is for. The
modules of steps 1 to 4 are the ones above.

1. `LoopBuf` with `PacketQueue` (done), then `ConnPool` (done): the shared state
   that has to be right under every interleaving. Proved.
2. `IdleList`, `NodeSql`, and `NodeServer` = `NodeSql` + `ConnPool` (done).
3. `Codec`, implementing `PacketQueue` (done).
4. `Migration` = `FileToDb` + `TblMgrt` over `HeightTable`, and `MySqlConn` (done):
   crashes and repetition.
5. `Session` = the client of `unode` + two `Codec`s + the server's idle limit. An
   abstract specification: a quest is answered at most once. Questions: the quest
   that is sent before the connection is up, the reconnection that does not send
   it again, the server's cut while a reply is under way.
6. `KeyPool`: `TopUpKeyPool`, `ReserveKeyFromKeyPool`, `KeepKey`, `ReturnKey`,
   `GetKeyFromPool`, the address book and the sequence of `walletd` processes, with
   a crash between any two writes. Abstract specification: an issuer that gives
   out every address once, across restarts. Run bounds: pool of 2 or 3 keys, two
   or three processes. Theorem: no index in use twice.
7. `CryptoKeyStore`: `Lock`, `Unlock`, `EncryptWallet`, `ChangeWalletPassphrase`
   with the database transaction around them. Property: after a crash the store
   can be opened with the old passphrase or with the new one, and no key is both
   lost in memory and on disk. No program calls the last two at present.
8. `WalletDb`: use counts, `Flush`, `Rewrite`, `BackupWallet`, `Recover`. Property:
   the wallet file or its copy exists after any crash.
9. Opening, closing and the use flags of the ring.
10. Operators against a reference over bounded inputs: the statistics of
    `stat_rec.cpp`, amount compression, compact targets.

Further proofs, in the three theorem modules that are left to a readable size:

- `LoopBuf` implements `PacketQueue`: the step part of the refinement from `IInv`;
- `Migration`: `HeightHonest` and `CoveredNeverRepeated`, from an invariant that
  relates the height in memory to the records already passed in the current file;
- `NodeServer`: `NoLeak`, reusing `PoolInv`;
- `Codec`: the buffer and the wire are the tail of the stream.

Hazards whose note in `PROJECT.json` begins with "Planned" name the step of this
plan that will cover them.

## 9. Running it

In this directory:

    tlc -workers 2 -config LoopBuf.cfg MCLoopBuf
    tlapm LoopBufProofs.tla

The module and the configuration of every run are listed under `runs` in
`PROJECT.json`. The longest run takes about a minute. The proofs of the four
ring modules take several minutes together; `tlapm` on one of them does not check
the modules it extends, so run it on each.
