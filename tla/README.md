# A TLA+ model of the isgw server framework

isgw is a C++ framework for request/reply servers on top of ACE. A reactor
thread reads requests from TCP connections and UDP datagrams, a pool of worker
threads processes them, and the reactor thread sends the replies. This
directory holds TLA+ models of the framework, TLC configurations that check
them on small instances, and proofs for every instance of what matters most.

Paths below are relative to `src/isgw/` unless they begin with `src/`.

## 1. The system

| Component | State | Operations | Talks to |
|---|---|---|---|
| `ISGWIntf`, `ISGWUIntf`, `AceSockHdrBase` (frm/) | one handler per connection with descriptor, `sock_seq` and input buffer; the global `total_seq_` | `open`, `handle_input`, `process`, `handle_timeout`, `send_n`, `send_udp` | puts `PriProReq` on the queue of `ISGWMgrSvc`; is found by descriptor by `ISGWAck` |
| `ISGWMgrSvc`, `ACESvc` (frm/, easyace/) | bounded queue of requests, worker threads | `putq`, `recv`, `svc`, `process`, `check`, `forward`, `send` | pools, operations, flow control, `ISGWAck::putq` |
| `ISGWAck` (frm/) | queue of replies with `queue_lock_`, notification strategy | `putq`, `handle_input`/`handle_timeout`, `process`, `statisitc` | woken through the reactor's pipe; calls the handlers |
| `ACE_Object_Que` (easyace/) | bounded queue of blank `PriProReq`/`PriProAck` objects, `ret_` | `init`, `enqueue`, `dequeue` | everybody |
| `CmdAmntCntrl` (comm/) | per command: status, counters, period; two locks | `get_status`, `amount_inc`, `set_status`, `get_statiscs` | `check`, `process`, an administrator's command |
| `IBCMgrSvc` (frm/, optional) | map of batches being merged | `process`, `encode_ppack`, `send` | operations create sub-requests; replies go to `ISGWAck` |
| `PlatConnMgrAsy`, `ISGWCIntf` (comm/, frm/) | backend connections by address with `sock_fd` and `sock_seq` | `init_conn`, `fini_conn`, `send`, `is_estab`, `handle_input` | `forward` sends through them; their input goes to `recvq` |
| `ASYTask` (frm/, optional) | map of requests waiting for a backend | `insert`, `svc` | backend answers, operations |
| `PlatConnMgrEx` (comm/) | `conn_[ip][index]` with a lock and a use flag each, failures of each ip | `send`, `send_recv`, `send_recv_ex`, `recv`, `get_conn`, `init_conn`, `fini` | called by operations |
| `PlatDbAccess`, `PlatDbConn`, `PlatOraAccess`, `PlatOraConn`, `CDBManager` (comm/) | pools of database connections with use flags, fault records, a checking thread | `exec_query`, `exec_multi_query`, `exec_update`, `exec_trans`, `exec_proc`, `ExecSql`, `CheckLongDBConn` | called by operations |
| `ACEApp`, `ISGWApp`, `ISGWSighdl`, `ACEConf` (easyace/, frm/) | child processes, quit flag, loaded configuration | `parent_main`, `parent_hatch`, `parent_quit`, `quit_app`, `load_conf`, `handle_reload` | the kernel's signals; the queue of `ISGWMgrSvc` |
| `Shm_Bitmap_Manager` (comm/) | a bit per uin in shared memory | `open`, `close`, `get_bit`, `set_bit`, `clr_bit` | other processes with the same key |
| client library (src/comm/sys_cli_io.cpp) | table of sockets by thread | `SYS_connect`, `SYS_send_n`, `SYS_recv_n`, `SYS_close` | servers |
| `CLruHashTableEx` (src/comm/) | buckets, free chain and LRU chain of nodes in shared memory | `insert_unique`, `insert_equal`, `find_or_insert`, `search`, `erase` | nothing in the server |

What is hard about it:

- a connection may close, and its descriptor be given to another, while its
  requests are in the queues: only `sock_seq` tells old from new;
- request and reply objects are pooled by hand; every early return has to give
  back the right one, and reply objects keep the fields of their last user;
- one notification is written per reply and one drain may serve many, with the
  queue's size read outside its lock;
- locks are held across calls that can wait (`notify`), or cover only a part
  of the state they are thought to cover (`CmdAmntCntrl`, `PlatConnMgrAsy`,
  `ret_` of the pool, `total_seq_`);
- the queue of requests is bounded, and overload costs the connection;
- backend connections are numbered by the counter and kept in the table of
  descriptors that client connections use, and are set up by worker threads
  while the reactor closes them;
- a call on a pooled connection may time out with its answer on the way, and
  the next user of the connection must not read it;
- a statement may be executed although its answer is lost, and is tried again;
- a process may be killed in the middle of a change of shared memory;
- batches, asynchronous tasks and database calls race with their timeouts.

What makes each component correct:

- pipeline: whatever is sent goes to who asked, once; a reply is
  dropped only when nobody is there to take it; no object is lost or used
  twice; every accepted request is done with;
- pool: what it hands out is alive and owned by nobody else;
- flow control: a period serves a bounded number of requests, an order of the
  administrator lasts, no call blocks or crashes;
- batches: one answer per batch; a table of bounded size;
- backend connections: a message is sent on the connection it was meant for,
  and a descriptor and sequence number belong together;
- connection pools: a connection has one user; what a call returns is its own
  answer and agrees with what the server did;
- framing: a message handed on is one the peer sent, in order, none twice;
- hash table: an entry goes only if it is removed or the least recently used;
- application: no process outlives its parent's wait, and none runs without a
  configuration.

PROJECT.json lists the hazards at their lines and the properties that cover
them.

## 2. Modules

    IsgwServer ──refines──> ReplyService          CmdAmntCntrl
      │                                                │
    MCIsgwServer                                MCCmdAmntCntrl

    IBCMgrSvc   LruHashTable ──refines──> LruCache
          └─ MCTables ─┘
    PlatConnMgrEx   PlatConnMgrAsy   CliSockets
          └───────── MCConnections ───────┘
    PlatDbAccess  DBManager  PlatOraAccess  ShmBitmap  Framing  ISGWApp
          └──────────────────── MCStores ──────────────────────────┘
            ObjectPool ────────────┘
                 └ MCObjectPool

| Proofs | About |
|---|---|
| QueueFacts | queues, lists and the places of an object in them, used by most of the others |
| IsgwServer_proofs | IsgwServer, and that it implements ReplyService |
| ObjectPool_proofs, CmdAmntCntrl_proofs, IBCMgrSvc_proofs | the module of that name |
| Connections_proofs | PlatConnMgrEx, PlatConnMgrAsy, CliSockets, and MCConnections, which joins them |
| LruHashTable_proofs | LruHashTable, and that it implements LruCache |
| Stores_proofs | DBManager, PlatOraAccess, PlatDbAccess, ShmBitmap, Framing, ISGWApp, and MCStores, which joins them and ObjectPool |

MCTables, MCConnections and MCStores check components that do not interact with
each other: a behaviour is one of the component that the variable `part` names, from
its own initial states, and the variables of the others keep one of theirs.
Nothing is shared, so that this is a run of each component and no
interleaving of two (theorems `ConnectionsApart`, `StoresApart`). The names of a
module begin with its prefix (`Ex`, `Asy`, `Cli`, `Db`, `Dm`, `Or`, `Lru`, `Bm`,
`Fr`, `Op`, `App`) so that they can be extended together. MCObjectPool has an
instance of the pool alone, with one thread more.

### IsgwServer: the request pipeline

One variable per piece of shared state (`conn`, `total_seq`, `svcQ`, `reqFree`,
`ack`, `ackFree`, `ackQ`, `notes`), one place per thread (`wpc`, `rpc`) and a
history of what became of every request. Steps are cut where another thread
can see the difference.

| Code | Actions |
|---|---|
| `AceSockHdrBase::open` | `Accept` (takes `total_seq_`, then increments it modulo `SeqMod`) |
| closing, illegal input, idle timeout | `Disconnect` |
| `ISGWIntf::handle_input`/`process` | `BeginInput` with the number of complete requests in the read, then `InputRequest` for each, or `InputOverload` when `putq` fails: the object is given back, the rest of the read is thrown away and the connection is closed |
| `ISGWUIntf::handle_input`/`process` | `InputUdp` (a full queue drops the request only) |
| `ACESvc::svc`, `recv` | `Recv` |
| `ISGWMgrSvc::process` | `TakeAck` (reply object, copied head, request object back to its pool), then `Internal`, `CheckFails` or `Business`, each ending in `ToSend` or `NoReply` |
| `ISGWAck::putq` | `Putq` (lock, `push_back`), `PutqNotify` (notify, log, unlock) |
| `ISGWAck::handle_input`/`handle_timeout` | `BeginDrain` |
| `ISGWAck::process` | `Pop`, then `DeliverUdp`, `DropNoOwner`, `DeliverTcp` or `SendFails`, then `ReadSize` (the unlocked `size()`: any value while a worker is inside `putq`) |

`queue_lock_` is held exactly while a worker is at `putq`; `Pop` holds it for
one step. The reactor runs one handler at a time (`rpc`), so a connection is
never closed in the middle of a read. A `PriProAck` has an identity and keeps
`ret` from use to use; every field of a `PriProReq` is overwritten on reuse, so
requests are values. What a request says and what business code answers is
left out, except for the class of its command (internal or business) and
whether it succeeds. A thread that finds a pool empty waits (a bound: the code
allocates, see ObjectPool).

ReplyService is what clients are promised: a pending request is answered at
most once and only to a live asker, or dropped. `live`, `asker`, `pending` and
`sent` are mapped from the connections, the history and the queues
(`Service` at the end of IsgwServer); `ImplementsService` says that every step
of the pipeline is one of the service or invisible.

### ObjectPool: `ACE_Object_Que`

The queue inside the pool has a lock of its own; its result is stored in the
member `ret_` and tested later. `OpDequeueCall`/`OpEnqueueCall` are the locked
call, `OpStore` the assignment, `OpDequeueOk`/`OpDequeueNew`/`OpEnqueueTest` the
test and what follows. The test reads the member again because the makefiles
(`svr/makefile`, `easyace/`) compile without optimisation.

### CmdAmntCntrl: flow control of one command

Nodes of different commands share only `time_now_`, which any command's
request may set to the time its thread has read (`Check`, `SetTime`); one node
is modelled. `GetStatus`, `Renew`, `ClearFail`, `ClearReq` are `get_status`;
`Order` with `ClearFail`, `ClearReq` is `set_status` by the administrator;
`AmountInc`, `RenewAmount`, `Refuse`, `Count`, `Store`, `CountFail`,
`StoreFail`, `Ratio`, `DivideByZero`, `RefuseFail` are `amount_inc`. Increments
are a load and a store because another lock's holder may clear in between.
Time is modulo `TimeMod`, as unsigned subtraction is. The peaks, the totals of
failures and the stored ratio are only printed by `get_statiscs` and are left
out, as are commands outside the configured range, which are always refused, and
the switch that turns flow control off.

### IBCMgrSvc: batch requests

`Create` is one turn of the loop that splits a batch (comm/isgw_oper_base.cpp),
`Recv` takes a sub-request, `GiveUp` is an early return, `Process` the
operation, which runs outside the lock. What `process` does with the table
under `ibcr_map_lock_` is one step: `Merge` if the batch is not complete,
`Finish` if it is, `NoMemoryToEvict` and `NoMemoryToFinish` when no reply
object can be had. `Room` is the eviction that precedes the insertion of a new
record. A batch stands for its key, and the number of a batch for its msg_seq,
by which the table is sorted. The text that is merged is left out; the counts
`cnum` and `snum` that the answer tells are kept.

### PlatConnMgrEx: blocking connections to backends

| Code | Actions |
|---|---|
| the constructors, `init` | `ExInit` (all connections tried, or none) |
| `get_ip_idx`, `get_index` | `ExCall`: a connection without use flag, or any if all have one |
| `get_conn`, with the strategy | `ExGetConn`, `ExInitConn`, `ExGot` (reads `conn_` after the lock was released) |
| `init_conn` | `ExConnected`, `ExRefused` |
| the second look under the lock | `ExLock`, which also chooses among the four functions |
| `send`, `send_recv`, `send_recv_ex`, `recv` | `ExDrain`, `ExSend`, `ExRecv`, `ExRecvFails`, ended by `ExDone` or `ExGiveUp` |
| `fini` | `ExFini`, `ExClose`: the increment of `fail_times_` is a load and a store |

Bytes are parts of answers that say whether they answer the request the
thread has sent. That a part arrives is seen only when it is read, so that
arrival is chosen there, and when the peer closes.
`ExOwnAnswer` says when a call may return parts of another one's answer: only
after a call that succeeded before its whole answer had arrived (`send` reads
no answer, `send_recv` reads once), as the drain before a request reads
what has arrived and cannot wait for the rest.

### PlatConnMgrAsy: the asynchronous mode

Composes what forwarding a request and its answer touch: `PlatConnMgrAsy` with
the connection of one ip, `ISGWMgrSvc::forward`, `ISGWAck` sending, `ISGWCIntf`
reading answers, `ASYTask`. `AsyInsert`, `AsyEstab`, `AsyLock`, `AsyConnect`,
`AsyConnectFails`, `AsyOpen`, `AsySetFd`, `AsySetSeq`, `AsyReadFd`, `AsyPut`,
`AsyFail` are steps of a worker; `AsyAccepts`, `AsyAccepted`, `AsyCloses`,
`AsyDeliver`, `AsyAnswerReply`, `AsyAnswerTask` of the reactor; `AsySvc` of the
task's thread. `asyTable` is what the reactor knows of each descriptor.
`total_seq_++` is a load and a store in both threads that execute it.
A connection is in the reactor's table before it has a number, and seems to have
0 meanwhile, the number of the first connection: `AsyDeliver` sends it what is
addressed to its descriptor and 0. `asyStray` keeps every message that reached a
connection not its own, with its number and whether that connection had one;
`asyRaced` that two connections got one number, or that the
reactor closed a connection `init_conn` was still making. `AsyOnlyOwner` says
that without such a race only a message with the number 0 goes astray, and only
to a connection that has no number yet. What happens after a race is in the
model, and no property says anything of it but `AsyRecordFirst`. The records
dropped by `insert` are any of the old ones, not empty: the iterator is used
after it was erased, and what the loop does after that is undefined.

### CliSockets: the sockets of the client library

`SYS_is_sock_valid` (`CliIsSockValid`), `SYS_get_sock` (`CliGetSock`),
`SYS_connect` (`CliAgain`, `CliSkip`, `CliSocket`, `CliConnect`, their failures,
`CliNoServer`, `CliSave`), `SYS_send_n`, `SYS_recv_n`, `SYS_close` for threads
that share the table of sockets. `CliAgain` is the close of a socket before the
next server is tried. A caller passes a `sock_fd` of -1, as the callers in
the repository's library do.

### PlatDbAccess, DBManager, PlatOraAccess: databases

`PlatDbAccess` has an action for the beginning of each of the four calls, for
`get_db_conn` (`DbGetNone`, `DbGetConn`, `DbNotConnected`), for each command of
`PlatDbConn` (`DbQuery`, `DbUpdate`, `DbMulti` with `DbResult` and
`DbNextResultFails`, `DbBegin`, `DbStatement`, `DbCommit`), for reconnecting,
and for `fini`. A command (`DbOutcomes`, external) executes, fails, or loses
the connection before or after it was executed; `done` and `lost` of a call
remember what the server did, and `DbOutcome` compares it with what the caller
is told. `DBManager` is `CDBManager::ExecSql` (`DmChoose`, `DmCreate`,
`DmConnect`, `DmGet`, then `DmExec`, `DmThrow` or `DmFail`) with the thread of
`CheckLongDBConn`; addresses of deleted connections are used again by new
ones. A round of the check holds `m_dbManagerMutex` from `DmRound` to the last
slot, but takes `m_dbHandleMutex` anew for each of `DmReadAge` (`GetCA`),
`DmSetAge` (`SetCA`), `DmReadQuery` (`GetCB`) and `DmJudge` (`Free`, `SetCB` or
`SetCA`, by the counter read before), and `CreateHandle`, which takes only the
second mutex, may come between any two of them. `dmRounds` counts for each call
the rounds that have judged its slot since its counter was cleared: `dmLate` is
set when they reach MAX_QUERY_COUNT, from when on the check deletes the
connection as it is meant to, and `dmRaced` when `CreateHandle` has cleared a
counter between the check's reading and its judging it. `DmSound` holds until one
of the two. `PlatOraAccess` is the pool for Oracle with its three calls and the
exceptions of its library.

### LruHashTable and LruCache: the hash table in shared memory

LruHashTable keeps the table as it is in memory: nodes with their four links,
buckets with head and count, three list heads, `iItem`. The operations are
`LruInsertUnique`, `LruInsertEqual`, `LruFindOrInsert`, `LruSearch`, `LruRemove`,
`LruErase` and `LruEraseAt`. Each begins with its first change of the chains; the
others are steps of their own: `LruFreed` (`sht_free_node_i`), `LruAlloc`
(`sht_alloc_node_i` after an eviction), `LruLinked` (`sht_insert_i`), `LruScan`
(the rest of `erase(key)`). Between any two the process may be killed
(`LruKilled`). The next one attaches the table as it is, or, if `sht_check` finds
more nodes in use than there are, makes it anew. A process killed while its call
holds a node, which is then in none of the chains, costs the table that node for
ever; one killed between the freeing of the evicted node and the next allocation
costs nothing. `lruLost` counts the former.

Two uses of `erase` take a node out of chains it is not in. `erase(key)` goes on
from the node it has just freed along the chain of the free ones, and finds them
if the key is 0, the code of a free node (`LruScan`); `erase(iterator)` is given
the node a killed process has lost, which `begin()` finds as well as any other
(`LruEraseAt`). Both are carried out link by link: the links the node still has
are followed, counts fall below the number of nodes, a node may be freed that is
free. From then on the table is damaged (`LruDamaged`), and up to `LruMaxAfter`
further calls of any kind are followed on it, in which chains may be cyclic and
counts negative; walks are cut off where the code's would be by `iCount`. Types
hold throughout, and nothing else is claimed of a damaged table.

LruCache is the abstract specification, a sequence of entries in the order of
their use; `LruKeepsPromise` is the refinement. An entry goes only if it is
removed or the least recently used of a full table, a kill costs at most the entry
its call was about and one slot, and the table is damaged only
where LruCache says it can be (`Damage`): by a call when a slot has been lost, or
in an erase that leaves entries while slots are free.

### ShmBitmap: a bit for each uin

Processes open, create, clear and close the segment and set, clear and get bits.
A change is a read and a write of a byte. `bmClash` remembers the bytes in which
two writers overlapped, or that a late clearing wiped: no other bit is lost.

### Framing: messages from bytes

The handlers' buffers and counters (`recv_buf_`, `recv_len_`, `msg_len_`)
as they are, with a byte standing for its place in the stream, so that
what is passed on can be compared with what was sent. `FrTextArrives`,
`FrLengthArrives` are a read of any size, `FrTextEnd`, `FrEnd`, `FrNextLength`,
`FrProcess`, `FrLeave` the loop behind it, `FrTimeout`, `FrEnded`, `FrRefused`
the ways a connection ends. `FrFramed` compares with a reference definition
(`FrComplete`, the messages that have arrived as a whole) in all states;
`frAstray` marks the two reads after which it does not hold and which the
property names.

### ISGWApp: processes, signals, configuration

`AppInitMain` and `AppInitSvr` load the configuration; `AppCheck`, `AppFork`,
`AppNoFork`, `AppHatched`, `AppReset`, `AppLoopEnds` are `parent_main` with
`parent_hatch`; `AppWait`, `AppWaited` are `parent_quit`; `AppQuitApp` is
`quit_app`; `AppChildReset`, `AppChildMain`, `AppChildLoopEnds`, `AppChildEnds`
are a child. `AppInterrupt`, `AppInterruptChild` and `AppReload` are SIGINT and
SIGUSR1 at any place.

## 3. Runs

| Run | Instance | Shows |
|---|---|---|
| `pipeline` | 1 descriptor, 2 connections, 2 workers, 3 requests, reads of up to 2, queue 1, sequence numbers modulo 2 | `TypeOK`, `AckOwnedOnce`, `ReqConserved`, `ReplyToAsker`, `PutqOwnsAck`, `BusinessCounted`, `DropsOnlyOrphans`, `ImplementsService` |
| `pipeline_live` | the same with a UDP client and 2 requests, fair threads | `EveryRequestSettled` |
| `flow` | 2 threads, 1 order, limit 1, 5 requests, 3 seconds | `TypeOK`, `ServedBounded`, `CallsReturn` |
| `tables`, `part` = ibc | 2 threads, 3 batches of 2, table limit 1, queue 2 | `TypeOK`, `CountedOnce`, `AllAccounted`, `FullIsOnly`, `TableBounded`, `EvictsWhenCrowded`, `EveryBatchAnswered` |
| `tables`, `part` = lru | 3 nodes in one bucket, two keys, one process killed with a node, 2 calls on a damaged table | `LruTypeOK`, `LruSound`, `LruKeepsPromise` |
| `connections`, `part` = ex | 2 threads, 2 ips of one connection or 1 ip of two, answers of 1 or 2 parts, no failure forgiven | `ExConnectionHeld`, `ExOwnAnswer` |
| `connections`, `part` = asy | 2 workers, the reactor, 2 clients and a backend on 2 descriptors, 4 numbers, one record, a queue of 1 | `AsyOnlyOwner`, `AsyOneConnection`, `AsyRecordFirst` |
| `connections`, `part` = cli | 3 threads, 2 descriptors, 2 places in the table, 3 servers, one of them marked bad | `CliSound` |
| `stores`, `part` = db, dm, or | 2 threads on 2 connections, 2 statements; 2 threads, 3 connections, limits of 2 rounds; 3 threads on 2 connections | `DbOutcome`, `DbPoolSound`; `DmSound`; `OrSound` |
| `stores`, `part` = op | 2 threads, a pool of 2, up to 3 objects wanted | `SoundUnlessMisread`, `AmpleIsSound` |
| `stores`, `part` = bm | 2 processes with segments of 4 and 2 bits, 2 bits to a byte | `BmKept` |
| `stores`, `part` = fr | streams of three messages of sizes 1 to 8 in a buffer of 7, length fields of 2, all splits into reads, 5 modes | `FrFramed` |
| `stores`, `part` = app | no children or 2, signals and failures at every step | `AppNoOrphan`, `AppConfigured` |
| `pipeline_stat`, `pipeline_pipe`, `flow_stop`, `flow_zero` | smaller instances | violated, see below |
| `pool_race` | 3 threads, a pool of 2 | violated, see below |
| `db_fresh` | that of `stores` | violated, see below |

`ConnectionsTypeOK` and `StoresTypeOK` are the type invariants of the parts of
`connections` and `stores`.

Distinct states: `pipeline` 1.37 million (a minute), `pipeline_live` 144 000,
`flow` 285 000, `tables` 367 000, `connections` 2.05 million (two minutes),
`stores` 1.12 million (two minutes).

Why the bounds suffice. With one descriptor every new connection reuses it, so
two connections are the smallest case in which a reply can find the wrong one,
and with two sequence numbers (`MaxConns <= SeqMod`) the counter wraps right
after them. Three requests with a queue of one reach overload in the middle of
a read, two requests in the workers at once and two replies on the queue; two
reply objects make every third request reuse one. Two notifications fit in the
pipe, three replies are sent, and a notification is consumed before another is
written in all orders. For the pool of objects, two threads are what it takes to misread `ret_`;
`OpMaxWanted` exceeds `OpSize`, so the pool does run empty and full, and three
addresses are all that are alive at a time until something is misread. Objects
are alike, so it is filled in one order.
For flow control, the limit of 1 is reached by the second request of a period,
`FailMin` stands for the 10 of the code, and the clock passes the end of a
period more than once. For batches, the limit of one
(and one more, as it is tested before the insertion) makes the third batch
evict another; with two sub-requests each, an evicted batch still has a result
to come, and the queue of two loses some. The passing runs set the wrap of the sequence number
and of the clock so that no stale reply or time survives a whole revolution,
as 2^32 connections or seconds do not pass while a request waits.

For the pools, two threads and two connections have every race for one
connection, and a pool that runs out; the Oracle pool has a third thread since
two are enough to use all of its connections. `ExMaxFails` = 0 has the strategy
act after the first failure, and an answer of two parts in a buffer of two has
a call return with a part still to come. Four sequence numbers let two clients
and two backend connections in turn be numbered, in an increment that two
threads execute at once, and two descriptors are fewer than the connections
there can be, so that each is reused. The sockets of a client have fewer descriptors
than would fill its table as well: that a full table leaves a connection
unsaved is covered by the proof of `CliSound` only. A table of three nodes has a first, a
middle and a last node in every chain, and the contents an `insert_equal` leaves
make nodes with one key and different contents. Few calls on a damaged table are followed, as nothing but its types is
claimed of it. In Framing a length field may be split
between reads, messages may end where the buffer does, and one does not fit.

The models stop when their bounds are used up, and a pipeline without requests
waits for some: every configuration says `CHECK_DEADLOCK FALSE`. The liveness
properties and `NotifyNeverBlocksReactor` are what stands for the absence of
deadlock.

One component really can stop: a thread that calls the Oracle pool for a
connection whose slot is NULL takes `db_conn_lock_` again while it holds it
(section 5). What the runs `connections` and `stores` check are invariants; no
fairness is assumed in them.

Fairness. `IsgwServer!Fairness` is weak for each worker (threads of the system,
which are scheduled) and for the reactor inside a handler (it is straight-line
code), and strong for `BeginDrain`: ACE's reactor dispatches notifications and
timers before descriptors in every round, so other events cannot keep one
waiting for ever. Nothing is assumed of the network. In CmdAmntCntrl a thread
in a call is strongly fair: the mutexes do not starve a waiter. In IBCMgrSvc
the loop that creates sub-requests and the threads are weakly fair; `TablesSpec`
repeats this fairness, so that the behaviours of the hash table, in which these
threads never move, are not fair ones, and are checked for safety only.

### Disagreements with the code's own words

| Run | Code | What it says | What the run shows |
|---|---|---|---|
| `pipeline_stat` | frm/isgw_mgr_svc.cpp:305 | comm/pp_prot.h:177: `ret_value` is "本请求的返回状态", the status of this request | internal commands do not assign it: the reply of one that failed is counted as a success, by the value its object had when it was taken from the pool |
| `pipeline_pipe` | frm/isgw_ack.cpp:46 | the same line: versions from 6.2 on "seem to have no bug any more" | `notify` on a full pipe waits for the reactor with `queue_lock_` held, and the reactor waits for that lock. The pipe holds thousands of notifications; the run has room for one, and the passing runs enough |
| `pool_race` | easyace/ace_object_que.h:121 | :123: an object is thrown away if its enqueuing fails | an object whose enqueuing succeeded is deleted while it is in the pool |
| `flow_stop` | comm/cmd_amount_contrl.cpp:184 | :120: status 2 is "停止后续所有服务", stop all further service | a request in flight turns it into 1, which the next period clears |
| `flow_zero` | comm/cmd_amount_contrl.cpp:196 | comm/cmd_amount_contrl.h:43: the mutex that synchronises the other statistics | the divisor is cleared under the other mutex: division by zero |
| `db_fresh` | comm/dbmanager.cpp:156 | comm/dbmanager.h:32: the longest time of a query is 2 min ("最大query 时间 2min"), which is MAX_QUERY_COUNT, 2, rounds | a connection is deleted under its thread's statement after one round: the check judges by the counter it read before `CreateHandle` cleared it and connected |

The table of batches is also one record larger than frm/ibc_mgr_svc.h:14
("the most records in the map") says, as frm/ibc_mgr_svc.cpp:129 tests with
`>` before the insertion; `TableBounded` states the bound the code keeps.

## 4. Proofs

Every theorem holds for all values of the constants that satisfy the ASSUME of
its module: any number of threads, descriptors, connections, nodes or processes,
any size of queues and pools. Each invariant named below was checked by TLC on
the instance of the run before it was proved. There is a lemma for each action
or group of actions, named after it, and each theorem combines
`Init => Inv`, `Inv /\ [Next]_vars => Inv'` and `Inv => property`.

| Module | Theorems | Of |
|---|---|---|
| IsgwServer_proofs | `TypeCorrect`, `RequestsConserved`, `RepliesMatch`*, `RepliesOwnedOnce`, `PutqKeepsReply`, `BusinessRequestsCounted` | `TypeOK`, `ReqConserved`, `ReplyToAsker`, `AckOwnedOnce`, `PutqOwnsAck`, `BusinessCounted` |
| | `OnlyOrphansDropped`, `PipelineImplementsService`* | `DropsOnlyOrphans` (an action property), `ImplementsService` (the refinement) |
| ObjectPool_proofs | `PoolTypeCorrect`, `PoolSoundUnlessMisread`, `AmplePoolIsSound` | `OpTypeOK`, `SoundUnlessMisread`, `AmpleIsSound` |
| CmdAmntCntrl_proofs | `FlowTypeCorrect`, `FlowServedBounded` | `TypeOK`, `ServedBounded` |
| IBCMgrSvc_proofs | `IbcTypeCorrect`, `IbcCountedOnce`, `IbcAllAccounted`, `IbcFullIsOnly`, `IbcTableBounded`, `IbcEvictsWhenCrowded` | `TypeOK`, `CountedOnce`, `AllAccounted`, `FullIsOnly`, `TableBounded`, `EvictsWhenCrowded` (an action property) |
| Connections_proofs | `ExTypeCorrect`, `ExConnectionsHeld`, `ExOwnAnswers` | `ExTypeOK`, `ExConnectionHeld`, `ExOwnAnswer` |
| | `AsyTypeCorrect`, `AsyRecordsFirst`, `AsyOwnersOnly`, `AsyConnectsOnce` | `AsyTypeOK`, `AsyRecordFirst`, `AsyOnlyOwner`, `AsyOneConnection` |
| | `CliSocketsSound` | `CliSound` |
| | `ConnectionsApart`, `ConnectionsTypeCorrect` | a behaviour of MCConnections is one of each component; `ConnectionsTypeOK` |
| Stores_proofs | `DmConnectionsSound`, `OrCallsSound`, `DbCallsTruthful`, `DbConnectionsSound` | `DmSound`, `OrSound`, `DbOutcome`, `DbPoolSound` |
| | `BitsKept`, `FramingSound`, `NoChildOutlives`, `ProcessesConfigured` | `BmKept`, `FrFramed`, `AppNoOrphan`, `AppConfigured` |
| | `StoresApart`, `StoresTypeCorrect` | a behaviour of MCStores is one of each component; `StoresTypeOK` |
| LruHashTable_proofs | `LruTableSound`, `LruTableKeepsPromise` | `LruTypeOK` and `LruSound`, `LruKeepsPromise` (the refinement) |

\* under `NoWrap`, see below.

### Assumptions

`NoWrap` (`MaxConns <= SeqMod`: the process opens no more connections than
`sock_seq` has values) is an assumption of two theorems and not of the module:
without it both are false, as a reply as old as `SeqMod` connections would match.
The others assume nothing beyond the ASSUMEs, which say that sets of threads
are finite and that sizes and limits are numbers. Two ASSUMEs were too weak, as
the proofs showed: `TimeMod` of CmdAmntCntrl has to exceed 1 (the model marks a call that obeys an
administrator with the time 1, which is none if the clock has a single value), and the values of LruHashTable are a
non-empty set of numbers, one of which fresh memory holds. The proofs also
corrected `BmTypeOK`, which did not say that a process that has made no call has
no uin.

### The pipeline

The invariant has four layers, each of which uses those before it.

- `Held` is `TypeOK` and `ReqConserved` with what they need: `Control` ties each
  thread's place to what it holds, `ConnIds` bounds the identities of
  connections by the number opened, and `HeadsNumbered` says that the requests
  and replies in queues and threads have numbers in the history.
- `Matched` adds `SeqsMatch` (under `NoWrap` the `sock_seq` of a connection is
  its identity less one), `HeadsMatch` (the head a request or reply carries is
  that of the history's asker) and `ReplyToAsker`, which is not inductive alone: that
  the handler found has the same `sock_seq` says nothing unless numbers
  name connections and heads are copied faithfully.
- `Owned` counts the places of each reply object (pool, queue, workers that fill
  it, reactor) to one. A count is stronger than `AckOwnedOnce`, which
  does not tell two places in one queue from one.
- `Carried` says that each request that is not done with is in one place
  (`OnePlace`) and is still open there, with the command and the asker it
  came with (`QueuedOpen`, `GotOpen`, `OutOpen`, `ProcessOpen`), and
  `BusinessCounted`, which needs that a reply object in processing was written by
  the operation of this request.

The refinement maps `pending` to the requests whose history says they are
unanswered (`InFlight`). By `Carried` these are exactly the requests in queues,
threads and reply objects (`Pending`), so that a delivery is a delivery of
something pending, and a request refused or dropped is gone for good. Each
action is then a step of ReplyService or leaves its variables alone.

### Pool, flow control, batches

`OpInv` is `OpTypeOK`, `OpItems` (what a thread inside a call holds), `OpSole` (until
something is misread, each object is pooled, used or in one call) and `OpAmple` (as
long as no more are wanted than the pool was filled with, objects pooled and
wanted make up its size, so that it is never empty for who asks).

For `ServedBounded`, `Locks` says who holds each lock, `Counts` that no counter
runs ahead of the requests, and `Quota` that while the command is served and
nobody clears, the requests of the period are at most `cur_req` and those due to be
counted (`Due`: admitted, or between load and store). It is the due ones that
exceed the limit, one for each thread, since the counters are cleared under another
lock than they are incremented under.

`Inv` of IBCMgrSvc is `ThreadsOK`, `Sound` (of each batch: told and kept results make up
those merged, a complete answer is the only one, a record has counted something),
`AllAccounted` and `TableBounded`. `Sound` is stated of any table and history, so that
`Room`, `Merge` and `Finish` are lemmas about data that the actions combine.

### Connections

- `ExLocks`: a lock has one holder, a connection in use exists, one being made or
  flagged is in a thread's hands. `ExClean`: as long as no call has left a
  part of an answer behind (`exLeft`), the parts there are belong to the call in
  progress; this is `ExOwnAnswer` made inductive.
- `AsyWork`, `AsyOnce`, `AsyRecorded`: a request is in one place, is sent once,
  and has its record from before it is sent. `AsyRaceFree`: until something has raced, numbers grow and are given once (`AsyNumbers`, `AsyNamed`), the connection
  that is open is the one being made or the one `conn_info_` names
  (`AsyBackends`), and the pair of descriptor and number of every queued message is
  of things that belonged together or matches nothing (`AsyAddresses`).
  The last is the point: `init_conn` sets descriptor and number apart, so
  that a message may carry the descriptor of one connection and the number of
  another, which no connection has.
- `CliCalls`: a thread that uses a connection has it in its slot, or there was
  none; `CliFdsOK`: used slots hold descriptors.

### Stores

- `DmPool`: until a query is late or the check is overtaken, a slot has one user,
  the rounds that have judged it for that user are at least what its counter says
  and, while the check is about to judge it, at least what the check has read, so
  that the check frees no slot in use; the connections that exist are those in
  slots.
- `OrCalls`, `OrNulls`, `DbCalls`: at each place of a call, how often the server
  has executed it and what was lost (`DbCallOK`), with `DbPoolSound`, that only a
  multiple query leaves results behind.
- `BmStores`: what a process about to store has read is of the byte of its uin.
  `BmKept` then carries itself, as a store to a byte that differs from
  what was read puts it into `bmClash`. `BmSizes`: the segment has the size one
  of the processes gave it.
- `AppForked`, `AppWaitedFor`, `AppLoaded`: which children exist, whose end
  `parent_quit` has seen, who has a configuration; `AppFlags`: the rest of the
  types.
- `FrBuffer`: what is in the buffer up to `recv_len_` was received, behind it that
  of `ISGWCIntf` is zero, and the loop over the messages does not pass what was
  received. With the types, which need it: a message is a part of the buffer, and
  what the loop leaves is moved to its beginning.
- `FrSynced`, for `FrFramed`: the buffer holds the last `recv_len_` bytes of those
  received, and (unless `frAstray`) the handler is in step with the stream
  (`FrInStep`): where the loop is, a message ends (`FrPos`, the place of each
  message's end, is a sum over the messages before it); `frGiven` is what was not
  dropped of the messages that end there or before; a handler that waits has no
  whole message in what is left; and with lengths, `msg_len_` is that of the
  message behind that place, or not known yet (`FrLengthKnown`). The lemmas behind
  it say what a reader of the code assumes: that the first separator behind the end
  of a message ends the next (`FrTextEndIs`), that a length field tells the
  length of the message it is of (`FrFieldTells`), that in less than a length no message is
  whole (`FrNoneWhole`). The one place where the length is not that of the next
  message is what `frAstray` excepts: less than a length field left over.

### The hash table

The chains are read by walks, functions of the memory (`LruWalk`); reasoning about
them needs lists instead. `LruShape(t, u, f, c)` says of a table that u, f and the
c[b] are the lists of its LRU, free and bucket chains: distinct nodes, linked both
ways (`LruDll`), with the heads, tails and counts of the header, each node in use
once in u and once in the bucket of its code, the others in f. Each of
the four calls is shown to turn the shape of some lists into that of others
(`LruAllocShape`, `LruInsertShape`, `LruRemoveShape`, `LruFreedShape`): a node is
put in front of a list or taken out. By induction over the length,
a walk of as many steps as there are nodes reads the list (`LruWalks`); the
induction is over a set of numbers (`NaturalInduction` of QueueFacts). `LruInv`
is `LruTypes`, which holds of a damaged table as well, since every step leaves
indices in their range whatever the links are, and, until it is damaged,
`LruHolds`: the shape, with the walks for the lists so that TLC can check it, and
the count of nodes, which are in use, lost with a killed process, or held by the call.
What is left to show of damage is when it comes: a call that does it finds
a valid node in no list, which was lost, or a free node behind the one just
freed, with entries left in the bucket.
For the refinement, entries are read off u: putting in front, leaving out and
moving to the front of the list are those operations on entries, and a search
finds the first entry of its key in a bucket.

### Only model-checked

- Liveness (`EveryRequestSettled`, `CallsReturn`, `EveryBatchAnswered`): fairness is
  out of the prover's reach.
- The violations: a theorem cannot show them.

## 5. Not modelled, and the plan

Every component that keeps state has a module, and every safety property of a
passing run is proved, as are the two refinements. Next: safety halves of the
liveness properties (a thread that has no step to take holds no lock and no
object), and the hazards no property covers.

What the modules leave out, by component:

- **Pipeline**: the contents of messages (`QModeMsg`), authorisation, routing,
  business operations (a choice of results), logging.
- **Backend connections, asynchronous**: several ips and the routers that send
  to all backends, `rflag` 2. A handler is in the reactor's table before it has
  a number, so that `sock_seq` 0 can be seen; a request whose sending fails
  leaves its record behind; both are in the model. `ASYR_COMP`, which is no
  strict order, is not.
- **Backend connections, synchronous**: `fail_times_` counts failures since the
  last connection was made and not, as its comment says
  (comm/plat_conn_mgr_ex.h:86), consecutive ones: a successful call does not
  clear it. After a failure the strategy falls back on the next ip without
  looking at that one's failures.
- **Databases**: a statement of `exec_query` and `exec_update` is a single one;
  results and columns; `sdb_db_sqlserver` (a library call each); the
  destructor of `CDBHandle`, which would lock its own mutex twice but never
  runs. An error of `mysql_next_result` is not reported, a failure to start a
  transaction leaves a dead connection open, and a thread that gets a NULL slot
  of the Oracle pool waits for itself, as `init` locks `db_conn_lock_[index]`
  (comm/plat_ora_access.cpp:78) that its caller holds: all in the model. So
  is that `CheckLongDBConn` deletes connections that are in use: after
  MAX_QUERY_COUNT rounds, or, by the stale counter, before.
- **Batches**: `IBCR_COMP` (comm/ibc_prot.h:93) is no strict order for two keys
  with one `msg_seq` and different sockets; the model gives each batch its own.
- **Framing**: `lastrtime_` (unset in some paths), EAGAIN (nothing changes),
  what `strstr` finds behind the buffer. The constructor of `ISGWIntf`
  leaves the buffer uninitialised, which the model has as fresh bytes; a
  separator in it, or one of an older message, ends a message that is
  not there, which `is_legal` refuses; if the bytes are the beginning of a message,
  that is lost (`frDropped`). A length that exceeds the buffer is never complete and
  the connection is closed when the buffer is full. `ISGWCIntf` adds
  `MSG_LEN_SIZE` to lengths in builds with BINARY_PROTOCOL as well, and does not
  check the lengths after the first.
- **Hash table**: iterators (`operator++` uses the macro of
  src/comm/CLruHashTableEx.hpp:92, which has its terms reversed; of `begin()` only
  that it may return a lost node), `sht_rebuild` (never called), kills in the
  middle of the four calls, the memory managers, reads outside the
  table through the links of a damaged one. `insert_equal` never copies
  its value, which the model has. No code in the repository instantiates the
  template; its users' lock is assumed.
- **Statistics**: the counters of `Stat`, incremented without locks; `count_bit`
  of the bitmap.
- **Client library**: a caller that passes a `sock_fd` of an earlier connection
  is given it back as valid although it may be closed (src/comm/sys_cli_io.cpp:245);
  a table that is full leaves a connection nobody closes (:453), which the model
  has; encoding, routes, statuses of servers, thread numbers cut to an int.
- **Application**: options, log files, detaching, `tweak_child` (its signal
  handlers are commented out, so that lost children are not replaced), the
  crash of the parent. In the model as in the code: a SIGINT between the
  test of the quit flag and the reset of the reactor's end is lost; children
  ignore the SIGTERM `parent_quit` sends, so that it waits until they end by themselves;
  `quit_app`'s `times` is never incremented; a reload replaces everything by
  the last file loaded. The reload runs in the context of the signal and
  takes `conf_lock_`, which is not recursive; the model has `load_conf` as one step.
- Scripts, the cipher, the example service and its tools.
