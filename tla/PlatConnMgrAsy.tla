---------------------------- MODULE PlatConnMgrAsy ----------------------------
(***************************************************************************)
(* Requests that are passed on to a backend and answered when its answer   *)
(* comes back: PlatConnMgrAsy (the connection of one ip), ISGWMgrSvc's     *)
(* forward, ISGWAck (which sends requests to backends as it sends replies  *)
(* to clients), ISGWCIntf (which reads the answers) and ASYTask (which     *)
(* handles those that are not replies to be passed to a client as they     *)
(* are).                                                                   *)
(*                                                                         *)
(* A message is addressed by a descriptor and the number its connection    *)
(* got from total_seq_; the system uses a descriptor again once its        *)
(* connection is closed.  Each client sends one request and has its name.  *)
(* A worker reads sock_fd and sock_seq without the lock under which        *)
(* init_conn writes them, and total_seq_++ is a load and a store of the    *)
(* reactor's thread, which accepts clients, and of a worker's.             *)
(***************************************************************************)
EXTENDS Naturals, Sequences, FiniteSets

CONSTANTS
    AsyThreads,   \* worker threads
    AsyClients,   \* clients; each sends one request
    AsyFds,       \* descriptors
    AsyMaxSeq,    \* bound: numbers given to connections
    AsyMaxRecord, \* MAX_ASYR_RECORED
    AsyQueue      \* answers queue_ has room for

ASSUME PlatConnMgrAsyAssumption ==
    /\ IsFiniteSet(AsyThreads)
    /\ IsFiniteSet(AsyClients)
    /\ AsyFds \subseteq Nat \ {0}
    /\ {AsyMaxSeq, AsyMaxRecord, AsyQueue} \subseteq Nat
    /\ "backend" \notin AsyClients /\ "none" \notin AsyClients

VARIABLES
    asyTable,   \* the reactor's handlers: whose connection, its sock_seq_
    asyTotal,   \* total_seq_
    asyInfo,    \* conn_info_: sock_fd, sock_seq
    asyAccept,  \* the connection being accepted: client, descriptor, load
    asyClient,  \* each client's request: where it is, its address
    asyPc,      \* where each worker is
    asyReq,     \* the request it handles
    asyFd,      \* the descriptor it works with
    asyLoad,    \* total_seq_, loaded to be incremented
    asyOut,     \* the queue of ISGWAck
    asyAway,    \* requests the backend has
    asyBack,    \* queue_ of ISGWCIntf: answers for ASYTask
    asyRecord,  \* asyr_map_
    asyOld,     \* records older than DISCARD_TIME
    asyGiven,   \* history: numbers connections have got
    asyRaced,   \* history: two got one number, or one closed while made
    asyStray,   \* history: messages that reached a connection not their own:
                \* whether it had its number yet, and theirs
    asyGone,    \* history: requests whose record was dropped as old
    asyBare     \* history: requests whose answer found no record

asyWorker == <<asyPc, asyReq, asyFd, asyLoad>>
asyConns == <<asyTable, asyTotal, asyInfo, asyGiven, asyRaced>>
asyTasks == <<asyBack, asyRecord, asyOld, asyGone, asyBare>>
asyVars == <<asyConns, asyAccept, asyClient, asyWorker, asyOut, asyAway,
             asyStray, asyTasks>>

AsySeqs == 0 .. AsyMaxSeq
AsyOwners == AsyClients \cup {"backend"}
AsyNobody == [who |-> "none", seq |-> 0]
AsyIsFree(fd) == asyTable[fd].who = "none"

AsyInit ==
    /\ asyTable = [fd \in AsyFds |-> AsyNobody]
    /\ asyTotal = 0
    /\ asyInfo = [fd |-> 0, seq |-> 0]
    /\ asyAccept = [who |-> "none", fd |-> 0, load |-> 0]
    /\ asyClient = [c \in AsyClients |-> [at |-> "new", fd |-> 0, seq |-> 0]]
    /\ asyPc = [t \in AsyThreads |-> "idle"]
    /\ asyReq = [t \in AsyThreads |-> "none"]
    /\ asyFd = [t \in AsyThreads |-> 0]
    /\ asyLoad = [t \in AsyThreads |-> 0]
    /\ asyOut = <<>>
    /\ asyAway = {}
    /\ asyBack = {}
    /\ asyRecord = {}
    /\ asyOld = {}
    /\ asyGiven = {}
    /\ asyRaced = FALSE
    /\ asyStray = {}
    /\ asyGone = {}
    /\ asyBare = {}

AsyGoto(t, place) == asyPc' = [asyPc EXCEPT ![t] = place]

-----------------------------------------------------------------------------
(* Connections.                                                            *)

(* Stores the number: of a connection that is still there, and of one that *)
(* somebody has closed meanwhile.                                          *)
AsyNumber(who, fd, load) ==
    /\ asyTotal' = load + 1
    /\ IF asyTable[fd].who = who
         THEN /\ asyTable' = [asyTable EXCEPT ![fd].seq = load]
              /\ asyGiven' = asyGiven \cup {load}
              /\ asyRaced' = (asyRaced \/ load \in asyGiven)
         ELSE UNCHANGED <<asyTable, asyGiven, asyRaced>>

(* The reactor accepts a client: the handler is registered before it has   *)
(* its number.                                                             *)
AsyAccepts(c) ==
    /\ asyAccept.who = "none"
    /\ asyClient[c].at = "new"
    /\ asyTotal < AsyMaxSeq
    /\ \E fd \in AsyFds :
         /\ AsyIsFree(fd)
         /\ asyTable' = [asyTable EXCEPT ![fd] = [who |-> c, seq |-> 0]]
         /\ asyAccept' = [who |-> c, fd |-> fd, load |-> asyTotal]
    /\ UNCHANGED <<asyTotal, asyInfo, asyGiven, asyRaced, asyClient, asyWorker,
                   asyOut, asyAway, asyStray, asyTasks>>

(* The client's request is queued for the workers as soon as it is read.   *)
AsyAccepted ==
    LET a == asyAccept
    IN  /\ a.who # "none"
        /\ AsyNumber(a.who, a.fd, a.load)
        /\ asyClient' = [asyClient EXCEPT ![a.who] =
                           [at |-> "queued", fd |-> a.fd, seq |-> a.load]]
        /\ asyAccept' = [who |-> "none", fd |-> 0, load |-> 0]
        /\ UNCHANGED <<asyInfo, asyWorker, asyOut, asyAway, asyStray, asyTasks>>

(* A connection is closed; a backend's takes the requests sent over it     *)
(* along.  Its handler is deleted, even while init_conn still uses it.     *)
AsyMaking(t) == asyPc[t] \in {"number", "setfd", "setseq"}

AsyCloses(fd) ==
    LET who == asyTable[fd].who
    IN  /\ asyAccept.who = "none"
        /\ who # "none"
        /\ asyTable' = [asyTable EXCEPT ![fd] = AsyNobody]
        /\ asyAway' = IF who = "backend" THEN {} ELSE asyAway
        /\ asyRaced' = (asyRaced \/ /\ who = "backend"
                                    /\ \E t \in AsyThreads : AsyMaking(t))
        /\ UNCHANGED <<asyTotal, asyInfo, asyGiven, asyAccept, asyClient,
                       asyWorker, asyOut, asyStray, asyTasks>>

-----------------------------------------------------------------------------
(* A worker.                                                               *)

(* The order of a call: a record is inserted before the request is sent.   *)
AsySendFirst(mode, place) ==    \* mutant: send before insert
    CASE place = "take" -> "estab"
      [] place = "insert" -> "idle"
      [] place = "put" -> IF mode = "task" THEN "insert" ELSE "idle"

AsyFollows(mode, place) ==
    CASE place = "take" -> IF mode = "task" THEN "insert" ELSE "estab"
      [] place = "insert" -> "estab"
      [] place = "put" -> "idle"

(* A request is passed on ("forward") or sent with a record ("task").      *)
AsyMode(t) == asyClient[asyReq[t]].at

AsyTake(t, c) ==
    /\ asyPc[t] = "idle"
    /\ asyClient[c].at = "queued"
    /\ \E mode \in {"forward", "task"} :
         /\ asyClient' = [asyClient EXCEPT ![c].at = mode]
         /\ AsyGoto(t, AsyFollows(mode, "take"))
    /\ asyReq' = [asyReq EXCEPT ![t] = c]
    /\ UNCHANGED <<asyFd, asyLoad, asyConns, asyAccept, asyOut, asyAway,
                   asyStray, asyTasks>>

(* ASYTask::insert; with too many records those that are old are erased.   *)
(* The loop erases the element its iterator is at and goes on from there:  *)
(* which of them are erased is undefined.                                  *)
AsyInsert(t) ==
    LET records == asyRecord \cup {asyReq[t]}
    IN  /\ asyPc[t] = "insert"
        /\ \E gone \in SUBSET (records \cap asyOld) :
             /\ gone # {} => Cardinality(records) > AsyMaxRecord
             /\ Cardinality(records) > AsyMaxRecord /\ records \cap asyOld # {}
                  => gone # {}
             /\ asyRecord' = records \ gone
             /\ asyOld' = asyOld \ gone
             /\ asyGone' = asyGone \cup gone
        /\ AsyGoto(t, AsyFollows(AsyMode(t), "insert"))
        /\ UNCHANGED <<asyReq, asyFd, asyLoad, asyConns, asyAccept,
                       asyClient, asyOut, asyAway, asyStray, asyBack, asyBare>>

(* find_handler and get_seq against sock_fd and sock_seq.                  *)
AsyFindsAny(fd, seq) ==    \* mutant: the numbers are not compared
    fd \in AsyFds /\ ~AsyIsFree(fd)

AsyFinds(fd, seq) ==
    fd \in AsyFds /\ ~AsyIsFree(fd) /\ asyTable[fd].seq = seq

AsyIsEstab == AsyFinds(asyInfo.fd, asyInfo.seq)

AsyEstab(t) ==
    /\ asyPc[t] = "estab"
    /\ AsyGoto(t, IF AsyIsEstab THEN "dequeue" ELSE "lock")
    /\ UNCHANGED <<asyReq, asyFd, asyLoad, asyConns, asyAccept,
                   asyClient, asyOut, asyAway, asyStray, asyTasks>>

(* init_conn, under conn_lock_: another thread may have connected.         *)
AsyLockHeld == \E t \in AsyThreads : asyPc[t] = "connect" \/ AsyMaking(t)

AsyLockUnchecked(t) ==    \* mutant: the connection is not looked at again
    /\ asyPc[t] = "lock"
    /\ ~AsyLockHeld
    /\ AsyGoto(t, "connect")
    /\ UNCHANGED <<asyReq, asyFd, asyLoad, asyConns, asyAccept,
                   asyClient, asyOut, asyAway, asyStray, asyTasks>>

AsyLock(t) ==
    /\ asyPc[t] = "lock"
    /\ ~AsyLockHeld
    /\ AsyGoto(t, IF AsyIsEstab THEN "dequeue" ELSE "connect")
    /\ UNCHANGED <<asyReq, asyFd, asyLoad, asyConns, asyAccept,
                   asyClient, asyOut, asyAway, asyStray, asyTasks>>

AsyConnect(t) ==
    /\ asyPc[t] = "connect"
    /\ asyTotal < AsyMaxSeq
    /\ \E fd \in AsyFds :
         /\ AsyIsFree(fd)
         /\ asyTable' = [asyTable EXCEPT ![fd] = [who |-> "backend", seq |-> 0]]
         /\ asyFd' = [asyFd EXCEPT ![t] = fd]
         /\ asyLoad' = [asyLoad EXCEPT ![t] = asyTotal]
    /\ AsyGoto(t, "number")
    /\ UNCHANGED <<asyReq, asyTotal, asyInfo, asyGiven, asyRaced,
                   asyAccept, asyClient, asyOut, asyAway, asyStray, asyTasks>>

(* connect fails: fini_conn, and send returns -1.                          *)
AsyConnectFails(t) ==
    /\ asyPc[t] = "connect"
    /\ asyInfo' = [fd |-> 0, seq |-> 0]
    /\ AsyGoto(t, "fail")
    /\ UNCHANGED <<asyReq, asyFd, asyLoad, asyTable, asyTotal, asyGiven,
                   asyRaced, asyAccept, asyClient, asyOut, asyAway, asyStray,
                   asyTasks>>

AsyOpen(t) ==
    /\ asyPc[t] = "number"
    /\ AsyNumber("backend", asyFd[t], asyLoad[t])
    /\ AsyGoto(t, "setfd")
    /\ UNCHANGED <<asyReq, asyFd, asyLoad, asyInfo, asyAccept,
                   asyClient, asyOut, asyAway, asyStray, asyTasks>>

(* What get_handle and get_seq return: anything if the handler is gone.    *)
AsyHandle(t) ==
    IF asyTable[asyFd[t]].who = "backend" THEN {asyFd[t]} ELSE AsyFds \cup {0}
AsySeqOf(t) ==
    IF asyTable[asyFd[t]].who = "backend" THEN {asyTable[asyFd[t]].seq} ELSE AsySeqs

AsySetFd(t) ==
    /\ asyPc[t] = "setfd"
    /\ \E fd \in AsyHandle(t) : asyInfo' = [asyInfo EXCEPT !.fd = fd]
    /\ AsyGoto(t, "setseq")
    /\ UNCHANGED <<asyReq, asyFd, asyLoad, asyTable, asyTotal, asyGiven,
                   asyRaced, asyAccept, asyClient, asyOut, asyAway, asyStray,
                   asyTasks>>

AsySetSeq(t) ==
    /\ asyPc[t] = "setseq"
    /\ \E seq \in AsySeqOf(t) : asyInfo' = [asyInfo EXCEPT !.seq = seq]
    /\ AsyGoto(t, "dequeue")
    /\ UNCHANGED <<asyReq, asyFd, asyLoad, asyTable, asyTotal, asyGiven,
                   asyRaced, asyAccept, asyClient, asyOut, asyAway, asyStray,
                   asyTasks>>

(* send takes a message from the pool, reads sock_fd ...                   *)
AsyReadFd(t) ==
    /\ asyPc[t] = "dequeue"
    /\ asyFd' = [asyFd EXCEPT ![t] = asyInfo.fd]
    /\ AsyGoto(t, "put")
    /\ UNCHANGED <<asyReq, asyLoad, asyConns, asyAccept, asyClient,
                   asyOut, asyAway, asyStray, asyTasks>>

AsyReturn(t, place) ==
    /\ AsyGoto(t, place)
    /\ asyFd' = [asyFd EXCEPT ![t] = 0]
    /\ asyLoad' = [asyLoad EXCEPT ![t] = 0]
    /\ IF place = "idle" THEN asyReq' = [asyReq EXCEPT ![t] = "none"]
                         ELSE UNCHANGED asyReq

(* ... then sock_seq, and queues the message.                              *)
AsyPut(t) ==
    /\ asyPc[t] = "put"
    /\ asyOut' = Append(asyOut, [to |-> "backend", req |-> asyReq[t],
                                 fd |-> asyFd[t], seq |-> asyInfo.seq])
    /\ AsyReturn(t, AsyFollows(AsyMode(t), "put"))
    /\ UNCHANGED <<asyConns, asyAccept, asyClient, asyAway, asyStray, asyTasks>>

(* A reply goes to the address the request came with.                      *)
AsyReply(c) == [to |-> "client", req |-> c,
                fd |-> asyClient[c].fd, seq |-> asyClient[c].seq]

(* "forward msg failed"; a record that was inserted stays.                 *)
AsyFail(t) ==
    /\ asyPc[t] = "fail"
    /\ asyOut' = Append(asyOut, AsyReply(asyReq[t]))
    /\ AsyReturn(t, "idle")
    /\ UNCHANGED <<asyConns, asyAccept, asyClient, asyAway, asyStray, asyTasks>>

-----------------------------------------------------------------------------
(* The reactor sends messages and reads answers; ASYTask handles them.     *)

(* ISGWAck::process: a message is sent if its descriptor's connection has  *)
(* its number, or has none yet, which is 0, and the message's is 0.        *)
AsyNumbered(fd) == asyTable[fd].who = "backend" =>
                     \A t \in AsyThreads : asyPc[t] # "number" \/ asyFd[t] # fd

AsyAstray(m) == [conn |-> IF AsyNumbered(m.fd) THEN "numbered" ELSE "new",
                 seq |-> m.seq]

AsyDeliver ==
    LET m == Head(asyOut)
        who == asyTable[m.fd].who
        owner == IF m.to = "backend" THEN "backend" ELSE m.req
    IN  /\ asyOut # <<>>
        /\ asyAccept.who = "none"
        /\ asyOut' = Tail(asyOut)
        /\ IF AsyFinds(m.fd, m.seq)
             THEN /\ asyAway' = IF who = "backend" /\ owner = who
                                  THEN asyAway \cup {m.req} ELSE asyAway
                  /\ asyStray' = IF who = owner THEN asyStray
                                 ELSE asyStray \cup {AsyAstray(m)}
             ELSE UNCHANGED <<asyAway, asyStray>>
        /\ UNCHANGED <<asyConns, asyAccept, asyClient, asyWorker, asyTasks>>

(* The backend answers with the request's address.  With _rflag set the    *)
(* answer is the client's reply ...                                        *)
AsyAnswerReply(c) ==
    /\ c \in asyAway
    /\ asyAccept.who = "none"
    /\ asyAway' = asyAway \ {c}
    /\ asyOut' = Append(asyOut, AsyReply(c))
    /\ UNCHANGED <<asyConns, asyAccept, asyClient, asyWorker, asyStray, asyTasks>>

(* ... without it, it is ASYTask's, if queue_ has room for it.             *)
AsyAnswerTask(c) ==
    /\ c \in asyAway
    /\ asyClient[c].at = "task"
    /\ asyAccept.who = "none"
    /\ asyAway' = asyAway \ {c}
    /\ asyBack' = IF Cardinality(asyBack) < AsyQueue THEN asyBack \cup {c} ELSE asyBack
    /\ UNCHANGED <<asyConns, asyAccept, asyClient, asyWorker, asyOut, asyStray,
                   asyRecord, asyOld, asyGone, asyBare>>

(* ASYTask::svc takes the record, if there is one, and calls the function  *)
(* it names, or the default one; ack_len < 0 means no reply.               *)
AsySvc(c) ==
    /\ c \in asyBack
    /\ asyBack' = asyBack \ {c}
    /\ asyRecord' = asyRecord \ {c}
    /\ asyOld' = asyOld \ {c}
    /\ asyBare' = IF c \in asyRecord THEN asyBare ELSE asyBare \cup {c}
    /\ \/ asyOut' = Append(asyOut, AsyReply(c))
       \/ UNCHANGED asyOut
    /\ UNCHANGED <<asyConns, asyAccept, asyClient, asyWorker, asyAway, asyStray,
                   asyGone>>

(* DISCARD_TIME goes by for a record.                                      *)
AsyElapse(c) ==
    /\ c \in asyRecord \ asyOld
    /\ asyOld' = asyOld \cup {c}
    /\ UNCHANGED <<asyConns, asyAccept, asyClient, asyWorker, asyOut, asyAway,
                   asyStray, asyBack, asyRecord, asyGone, asyBare>>

AsyNext ==
    \/ \E t \in AsyThreads :
         \/ AsyInsert(t) \/ AsyEstab(t) \/ AsyLock(t)
         \/ AsyConnect(t) \/ AsyConnectFails(t) \/ AsyOpen(t)
         \/ AsySetFd(t) \/ AsySetSeq(t)
         \/ AsyReadFd(t) \/ AsyPut(t) \/ AsyFail(t)
         \/ \E c \in AsyClients : AsyTake(t, c)
    \/ \E c \in AsyClients :
         \/ AsyAccepts(c) \/ AsyAnswerReply(c) \/ AsyAnswerTask(c)
         \/ AsySvc(c) \/ AsyElapse(c)
    \/ \E fd \in AsyFds : AsyCloses(fd)
    \/ AsyAccepted \/ AsyDeliver

AsySpec == AsyInit /\ [][AsyNext]_asyVars

-----------------------------------------------------------------------------
(* Properties.                                                             *)

AsyTypeOK ==
    /\ asyTable \in [AsyFds -> [who : AsyOwners \cup {"none"}, seq : AsySeqs]]
    /\ asyTotal \in AsySeqs
    /\ asyInfo \in [fd : AsyFds \cup {0}, seq : AsySeqs]
    /\ asyAccept \in [who : AsyClients \cup {"none"}, fd : AsyFds \cup {0},
                      load : AsySeqs]
    /\ asyClient \in [AsyClients -> [at : {"new", "queued", "forward", "task"},
                                    fd : AsyFds \cup {0}, seq : AsySeqs]]
    /\ asyPc \in [AsyThreads -> {"idle", "insert", "estab", "lock", "connect",
                     "number", "setfd", "setseq", "dequeue", "put", "fail"}]
    /\ asyReq \in [AsyThreads -> AsyClients \cup {"none"}]
    /\ asyFd \in [AsyThreads -> AsyFds \cup {0}]
    /\ asyLoad \in [AsyThreads -> AsySeqs]
    /\ \A i \in DOMAIN asyOut :
         asyOut[i] \in [to : {"backend", "client"}, req : AsyClients,
                       fd : AsyFds \cup {0}, seq : AsySeqs]
    /\ asyAway \cup asyBack \cup asyRecord \cup asyGone \cup asyBare \subseteq AsyClients
    /\ asyOld \subseteq asyRecord
    /\ asyGiven \subseteq AsySeqs
    /\ asyRaced \in BOOLEAN
    /\ asyStray \subseteq [conn : {"numbered", "new"}, seq : AsySeqs]

(* Although send reads sock_fd and sock_seq one after the other while      *)
(* another thread writes them, and descriptors are used again, a message   *)
(* for the backend never reaches a client, nor a reply another client or   *)
(* the backend, as long as no two connections have got one number and no   *)
(* connection was closed while init_conn still made it -- unless its       *)
(* number is 0, that of the first connection, and the one it reaches has   *)
(* not got its number yet (plat_conn_mgr_asy.cpp:217-219,                  *)
(* ace_sock_hdr_base.cpp:36-42).                                           *)
AsyOnlyOwner ==
    ~asyRaced => \A s \in asyStray : s.conn = "new" /\ s.seq = 0

(* However many threads find the connection broken at once, it is made     *)
(* once: no connection to the backend is left open that conn_info_ does    *)
(* not refer to (plat_conn_mgr_asy.cpp:118-130).                           *)
AsyOneConnection ==
    LET backend == {fd \in AsyFds : asyTable[fd].who = "backend"}
    IN  ~asyRaced =>
          /\ Cardinality(backend) <= 1
          /\ ~AsyLockHeld => \A fd \in backend :
               asyInfo = [fd |-> fd, seq |-> asyTable[fd].seq]

(* An answer that ASYTask handles without the record of its request is one *)
(* whose record was dropped as old: no answer is faster than the insertion *)
(* of its record (plat_conn_mgr_asy.cpp:244, asy_task.cpp:44-64).          *)
AsyRecordFirst == asyBare \subseteq asyGone
=============================================================================
