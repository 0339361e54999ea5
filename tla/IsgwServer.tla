----------------------------- MODULE IsgwServer -----------------------------
(***************************************************************************)
(* The request pipeline of the isgw server framework.                      *)
(*                                                                         *)
(* One reactor thread accepts connections (AceSockHdrBase::open), cuts     *)
(* requests out of what they send (ISGWIntf, ISGWUIntf) and puts them on   *)
(* the bounded queue of ISGWMgrSvc.  Worker threads (ACESvc::svc) take a   *)
(* request, process it into a PriProAck and put that on the queue of       *)
(* ISGWAck.  The reactor thread, woken by a notification or by a timer,    *)
(* drains that queue: it looks up the handler registered for the reply's   *)
(* descriptor and sends only if the handler's sock_seq is the reply's.     *)
(*                                                                         *)
(* PriProAck objects have an identity: they come from a FIFO pool, keep    *)
(* the fields nobody overwrites, and go back to it.  PriProReq objects,    *)
(* whose every field is overwritten on reuse, are modelled by value with a *)
(* count of the pooled ones.  A thread that finds a pool empty waits here,  *)
(* a bound: the code then allocates an object, which module ObjectPool      *)
(* models.                                                                  *)
(***************************************************************************)
EXTENDS Naturals, Sequences, FiniteSets

CONSTANTS
    Fds,          \* descriptors the operating system may give to a connection
    Workers,      \* threads of ISGWMgrSvc
    Peers,        \* addresses of UDP clients
    QueCap,       \* requests the queue of ISGWMgrSvc holds
    ReqPoolSize,  \* PriProReq objects the pool was filled with
    AckPoolSize,  \* PriProAck objects the pool was filled with
    PipeCap,      \* notifications the reactor's pipe holds
    UseTimer,     \* ISGW_ACK_USE_TIMER: acks are drained by a timer
    SeqMod,       \* values a socket sequence number has (2^32 in the code)
    MaxConns,     \* bound: connections ever opened
    MaxReqs,      \* bound: requests ever received
    MaxBatch      \* bound: requests found in one read of a socket

ASSUME IsgwServerAssumption ==
    /\ Fds # {}
    /\ IsFiniteSet(Workers)
    /\ QueCap \in Nat \ {0}
    /\ ReqPoolSize \in Nat \ {0}
    /\ AckPoolSize \in Nat \ {0}
    /\ PipeCap \in Nat \ {0}
    /\ UseTimer \in BOOLEAN
    /\ SeqMod \in Nat \ {0}
    /\ MaxConns \in Nat
    /\ MaxReqs \in Nat
    /\ MaxBatch \in Nat \ {0}

VARIABLES
    conn,       \* handler registered for each descriptor, NoConn if none
    conns,      \* connections opened so far; the n-th one has the identity n
    total_seq,  \* AceSockHdrBase::total_seq_
    svcQ,       \* queue_ of ISGWMgrSvc
    reqFree,    \* number of PriProReq objects in their pool
    ack,        \* contents of the PriProAck objects
    ackFree,    \* pool of PriProAck objects, first in first out
    wpc,        \* where each worker is
    wreq,       \* request a worker has taken from svcQ
    wack,       \* PriProAck a worker is filling or handing over
    ackQ,       \* msg_queue_ of ISGWAck
    notes,      \* notifications in the reactor's pipe
    rpc,        \* where the reactor thread is
    rfd,        \* descriptor the reactor is reading from
    rleft,      \* requests of the current read not yet processed
    rack,       \* PriProAck the reactor has popped
    hist        \* history: for each request number, what became of it

sockVars   == <<conn, conns, total_seq>>
workerVars == <<wpc, wreq, wack>>
ackVars    == <<ack, ackFree>>
inputVars  == <<rfd, rleft>>
vars == <<conn, conns, total_seq, svcQ, reqFree, ack, ackFree, wpc, wreq,
          wack, ackQ, notes, rpc, rfd, rleft, rack, hist>>

AckObjs == 1 .. AckPoolSize
Cmds    == {"internal", "business"}
Results == {"ok", "fail"}
WorkerPlaces == {"idle", "got", "process", "send", "putq"}
Seqs    == 0 .. SeqMod - 1

NoConn == [id |-> 0, seq |-> 0]
NoAck  == 0

(* A requester: a TCP connection, named by its identity, or a UDP address. *)
Asker(prot, who) == [prot |-> prot, who |-> who]

NoReq == [prot |-> "TCP", fd |-> CHOOSE f \in Fds : TRUE, peer |-> 0,
          seq |-> 0, no |-> 0, cmd |-> "business"]
BlankAck == [prot |-> "TCP", fd |-> CHOOSE f \in Fds : TRUE, peer |-> 0,
             seq |-> 0, no |-> 0, ret |-> "ok"]

Init ==
    /\ conn = [f \in Fds |-> NoConn]
    /\ conns = 0
    /\ total_seq = 0
    /\ svcQ = <<>>
    /\ reqFree = ReqPoolSize
    /\ ack = [o \in AckObjs |-> BlankAck]
    /\ ackFree = [i \in AckObjs |-> i]
    /\ wpc = [w \in Workers |-> "idle"]
    /\ wreq = [w \in Workers |-> NoReq]
    /\ wack = [w \in Workers |-> NoAck]
    /\ ackQ = <<>>
    /\ notes = 0
    /\ rpc = "select"
    /\ rfd = CHOOSE f \in Fds : TRUE
    /\ rleft = 0
    /\ rack = NoAck
    /\ hist = <<>>

-----------------------------------------------------------------------------
(* The reactor thread: connections and requests.                           *)

(* total_seq_++ of an unsigned integer.                                    *)
NextSeqUnwrapped == total_seq + 1    \* mutant: the counter never wraps

NextSeq == (total_seq + 1) % SeqMod

(* AceSockHdrBase::open: the new handler gets the next sequence number.    *)
Accept(fd) ==
    /\ rpc = "select"
    /\ conn[fd] = NoConn
    /\ conns < MaxConns
    /\ conns' = conns + 1
    /\ conn' = [conn EXCEPT ![fd] = [id |-> conns + 1, seq |-> total_seq]]
    /\ total_seq' = NextSeq
    /\ UNCHANGED <<svcQ, reqFree, ackVars, workerVars, ackQ, notes, rpc,
                   inputVars, rack, hist>>

(* The peer closed, the read failed, the message was illegal or the        *)
(* connection was idle too long: the handler returns -1 and is destroyed.  *)
Disconnect(fd) ==
    /\ rpc = "select"
    /\ conn[fd] # NoConn
    /\ conn' = [conn EXCEPT ![fd] = NoConn]
    /\ UNCHANGED <<conns, total_seq, svcQ, reqFree, ackVars, workerVars,
                   ackQ, notes, rpc, inputVars, rack, hist>>

(* ISGWIntf::handle_input has read k complete requests.                    *)
BeginInput(fd, k) ==
    /\ rpc = "select"
    /\ conn[fd] # NoConn
    /\ Len(hist) + k <= MaxReqs
    /\ rpc' = "input"
    /\ rfd' = fd
    /\ rleft' = k
    /\ UNCHANGED <<sockVars, svcQ, reqFree, ackVars, workerVars, ackQ, notes,
                   rack, hist>>

(* The history of a request that has just been read.                       *)
Asked(asker, c) ==
    Append(hist, [asker |-> asker, cmd |-> c, result |-> "none",
                  counted |-> "none", sentTo |-> <<>>])

(* ISGWIntf::process for one request that the queue of ISGWMgrSvc takes.   *)
InputRequest(c) ==
    /\ rpc = "input"
    /\ reqFree > 0
    /\ Len(svcQ) < QueCap
    /\ hist' = Asked(Asker("TCP", conn[rfd].id), c)
    /\ svcQ' = Append(svcQ, [prot |-> "TCP", fd |-> rfd, peer |-> 0,
                             seq |-> conn[rfd].seq, no |-> Len(hist) + 1,
                             cmd |-> c])
    /\ reqFree' = reqFree - 1
    /\ rleft' = rleft - 1
    /\ rpc' = IF rleft = 1 THEN "select" ELSE "input"
    /\ UNCHANGED <<sockVars, ackVars, workerVars, ackQ, notes, rfd, rack>>

(* ISGWIntf::process when putq fails: the request object goes back to its  *)
(* pool, the rest of the read is thrown away and the connection closed.    *)
InputOverload(c) ==
    /\ rpc = "input"
    /\ reqFree > 0
    /\ Len(svcQ) = QueCap
    /\ hist' = Asked(Asker("TCP", conn[rfd].id), c)
    /\ conn' = [conn EXCEPT ![rfd] = NoConn]
    /\ rleft' = 0
    /\ rpc' = "select"
    /\ UNCHANGED <<conns, total_seq, svcQ, reqFree, ackVars, workerVars,
                   ackQ, notes, rfd, rack>>

(* ISGWUIntf::handle_input and process: a datagram holds one request; when *)
(* the queue is full the request is dropped and the socket stays open.     *)
InputUdp(p, c) ==
    /\ rpc = "select"
    /\ Len(hist) < MaxReqs
    /\ reqFree > 0
    /\ hist' = Asked(Asker("UDP", p), c)
    /\ IF Len(svcQ) < QueCap
         THEN /\ svcQ' = Append(svcQ, [NoReq EXCEPT !.prot = "UDP",
                                         !.peer = p, !.no = Len(hist) + 1,
                                         !.cmd = c])
              /\ reqFree' = reqFree - 1
         ELSE UNCHANGED <<svcQ, reqFree>>
    /\ UNCHANGED <<sockVars, ackVars, workerVars, ackQ, notes, rpc, inputVars,
                   rack>>
-----------------------------------------------------------------------------
(* The worker threads.                                                     *)

(* Mutant: the request is read but stays on the queue.                     *)
RecvPeeks(w) ==
    /\ wpc[w] = "idle"
    /\ svcQ # <<>>
    /\ wreq' = [wreq EXCEPT ![w] = Head(svcQ)]
    /\ wpc' = [wpc EXCEPT ![w] = "got"]
    /\ UNCHANGED <<sockVars, svcQ, reqFree, ackVars, wack, ackQ, notes, rpc,
                   inputVars, rack, hist>>

(* ACESvc::recv: a worker takes the request at the head of the queue.      *)
Recv(w) ==
    /\ wpc[w] = "idle"
    /\ svcQ # <<>>
    /\ wreq' = [wreq EXCEPT ![w] = Head(svcQ)]
    /\ svcQ' = Tail(svcQ)
    /\ wpc' = [wpc EXCEPT ![w] = "got"]
    /\ UNCHANGED <<sockVars, reqFree, ackVars, wack, ackQ, notes, rpc,
                   inputVars, rack, hist>>

(* The head of a reply: every field that says whose it is, copied from the *)
(* request; ret_value is left as the object's last user set it.            *)
HeadOfNoSeq(r, old) ==      \* mutant: sock_seq is not copied
    [old EXCEPT !.prot = r.prot, !.fd = r.fd, !.peer = r.peer, !.no = r.no]

HeadOf(r, old) ==
    [old EXCEPT !.prot = r.prot, !.fd = r.fd, !.peer = r.peer,
                !.seq = r.seq, !.no = r.no]

(* The request object goes back to its pool.                               *)
ReqForgotten == UNCHANGED reqFree    \* mutant: it does not

RecycleReq == reqFree' = reqFree + 1

(* ISGWMgrSvc::process up to the return of the request object to its pool. *)
TakeAck(w) ==
    /\ wpc[w] = "got"
    /\ ackFree # <<>>
    /\ wack' = [wack EXCEPT ![w] = Head(ackFree)]
    /\ ackFree' = Tail(ackFree)
    /\ ack' = [ack EXCEPT ![Head(ackFree)] = HeadOf(wreq[w], @)]
    /\ RecycleReq
    /\ wpc' = [wpc EXCEPT ![w] = "process"]
    /\ UNCHANGED <<sockVars, svcQ, wreq, ackQ, notes, rpc, inputVars, rack,
                   hist>>

(* The worker gives the reply to ISGWAck.                                  *)
ToSend(w) ==
    /\ wpc' = [wpc EXCEPT ![w] = "send"]
    /\ wreq' = [wreq EXCEPT ![w] = NoReq]
    /\ UNCHANGED <<wack, ackFree>>

(* Mutant: the object of a reply that is not sent is forgotten.            *)
NoReplyLeaks(w) ==
    /\ wpc' = [wpc EXCEPT ![w] = "idle"]
    /\ wreq' = [wreq EXCEPT ![w] = NoReq]
    /\ wack' = [wack EXCEPT ![w] = NoAck]
    /\ UNCHANGED ackFree

(* ack_len < 0: there is no reply, and its object goes back to the pool.   *)
NoReply(w) ==
    /\ wpc' = [wpc EXCEPT ![w] = "idle"]
    /\ wreq' = [wreq EXCEPT ![w] = NoReq]
    /\ wack' = [wack EXCEPT ![w] = NoAck]
    /\ ackFree' = Append(ackFree, wack[w])

(* ret_value of the reply, for statisitc.                                  *)
RetForgotten(w, res) == UNCHANGED ack    \* mutant: it is not assigned

SetRet(w, res) == ack' = [ack EXCEPT ![wack[w]].ret = res]

(* The history notes how the processing of the request ended.              *)
Ended(w, res) == hist' = [hist EXCEPT ![wreq[w].no].result = res]

(* An internal command (0 < cmd < 100): ret_value is not assigned.         *)
Internal(w, res) ==
    /\ wpc[w] = "process"
    /\ wreq[w].cmd = "internal"
    /\ Ended(w, res)
    /\ ToSend(w) \/ NoReply(w)
    /\ UNCHANGED <<sockVars, svcQ, reqFree, ack, ackQ, notes, rpc, inputVars,
                   rack>>

(* ISGWMgrSvc::check refuses the request, for flow control or because it   *)
(* waited too long.                                                        *)
CheckFails(w) ==
    /\ wpc[w] = "process"
    /\ wreq[w].cmd = "business"
    /\ Ended(w, "fail")
    /\ SetRet(w, "fail")
    /\ ToSend(w)
    /\ UNCHANGED <<sockVars, svcQ, reqFree, ackQ, notes, rpc, inputVars, rack>>

(* IsgwOperBase::process, the business code, with its result.              *)
Business(w, res) ==
    /\ wpc[w] = "process"
    /\ wreq[w].cmd = "business"
    /\ Ended(w, res)
    /\ SetRet(w, res)
    /\ ToSend(w) \/ NoReply(w)
    /\ UNCHANGED <<sockVars, svcQ, reqFree, ackQ, notes, rpc, inputVars, rack>>

(* A worker between push_back and the end of ISGWAck::putq holds           *)
(* queue_lock_.                                                            *)
NeverLocked == FALSE    \* mutant: putq and process take no lock

QueueLocked == \E w \in Workers : wpc[w] = "putq"

(* ISGWAck::putq: take the lock and push_back.                             *)
Putq(w) ==
    /\ wpc[w] = "send"
    /\ ~QueueLocked
    /\ ackQ' = Append(ackQ, wack[w])
    /\ wpc' = [wpc EXCEPT ![w] = "putq"]
    /\ UNCHANGED <<sockVars, svcQ, reqFree, ackVars, wreq, wack, notes, rpc,
                   inputVars, rack, hist>>

(* Tell the reactor there is a reply, waiting while its pipe is full.      *)
NotifyForgotten == UNCHANGED notes    \* mutant: the reactor is not told

Notify ==
    IF UseTimer
      THEN UNCHANGED notes
      ELSE /\ notes < PipeCap
           /\ notes' = notes + 1

(* The rest of ISGWAck::putq, still under the lock: notify the reactor,    *)
(* read the message for the log, and release the lock.                     *)
PutqNotify(w) ==
    /\ wpc[w] = "putq"
    /\ Notify
    /\ wpc' = [wpc EXCEPT ![w] = "idle"]
    /\ wack' = [wack EXCEPT ![w] = NoAck]
    /\ UNCHANGED <<sockVars, svcQ, reqFree, ackVars, wreq, ackQ, rpc,
                   inputVars, rack, hist>>

-----------------------------------------------------------------------------
(* The reactor thread: replies.                                            *)

(* The reactor dispatches a notification (handle_input of ISGWAck), or its *)
(* timer (handle_timeout): both loop on process until it returns 0.        *)
BeginDrain ==
    /\ rpc = "select"
    /\ IF UseTimer
         THEN UNCHANGED notes
         ELSE /\ notes > 0
              /\ notes' = notes - 1
    /\ rpc' = "drain"
    /\ UNCHANGED <<sockVars, svcQ, reqFree, ackVars, workerVars, ackQ,
                   inputVars, rack, hist>>

(* ISGWAck::process takes the lock: the queue is empty and it returns 0,   *)
(* or it pops the first reply.                                             *)
Pop ==
    /\ rpc = "drain"
    /\ ~QueueLocked
    /\ IF ackQ = <<>>
         THEN /\ rpc' = "select"
              /\ UNCHANGED <<ackQ, rack>>
         ELSE /\ rack' = Head(ackQ)
              /\ ackQ' = Tail(ackQ)
              /\ rpc' = "deliver"
    /\ UNCHANGED <<sockVars, svcQ, reqFree, ackVars, workerVars, notes,
                   inputVars, hist>>

(* The handler found for the reply's descriptor is the one the request     *)
(* came from: there is one, and its sock_seq is the reply's.               *)
HandlerThere(a) == conn[a.fd] # NoConn    \* mutant: sock_seq is not compared

HasOwner(a) == conn[a.fd] # NoConn /\ conn[a.fd].seq = a.seq

(* ISGWAck::process is done with the popped reply: it has been counted,    *)
(* and its object goes back to the pool.  tos: where it has been sent.     *)
DoneWith(o, tos) ==
    /\ hist' = [hist EXCEPT ![ack[o].no].counted = ack[o].ret,
                            ![ack[o].no].sentTo = @ \o tos]
    /\ ackFree' = Append(ackFree, o)
    /\ rack' = NoAck
    /\ rpc' = "size"
    /\ UNCHANGED <<conns, total_seq, svcQ, reqFree, ack, workerVars, ackQ,
                   notes, inputVars>>

(* A UDP reply is sent to the address it came from, or lost.               *)
DeliverUdp ==
    /\ rpc = "deliver"
    /\ ack[rack].prot = "UDP"
    /\ \E tos \in {<<>>, <<Asker("UDP", ack[rack].peer)>>} :
         DoneWith(rack, tos)
    /\ UNCHANGED conn

(* A TCP reply without an owner is dropped.                                *)
DropNoOwner ==
    /\ rpc = "deliver"
    /\ ack[rack].prot = "TCP"
    /\ ~HasOwner(ack[rack])
    /\ DoneWith(rack, <<>>)
    /\ UNCHANGED conn

(* A TCP reply is sent whole.                                              *)
DeliverTcp ==
    /\ rpc = "deliver"
    /\ ack[rack].prot = "TCP"
    /\ HasOwner(ack[rack])
    /\ DoneWith(rack, <<Asker("TCP", conn[ack[rack].fd].id)>>)
    /\ UNCHANGED conn

(* send_n fails, blocks or is partial: the connection is closed.           *)
SendFails ==
    /\ rpc = "deliver"
    /\ ack[rack].prot = "TCP"
    /\ HasOwner(ack[rack])
    /\ conn' = [conn EXCEPT ![ack[rack].fd] = NoConn]
    /\ DoneWith(rack, <<>>)

(* msg_queue_.size(), read without the lock: while a worker is inside      *)
(* putq it is a data race, and the value may be 0 or not.                  *)
ReadSize ==
    /\ rpc = "size"
    /\ \/ rpc' = IF ackQ = <<>> THEN "select" ELSE "drain"
       \/ /\ QueueLocked
          /\ rpc' \in {"select", "drain"}
    /\ UNCHANGED <<sockVars, svcQ, reqFree, ackVars, workerVars, ackQ, notes,
                   inputVars, rack, hist>>

-----------------------------------------------------------------------------
Worker(w) ==
    \/ Recv(w)
    \/ TakeAck(w)
    \/ \E res \in Results : Internal(w, res) \/ Business(w, res)
    \/ CheckFails(w)
    \/ Putq(w)
    \/ PutqNotify(w)

Deliver == DeliverUdp \/ DropNoOwner \/ DeliverTcp \/ SendFails

(* Steps of the reactor inside a handler: it does not wait for anybody.    *)
ReactorBusy ==
    \/ \E c \in Cmds : InputRequest(c) \/ InputOverload(c)
    \/ Pop
    \/ Deliver
    \/ ReadSize

(* Events from the network.                                                *)
Network ==
    \/ \E fd \in Fds : Accept(fd) \/ Disconnect(fd)
    \/ \E fd \in Fds, k \in 1 .. MaxBatch : BeginInput(fd, k)
    \/ \E p \in Peers, c \in Cmds : InputUdp(p, c)

Next == Network \/ ReactorBusy \/ BeginDrain \/ \E w \in Workers : Worker(w)

Spec == Init /\ [][Next]_vars

(* Threads run: each worker continues, the reactor finishes the handler it *)
(* is in, and, as the reactor serves notifications and timers before       *)
(* descriptors, it does not serve other events for ever instead of them.   *)
Fairness ==
    /\ \A w \in Workers : WF_vars(Worker(w))
    /\ WF_vars(ReactorBusy)
    /\ SF_vars(BeginDrain)

FairSpec == Spec /\ Fairness

-----------------------------------------------------------------------------
(* Properties.                                                             *)

Askers   == [prot : {"TCP"}, who : 1 .. MaxConns] \cup
            [prot : {"UDP"}, who : Peers]
ReqType  == [prot : {"TCP", "UDP"}, fd : Fds, peer : Peers \cup {0},
             seq : Seqs, no : 0 .. MaxReqs, cmd : Cmds]
AckType  == [prot : {"TCP", "UDP"}, fd : Fds, peer : Peers \cup {0},
             seq : Seqs, no : 0 .. MaxReqs, ret : Results]
HistType == [asker : Askers, cmd : Cmds, result : Results \cup {"none"},
             counted : Results \cup {"none"}, sentTo : Seq(Askers)]

(* The values the variables take.                                          *)
SockOK ==
    /\ conn \in [Fds -> [id : 0 .. MaxConns, seq : Seqs]]
    /\ conns \in 0 .. MaxConns
    /\ total_seq \in Seqs
ReqOK ==
    /\ svcQ \in Seq(ReqType)
    /\ Len(svcQ) <= QueCap
    /\ reqFree \in 0 .. ReqPoolSize
    /\ wreq \in [Workers -> ReqType]
AckOK ==
    /\ ack \in [AckObjs -> AckType]
    /\ ackFree \in Seq(AckObjs)
    /\ ackQ \in Seq(AckObjs)
    /\ wack \in [Workers -> AckObjs \cup {NoAck}]
    /\ rack \in AckObjs \cup {NoAck}
PlaceOK ==
    /\ wpc \in [Workers -> WorkerPlaces]
    /\ notes \in 0 .. PipeCap
    /\ rpc \in {"select", "input", "drain", "deliver", "size"}
    /\ rfd \in Fds
    /\ rleft \in 0 .. MaxBatch
HistOK ==
    /\ hist \in Seq(HistType)
    /\ Len(hist) <= MaxReqs
TypeOK == SockOK /\ ReqOK /\ AckOK /\ PlaceOK /\ HistOK

(* The requests a thread or a queue still holds.                           *)
InFlight ==
    {svcQ[i].no : i \in DOMAIN svcQ} \cup
    {wreq[w].no : w \in {v \in Workers : wpc[v] \in {"got", "process"}}} \cup
    {ack[wack[w]].no : w \in {v \in Workers : wpc[v] = "send"}} \cup
    {ack[ackQ[i]].no : i \in DOMAIN ackQ} \cup
    (IF rpc = "deliver" THEN {ack[rack].no} ELSE {})

(* The places that own a PriProAck object.                                 *)
AckOwners(o) ==
    {<<"pool", i>> : i \in {j \in DOMAIN ackFree : ackFree[j] = o}} \cup
    {<<"queue", i>> : i \in {j \in DOMAIN ackQ : ackQ[j] = o}} \cup
    {<<"worker", w>> : w \in {v \in Workers :
                          wack[v] = o /\ wpc[v] \in {"process", "send"}}} \cup
    (IF rack = o THEN {<<"reactor", 0>>} ELSE {})

(* Every PriProAck object is in exactly one place: it is neither lost nor  *)
(* used by two threads, nor pooled while somebody uses it.  This is the    *)
(* discipline of the calls of ACE_Object_Que in isgw_mgr_svc.cpp and       *)
(* isgw_ack.cpp, whose early returns each have to give the object back.    *)
AckOwnedOnce == \A o \in AckObjs : Cardinality(AckOwners(o)) = 1

(* The workers that hold a request object they have not yet copied.        *)
Holding == {w \in Workers : wpc[w] = "got"}

(* No PriProReq object is lost either: those pooled, queued and held by    *)
(* workers that have not yet copied them make up the pool.                 *)
ReqConserved == reqFree + Len(svcQ) + Cardinality(Holding) = ReqPoolSize

(* Whatever is sent in answer to a request goes to the one who sent it,    *)
(* even if the descriptor has been reused for another connection since     *)
(* (the test of sock_fd and sock_seq in ISGWAck::process).                 *)
ReplyToAsker ==
    \A n \in DOMAIN hist : \A i \in DOMAIN hist[n].sentTo :
        hist[n].sentTo[i] = hist[n].asker

(* While ISGWAck::putq still reads the message it has queued (for the log, *)
(* after the notification), the reactor has not taken it off the queue.    *)
PutqOwnsAck ==
    \A w \in Workers : wpc[w] = "putq" =>
        \E i \in DOMAIN ackQ : ackQ[i] = wack[w]

(* ISGWAck::statisitc counts a business request as failed exactly when the *)
(* processing of that request failed.                                      *)
BusinessCounted ==
    \A n \in DOMAIN hist :
        hist[n].cmd = "business" /\ hist[n].counted # "none" =>
            hist[n].counted = hist[n].result

(* The same for every request: ret_value is "the status of this request"   *)
(* (pp_prot.h:177).  It is not so: an internal command leaves it as it was *)
(* in the pool.                                                            *)
EveryRequestCounted ==
    \A n \in DOMAIN hist :
        hist[n].counted # "none" => hist[n].counted = hist[n].result

(* A worker waits for room in the reactor's pipe with queue_lock_ held     *)
(* only while the reactor does not wait for that lock: otherwise neither   *)
(* ever moves again.                                                       *)
NotifyNeverBlocksReactor ==
    ~(QueueLocked /\ ~UseTimer /\ notes = PipeCap /\ rpc = "drain")

(* The clients that can be sent something.                                 *)
LiveAskers ==
    {Asker("TCP", conn[f].id) : f \in {g \in Fds : conn[g] # NoConn}} \cup
    {Asker("UDP", p) : p \in Peers}

(* A reply the reactor has popped is dropped only if the one who asked is  *)
(* gone when it is done with it, or is a UDP address.                      *)
DropsOnlyOrphans ==
    [][\A n \in DOMAIN hist :
         (/\ rpc = "deliver"
          /\ ack[rack].no = n
          /\ rpc' = "size"
          /\ hist'[n].sentTo = hist[n].sentTo
          /\ hist[n].asker.prot = "TCP") => hist[n].asker \notin LiveAskers']_vars

(* The pipeline implements ReplyService.                                   *)
Service == INSTANCE ReplyService WITH
    Clients <- Askers,
    live    <- LiveAskers,
    asker   <- [n \in DOMAIN hist |-> hist[n].asker],
    pending <- InFlight,
    sent    <- [n \in DOMAIN hist |-> hist[n].sentTo]

(* Every step of the pipeline is one of ReplyService, or changes nothing   *)
(* its clients see.                                                        *)
ImplementsService == Service!Spec

(* Every request that is accepted is eventually done with: its reply does  *)
(* not stay on a queue for want of a wake-up.                              *)
EveryRequestSettled ==
    \A n \in 1 .. MaxReqs : (n \in InFlight) ~> (n \notin InFlight)
=============================================================================
