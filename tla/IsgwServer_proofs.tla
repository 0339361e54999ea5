------------------------- MODULE IsgwServer_proofs --------------------------
(***************************************************************************)
(* Proofs about IsgwServer, in four layers.  Held adds to TypeOK where the *)
(* threads are when they hold something (Control), the count of request    *)
(* objects (ReqConserved) and which request the head of a request or of a  *)
(* reply belongs to (Numbered).  Matched adds what the sequence numbers of *)
(* sockets tell as long as they have not wrapped, and ReplyToAsker.  Owned *)
(* says where the reply objects are, and Carried what happens to the       *)
(* request each of them answers.  From these follow the ownership of reply *)
(* objects, the statistics, the replies that are dropped, and that the     *)
(* pipeline implements ReplyService.                                       *)
(***************************************************************************)
EXTENDS IsgwServer, QueueFacts, FiniteSetTheorems, SequenceTheorems, TLAPS

(* What a thread holds, by where it is.                                    *)
Control ==
    /\ rpc = "input" => /\ conn[rfd] # NoConn
                        /\ rleft >= 1
                        /\ Len(hist) + rleft <= MaxReqs
    /\ rpc = "deliver" => rack \in AckObjs
    /\ \A w \in Workers : wpc[w] \in {"process", "send", "putq"} =>
                            wack[w] \in AckObjs

(* The identities of connections are those given out.                      *)
ConnIds == \A f \in Fds : conn[f] # NoConn => conn[f].id \in 1 .. conns

(* m, a request or a reply, is numbered for a request of history h that    *)
(* came by its protocol, and from its address if that is UDP.              *)
Numbered(h, m) ==
    /\ m.no \in DOMAIN h
    /\ m.prot = h[m.no].asker.prot
    /\ m.prot = "UDP" => m.peer = h[m.no].asker.who

HeadsNumbered ==
    /\ \A i \in DOMAIN svcQ : Numbered(hist, svcQ[i])
    /\ \A w \in Workers :
         wpc[w] \in {"got", "process"} => Numbered(hist, wreq[w])
    /\ \A o \in AckObjs : ack[o].no = 0 \/ Numbered(hist, ack[o])

Held == TypeOK /\ Control /\ ReqConserved /\ ConnIds /\ HeadsNumbered

-----------------------------------------------------------------------------
(* Facts about the history and the data.                                   *)

(* A request that arrives makes the history one longer.                    *)
LEMMA AskedType ==
    ASSUME hist \in Seq(HistType),
           NEW asker \in Askers, NEW c \in Cmds
    PROVE  /\ Asked(asker, c) \in Seq(HistType)
           /\ Len(Asked(asker, c)) = Len(hist) + 1
           /\ \A n \in DOMAIN hist : Asked(asker, c)[n] = hist[n]
           /\ DOMAIN hist \subseteq DOMAIN Asked(asker, c)
           /\ Len(hist) + 1 \in DOMAIN Asked(asker, c)
           /\ Asked(asker, c)[Len(hist) + 1].asker = asker
           /\ Asked(asker, c)[Len(hist) + 1].sentTo = <<>>
<1> DEFINE h == [asker |-> asker, cmd |-> c, result |-> "none",
                 counted |-> "none", sentTo |-> <<>>]
<1>1. h \in HistType
  <2>1. <<>> \in Seq(Askers)
    OBVIOUS
  <2> QED BY <2>1 DEF HistType
<1>2. Asked(asker, c) = Append(hist, h)
  BY DEF Asked
<1> HIDE DEF h
<1>3. /\ Append(hist, h) \in Seq(HistType)
      /\ Len(Append(hist, h)) = Len(hist) + 1
      /\ \A n \in DOMAIN hist : Append(hist, h)[n] = hist[n]
      /\ Append(hist, h)[Len(hist) + 1] = h
  BY <1>1
<1>4. DOMAIN hist = 1 .. Len(hist) /\ Len(hist) \in Nat
  OBVIOUS
<1>5. DOMAIN Append(hist, h) = 1 .. Len(Append(hist, h))
  BY <1>3
<1> QED BY <1>2, <1>3, <1>4, <1>5 DEF h

(* Noting how the processing of a request ended keeps the history typed    *)
(* and says nothing new about askers and replies.                          *)
LEMMA EndedType ==
    ASSUME hist \in Seq(HistType), NEW w, NEW res \in Results, Ended(w, res)
    PROVE  /\ hist' \in Seq(HistType)
           /\ Len(hist') = Len(hist)
           /\ DOMAIN hist' = DOMAIN hist
           /\ \A n \in DOMAIN hist : /\ hist'[n].asker = hist[n].asker
                                     /\ hist'[n].sentTo = hist[n].sentTo
<1>1. /\ DOMAIN hist' = DOMAIN hist
      /\ DOMAIN hist = 1 .. Len(hist)
      /\ Len(hist) \in Nat
  BY DEF Ended
<1>2. ASSUME NEW n \in DOMAIN hist
      PROVE  /\ hist'[n] \in HistType
             /\ hist'[n].asker = hist[n].asker
             /\ hist'[n].sentTo = hist[n].sentTo
  <2>1. hist[n] \in HistType
    OBVIOUS
  <2>2. hist'[n] = IF n = wreq[w].no THEN [hist[n] EXCEPT !.result = res]
                                    ELSE hist[n]
    BY DEF Ended
  <2> QED BY <2>1, <2>2 DEF HistType
<1>3. hist' = [n \in 1 .. Len(hist) |-> hist'[n]]
  BY <1>1 DEF Ended
<1>4. hist' \in Seq(HistType) /\ Len(hist') = Len(hist)
  BY <1>1, <1>2, <1>3
<1> QED BY <1>1, <1>2, <1>4

(* The reactor being done with a reply extends the answers to its request. *)
LEMMA DoneType ==
    ASSUME hist \in Seq(HistType), ack \in [AckObjs -> AckType],
           NEW o \in AckObjs, NEW tos \in Seq(Askers), DoneWith(o, tos)
    PROVE  /\ hist' \in Seq(HistType)
           /\ Len(hist') = Len(hist)
           /\ DOMAIN hist' = DOMAIN hist
           /\ \A n \in DOMAIN hist :
                /\ hist'[n].asker = hist[n].asker
                /\ hist'[n].sentTo = IF n = ack[o].no
                                       THEN hist[n].sentTo \o tos
                                       ELSE hist[n].sentTo
<1>1. /\ DOMAIN hist' = DOMAIN hist
      /\ DOMAIN hist = 1 .. Len(hist)
      /\ Len(hist) \in Nat
  BY DEF DoneWith
<1>2. ASSUME NEW n \in DOMAIN hist
      PROVE  /\ hist'[n] \in HistType
             /\ hist'[n].asker = hist[n].asker
             /\ hist'[n].sentTo = IF n = ack[o].no
                                    THEN hist[n].sentTo \o tos
                                    ELSE hist[n].sentTo
  <2>1. hist[n] \in HistType
    OBVIOUS
  <2>2. ack[o].ret \in Results
    BY DEF AckType
  <2>3. hist'[n] = IF n = ack[o].no
                     THEN [hist[n] EXCEPT !.counted = ack[o].ret,
                                          !.sentTo = hist[n].sentTo \o tos]
                     ELSE hist[n]
    BY <2>1 DEF DoneWith, HistType
  <2>4. hist[n].sentTo \o tos \in Seq(Askers)
    BY <2>1 DEF HistType
  <2> QED BY <2>1, <2>2, <2>3, <2>4 DEF HistType
<1>3. hist' = [n \in 1 .. Len(hist) |-> hist'[n]]
  BY <1>1 DEF DoneWith
<1>4. hist' \in Seq(HistType) /\ Len(hist') = Len(hist)
  BY <1>1, <1>2, <1>3
<1> QED BY <1>1, <1>2, <1>4

-----------------------------------------------------------------------------
(* Layer 1: what is held and whose it is.                                  *)

LEMMA Constants ==
    /\ NoReq \in ReqType
    /\ BlankAck \in AckType
    /\ NoConn \in [id : 0 .. MaxConns, seq : Seqs]
BY IsgwServerAssumption
   DEF NoReq, BlankAck, NoConn, ReqType, AckType, Seqs, Cmds, Results

LEMMA InitHeld == Init => Held
<1> SUFFICES ASSUME Init PROVE Held
  OBVIOUS
<1> USE IsgwServerAssumption DEF Init
<1>1. TypeOK
  <2>1. SockOK
    BY Constants DEF SockOK, Seqs
  <2>2. ReqOK
    BY Constants DEF ReqOK
  <2>3. AckOK
    <3>1. [i \in AckObjs |-> i] \in Seq(AckObjs)
      BY DEF AckObjs
    <3> QED BY <3>1, Constants DEF AckOK
  <2>4. PlaceOK
    BY DEF PlaceOK, WorkerPlaces
  <2>5. HistOK
    BY DEF HistOK
  <2> QED BY <2>1, <2>2, <2>3, <2>4, <2>5 DEF TypeOK
<1>2. Control
  BY DEF Control
<1>3. ReqConserved
  <2>1. Holding = {}
    BY DEF Holding
  <2> QED BY <2>1, FS_EmptySet DEF ReqConserved
<1>4. ConnIds
  BY DEF ConnIds
<1>5. HeadsNumbered
  BY DEF HeadsNumbered, BlankAck
<1> QED BY <1>1, <1>2, <1>3, <1>4, <1>5 DEF Held

(* The number of workers that hold a request object, step by step.         *)
LEMMA HoldingFinite ==
    /\ IsFiniteSet(Holding)
    /\ Cardinality(Holding) \in Nat
    /\ Cardinality(Holding') \in Nat
BY IsgwServerAssumption, FS_Subset, FS_CardinalityType DEF Holding

LEMMA HoldingStarts ==
    ASSUME NEW w \in Workers, wpc \in [Workers -> WorkerPlaces],
           wpc[w] # "got", wpc' = [wpc EXCEPT ![w] = "got"]
    PROVE  Cardinality(Holding') = Cardinality(Holding) + 1
<1>1. Holding' = Holding \cup {w} /\ w \notin Holding
  BY DEF Holding
<1> QED BY <1>1, HoldingFinite, FS_AddElement

LEMMA HoldingStops ==
    ASSUME NEW w \in Workers, wpc \in [Workers -> WorkerPlaces],
           wpc[w] = "got", NEW s, s # "got", wpc' = [wpc EXCEPT ![w] = s]
    PROVE  Cardinality(Holding') = Cardinality(Holding) - 1
<1>1. Holding' = Holding \ {w} /\ w \in Holding
  BY DEF Holding
<1> QED BY <1>1, HoldingFinite, FS_RemoveElement

LEMMA HoldingStays ==
    ASSUME NEW w \in Workers, wpc \in [Workers -> WorkerPlaces],
           wpc[w] # "got", NEW s, s # "got", wpc' = [wpc EXCEPT ![w] = s]
    PROVE  Holding' = Holding
BY DEF Holding

LEMMA AcceptHeld ==
    ASSUME Held, NEW fd \in Fds, Accept(fd)
    PROVE  Held'
<1> USE IsgwServerAssumption
    DEF Held, Accept, NextSeq, ackVars, workerVars, inputVars
<1>1. SockOK'
  <2>1. (total_seq + 1) % SeqMod \in Seqs
    BY DEF TypeOK, SockOK, Seqs
  <2>2. conn' \in [Fds -> [id : 0 .. MaxConns, seq : Seqs]]
    BY DEF TypeOK, SockOK
  <2> QED BY <2>1, <2>2 DEF TypeOK, SockOK
<1>2. ReqOK' /\ AckOK' /\ PlaceOK' /\ HistOK'
  BY DEF TypeOK, ReqOK, AckOK, PlaceOK, HistOK
<1>3. Control'
  BY DEF Control, TypeOK
<1>4. ReqConserved'
  BY DEF ReqConserved, Holding
<1>5. ConnIds'
  BY DEF ConnIds, TypeOK, SockOK
<1>6. HeadsNumbered'
  BY DEF HeadsNumbered
<1> QED BY <1>1, <1>2, <1>3, <1>4, <1>5, <1>6 DEF TypeOK

LEMMA DisconnectHeld ==
    ASSUME Held, NEW fd \in Fds, Disconnect(fd)
    PROVE  Held'
<1> USE IsgwServerAssumption
    DEF Held, Disconnect, ackVars, workerVars, inputVars
<1>1. TypeOK'
  BY Constants DEF TypeOK, SockOK, ReqOK, AckOK, PlaceOK, HistOK
<1>2. Control'
  BY DEF Control
<1>3. ReqConserved'
  BY DEF ReqConserved, Holding
<1>4. ConnIds'
  BY DEF ConnIds, TypeOK, SockOK
<1>5. HeadsNumbered'
  BY DEF HeadsNumbered
<1> QED BY <1>1, <1>2, <1>3, <1>4, <1>5

LEMMA BeginInputHeld ==
    ASSUME Held, NEW fd \in Fds, NEW k \in 1 .. MaxBatch, BeginInput(fd, k)
    PROVE  Held'
<1> USE IsgwServerAssumption
    DEF Held, BeginInput, sockVars, ackVars, workerVars
<1>1. TypeOK'
  BY DEF TypeOK, SockOK, ReqOK, AckOK, PlaceOK, HistOK
<1>2. Control'
  BY DEF Control
<1>3. ReqConserved'
  BY DEF ReqConserved, Holding
<1>4. ConnIds'
  BY DEF ConnIds
<1>5. HeadsNumbered'
  BY DEF HeadsNumbered
<1> QED BY <1>1, <1>2, <1>3, <1>4, <1>5

(* A request that is put on the queue of ISGWMgrSvc with one pooled object *)
(* less, or one that is dropped.                                           *)
LEMMA QueueGrows ==
    ASSUME ReqOK, NEW r \in ReqType,
           \/ /\ Len(svcQ) < QueCap
              /\ svcQ' = Append(svcQ, r)
              /\ reqFree > 0
              /\ reqFree' = reqFree - 1
           \/ UNCHANGED <<svcQ, reqFree>>
    PROVE  /\ svcQ' \in Seq(ReqType)
           /\ Len(svcQ') <= QueCap
           /\ reqFree' \in 0 .. ReqPoolSize
           /\ reqFree' + Len(svcQ') = reqFree + Len(svcQ)
           /\ \A i \in DOMAIN svcQ' :
                svcQ'[i] = r \/ (i \in DOMAIN svcQ /\ svcQ'[i] = svcQ[i])
<1>1. CASE UNCHANGED <<svcQ, reqFree>>
  BY <1>1 DEF ReqOK
<1>2. CASE /\ Len(svcQ) < QueCap
           /\ svcQ' = Append(svcQ, r)
           /\ reqFree > 0
           /\ reqFree' = reqFree - 1
  BY <1>2, AppendElements, IsgwServerAssumption DEF ReqOK
<1> QED BY <1>1, <1>2

LEMMA InputRequestHeld ==
    ASSUME Held, NEW c \in Cmds, InputRequest(c)
    PROVE  Held'
<1> USE IsgwServerAssumption
    DEF Held, InputRequest, sockVars, ackVars, workerVars
<1>1. Asker("TCP", conn[rfd].id) \in Askers
  BY DEF TypeOK, SockOK, PlaceOK, Control, ConnIds, Asker, Askers
<1>2. /\ hist' \in Seq(HistType)
      /\ Len(hist') = Len(hist) + 1
      /\ \A n \in DOMAIN hist : hist'[n] = hist[n]
      /\ DOMAIN hist \subseteq DOMAIN hist'
      /\ Len(hist) + 1 \in DOMAIN hist'
      /\ hist'[Len(hist) + 1].asker = Asker("TCP", conn[rfd].id)
  BY <1>1, AskedType DEF TypeOK, HistOK
<1> DEFINE r == [prot |-> "TCP", fd |-> rfd, peer |-> 0,
                 seq |-> conn[rfd].seq, no |-> Len(hist) + 1, cmd |-> c]
<1>3. r \in ReqType /\ Numbered(hist', r)
  <2>1. r \in ReqType
    BY DEF TypeOK, SockOK, PlaceOK, HistOK, ReqType, Control
  <2>2. Numbered(hist', r)
    BY <1>2 DEF Numbered, Asker
  <2> QED BY <2>1, <2>2
<1>4. svcQ' = Append(svcQ, r)
  OBVIOUS
<1> HIDE DEF r
<1>5. /\ svcQ' \in Seq(ReqType)
      /\ Len(svcQ') <= QueCap
      /\ reqFree' \in 0 .. ReqPoolSize
      /\ reqFree' + Len(svcQ') = reqFree + Len(svcQ)
      /\ \A i \in DOMAIN svcQ' :
           svcQ'[i] = r \/ (i \in DOMAIN svcQ /\ svcQ'[i] = svcQ[i])
  BY <1>3, <1>4, QueueGrows DEF TypeOK
<1>6. SockOK' /\ ReqOK' /\ AckOK'
  BY <1>5 DEF TypeOK, SockOK, ReqOK, AckOK
<1>7. PlaceOK' /\ HistOK'
  BY <1>2 DEF TypeOK, PlaceOK, HistOK, Control
<1>8. Control'
  BY <1>2 DEF Control, TypeOK, PlaceOK, HistOK
<1>9. ReqConserved'
  BY <1>5, HoldingFinite DEF ReqConserved, Holding, TypeOK, ReqOK
<1>10. ConnIds'
  BY DEF ConnIds
<1>11. HeadsNumbered'
  <2>1. \A m : Numbered(hist, m) => Numbered(hist', m)
    BY <1>2 DEF Numbered
  <2> QED BY <2>1, <1>3, <1>5 DEF HeadsNumbered
<1> QED BY <1>6, <1>7, <1>8, <1>9, <1>10, <1>11 DEF TypeOK

LEMMA InputUdpHeld ==
    ASSUME Held, NEW p \in Peers, NEW c \in Cmds, InputUdp(p, c)
    PROVE  Held'
<1> USE IsgwServerAssumption DEF Held
<1>1. Asker("UDP", p) \in Askers
  BY DEF Asker, Askers
<1>2. /\ hist' \in Seq(HistType)
      /\ Len(hist') = Len(hist) + 1
      /\ Len(hist') <= MaxReqs
      /\ \A n \in DOMAIN hist : hist'[n] = hist[n]
      /\ DOMAIN hist \subseteq DOMAIN hist'
      /\ Len(hist) + 1 \in DOMAIN hist'
      /\ hist'[Len(hist) + 1].asker = Asker("UDP", p)
  BY <1>1, AskedType DEF TypeOK, HistOK, InputUdp
<1> DEFINE r == [NoReq EXCEPT !.prot = "UDP", !.peer = p,
                              !.no = Len(hist) + 1, !.cmd = c]
<1>3. r \in ReqType /\ Numbered(hist', r)
  <2>1. Len(hist) + 1 \in 0 .. MaxReqs
    BY <1>2 DEF TypeOK, HistOK
  <2>2. /\ r.prot = "UDP" /\ r.peer = p /\ r.no = Len(hist) + 1
        /\ r \in ReqType
    BY <2>1, Constants DEF ReqType
  <2> HIDE DEF r
  <2>3. Numbered(hist', r)
    BY <1>2, <2>2 DEF Numbered, Asker
  <2> QED BY <2>2, <2>3
<1>4. \/ /\ Len(svcQ) < QueCap
         /\ svcQ' = Append(svcQ, r)
         /\ reqFree > 0
         /\ reqFree' = reqFree - 1
      \/ UNCHANGED <<svcQ, reqFree>>
  BY DEF InputUdp
<1>5. UNCHANGED <<conn, conns, total_seq, ack, ackFree, wpc, wreq, wack, ackQ,
                  notes, rpc, rfd, rleft, rack>> /\ rpc = "select"
  BY DEF InputUdp, sockVars, ackVars, workerVars, inputVars
<1> HIDE DEF r
<1>6. /\ svcQ' \in Seq(ReqType)
      /\ Len(svcQ') <= QueCap
      /\ reqFree' \in 0 .. ReqPoolSize
      /\ reqFree' + Len(svcQ') = reqFree + Len(svcQ)
      /\ \A i \in DOMAIN svcQ' :
           svcQ'[i] = r \/ (i \in DOMAIN svcQ /\ svcQ'[i] = svcQ[i])
  BY <1>3, <1>4, QueueGrows DEF TypeOK
<1>7. TypeOK'
  BY <1>2, <1>5, <1>6 DEF TypeOK, SockOK, ReqOK, AckOK, PlaceOK, HistOK
<1>8. Control'
  BY <1>5 DEF Control
<1>9. ReqConserved'
  BY <1>5, <1>6, HoldingFinite DEF ReqConserved, Holding, TypeOK, ReqOK
<1>10. ConnIds'
  BY <1>5 DEF ConnIds
<1>11. HeadsNumbered'
  <2>1. \A m : Numbered(hist, m) => Numbered(hist', m)
    BY <1>2 DEF Numbered
  <2> QED BY <2>1, <1>3, <1>5, <1>6 DEF HeadsNumbered
<1> QED BY <1>7, <1>8, <1>9, <1>10, <1>11

LEMMA InputOverloadHeld ==
    ASSUME Held, NEW c \in Cmds, InputOverload(c)
    PROVE  Held'
<1> USE IsgwServerAssumption DEF Held, InputOverload, ackVars, workerVars
<1>1. Asker("TCP", conn[rfd].id) \in Askers
  BY DEF TypeOK, SockOK, PlaceOK, Control, ConnIds, Asker, Askers
<1>2. /\ hist' \in Seq(HistType)
      /\ Len(hist') = Len(hist) + 1
      /\ \A n \in DOMAIN hist : hist'[n] = hist[n]
      /\ DOMAIN hist \subseteq DOMAIN hist'
  BY <1>1, AskedType DEF TypeOK, HistOK
<1>3. SockOK'
  BY Constants DEF TypeOK, SockOK
<1>4. ReqOK' /\ AckOK' /\ PlaceOK'
  BY DEF TypeOK, ReqOK, AckOK, PlaceOK
<1>5. HistOK'
  BY <1>2 DEF TypeOK, HistOK, PlaceOK, Control
<1>6. Control'
  BY DEF Control
<1>7. ReqConserved'
  BY DEF ReqConserved, Holding
<1>8. ConnIds'
  BY DEF ConnIds, TypeOK, SockOK
<1>9. HeadsNumbered'
  <2>1. \A m : Numbered(hist, m) => Numbered(hist', m)
    BY <1>2 DEF Numbered
  <2> QED BY <2>1 DEF HeadsNumbered
<1> QED BY <1>3, <1>4, <1>5, <1>6, <1>7, <1>8, <1>9 DEF TypeOK

LEMMA RecvHeld ==
    ASSUME Held, NEW w \in Workers, Recv(w)
    PROVE  Held'
<1> USE IsgwServerAssumption DEF Held, Recv, sockVars, ackVars, inputVars
<1>1. /\ Head(svcQ) = svcQ[1]
      /\ 1 \in DOMAIN svcQ
      /\ Head(svcQ) \in ReqType
      /\ svcQ' \in Seq(ReqType)
      /\ Len(svcQ') = Len(svcQ) - 1
      /\ \A i \in DOMAIN svcQ' : i + 1 \in DOMAIN svcQ /\ svcQ'[i] = svcQ[i + 1]
  BY TailElements DEF TypeOK, ReqOK
<1>2. SockOK' /\ AckOK' /\ PlaceOK' /\ HistOK'
  BY DEF TypeOK, SockOK, AckOK, PlaceOK, HistOK, WorkerPlaces
<1>3. ReqOK'
  BY <1>1 DEF TypeOK, ReqOK
<1>4. Control'
  BY DEF Control, TypeOK, PlaceOK
<1>5. ReqConserved'
  <2>1. Cardinality(Holding') = Cardinality(Holding) + 1
    BY HoldingStarts DEF TypeOK, PlaceOK
  <2> QED BY <1>1, <2>1, HoldingFinite DEF ReqConserved, TypeOK, ReqOK
<1>6. ConnIds'
  BY DEF ConnIds
<1>7. HeadsNumbered'
  BY <1>1 DEF HeadsNumbered, TypeOK, ReqOK, PlaceOK
<1> QED BY <1>2, <1>3, <1>4, <1>5, <1>6, <1>7 DEF TypeOK

LEMMA TakeAckHeld ==
    ASSUME Held, NEW w \in Workers, TakeAck(w)
    PROVE  Held'
<1> USE IsgwServerAssumption
    DEF Held, TakeAck, RecycleReq, sockVars, inputVars
<1>1. Head(ackFree) \in AckObjs /\ ackFree' \in Seq(AckObjs)
  BY TailElements DEF TypeOK, AckOK
<1> DEFINE a == HeadOf(wreq[w], ack[Head(ackFree)])
<1>2. /\ a \in AckType
      /\ Numbered(hist, a)
  <2>1. wreq[w] \in ReqType /\ ack[Head(ackFree)] \in AckType
    BY <1>1 DEF TypeOK, ReqOK, AckOK
  <2>2. Numbered(hist, wreq[w])
    BY DEF HeadsNumbered
  <2>3. /\ a \in AckType
        /\ a.no = wreq[w].no
        /\ a.prot = wreq[w].prot
        /\ a.peer = wreq[w].peer
    BY <2>1 DEF HeadOf, AckType, ReqType
  <2> QED BY <2>2, <2>3 DEF Numbered
<1>3. ack' = [ack EXCEPT ![Head(ackFree)] = a]
  OBVIOUS
<1> HIDE DEF a
<1>4. AckOK'
  BY <1>1, <1>2, <1>3 DEF TypeOK, AckOK
<1>5. ReqConserved' /\ reqFree' \in 0 .. ReqPoolSize
  <2>1. Cardinality(Holding') = Cardinality(Holding) - 1
    BY HoldingStops DEF TypeOK, PlaceOK
  <2> QED BY <2>1, HoldingFinite DEF ReqConserved, TypeOK, ReqOK
<1>6. SockOK' /\ ReqOK' /\ PlaceOK' /\ HistOK'
  BY <1>5 DEF TypeOK, SockOK, ReqOK, PlaceOK, HistOK, WorkerPlaces
<1>7. Control'
  BY <1>1 DEF Control, TypeOK, PlaceOK, AckOK
<1>8. ConnIds'
  BY DEF ConnIds
<1>9. HeadsNumbered'
  <2>1. \A o \in AckObjs : ack'[o].no = 0 \/ Numbered(hist', ack'[o])
    BY <1>2, <1>3 DEF HeadsNumbered, TypeOK, AckOK
  <2> QED BY <2>1 DEF HeadsNumbered, TypeOK, PlaceOK
<1> QED BY <1>4, <1>5, <1>6, <1>7, <1>8, <1>9 DEF TypeOK

(* The worker is done with the request: it leaves with the reply, or it    *)
(* gives the reply up.  In the reply only ret_value may have changed.      *)
LEMMA ProcessHeld ==
    ASSUME Held, NEW w \in Workers, NEW res \in Results,
           wpc[w] = "process", Ended(w, res),
           UNCHANGED ack \/ SetRet(w, res),
           ToSend(w) \/ NoReply(w),
           UNCHANGED <<sockVars, svcQ, reqFree, ackQ, notes, rpc, inputVars,
                       rack>>
    PROVE  Held'
<1> USE IsgwServerAssumption DEF Held, sockVars, inputVars
<1>1. /\ hist' \in Seq(HistType)
      /\ Len(hist') = Len(hist)
      /\ DOMAIN hist' = DOMAIN hist
      /\ \A n \in DOMAIN hist : hist'[n].asker = hist[n].asker
  BY EndedType DEF TypeOK, HistOK
<1>2. wack[w] \in AckObjs
  BY DEF Control
<1>3. /\ ack' \in [AckObjs -> AckType]
      /\ \A o \in AckObjs : /\ ack'[o].no = ack[o].no
                            /\ ack'[o].prot = ack[o].prot
                            /\ ack'[o].peer = ack[o].peer
  <2>1. CASE UNCHANGED ack
    BY <2>1 DEF TypeOK, AckOK
  <2>2. CASE SetRet(w, res)
    <3> DEFINE a == [ack[wack[w]] EXCEPT !.ret = res]
    <3>1. /\ a \in AckType
          /\ a.no = ack[wack[w]].no
          /\ a.prot = ack[wack[w]].prot
          /\ a.peer = ack[wack[w]].peer
      <4>1. ack[wack[w]] \in AckType
        BY <1>2 DEF TypeOK, AckOK
      <4> QED BY <4>1 DEF AckType
    <3>2. ack' = [ack EXCEPT ![wack[w]] = a]
      BY <2>2 DEF SetRet
    <3> HIDE DEF a
    <3> QED BY <1>2, <3>1, <3>2 DEF TypeOK, AckOK
  <2> QED BY <2>1, <2>2
<1>4. /\ ackFree' \in Seq(AckObjs)
      /\ wack' \in [Workers -> AckObjs \cup {NoAck}]
      /\ wreq' \in [Workers -> ReqType]
      /\ \E s \in {"send", "idle"} :
           /\ wpc' = [wpc EXCEPT ![w] = s]
           /\ s = "send" => wack' = wack
           /\ s = "idle" => wack' = [wack EXCEPT ![w] = NoAck]
  <2>1. CASE ToSend(w)
    BY <2>1, Constants DEF TypeOK, AckOK, ReqOK, ToSend
  <2>2. CASE NoReply(w)
    <3>1. Append(ackFree, wack[w]) \in Seq(AckObjs)
      BY <1>2, AppendElements DEF TypeOK, AckOK
    <3> QED BY <2>2, <3>1, Constants DEF TypeOK, AckOK, ReqOK, NoReply
  <2> QED BY <2>1, <2>2
<1>5. wreq' = [wreq EXCEPT ![w] = NoReq]
  BY DEF ToSend, NoReply
<1>6. TypeOK'
  BY <1>1, <1>3, <1>4
     DEF TypeOK, SockOK, ReqOK, AckOK, PlaceOK, HistOK, WorkerPlaces
<1>7. Control'
  BY <1>1, <1>2, <1>4 DEF Control, TypeOK, PlaceOK, AckOK
<1>8. ReqConserved'
  <2>1. Holding' = Holding
    BY <1>4 DEF Holding, TypeOK, PlaceOK
  <2> QED BY <2>1 DEF ReqConserved
<1>9. ConnIds'
  BY DEF ConnIds
<1>10. HeadsNumbered'
  <2>1. \A m : Numbered(hist, m) => Numbered(hist', m)
    BY <1>1 DEF Numbered
  <2>2. \A o \in AckObjs : ack'[o].no = 0 \/ Numbered(hist', ack'[o])
    <3>1. \A o \in AckObjs : Numbered(hist', ack[o]) => Numbered(hist', ack'[o])
      BY <1>3 DEF Numbered
    <3> QED BY <1>3, <2>1, <3>1 DEF HeadsNumbered
  <2>3. \A v \in Workers : wpc'[v] \in {"got", "process"} =>
          wreq'[v] = wreq[v] /\ wpc[v] = wpc'[v]
    BY <1>4, <1>5 DEF TypeOK, PlaceOK, ReqOK
  <2> QED BY <2>1, <2>2, <2>3 DEF HeadsNumbered
<1> QED BY <1>6, <1>7, <1>8, <1>9, <1>10

LEMMA PutqHeld ==
    ASSUME Held, NEW w \in Workers, Putq(w) \/ PutqNotify(w)
    PROVE  Held'
<1> USE IsgwServerAssumption
    DEF Held, Putq, PutqNotify, Notify, sockVars, ackVars, inputVars
<1>1. ackQ' \in Seq(AckObjs)
  <2>1. wpc[w] = "send" => Append(ackQ, wack[w]) \in Seq(AckObjs)
    BY AppendElements DEF TypeOK, AckOK, Control
  <2> QED BY <2>1 DEF TypeOK, AckOK
<1>2. TypeOK'
  <2>1. CASE Putq(w)
    BY <1>1, <2>1 DEF TypeOK, SockOK, ReqOK, AckOK, PlaceOK, HistOK, WorkerPlaces
  <2>2. CASE PutqNotify(w)
    <3>1. notes' \in 0 .. PipeCap
      BY <2>2 DEF TypeOK, PlaceOK
    <3> QED BY <2>2, <3>1
            DEF TypeOK, SockOK, ReqOK, AckOK, PlaceOK, HistOK, WorkerPlaces
  <2> QED BY <2>1, <2>2
<1>3. Control'
  BY DEF Control, TypeOK, PlaceOK, AckOK
<1>4. ReqConserved'
  <2>1. Holding' = Holding
    BY DEF Holding, TypeOK, PlaceOK
  <2> QED BY <2>1 DEF ReqConserved
<1>5. ConnIds'
  BY DEF ConnIds
<1>6. HeadsNumbered'
  BY DEF HeadsNumbered, TypeOK, PlaceOK
<1> QED BY <1>2, <1>3, <1>4, <1>5, <1>6

LEMMA DrainHeld ==
    ASSUME Held, BeginDrain \/ Pop \/ ReadSize
    PROVE  Held'
<1> USE IsgwServerAssumption
    DEF Held, BeginDrain, Pop, ReadSize, sockVars, ackVars, workerVars, inputVars
<1>1. /\ ackQ' \in Seq(AckObjs)
      /\ rack' \in AckObjs \cup {NoAck}
      /\ rpc' = "deliver" => rack' \in AckObjs
  <2>1. ackQ # <<>> => Head(ackQ) \in AckObjs /\ Tail(ackQ) \in Seq(AckObjs)
    BY TailElements DEF TypeOK, AckOK
  <2> QED BY <2>1 DEF TypeOK, AckOK
<1>2. TypeOK'
  <2>1. notes' \in 0 .. PipeCap
    BY DEF TypeOK, PlaceOK
  <2>2. PlaceOK'
    BY <2>1 DEF TypeOK, PlaceOK
  <2> QED BY <1>1, <2>2 DEF TypeOK, SockOK, ReqOK, AckOK, HistOK
<1>3. Control'
  BY <1>1 DEF Control
<1>4. ReqConserved'
  BY DEF ReqConserved, Holding
<1>5. ConnIds'
  BY DEF ConnIds
<1>6. HeadsNumbered'
  BY DEF HeadsNumbered
<1> QED BY <1>2, <1>3, <1>4, <1>5, <1>6

(* The reactor is done with a reply, having sent it to tos, and perhaps    *)
(* closed its connection.                                                  *)
LEMMA DoneHeld ==
    ASSUME Held, rpc = "deliver",
           NEW tos, tos \in Seq(Askers) \/ ack[rack].no = 0,
           DoneWith(rack, tos),
           UNCHANGED conn \/ conn' = [conn EXCEPT ![ack[rack].fd] = NoConn]
    PROVE  Held'
<1> USE IsgwServerAssumption DEF Held
<1>1. rack \in AckObjs
  BY DEF Control
<1>2. /\ hist' \in Seq(HistType)
      /\ Len(hist') = Len(hist)
      /\ DOMAIN hist' = DOMAIN hist
      /\ \A n \in DOMAIN hist : hist'[n].asker = hist[n].asker
  <2>1. CASE tos \in Seq(Askers)
    BY <2>1, <1>1, DoneType DEF TypeOK, HistOK, AckOK
  <2>2. CASE ack[rack].no = 0
    <3>1. 0 \notin DOMAIN hist
      BY DEF TypeOK, HistOK
    <3>2. hist' = hist
      BY <2>2, <3>1 DEF DoneWith, TypeOK, HistOK
    <3> QED BY <3>2 DEF TypeOK, HistOK
  <2> QED BY <2>1, <2>2
<1>3. ackFree' \in Seq(AckObjs)
  BY <1>1, AppendElements DEF TypeOK, AckOK, DoneWith
<1>4. UNCHANGED <<conns, total_seq, svcQ, reqFree, ack, wpc, wreq, wack, ackQ,
                  notes, rfd, rleft>> /\ rpc' = "size" /\ rack' = NoAck
  BY DEF DoneWith, workerVars, inputVars
<1>5. SockOK'
  BY <1>4, Constants DEF TypeOK, SockOK
<1>6. ReqOK' /\ AckOK' /\ PlaceOK' /\ HistOK'
  BY <1>2, <1>3, <1>4 DEF TypeOK, ReqOK, AckOK, PlaceOK, HistOK
<1>7. Control'
  BY <1>4 DEF Control
<1>8. ReqConserved'
  BY <1>4 DEF ReqConserved, Holding
<1>9. ConnIds'
  BY <1>4 DEF ConnIds, TypeOK, SockOK
<1>10. HeadsNumbered'
  <2>1. \A m : Numbered(hist, m) => Numbered(hist', m)
    BY <1>2 DEF Numbered
  <2> QED BY <2>1, <1>4 DEF HeadsNumbered
<1> QED BY <1>5, <1>6, <1>7, <1>8, <1>9, <1>10 DEF TypeOK

(* What the reply is sent to, if anything, is an asker.                    *)
LEMMA SentToAskers ==
    ASSUME Held, rpc = "deliver"
    PROVE  /\ ack[rack].prot = "TCP" /\ HasOwner(ack[rack]) =>
                Asker("TCP", conn[ack[rack].fd].id) \in Askers
           /\ ack[rack].prot = "UDP" /\ ack[rack].no # 0 =>
                Asker("UDP", ack[rack].peer) \in Askers
<1> USE DEF Held
<1>1. rack \in AckObjs /\ ack[rack] \in AckType /\ ack[rack].fd \in Fds
  BY DEF Control, TypeOK, AckOK, AckType
<1>2. ASSUME HasOwner(ack[rack])
      PROVE  Asker("TCP", conn[ack[rack].fd].id) \in Askers
  <2>1. conn[ack[rack].fd].id \in 1 .. conns /\ conns \in 0 .. MaxConns
    BY <1>1, <1>2 DEF HasOwner, ConnIds, TypeOK, SockOK
  <2>2. conn[ack[rack].fd].id \in 1 .. MaxConns
    BY <2>1, IsgwServerAssumption
  <2> QED BY <2>2 DEF Asker, Askers
<1>3. ASSUME ack[rack].prot = "UDP", ack[rack].no # 0
      PROVE  Asker("UDP", ack[rack].peer) \in Askers
  <2>1. Numbered(hist, ack[rack])
    BY <1>1, <1>3 DEF HeadsNumbered
  <2>2. hist[ack[rack].no] \in HistType
    BY <2>1 DEF Numbered, TypeOK, HistOK
  <2>3. ack[rack].peer \in Peers
    BY <1>3, <2>1, <2>2 DEF Numbered, HistType, Askers
  <2> QED BY <1>3, <2>3 DEF Asker, Askers
<1> QED BY <1>2, <1>3

LEMMA DeliverHeld ==
    ASSUME Held, Deliver
    PROVE  Held'
<1>1. CASE DeliverUdp
  <2>1. PICK tos \in {<<>>, <<Asker("UDP", ack[rack].peer)>>} :
          DoneWith(rack, tos)
    BY <1>1 DEF DeliverUdp
  <2>2. tos \in Seq(Askers) \/ ack[rack].no = 0
    <3>1. CASE Asker("UDP", ack[rack].peer) \in Askers
      <4>1. <<>> \in Seq(Askers) /\ <<Asker("UDP", ack[rack].peer)>> \in Seq(Askers)
        BY <3>1
      <4>2. tos = <<>> \/ tos = <<Asker("UDP", ack[rack].peer)>>
        OBVIOUS
      <4> QED BY <4>1, <4>2
    <3>2. CASE ack[rack].no = 0
      BY <3>2
    <3> QED BY <1>1, <3>1, <3>2, SentToAskers DEF DeliverUdp
  <2> QED BY <1>1, <2>1, <2>2, DoneHeld DEF DeliverUdp
<1>2. CASE DropNoOwner
  <2>1. <<>> \in Seq(Askers)
    OBVIOUS
  <2> QED BY <1>2, <2>1, DoneHeld DEF DropNoOwner
<1>3. CASE DeliverTcp
  <2>1. <<Asker("TCP", conn[ack[rack].fd].id)>> \in Seq(Askers)
    BY <1>3, SentToAskers DEF DeliverTcp
  <2> QED BY <1>3, <2>1, DoneHeld DEF DeliverTcp
<1>4. CASE SendFails
  <2>1. <<>> \in Seq(Askers)
    OBVIOUS
  <2> QED BY <1>4, <2>1, DoneHeld DEF SendFails
<1> QED BY <1>1, <1>2, <1>3, <1>4 DEF Deliver

LEMMA StutterHeld ==
    ASSUME Held, UNCHANGED vars
    PROVE  Held'
<1> USE DEF Held, vars
<1>1. TypeOK'
  BY DEF TypeOK, SockOK, ReqOK, AckOK, PlaceOK, HistOK
<1>2. Control' /\ ReqConserved' /\ ConnIds' /\ HeadsNumbered'
  BY DEF Control, ReqConserved, Holding, ConnIds, HeadsNumbered
<1> QED BY <1>1, <1>2

LEMMA NextHeld == Held /\ [Next]_vars => Held'
<1> SUFFICES ASSUME Held, [Next]_vars PROVE Held'
  OBVIOUS
<1>1. CASE Network
  BY <1>1, AcceptHeld, DisconnectHeld, BeginInputHeld, InputUdpHeld DEF Network
<1>2. CASE ReactorBusy
  BY <1>2, InputRequestHeld, InputOverloadHeld, DrainHeld, DeliverHeld
     DEF ReactorBusy
<1>3. CASE BeginDrain
  BY <1>3, DrainHeld
<1>4. ASSUME NEW w \in Workers, Worker(w) PROVE Held'
  <2>1. CASE Recv(w)
    BY <2>1, RecvHeld
  <2>2. CASE TakeAck(w)
    BY <2>2, TakeAckHeld
  <2>3. ASSUME NEW res \in Results, Internal(w, res) PROVE Held'
    BY <2>3, ProcessHeld DEF Internal
  <2>4. ASSUME NEW res \in Results, Business(w, res) PROVE Held'
    BY <2>4, ProcessHeld DEF Business
  <2>5. CASE CheckFails(w)
    <3>1. "fail" \in Results
      BY DEF Results
    <3> QED BY <2>5, <3>1, ProcessHeld DEF CheckFails
  <2>6. CASE Putq(w) \/ PutqNotify(w)
    BY <2>6, PutqHeld
  <2> QED BY <1>4, <2>1, <2>2, <2>3, <2>4, <2>5, <2>6 DEF Worker
<1>5. CASE UNCHANGED vars
  BY <1>5, StutterHeld
<1> QED BY <1>1, <1>2, <1>3, <1>4, <1>5 DEF Next

LEMMA AlwaysHeld == Spec => []Held
BY InitHeld, NextHeld, PTL DEF Spec

(* The values of all variables stay in range, whatever the sizes of pools, *)
(* queues and sets of threads, descriptors and clients.                    *)
THEOREM TypeCorrect == Spec => []TypeOK
<1>1. Held => TypeOK
  BY DEF Held
<1> QED BY <1>1, AlwaysHeld, PTL

(* No request object is lost or duplicated: those pooled, queued and held  *)
(* by workers always make up the pool.                                     *)
THEOREM RequestsConserved == Spec => []ReqConserved
<1>1. Held => ReqConserved
  BY DEF Held
<1> QED BY <1>1, AlwaysHeld, PTL

-----------------------------------------------------------------------------
(* Layer 2: replies go to the asker, if sequence numbers have not wrapped. *)

(* No sequence number is given out twice: the process opens no more        *)
(* connections than the counter has values.                                *)
NoWrap == MaxConns <= SeqMod

(* A connection has the number of those opened before it as sock_seq.      *)
SeqsMatch ==
    /\ total_seq = IF conns = SeqMod THEN 0 ELSE conns
    /\ \A f \in Fds : conn[f] # NoConn => conn[f].seq = conn[f].id - 1

(* m has the sequence number of the connection its request came by.        *)
SeqNamed(h, m) == m.prot = "TCP" => m.seq = h[m.no].asker.who - 1

HeadsMatch ==
    /\ \A i \in DOMAIN svcQ : SeqNamed(hist, svcQ[i])
    /\ \A w \in Workers :
         wpc[w] \in {"got", "process"} => SeqNamed(hist, wreq[w])
    /\ \A o \in AckObjs : ack[o].no = 0 \/ SeqNamed(hist, ack[o])

Matched == SeqsMatch /\ HeadsMatch /\ ReplyToAsker

(* The counter while it has not wrapped more than once.                    *)
LEMMA SeqMods ==
    ASSUME NEW c \in Nat, c < SeqMod
    PROVE  (c + 1) % SeqMod = IF c + 1 = SeqMod THEN 0 ELSE c + 1
BY IsgwServerAssumption

LEMMA InitMatched == Init => Matched
<1> SUFFICES ASSUME Init PROVE Matched
  OBVIOUS
<1> USE IsgwServerAssumption DEF Init
<1>1. SeqsMatch
  BY DEF SeqsMatch
<1>2. HeadsMatch
  BY DEF HeadsMatch, BlankAck
<1>3. ReplyToAsker
  BY DEF ReplyToAsker
<1> QED BY <1>1, <1>2, <1>3 DEF Matched

(* Steps that leave the history and the heads of replies alone.            *)
LEMMA QuietMatched ==
    ASSUME Held, Matched, UNCHANGED <<hist, ack>>,
           \A i \in DOMAIN svcQ' : \E j \in DOMAIN svcQ : svcQ'[i] = svcQ[j],
           \A w \in Workers : wpc'[w] \in {"got", "process"} =>
             \/ wpc[w] \in {"got", "process"} /\ wreq'[w] = wreq[w]
             \/ \E j \in DOMAIN svcQ : wreq'[w] = svcQ[j],
           SeqsMatch'
    PROVE  Matched'
<1>1. HeadsMatch'
  BY DEF Matched, HeadsMatch
<1>2. ReplyToAsker'
  BY DEF Matched, ReplyToAsker
<1> QED BY <1>1, <1>2 DEF Matched

LEMMA AcceptMatched ==
    ASSUME Held, Matched, NoWrap, NEW fd \in Fds, Accept(fd)
    PROVE  Matched'
<1>1. SeqsMatch'
  <2>1. conns < SeqMod /\ conns \in Nat /\ total_seq = conns
    BY IsgwServerAssumption
       DEF Accept, NoWrap, Held, TypeOK, SockOK, Matched, SeqsMatch
  <2>2. total_seq' = IF conns + 1 = SeqMod THEN 0 ELSE conns + 1
    BY <2>1, SeqMods DEF Accept, NextSeq
  <2>3. \A f \in Fds : conn'[f] # NoConn => conn'[f].seq = conn'[f].id - 1
    BY <2>1 DEF Accept, Matched, SeqsMatch, Held, TypeOK, SockOK
  <2> QED BY <2>1, <2>2, <2>3 DEF Accept, SeqsMatch
<1> QED BY <1>1, QuietMatched DEF Accept, ackVars, workerVars

LEMMA ConnsMatched ==
    ASSUME Held, Matched,
           conn' = conn \/ \E f \in Fds : conn' = [conn EXCEPT ![f] = NoConn],
           UNCHANGED <<conns, total_seq>>
    PROVE  SeqsMatch'
BY DEF Matched, SeqsMatch, Held, TypeOK, SockOK

LEMMA QuietSteps ==
    ASSUME Held, Matched,
           \/ \E fd \in Fds : Disconnect(fd)
           \/ \E fd \in Fds, k \in 1 .. MaxBatch : BeginInput(fd, k)
           \/ \E w \in Workers : Putq(w) \/ PutqNotify(w)
           \/ BeginDrain \/ Pop \/ ReadSize \/ UNCHANGED vars
    PROVE  Matched'
<1>1. SeqsMatch'
  BY ConnsMatched
     DEF Disconnect, BeginInput, Putq, PutqNotify, BeginDrain, Pop, ReadSize,
         vars, sockVars
<1>2. UNCHANGED <<hist, ack, svcQ, wreq>>
  BY DEF Disconnect, BeginInput, Putq, PutqNotify, BeginDrain, Pop, ReadSize,
         vars, ackVars, workerVars
<1>3. \A w \in Workers :
        wpc'[w] \in {"got", "process"} => wpc[w] \in {"got", "process"}
  BY DEF Disconnect, BeginInput, Putq, PutqNotify, BeginDrain, Pop, ReadSize,
         vars, workerVars, Held, TypeOK, PlaceOK
<1> QED BY <1>1, <1>2, <1>3, QuietMatched

LEMMA RecvMatched ==
    ASSUME Held, Matched, NEW w \in Workers, Recv(w)
    PROVE  Matched'
<1>1. /\ Head(svcQ) = svcQ[1]
      /\ 1 \in DOMAIN svcQ
      /\ \A i \in DOMAIN svcQ' : i + 1 \in DOMAIN svcQ /\ svcQ'[i] = svcQ[i + 1]
  BY TailElements DEF Recv, Held, TypeOK, ReqOK
<1>2. SeqsMatch'
  BY ConnsMatched DEF Recv, sockVars
<1>3. \A v \in Workers : wpc'[v] \in {"got", "process"} =>
        \/ wpc[v] \in {"got", "process"} /\ wreq'[v] = wreq[v]
        \/ \E j \in DOMAIN svcQ : wreq'[v] = svcQ[j]
  BY <1>1 DEF Recv, Held, TypeOK, ReqOK, PlaceOK
<1>4. UNCHANGED <<hist, ack>>
  BY DEF Recv, ackVars
<1> QED BY <1>1, <1>2, <1>3, <1>4, QuietMatched

(* A request arrives: it is numbered anew, and put on the queue or not.    *)
LEMMA ArrivalMatched ==
    ASSUME Held, Matched, NEW asker \in Askers, NEW c \in Cmds,
           hist' = Asked(asker, c),
           NEW r, r.no = Len(hist) + 1,
           r.prot = "TCP" => r.seq = asker.who - 1,
           \A i \in DOMAIN svcQ' :
             svcQ'[i] = r \/ (i \in DOMAIN svcQ /\ svcQ'[i] = svcQ[i]),
           UNCHANGED <<wpc, wreq, ack>>,
           SeqsMatch'
    PROVE  Matched'
<1>1. /\ \A n \in DOMAIN hist : hist'[n] = hist[n]
      /\ hist'[Len(hist) + 1].asker = asker
      /\ hist'[Len(hist) + 1].sentTo = <<>>
      /\ DOMAIN hist' = DOMAIN hist \cup {Len(hist) + 1}
  <2>1. hist \in Seq(HistType)
    BY DEF Held, TypeOK, HistOK
  <2>2. /\ hist' \in Seq(HistType)
        /\ Len(hist') = Len(hist) + 1
        /\ \A n \in DOMAIN hist : hist'[n] = hist[n]
        /\ hist'[Len(hist) + 1].asker = asker
        /\ hist'[Len(hist) + 1].sentTo = <<>>
    BY <2>1, AskedType
  <2>3. DOMAIN hist' = DOMAIN hist \cup {Len(hist) + 1}
    BY <2>1, <2>2
  <2> QED BY <2>2, <2>3
<1>2. HeadsMatch'
  <2>1. \A m : Numbered(hist, m) /\ SeqNamed(hist, m) => SeqNamed(hist', m)
    BY <1>1 DEF Numbered, SeqNamed
  <2>2. SeqNamed(hist', r)
    BY <1>1 DEF SeqNamed
  <2> QED BY <2>1, <2>2 DEF Matched, HeadsMatch, Held, HeadsNumbered
<1>3. ReplyToAsker'
  <2>1. \A n \in DOMAIN hist : \A i \in DOMAIN hist'[n].sentTo :
          hist'[n].sentTo[i] = hist'[n].asker
    BY <1>1 DEF Matched, ReplyToAsker
  <2>2. DOMAIN hist'[Len(hist) + 1].sentTo = {}
    BY <1>1
  <2> QED BY <1>1, <2>1, <2>2 DEF ReplyToAsker
<1> QED BY <1>2, <1>3 DEF Matched

LEMMA InputRequestMatched ==
    ASSUME Held, Matched, NEW c \in Cmds, InputRequest(c)
    PROVE  Matched'
<1> DEFINE asker == Asker("TCP", conn[rfd].id)
           r == [prot |-> "TCP", fd |-> rfd, peer |-> 0,
                 seq |-> conn[rfd].seq, no |-> Len(hist) + 1, cmd |-> c]
<1>1. /\ rfd \in Fds /\ conn[rfd] # NoConn
      /\ conn[rfd].id \in 1 .. MaxConns
      /\ conn[rfd].seq = conn[rfd].id - 1
  BY IsgwServerAssumption
     DEF InputRequest, Held, TypeOK, SockOK, PlaceOK, Control, ConnIds, Matched,
         SeqsMatch
<1>2. asker \in Askers /\ asker.who = conn[rfd].id
  BY <1>1 DEF Asker, Askers
<1>3. r.no = Len(hist) + 1 /\ r.seq = asker.who - 1
  BY <1>1, <1>2
<1>4. hist' = Asked(asker, c) /\ svcQ' = Append(svcQ, r)
  BY DEF InputRequest
<1>5. r \in ReqType
  BY <1>1, <1>2, IsgwServerAssumption
     DEF InputRequest, Held, TypeOK, SockOK, PlaceOK, HistOK, Control, ReqType
<1>6. UNCHANGED <<wpc, wreq, ack>> /\ SeqsMatch'
  BY ConnsMatched DEF InputRequest, sockVars, workerVars, ackVars
<1> HIDE DEF asker, r
<1>7. \A i \in DOMAIN svcQ' :
        svcQ'[i] = r \/ (i \in DOMAIN svcQ /\ svcQ'[i] = svcQ[i])
  BY <1>4, <1>5, AppendElements DEF Held, TypeOK, ReqOK
<1> QED BY <1>2, <1>3, <1>4, <1>6, <1>7, ArrivalMatched

LEMMA InputOverloadMatched ==
    ASSUME Held, Matched, NEW c \in Cmds, InputOverload(c)
    PROVE  Matched'
<1> DEFINE asker == Asker("TCP", conn[rfd].id)
           r == [prot |-> "none", no |-> Len(hist) + 1]
<1>1. asker \in Askers
  BY IsgwServerAssumption
     DEF InputOverload, Held, TypeOK, SockOK, PlaceOK, Control, ConnIds, Asker,
         Askers
<1>2. r.no = Len(hist) + 1 /\ r.prot # "TCP"
  OBVIOUS
<1>3. hist' = Asked(asker, c) /\ UNCHANGED <<svcQ, wpc, wreq, ack>>
  BY DEF InputOverload, workerVars, ackVars
<1>4. SeqsMatch'
  BY ConnsMatched DEF InputOverload, Held, TypeOK, PlaceOK
<1> HIDE DEF asker, r
<1> QED BY <1>1, <1>2, <1>3, <1>4, ArrivalMatched

LEMMA InputUdpMatched ==
    ASSUME Held, Matched, NEW p \in Peers, NEW c \in Cmds, InputUdp(p, c)
    PROVE  Matched'
<1> DEFINE asker == Asker("UDP", p)
           r == [NoReq EXCEPT !.prot = "UDP", !.peer = p,
                              !.no = Len(hist) + 1, !.cmd = c]
<1>1. asker \in Askers
  BY DEF Asker, Askers
<1>2. r \in ReqType /\ r.no = Len(hist) + 1 /\ r.prot # "TCP"
  <2>1. Len(hist) + 1 \in 0 .. MaxReqs
    BY IsgwServerAssumption DEF InputUdp, Held, TypeOK, HistOK
  <2> QED BY <2>1, Constants DEF ReqType
<1>3. /\ hist' = Asked(asker, c)
      /\ UNCHANGED <<wpc, wreq, ack>>
      /\ svcQ' = Append(svcQ, r) \/ UNCHANGED svcQ
  BY DEF InputUdp, workerVars, ackVars
<1>4. SeqsMatch'
  BY ConnsMatched DEF InputUdp, sockVars
<1> HIDE DEF asker, r
<1>5. \A i \in DOMAIN svcQ' :
        svcQ'[i] = r \/ (i \in DOMAIN svcQ /\ svcQ'[i] = svcQ[i])
  BY <1>2, <1>3, AppendElements DEF Held, TypeOK, ReqOK
<1> QED BY <1>1, <1>2, <1>3, <1>4, <1>5, ArrivalMatched

LEMMA TakeAckMatched ==
    ASSUME Held, Matched, NEW w \in Workers, TakeAck(w)
    PROVE  Matched'
<1> DEFINE o == Head(ackFree)
           a == HeadOf(wreq[w], ack[o])
<1>1. o \in AckObjs
  BY TailElements DEF TakeAck, Held, TypeOK, AckOK
<1>2. a.no = wreq[w].no /\ a.prot = wreq[w].prot /\ a.seq = wreq[w].seq
  <2>1. ack[o] \in AckType
    BY <1>1 DEF Held, TypeOK, AckOK
  <2> QED BY <2>1 DEF HeadOf, AckType
<1>3. SeqNamed(hist, a)
  <2>1. SeqNamed(hist, wreq[w])
    BY DEF TakeAck, Matched, HeadsMatch
  <2> QED BY <1>2, <2>1 DEF SeqNamed
<1>4. ack' = [ack EXCEPT ![o] = a] /\ UNCHANGED <<hist, svcQ, wreq>>
  BY DEF TakeAck
<1>5. SeqsMatch'
  BY ConnsMatched DEF TakeAck, sockVars
<1> HIDE DEF o, a
<1>6. HeadsMatch'
  <2>1. \A x \in AckObjs : ack'[x].no = 0 \/ SeqNamed(hist, ack'[x])
    BY <1>3, <1>4 DEF Matched, HeadsMatch, Held, TypeOK, AckOK
  <2>2. \A v \in Workers :
          wpc'[v] \in {"got", "process"} => wpc[v] \in {"got", "process"}
    BY DEF TakeAck, Held, TypeOK, PlaceOK
  <2> QED BY <1>4, <2>1, <2>2 DEF Matched, HeadsMatch
<1>7. ReplyToAsker'
  BY <1>4 DEF Matched, ReplyToAsker
<1> QED BY <1>5, <1>6, <1>7 DEF Matched

LEMMA ProcessMatched ==
    ASSUME Held, Matched, NEW w \in Workers, NEW res \in Results,
           wpc[w] = "process", Ended(w, res),
           UNCHANGED ack \/ SetRet(w, res),
           ToSend(w) \/ NoReply(w),
           UNCHANGED <<sockVars, svcQ>>
    PROVE  Matched'
<1>1. /\ DOMAIN hist' = DOMAIN hist
      /\ \A n \in DOMAIN hist : /\ hist'[n].asker = hist[n].asker
                                /\ hist'[n].sentTo = hist[n].sentTo
  BY EndedType DEF Held, TypeOK, HistOK
<1>2. \A o \in AckObjs : /\ ack'[o].no = ack[o].no
                         /\ ack'[o].prot = ack[o].prot
                         /\ ack'[o].seq = ack[o].seq
  <2>1. CASE UNCHANGED ack
    BY <2>1
  <2>2. CASE SetRet(w, res)
    <3>1. wack[w] \in AckObjs /\ ack[wack[w]] \in AckType
      BY DEF Held, Control, TypeOK, AckOK
    <3> DEFINE a == [ack[wack[w]] EXCEPT !.ret = res]
    <3>2. /\ a.no = ack[wack[w]].no
          /\ a.prot = ack[wack[w]].prot
          /\ a.seq = ack[wack[w]].seq
      BY <3>1 DEF AckType
    <3>3. ack' = [ack EXCEPT ![wack[w]] = a]
      BY <2>2 DEF SetRet
    <3> HIDE DEF a
    <3> QED BY <3>1, <3>2, <3>3 DEF Held, TypeOK, AckOK
  <2> QED BY <2>1, <2>2
<1>3. SeqsMatch'
  BY ConnsMatched DEF sockVars
<1>4. \A m : Numbered(hist, m) /\ SeqNamed(hist, m) => SeqNamed(hist', m)
  BY <1>1 DEF Numbered, SeqNamed
<1>5. HeadsMatch'
  <2>1. \A o \in AckObjs : ack'[o].no = 0 \/ SeqNamed(hist', ack'[o])
    <3>1. \A o \in AckObjs : ack[o].no = 0 \/ SeqNamed(hist', ack[o])
      BY <1>4 DEF Held, HeadsNumbered, Matched, HeadsMatch
    <3> QED BY <1>2, <3>1 DEF SeqNamed
  <2>2. \A v \in Workers : wpc'[v] \in {"got", "process"} =>
          wpc[v] \in {"got", "process"} /\ wreq'[v] = wreq[v]
    BY DEF ToSend, NoReply, Held, TypeOK, PlaceOK, ReqOK
  <2>3. UNCHANGED svcQ
    OBVIOUS
  <2> QED BY <1>4, <2>1, <2>2, <2>3 DEF Held, HeadsNumbered, Matched, HeadsMatch
<1>6. ReplyToAsker'
  BY <1>1 DEF Matched, ReplyToAsker
<1> QED BY <1>3, <1>5, <1>6 DEF Matched

(* What is sent at the end of a reply goes to the asker of its request.    *)
LEMMA DoneMatched ==
    ASSUME Held, Matched, rpc = "deliver",
           NEW tos, tos \in Seq(Askers) \/ ack[rack].no = 0,
           ack[rack].no # 0 => \A i \in DOMAIN tos :
                                 tos[i] = hist[ack[rack].no].asker,
           DoneWith(rack, tos), SeqsMatch'
    PROVE  Matched'
<1>1. rack \in AckObjs
  BY DEF Held, Control
<1>2. UNCHANGED <<svcQ, wpc, wreq, ack>>
  BY DEF DoneWith, workerVars
<1>3. CASE ack[rack].no = 0
  <2>1. hist' = hist
    <3>1. hist \in Seq(HistType)
      BY DEF Held, TypeOK, HistOK
    <3>2. 0 \notin DOMAIN hist
      BY <3>1
    <3> QED BY <1>3, <3>1, <3>2 DEF DoneWith
  <2> QED BY <1>2, <2>1, QuietMatched
<1>4. CASE ack[rack].no # 0
  <2>1. tos \in Seq(Askers)
    BY <1>4
  <2>2. /\ DOMAIN hist' = DOMAIN hist
        /\ \A n \in DOMAIN hist :
             /\ hist'[n].asker = hist[n].asker
             /\ hist'[n].sentTo = IF n = ack[rack].no
                                    THEN hist[n].sentTo \o tos
                                    ELSE hist[n].sentTo
    BY <1>1, <2>1, DoneType DEF Held, TypeOK, HistOK, AckOK
  <2>3. HeadsMatch'
    <3>1. \A m : Numbered(hist, m) /\ SeqNamed(hist, m) => SeqNamed(hist', m)
      BY <2>2 DEF Numbered, SeqNamed
    <3> QED BY <1>2, <3>1 DEF Held, HeadsNumbered, Matched, HeadsMatch
  <2>4. ReplyToAsker'
    <3>1. ASSUME NEW n \in DOMAIN hist, NEW i \in DOMAIN hist'[n].sentTo
          PROVE  hist'[n].sentTo[i] = hist[n].asker
      <4>1. hist[n].sentTo \in Seq(Askers)
        <5>1. hist \in Seq(HistType)
          BY DEF Held, TypeOK, HistOK
        <5>2. hist[n] \in HistType
          BY <5>1
        <5> QED BY <5>2 DEF HistType
      <4>2. CASE n = ack[rack].no
        <5>1. hist'[n].sentTo = hist[n].sentTo \o tos
          BY <2>2, <4>2
        <5>2. \/ i \in DOMAIN hist[n].sentTo /\ hist'[n].sentTo[i] = hist[n].sentTo[i]
              \/ \E j \in DOMAIN tos : hist'[n].sentTo[i] = tos[j]
          BY <2>1, <3>1, <4>1, <5>1, CatElements
        <5> QED BY <1>4, <4>2, <5>2 DEF Matched, ReplyToAsker
      <4>3. CASE n # ack[rack].no
        BY <2>2, <3>1, <4>3 DEF Matched, ReplyToAsker
      <4> QED BY <4>2, <4>3
    <3> QED BY <2>2, <3>1 DEF ReplyToAsker
  <2> QED BY <2>3, <2>4 DEF Matched
<1> QED BY <1>3, <1>4

(* A handler with the sequence number of a reply is the asker's.           *)
LEMMA OwnerIsAsker ==
    ASSUME Held, Matched, rpc = "deliver", ack[rack].prot = "TCP",
           HasOwner(ack[rack]), ack[rack].no # 0
    PROVE  Asker("TCP", conn[ack[rack].fd].id) = hist[ack[rack].no].asker
<1> DEFINE a == ack[rack]
<1>1. rack \in AckObjs /\ a \in AckType /\ a.fd \in Fds
  BY DEF Held, Control, TypeOK, AckOK, AckType
<1>2. /\ Numbered(hist, a) /\ SeqNamed(hist, a)
      /\ hist[a.no].asker \in Askers
  <2>1. Numbered(hist, a) /\ SeqNamed(hist, a)
    BY <1>1 DEF Held, HeadsNumbered, Matched, HeadsMatch
  <2>2. hist[a.no] \in HistType
    BY <2>1 DEF Numbered, Held, TypeOK, HistOK
  <2> QED BY <2>1, <2>2 DEF HistType
<1>3. conn[a.fd].seq = a.seq /\ conn[a.fd].seq = conn[a.fd].id - 1
  BY <1>1 DEF HasOwner, Matched, SeqsMatch
<1>4. conn[a.fd].id \in Nat
  BY <1>1 DEF Held, TypeOK, SockOK
<1>5. /\ hist[a.no].asker.prot = "TCP"
      /\ hist[a.no].asker.who - 1 = conn[a.fd].id - 1
  BY <1>2, <1>3 DEF Numbered, SeqNamed
<1>6. hist[a.no].asker.who \in 1 .. MaxConns
  BY <1>2, <1>5 DEF Askers
<1>7. hist[a.no].asker.who = conn[a.fd].id
  BY <1>4, <1>5, <1>6, IsgwServerAssumption
<1> QED BY <1>2, <1>5, <1>7 DEF Asker, Askers

LEMMA DeliverMatched ==
    ASSUME Held, Matched, Deliver
    PROVE  Matched'
<1> DEFINE a == ack[rack]
<1>1. rpc = "deliver" /\ rack \in AckObjs /\ a \in AckType
  BY DEF Deliver, DeliverUdp, DropNoOwner, DeliverTcp, SendFails, Held, Control,
         TypeOK, AckOK
<1>2. a.no # 0 => /\ Numbered(hist, a)
                  /\ SeqNamed(hist, a)
                  /\ hist[a.no].asker \in Askers
  <2>1. a.no # 0 => Numbered(hist, a) /\ SeqNamed(hist, a)
    BY <1>1 DEF Held, HeadsNumbered, Matched, HeadsMatch
  <2>2. Numbered(hist, a) => hist[a.no] \in HistType
    BY DEF Numbered, Held, TypeOK, HistOK
  <2> QED BY <2>1, <2>2 DEF HistType
<1>3. SeqsMatch'
  BY ConnsMatched, <1>1
     DEF Deliver, DeliverUdp, DropNoOwner, DeliverTcp, SendFails, DoneWith,
         AckType
<1>4. <<>> \in Seq(Askers) /\ DOMAIN <<>> = {}
  OBVIOUS
<1>5. CASE DropNoOwner \/ SendFails
  BY <1>1, <1>3, <1>4, <1>5, DoneMatched DEF DropNoOwner, SendFails
<1>6. CASE DeliverTcp
  <2> DEFINE to == Asker("TCP", conn[a.fd].id)
  <2>1. a.no # 0 => to = hist[a.no].asker
    BY <1>1, <1>6, OwnerIsAsker DEF DeliverTcp
  <2>2. to \in Askers
    BY <1>1, <1>6, SentToAskers DEF DeliverTcp
  <2>3. DoneWith(rack, <<to>>)
    BY <1>6 DEF DeliverTcp
  <2> HIDE DEF to
  <2>4. <<to>> \in Seq(Askers) /\ \A i \in DOMAIN <<to>> : <<to>>[i] = to
    BY <2>2
  <2> QED BY <1>1, <1>3, <2>1, <2>3, <2>4, DoneMatched
<1>7. CASE DeliverUdp
  <2> DEFINE to == Asker("UDP", a.peer)
  <2>1. a.no # 0 => to = hist[a.no].asker
    BY <1>2, <1>7 DEF DeliverUdp, Numbered, Asker, Askers
  <2>2. PICK tos \in {<<>>, <<to>>} : DoneWith(rack, tos)
    BY <1>7 DEF DeliverUdp
  <2> HIDE DEF to
  <2>3. tos \in Seq(Askers) \/ a.no = 0
    <3>1. CASE a.no # 0
      <4>1. <<to>> \in Seq(Askers)
        BY <1>2, <2>1, <3>1
      <4> QED BY <1>4, <2>2, <4>1
    <3> QED BY <3>1
  <2>4. \A i \in DOMAIN tos : tos[i] = to
    BY <1>4, <2>2
  <2> QED BY <1>1, <1>3, <2>1, <2>2, <2>3, <2>4, DoneMatched
<1> QED BY <1>5, <1>6, <1>7 DEF Deliver

LEMMA NextMatched == NoWrap /\ Held /\ Matched /\ [Next]_vars => Matched'
<1> SUFFICES ASSUME NoWrap, Held, Matched, [Next]_vars PROVE Matched'
  OBVIOUS
<1>1. CASE Network
  BY <1>1, AcceptMatched, QuietSteps, InputUdpMatched DEF Network
<1>2. CASE ReactorBusy
  BY <1>2, InputRequestMatched, InputOverloadMatched, QuietSteps,
     DeliverMatched DEF ReactorBusy
<1>3. CASE BeginDrain
  BY <1>3, QuietSteps
<1>4. ASSUME NEW w \in Workers, Worker(w) PROVE Matched'
  <2>1. CASE Recv(w)
    BY <2>1, RecvMatched
  <2>2. CASE TakeAck(w)
    BY <2>2, TakeAckMatched
  <2>3. ASSUME NEW res \in Results, Internal(w, res) PROVE Matched'
    BY <2>3, ProcessMatched DEF Internal
  <2>4. ASSUME NEW res \in Results, Business(w, res) PROVE Matched'
    BY <2>4, ProcessMatched DEF Business
  <2>5. CASE CheckFails(w)
    <3>1. "fail" \in Results
      BY DEF Results
    <3> QED BY <2>5, <3>1, ProcessMatched DEF CheckFails
  <2>6. CASE Putq(w) \/ PutqNotify(w)
    BY <2>6, QuietSteps
  <2> QED BY <1>4, <2>1, <2>2, <2>3, <2>4, <2>5, <2>6 DEF Worker
<1>5. CASE UNCHANGED vars
  BY <1>5, QuietSteps
<1> QED BY <1>1, <1>2, <1>3, <1>4, <1>5 DEF Next

(* Whatever is sent in answer to a request goes to the one who sent it, in *)
(* a process that opens no more connections than sock_seq has values: the  *)
(* test of sock_fd and sock_seq in ISGWAck::process is enough, however     *)
(* descriptors are reused and threads interleave.                          *)
THEOREM RepliesMatch ==
    ASSUME NoWrap
    PROVE  Spec => []ReplyToAsker
<1>1. Init => Matched
  BY InitMatched
<1>2. Held /\ Matched /\ [Next]_vars => Matched'
  BY NextMatched
<1>3. Matched => ReplyToAsker
  BY DEF Matched
<1> QED BY <1>1, <1>2, <1>3, AlwaysHeld, PTL DEF Spec

(***************************************************************************)
(* What becomes of replies: Owned, Carried, and the refinement.            *)
(***************************************************************************)

(* The workers that fill a reply object or are about to hand it over.      *)
Filling(o) == {w \in Workers : wack[w] = o /\ wpc[w] \in {"process", "send"}}

AtReactor(o) == IF rack = o THEN 1 ELSE 0

(* In how many places a reply object is.                                   *)
PlaceCount(o) ==
    Cardinality(Places(ackFree, o)) + Cardinality(Places(ackQ, o))
        + Cardinality(Filling(o)) + AtReactor(o)

(* Every reply object is in one place, and is what PutqOwnsAck says.       *)
Owned ==
    /\ \A o \in AckObjs : PlaceCount(o) = 1
    /\ rpc # "deliver" => rack = NoAck
    /\ PutqOwnsAck

(* The reply objects in use.                                               *)
Out == {o \in AckObjs : \A i \in DOMAIN ackFree : ackFree[i] # o}

(* The requests that workers have not copied into a reply yet.             *)
Got == {w \in Workers : wpc[w] = "got"}

(* With handlers c and history h, the handler of the connection that m, a  *)
(* request or a reply, is for has, as long as it is there, the descriptor  *)
(* and the sequence number of m.                                           *)
Traced(c, h, m) ==
    m.prot = "TCP" =>
        \A f \in Fds : c[f].id = h[m.no].asker.who =>
                         f = m.fd /\ c[f].seq = m.seq

(* m is about a request that is not done with.                             *)
Open(c, h, m) ==
    /\ m.no \in DOMAIN h
    /\ h[m.no].counted = "none"
    /\ Traced(c, h, m)

(* The processing of a request has left its result in its reply a.         *)
Settled(h, a) == h[a.no].cmd = "business" => h[a.no].result = a.ret

(* A request is in one place only.                                         *)
OnePlace ==
    /\ \A i, j \in DOMAIN svcQ : svcQ[i].no = svcQ[j].no => i = j
    /\ \A v, w \in Got : wreq[v].no = wreq[w].no => v = w
    /\ \A o, p \in Out : ack[o].no = ack[p].no => o = p
    /\ \A i \in DOMAIN svcQ, w \in Got : svcQ[i].no # wreq[w].no
    /\ \A i \in DOMAIN svcQ, o \in Out : svcQ[i].no # ack[o].no
    /\ \A w \in Got, o \in Out : wreq[w].no # ack[o].no

(* The requests in these places.                                           *)
Pending == {svcQ[i].no : i \in DOMAIN svcQ} \cup {wreq[w].no : w \in Got}
             \cup {ack[o].no : o \in Out}

(* What is known of the requests in each of these places.                  *)
QueuedOpen ==
    \A i \in DOMAIN svcQ : /\ Open(conn, hist, svcQ[i])
                           /\ hist[svcQ[i].no].cmd = svcQ[i].cmd
GotOpen ==
    \A w \in Got : /\ Open(conn, hist, wreq[w])
                   /\ hist[wreq[w].no].cmd = wreq[w].cmd
Processing(o) == \E w \in Workers : wpc[w] = "process" /\ wack[w] = o
OutOpen ==
    \A o \in Out : /\ Open(conn, hist, ack[o])
                   /\ Settled(hist, ack[o]) \/ Processing(o)
ProcessOpen ==
    \A w \in Workers : wpc[w] = "process" =>
        /\ ack[wack[w]].no = wreq[w].no
        /\ hist[wreq[w].no].cmd = wreq[w].cmd

(* The connections that ask are those given out, each to one descriptor.   *)
AskersKnown ==
    /\ \A n \in DOMAIN hist :
         hist[n].asker.prot = "TCP" => hist[n].asker.who \in 1 .. conns
    /\ \A f, g \in Fds : conn[f].id = conn[g].id /\ conn[f].id # 0 => f = g

Carried ==
    /\ OnePlace
    /\ QueuedOpen
    /\ GotOpen
    /\ OutOpen
    /\ ProcessOpen
    /\ AskersKnown
    /\ BusinessCounted

-----------------------------------------------------------------------------
(* Where the reply objects are.                                            *)

LEMMA FillingFinite ==
    ASSUME NEW o
    PROVE  /\ IsFiniteSet(Filling(o)) /\ Cardinality(Filling(o)) \in Nat
           /\ IsFiniteSet(Filling(o)') /\ Cardinality(Filling(o)') \in Nat
BY IsgwServerAssumption, FS_Subset, FS_CardinalityType DEF Filling

LEMMA PlaceNats ==
    ASSUME Held, NEW o
    PROVE  /\ Cardinality(Places(ackFree, o)) \in Nat
           /\ Cardinality(Places(ackQ, o)) \in Nat
           /\ Cardinality(Filling(o)) \in Nat
           /\ AtReactor(o) \in {0, 1}
<1>1. ackFree \in Seq(AckObjs) /\ ackQ \in Seq(AckObjs)
  BY DEF Held, TypeOK, AckOK
<1> QED BY <1>1, FillingFinite, PlacesFinite DEF AtReactor

(* The places of AckOwnedOnce are those counted here.                      *)
LEMMA OwnersCounted ==
    ASSUME Held, NEW o \in AckObjs
    PROVE  Cardinality(AckOwners(o)) = PlaceCount(o)
<1> DEFINE P == {<<"pool", i>> : i \in Places(ackFree, o)}
           Q == {<<"queue", i>> : i \in Places(ackQ, o)}
           F == {<<"worker", w>> : w \in Filling(o)}
           R == IF rack = o THEN {<<"reactor", 0>>} ELSE {}
<1>1. /\ IsFiniteSet(P) /\ Cardinality(P) = Cardinality(Places(ackFree, o))
      /\ IsFiniteSet(Q) /\ Cardinality(Q) = Cardinality(Places(ackQ, o))
      /\ IsFiniteSet(F) /\ Cardinality(F) = Cardinality(Filling(o))
  <2>1. ackFree \in Seq(AckObjs) /\ ackQ \in Seq(AckObjs)
    BY DEF Held, TypeOK, AckOK
  <2>2. IsFiniteSet(Places(ackFree, o)) /\ IsFiniteSet(Places(ackQ, o))
    BY <2>1, PlacesFinite
  <2> QED BY <2>2, FillingFinite, TaggedCardinality
<1>2. IsFiniteSet(R) /\ Cardinality(R) = AtReactor(o)
  <2>1. IsFiniteSet({<<"reactor", 0>>}) /\ Cardinality({<<"reactor", 0>>}) = 1
    BY FS_Singleton
  <2> QED BY <2>1, FS_EmptySet DEF AtReactor
<1>3. AckOwners(o) = ((P \cup Q) \cup F) \cup R
  BY DEF AckOwners, Places, Filling
<1>4. P \cap Q = {} /\ (P \cup Q) \cap F = {} /\ ((P \cup Q) \cup F) \cap R = {}
  OBVIOUS
<1> HIDE DEF P, Q, F, R
<1>5. /\ IsFiniteSet(P \cup Q)
      /\ Cardinality(P \cup Q) = Cardinality(P) + Cardinality(Q)
  BY <1>1, <1>4, DisjointCardinality
<1>6. /\ IsFiniteSet((P \cup Q) \cup F)
      /\ Cardinality((P \cup Q) \cup F) = Cardinality(P \cup Q) + Cardinality(F)
  BY <1>1, <1>4, <1>5, DisjointCardinality
<1>7. Cardinality(((P \cup Q) \cup F) \cup R) =
        Cardinality((P \cup Q) \cup F) + Cardinality(R)
  BY <1>2, <1>4, <1>6, DisjointCardinality
<1> QED BY <1>1, <1>2, <1>3, <1>5, <1>6, <1>7, PlaceNats DEF PlaceCount

LEMMA InitOwned == Init => Owned
<1> SUFFICES ASSUME Init PROVE Owned
  OBVIOUS
<1> USE DEF Init
<1>1. ASSUME NEW o \in AckObjs PROVE PlaceCount(o) = 1
  <2>1. Places(ackFree, o) = {o} /\ Places(ackQ, o) = {} /\ Filling(o) = {}
    BY DEF Places, Filling
  <2>2. AtReactor(o) = 0
    BY IsgwServerAssumption DEF AckObjs, NoAck, AtReactor
  <2>3. /\ Cardinality(Places(ackFree, o)) = 1
        /\ Cardinality(Places(ackQ, o)) = 0
        /\ Cardinality(Filling(o)) = 0
    BY <2>1, FS_EmptySet, FS_Singleton
  <2> QED BY <2>2, <2>3 DEF PlaceCount
<1>2. PutqOwnsAck
  BY DEF PutqOwnsAck
<1> QED BY <1>1, <1>2 DEF Owned

(* Steps that move no reply object.                                        *)
LEMMA QuietOwned ==
    ASSUME Held, Owned, UNCHANGED <<ackFree, ackQ, wack, rack>>,
           rpc' = "deliver" <=> rpc = "deliver",
           \A w \in Workers : 
             /\ wpc'[w] \in {"process", "send"} <=> wpc[w] \in {"process", "send"}
             /\ wpc'[w] = "putq" => wpc[w] = "putq"
    PROVE  Owned'
<1>1. ASSUME NEW o \in AckObjs PROVE PlaceCount(o)' = 1
  <2>1. Filling(o)' = Filling(o) /\ AtReactor(o)' = AtReactor(o)
    BY DEF Filling, AtReactor
  <2> QED BY <2>1 DEF PlaceCount, Owned
<1>2. PutqOwnsAck'
  BY DEF PutqOwnsAck, Owned
<1> QED BY <1>1, <1>2 DEF Owned

(* A worker starts to fill an object ...                                   *)
LEMMA FillingStarts ==
    ASSUME Held, NEW w \in Workers, NEW x \in AckObjs, wpc[w] = "got",
           wack' = [wack EXCEPT ![w] = x], wpc' = [wpc EXCEPT ![w] = "process"],
           NEW o \in AckObjs
    PROVE  Cardinality(Filling(o)') =
             Cardinality(Filling(o)) + (IF o = x THEN 1 ELSE 0)
<1>1. wack \in [Workers -> AckObjs \cup {NoAck}] /\ wpc \in [Workers -> WorkerPlaces]
  BY DEF Held, TypeOK, AckOK, PlaceOK
<1>2. CASE o = x
  <2>1. Filling(o)' = Filling(o) \cup {w} /\ w \notin Filling(o)
    BY <1>1, <1>2 DEF Filling
  <2> QED BY <1>2, <2>1, FillingFinite, FS_AddElement
<1>3. CASE o # x
  <2>1. Filling(o)' = Filling(o)
    BY <1>1, <1>3 DEF Filling
  <2> QED BY <1>3, <2>1, FillingFinite
<1> QED BY <1>2, <1>3

(* ... and gives it away.                                                  *)
LEMMA FillingStops ==
    ASSUME Held, NEW w \in Workers, wpc[w] \in {"process", "send"},
           wack' = wack \/ wack' = [wack EXCEPT ![w] = NoAck],
           NEW s, s \notin {"process", "send"}, wpc' = [wpc EXCEPT ![w] = s],
           NEW o \in AckObjs
    PROVE  Cardinality(Filling(o)') =
             Cardinality(Filling(o)) - (IF o = wack[w] THEN 1 ELSE 0)
<1>1. wack \in [Workers -> AckObjs \cup {NoAck}] /\ wpc \in [Workers -> WorkerPlaces]
  BY DEF Held, TypeOK, AckOK, PlaceOK
<1>2. CASE o = wack[w]
  <2>1. Filling(o)' = Filling(o) \ {w} /\ w \in Filling(o)
    BY <1>1, <1>2 DEF Filling
  <2> QED BY <1>2, <2>1, FillingFinite, FS_RemoveElement
<1>3. CASE o # wack[w]
  <2>1. Filling(o)' = Filling(o)
    BY <1>1, <1>3 DEF Filling
  <2> QED BY <1>3, <2>1, FillingFinite
<1> QED BY <1>2, <1>3

LEMMA TakeAckOwned ==
    ASSUME Held, Owned, NEW w \in Workers, TakeAck(w)
    PROVE  Owned'
<1> USE DEF TakeAck
<1>1. ackFree \in Seq(AckObjs) /\ Head(ackFree) \in AckObjs
  BY TailElements DEF Held, TypeOK, AckOK
<1>2. ASSUME NEW o \in AckObjs PROVE PlaceCount(o)' = 1
  <2>1. Cardinality(Places(Tail(ackFree), o)) =
          Cardinality(Places(ackFree, o)) - (IF o = Head(ackFree) THEN 1 ELSE 0)
    BY <1>1, PlacesTail
  <2>2. Cardinality(Filling(o)') =
          Cardinality(Filling(o)) + (IF o = Head(ackFree) THEN 1 ELSE 0)
    BY <1>1, FillingStarts
  <2>3. AtReactor(o)' = AtReactor(o) /\ ackFree' = Tail(ackFree) /\ ackQ' = ackQ
    BY DEF AtReactor
  <2> QED BY <2>1, <2>2, <2>3, PlaceNats DEF PlaceCount, Owned
<1>3. PutqOwnsAck'
  BY DEF PutqOwnsAck, Owned, Held, TypeOK, AckOK, PlaceOK
<1> QED BY <1>2, <1>3 DEF Owned

LEMMA NoReplyOwned ==
    ASSUME Held, Owned, NEW w \in Workers, wpc[w] = "process", NoReply(w),
           UNCHANGED <<ackQ, rpc, rack>>
    PROVE  Owned'
<1> USE DEF NoReply
<1>1. ackFree \in Seq(AckObjs) /\ wack[w] \in AckObjs
  BY DEF Held, TypeOK, AckOK, Control
<1>2. ASSUME NEW o \in AckObjs PROVE PlaceCount(o)' = 1
  <2>1. Cardinality(Places(Append(ackFree, wack[w]), o)) =
          Cardinality(Places(ackFree, o)) + (IF o = wack[w] THEN 1 ELSE 0)
    BY <1>1, PlacesAppend
  <2>2. Cardinality(Filling(o)') =
          Cardinality(Filling(o)) - (IF o = wack[w] THEN 1 ELSE 0)
    BY FillingStops
  <2>3. /\ AtReactor(o)' = AtReactor(o)
        /\ ackFree' = Append(ackFree, wack[w]) /\ ackQ' = ackQ
    BY DEF AtReactor
  <2> QED BY <2>1, <2>2, <2>3, PlaceNats DEF PlaceCount, Owned
<1>3. PutqOwnsAck'
  BY DEF PutqOwnsAck, Owned, Held, TypeOK, AckOK, PlaceOK
<1> QED BY <1>2, <1>3 DEF Owned

LEMMA ToSendOwned ==
    ASSUME Held, Owned, NEW w \in Workers, wpc[w] = "process", ToSend(w),
           UNCHANGED <<ackQ, rpc, rack>>
    PROVE  Owned'
BY QuietOwned DEF ToSend, Held, TypeOK, PlaceOK

LEMMA PutqOwned ==
    ASSUME Held, Owned, NEW w \in Workers, Putq(w)
    PROVE  Owned'
<1> USE DEF Putq
<1>1. ackQ \in Seq(AckObjs) /\ wack[w] \in AckObjs
  BY DEF Held, TypeOK, AckOK, Control
<1>2. ASSUME NEW o \in AckObjs PROVE PlaceCount(o)' = 1
  <2>1. Cardinality(Places(Append(ackQ, wack[w]), o)) =
          Cardinality(Places(ackQ, o)) + (IF o = wack[w] THEN 1 ELSE 0)
    BY <1>1, PlacesAppend
  <2>2. Cardinality(Filling(o)') =
          Cardinality(Filling(o)) - (IF o = wack[w] THEN 1 ELSE 0)
    BY FillingStops
  <2>3. /\ AtReactor(o)' = AtReactor(o)
        /\ ackQ' = Append(ackQ, wack[w]) /\ ackFree' = ackFree
    BY DEF AtReactor, ackVars
  <2> QED BY <2>1, <2>2, <2>3, PlaceNats DEF PlaceCount, Owned
<1>3. PutqOwnsAck'
  <2>1. Len(ackQ) + 1 \in DOMAIN ackQ' /\ ackQ'[Len(ackQ) + 1] = wack[w]
    BY <1>1
  <2>2. \A v \in Workers : wpc'[v] = "putq" => v = w
    BY DEF QueueLocked, Held, TypeOK, PlaceOK
  <2> QED BY <2>1, <2>2 DEF PutqOwnsAck
<1> QED BY <1>2, <1>3 DEF Owned

LEMMA PutqNotifyOwned ==
    ASSUME Held, Owned, NEW w \in Workers, PutqNotify(w)
    PROVE  Owned'
<1> USE DEF PutqNotify
<1>1. ASSUME NEW o \in AckObjs PROVE PlaceCount(o)' = 1
  <2>1. Filling(o)' = Filling(o) /\ AtReactor(o)' = AtReactor(o)
    BY DEF Filling, AtReactor, Held, TypeOK, AckOK, PlaceOK
  <2> QED BY <2>1 DEF PlaceCount, Owned, ackVars
<1>2. PutqOwnsAck'
  BY DEF PutqOwnsAck, Owned, Held, TypeOK, AckOK, PlaceOK
<1> QED BY <1>1, <1>2 DEF Owned

LEMMA PopOwned ==
    ASSUME Held, Owned, Pop
    PROVE  Owned'
<1> USE DEF Pop
<1>1. CASE ackQ = <<>>
  BY <1>1, QuietOwned DEF ackVars, workerVars
<1>2. CASE ackQ # <<>>
  <2>1. ackQ \in Seq(AckObjs) /\ Head(ackQ) \in AckObjs /\ rack = NoAck
    BY <1>2, TailElements DEF Held, TypeOK, AckOK, Owned
  <2>2. UNCHANGED <<ackFree, wpc, wack>>
    BY DEF ackVars, workerVars
  <2>3. ASSUME NEW o \in AckObjs PROVE PlaceCount(o)' = 1
    <3>1. Cardinality(Places(Tail(ackQ), o)) =
            Cardinality(Places(ackQ, o)) - (IF o = Head(ackQ) THEN 1 ELSE 0)
      BY <1>2, <2>1, PlacesTail
    <3>2. /\ AtReactor(o) = 0
          /\ AtReactor(o)' = IF o = Head(ackQ) THEN 1 ELSE 0
      BY <1>2, <2>1, IsgwServerAssumption DEF AtReactor, AckObjs, NoAck
    <3>3. Filling(o)' = Filling(o) /\ ackQ' = Tail(ackQ)
      BY <1>2, <2>2 DEF Filling
    <3> QED BY <2>2, <3>1, <3>2, <3>3, PlaceNats DEF PlaceCount, Owned
  <2>4. PutqOwnsAck'
    BY <2>2 DEF PutqOwnsAck, QueueLocked
  <2> QED BY <1>2, <2>3, <2>4 DEF Owned
<1> QED BY <1>1, <1>2

LEMMA DoneOwned ==
    ASSUME Held, Owned, rpc = "deliver", NEW tos, DoneWith(rack, tos)
    PROVE  Owned'
<1> USE DEF DoneWith
<1>1. ackFree \in Seq(AckObjs) /\ rack \in AckObjs
  BY DEF Held, TypeOK, AckOK, Control
<1>2. UNCHANGED <<ackQ, wpc, wack>>
  BY DEF workerVars
<1>3. ASSUME NEW o \in AckObjs PROVE PlaceCount(o)' = 1
  <2>1. Cardinality(Places(Append(ackFree, rack), o)) =
          Cardinality(Places(ackFree, o)) + (IF o = rack THEN 1 ELSE 0)
    BY <1>1, PlacesAppend
  <2>2. /\ AtReactor(o) = IF o = rack THEN 1 ELSE 0
        /\ AtReactor(o)' = 0
    BY IsgwServerAssumption DEF AtReactor, AckObjs, NoAck
  <2>3. Filling(o)' = Filling(o) /\ ackFree' = Append(ackFree, rack)
    BY <1>2 DEF Filling
  <2> QED BY <1>2, <2>1, <2>2, <2>3, PlaceNats DEF PlaceCount, Owned
<1>4. PutqOwnsAck'
  BY <1>2 DEF PutqOwnsAck, Owned
<1> QED BY <1>3, <1>4 DEF Owned

LEMMA NextOwned == Held /\ Owned /\ [Next]_vars => Owned'
<1> SUFFICES ASSUME Held, Owned, [Next]_vars PROVE Owned'
  OBVIOUS
<1> USE DEF sockVars, ackVars, workerVars, inputVars
<1>1. CASE Network
  BY <1>1, QuietOwned DEF Network, Accept, Disconnect, BeginInput, InputUdp
<1>2. CASE ReactorBusy
  <2>1. ASSUME NEW c \in Cmds, InputRequest(c) \/ InputOverload(c) PROVE Owned'
    BY <2>1, QuietOwned DEF InputRequest, InputOverload
  <2>2. CASE Deliver
    BY <2>2, DoneOwned DEF Deliver, DeliverUdp, DropNoOwner, DeliverTcp, SendFails
  <2>3. CASE ReadSize
    BY <2>3, QuietOwned DEF ReadSize
  <2> QED BY <1>2, <2>1, <2>2, <2>3, PopOwned DEF ReactorBusy
<1>3. CASE BeginDrain
  BY <1>3, QuietOwned DEF BeginDrain
<1>4. ASSUME NEW w \in Workers, Worker(w) PROVE Owned'
  <2>1. CASE Recv(w)
    BY <2>1, QuietOwned DEF Recv, Held, TypeOK, PlaceOK
  <2>2. ASSUME NEW res \in Results, Internal(w, res) \/ Business(w, res)
        PROVE  Owned'
    BY <2>2, ToSendOwned, NoReplyOwned DEF Internal, Business
  <2>3. CASE CheckFails(w)
    BY <2>3, ToSendOwned DEF CheckFails
  <2> QED BY <1>4, <2>1, <2>2, <2>3, TakeAckOwned, PutqOwned, PutqNotifyOwned
          DEF Worker
<1>5. CASE UNCHANGED vars
  BY <1>5, QuietOwned DEF vars
<1> QED BY <1>1, <1>2, <1>3, <1>4, <1>5 DEF Next

LEMMA AlwaysOwned == Spec => []Owned
BY InitOwned, NextOwned, AlwaysHeld, PTL DEF Spec

(* Every PriProAck object is in exactly one place: pooled, with a worker,  *)
(* on the queue of ISGWAck or with the reactor.  None is lost, and none is *)
(* used by two threads, however they interleave.                           *)
THEOREM RepliesOwnedOnce == Spec => []AckOwnedOnce
<1>1. Held /\ Owned => AckOwnedOnce
  BY OwnersCounted DEF Owned, AckOwnedOnce
<1> QED BY <1>1, AlwaysHeld, AlwaysOwned, PTL

(* What ISGWAck::putq has queued and still reads is not taken off the      *)
(* queue meanwhile: process waits for the lock that putq holds.            *)
THEOREM PutqKeepsReply == Spec => []PutqOwnsAck
<1>1. Owned => PutqOwnsAck
  BY DEF Owned
<1> QED BY <1>1, AlwaysOwned, PTL

-----------------------------------------------------------------------------
(* The reply objects in use.                                               *)

LEMMA QueueTypes ==
    ASSUME Held
    PROVE  /\ ackFree \in Seq(AckObjs) /\ ackQ \in Seq(AckObjs)
           /\ svcQ \in Seq(ReqType) /\ hist \in Seq(HistType)
           /\ ack \in [AckObjs -> AckType]
           /\ wpc \in [Workers -> WorkerPlaces]
           /\ wreq \in [Workers -> ReqType]
           /\ wack \in [Workers -> AckObjs \cup {NoAck}]
           /\ conn \in [Fds -> [id : 0 .. MaxConns, seq : Seqs]]
           /\ conns \in 0 .. MaxConns
BY DEF Held, TypeOK, SockOK, ReqOK, AckOK, PlaceOK, HistOK

LEMMA OutCount ==
    ASSUME Held, NEW o \in AckObjs
    PROVE  o \in Out <=> Cardinality(Places(ackFree, o)) = 0
<1>1. (\E i \in DOMAIN ackFree : ackFree[i] = o) <=>
        Cardinality(Places(ackFree, o)) >= 1
  BY QueueTypes, PlacesSome
<1> QED BY <1>1, PlaceNats DEF Out

(* An object in use is with a worker, queued or with the reactor, and with *)
(* one of them only.                                                       *)
LEMMA OutPlace ==
    ASSUME Held, Owned, NEW o \in AckObjs
    PROVE  /\ o \in Out <=>
                ( \/ \E w \in Workers : w \in Filling(o)
                  \/ \E i \in DOMAIN ackQ : ackQ[i] = o
                  \/ rack = o )
           /\ rack = o => Filling(o) = {}
<1>1. (\E i \in DOMAIN ackQ : ackQ[i] = o) <=> Cardinality(Places(ackQ, o)) >= 1
  BY QueueTypes, PlacesSome
<1>2. (\E w \in Workers : w \in Filling(o)) <=> Cardinality(Filling(o)) >= 1
  <2>1. Filling(o) \subseteq Workers
    BY DEF Filling
  <2>2. Cardinality(Filling(o)) = 0 <=> Filling(o) = {}
    BY FillingFinite, FS_EmptySet
  <2> QED BY <2>1, <2>2, FillingFinite
<1>3. Filling(o) = {} <=> Cardinality(Filling(o)) = 0
  BY FillingFinite, FS_EmptySet
<1>4. PlaceCount(o) = 1
  BY DEF Owned
<1>5. /\ Cardinality(Places(ackFree, o)) + Cardinality(Places(ackQ, o))
            + Cardinality(Filling(o)) + AtReactor(o) = 1
      /\ Cardinality(Places(ackFree, o)) \in Nat
      /\ Cardinality(Places(ackQ, o)) \in Nat
      /\ Cardinality(Filling(o)) \in Nat
      /\ AtReactor(o) \in {0, 1}
  BY <1>4, PlaceNats DEF PlaceCount
<1>6. AtReactor(o) = 1 <=> rack = o
  BY DEF AtReactor
<1>7. Cardinality(Places(ackFree, o)) = 0 <=>
        \/ Cardinality(Places(ackQ, o)) >= 1
        \/ Cardinality(Filling(o)) >= 1
        \/ AtReactor(o) = 1
  BY <1>5
<1>8. AtReactor(o) = 1 => Cardinality(Filling(o)) = 0
  BY <1>5
<1>9. o \in Out <=> Cardinality(Places(ackFree, o)) = 0
  BY OutCount
<1>10. o \in Out <=>
         ( \/ \E w \in Workers : w \in Filling(o)
           \/ \E i \in DOMAIN ackQ : ackQ[i] = o
           \/ rack = o )
  BY <1>1, <1>2, <1>6, <1>7, <1>9
<1>11. rack = o => Filling(o) = {}
  BY <1>3, <1>6, <1>8, Zenon
<1> QED BY <1>10, <1>11

LEMMA OutGrows ==
    ASSUME Held, Owned, ackFree # <<>>, ackFree' = Tail(ackFree)
    PROVE  Out' = Out \cup {Head(ackFree)} /\ Head(ackFree) \notin Out
<1> DEFINE x == Head(ackFree)
<1>1. /\ x = ackFree[1] /\ 1 \in DOMAIN ackFree /\ x \in AckObjs
      /\ \A i \in DOMAIN ackFree' : i + 1 \in DOMAIN ackFree /\ ackFree'[i] = ackFree[i + 1]
  BY QueueTypes, TailElements
<1>2. ackFree \in Seq(AckObjs) /\ Tail(ackFree) \in Seq(AckObjs)
  BY QueueTypes
<1>3. \A o \in AckObjs : Cardinality(Places(ackFree', o)) =
        Cardinality(Places(ackFree, o)) - (IF o = x THEN 1 ELSE 0)
  BY <1>2, PlacesTail
<1>4. ASSUME NEW o \in AckObjs
      PROVE  o \in Out' <=> o \in Out \/ o = x
  <2>1. o \in Out' <=> ~ \E i \in DOMAIN ackFree' : ackFree'[i] = o
    BY DEF Out
  <2>2. (\E i \in DOMAIN ackFree' : ackFree'[i] = o) <=>
          Cardinality(Places(ackFree', o)) >= 1
    BY <1>2, PlacesSome
  <2>3. PlaceCount(o) = 1
    BY DEF Owned
  <2>4. o = x => Cardinality(Places(ackFree, o)) = 1
    <3>1. x \notin Out
      BY <1>1 DEF Out
    <3> QED BY <1>1, <2>3, <3>1, OutCount, PlaceNats DEF PlaceCount
  <2> QED BY <1>3, <2>1, <2>2, <2>4, OutCount, PlaceNats
<1>5. x \notin Out /\ Out \subseteq AckObjs /\ Out' \subseteq AckObjs
  BY <1>1 DEF Out, AckObjs
<1> QED BY <1>1, <1>4, <1>5

LEMMA OutShrinks ==
    ASSUME Held, NEW x \in AckObjs, ackFree' = Append(ackFree, x)
    PROVE  Out' = Out \ {x}
<1>1. /\ DOMAIN ackFree = 1 .. Len(ackFree) /\ Len(ackFree) \in Nat
      /\ DOMAIN ackFree' = 1 .. Len(ackFree) + 1
      /\ \A i \in DOMAIN ackFree : ackFree'[i] = ackFree[i]
      /\ ackFree'[Len(ackFree) + 1] = x
  BY QueueTypes
<1>2. DOMAIN ackFree' = DOMAIN ackFree \cup {Len(ackFree) + 1}
  BY <1>1
<1> QED BY <1>1, <1>2 DEF Out, AckObjs

-----------------------------------------------------------------------------
(* What happens to the requests.                                           *)

LEMMA InitCarried == Init => Carried
<1> SUFFICES ASSUME Init PROVE Carried
  OBVIOUS
<1> USE DEF Init
<1>1. Got = {} /\ Out = {} /\ DOMAIN svcQ = {} /\ DOMAIN hist = {}
  BY DEF Got, Out
<1>2. OnePlace /\ QueuedOpen /\ GotOpen /\ OutOpen /\ BusinessCounted
  BY <1>1 DEF OnePlace, QueuedOpen, GotOpen, OutOpen, BusinessCounted
<1>3. ProcessOpen /\ AskersKnown
  BY <1>1 DEF ProcessOpen, AskersKnown, NoConn
<1> QED BY <1>2, <1>3 DEF Carried

(* The heads of all requests and replies in these places are numbered.     *)
LEMMA AllNumbered ==
    ASSUME Held, Carried
    PROVE  /\ \A i \in DOMAIN svcQ : Numbered(hist, svcQ[i])
           /\ \A w \in Got : Numbered(hist, wreq[w])
           /\ \A o \in Out : Numbered(hist, ack[o])
<1>1. \A o \in Out : ack[o].no # 0 /\ o \in AckObjs
  BY QueueTypes DEF Carried, OutOpen, Open, Out
<1> QED BY <1>1 DEF Held, HeadsNumbered, Got

(* No handler that is not new gets other fields.                           *)
ConnsStay == \A f \in Fds : conn'[f] = conn[f] \/ conn'[f].id \notin 1 .. conns

(* A request stays open as long as it is not counted.                      *)
LEMMA OpenStays ==
    ASSUME Held, Carried, ConnsStay, NEW m, Numbered(hist, m),
           Open(conn, hist, m), m.no \in DOMAIN hist',
           hist'[m.no].asker = hist[m.no].asker,
           hist'[m.no].counted = "none"
    PROVE  Open(conn', hist', m)
<1>1. m.prot = "TCP" => hist[m.no].asker.who \in 1 .. conns
  BY DEF Carried, AskersKnown, Numbered
<1> QED BY <1>1 DEF Open, Traced, ConnsStay

(* Steps that touch no request and no reply.                               *)
LEMMA QuietCarried ==
    ASSUME Held, Carried, UNCHANGED <<hist, ack, ackFree, svcQ, wreq>>,
           \A w \in Workers : /\ wpc'[w] = "got" <=> wpc[w] = "got"
                              /\ wpc'[w] = "process" <=> wpc[w] = "process"
                              /\ wpc[w] = "process" => wack'[w] = wack[w],
           ConnsStay, AskersKnown'
    PROVE  Carried' /\ Pending' = Pending
<1>1. Got' = Got /\ Out' = Out
  BY DEF Got, Out
<1>2. OnePlace'
  BY <1>1 DEF Carried, OnePlace
<1>3. \A m : Numbered(hist, m) /\ Open(conn, hist, m) => Open(conn', hist', m)
  <2> SUFFICES ASSUME NEW m, Numbered(hist, m), Open(conn, hist, m)
               PROVE  Open(conn', hist', m)
    OBVIOUS
  <2> QED BY OpenStays DEF Open
<1>4. QueuedOpen' /\ GotOpen'
  BY <1>1, <1>3, AllNumbered DEF Carried, QueuedOpen, GotOpen
<1>5. OutOpen'
  BY <1>1, <1>3, AllNumbered DEF Carried, OutOpen, Processing
<1>6. ProcessOpen' /\ BusinessCounted'
  BY DEF Carried, ProcessOpen, BusinessCounted
<1>7. Pending' = Pending
  BY <1>1 DEF Pending
<1> QED BY <1>2, <1>4, <1>5, <1>6, <1>7 DEF Carried

(* A worker takes a request off the queue.                                 *)
LEMMA RecvCarried ==
    ASSUME Held, Carried, NEW w \in Workers, Recv(w)
    PROVE  Carried' /\ Pending' = Pending
<1>1. /\ Head(svcQ) = svcQ[1] /\ 1 \in DOMAIN svcQ
      /\ \A i \in DOMAIN svcQ : i = 1 \/ i - 1 \in DOMAIN svcQ'
      /\ \A i \in DOMAIN svcQ' : /\ i + 1 \in DOMAIN svcQ /\ i + 1 # 1 /\ i \in Nat
                                  /\ svcQ'[i] = svcQ[i + 1]
  <2>1. svcQ \in Seq(ReqType) /\ svcQ # <<>> /\ svcQ' = Tail(svcQ)
    BY QueueTypes DEF Recv
  <2>2. \A i \in DOMAIN svcQ : i = 1 \/ i - 1 \in DOMAIN svcQ'
    BY <2>1
  <2> QED BY <2>1, <2>2, TailElements
<1>2. /\ UNCHANGED <<hist, ack, ackFree, conn, conns, wack>>
      /\ wpc[w] = "idle" /\ wpc' = [wpc EXCEPT ![w] = "got"]
      /\ wreq' = [wreq EXCEPT ![w] = svcQ[1]]
  BY <1>1 DEF Recv, ackVars, sockVars
<1>3. Got' = Got \cup {w} /\ w \notin Got /\ Out' = Out
  BY <1>2, QueueTypes DEF Got, Out
<1>4. wreq'[w] = svcQ[1] /\ \A v \in Workers \ {w} : wreq'[v] = wreq[v]
  BY <1>2, QueueTypes
<1>5. \A v \in Got : v \in Workers
  BY DEF Got
<1>6. OnePlace'
  BY <1>1, <1>2, <1>3, <1>4, <1>5 DEF Carried, OnePlace
<1>7. QueuedOpen' /\ GotOpen'
  BY <1>1, <1>2, <1>3, <1>4, <1>5 DEF Carried, QueuedOpen, GotOpen
<1>8. OutOpen' /\ ProcessOpen' /\ AskersKnown' /\ BusinessCounted'
  BY <1>2, <1>3, <1>4, QueueTypes
     DEF Carried, OutOpen, ProcessOpen, Processing, AskersKnown, BusinessCounted
<1>9. Pending' = Pending
  <2>1. \A i \in DOMAIN svcQ : \/ i = 1
                               \/ \E j \in DOMAIN svcQ' : svcQ'[j] = svcQ[i]
    <3>1. \A i \in DOMAIN svcQ : i \in Nat /\ (i - 1) + 1 = i
      BY QueueTypes
    <3> QED BY <1>1, <3>1
  <2>2. {svcQ'[i].no : i \in DOMAIN svcQ'} \cup {svcQ[1].no} =
          {svcQ[i].no : i \in DOMAIN svcQ}
    BY <1>1, <2>1
  <2>3. {wreq'[v].no : v \in Got'} = {wreq[v].no : v \in Got} \cup {svcQ[1].no}
    BY <1>3, <1>4, <1>5
  <2> QED BY <1>2, <1>3, <2>2, <2>3 DEF Pending
<1> QED BY <1>6, <1>7, <1>8, <1>9 DEF Carried

(* The history with one more request.                                      *)
LEMMA AskedFields ==
    ASSUME Held, NEW asker, NEW c, hist' = Asked(asker, c)
    PROVE  /\ DOMAIN hist' = DOMAIN hist \cup {Len(hist) + 1}
           /\ Len(hist) + 1 \notin DOMAIN hist
           /\ \A n \in DOMAIN hist : hist'[n] = hist[n]
           /\ hist'[Len(hist) + 1].asker = asker
           /\ hist'[Len(hist) + 1].cmd = c
           /\ hist'[Len(hist) + 1].counted = "none"
           /\ hist'[Len(hist) + 1].sentTo = <<>>
<1> DEFINE h == [asker |-> asker, cmd |-> c, result |-> "none",
                 counted |-> "none", sentTo |-> <<>>]
<1>1. hist' = Append(hist, h)
  BY DEF Asked
<1> HIDE DEF h
<1>2. DOMAIN hist = 1 .. Len(hist) /\ Len(hist) \in Nat
  BY QueueTypes
<1>3. /\ DOMAIN hist' = 1 .. Len(hist) + 1
      /\ \A n \in 1 .. Len(hist) : hist'[n] = hist[n]
      /\ hist'[Len(hist) + 1] = h
  BY <1>1, QueueTypes
<1> QED BY <1>2, <1>3 DEF h

(* A request arrives: it is queued, or it is refused.                      *)
LEMMA ArrivalCarried ==
    ASSUME Held, Carried, NEW asker, NEW c, hist' = Asked(asker, c),
           UNCHANGED <<ack, ackFree, wpc, wreq, wack>>,
           \/ UNCHANGED svcQ
           \/ \E r \in ReqType : /\ svcQ' = Append(svcQ, r)
                                 /\ r.no = Len(hist) + 1 /\ r.cmd = c
                                 /\ Traced(conn', hist', r),
           ConnsStay, AskersKnown'
    PROVE  /\ Carried'
           /\ Pending' = IF UNCHANGED svcQ THEN Pending
                                           ELSE Pending \cup {Len(hist) + 1}
<1> DEFINE n == Len(hist) + 1
<1>1. /\ DOMAIN hist' = DOMAIN hist \cup {n}
      /\ n \notin DOMAIN hist
      /\ \A k \in DOMAIN hist : hist'[k] = hist[k]
      /\ hist'[n].cmd = c /\ hist'[n].counted = "none"
  BY AskedFields
<1> HIDE DEF n
<1>2. Got' = Got /\ Out' = Out
  BY DEF Got, Out
<1>3. \A m : Numbered(hist, m) /\ Open(conn, hist, m) => Open(conn', hist', m)
  <2> SUFFICES ASSUME NEW m, Numbered(hist, m), Open(conn, hist, m)
               PROVE  Open(conn', hist', m)
    OBVIOUS
  <2> QED BY <1>1, OpenStays DEF Open
<1>4. /\ \A i \in DOMAIN svcQ : svcQ[i].no \in DOMAIN hist
      /\ \A w \in Got : wreq[w].no \in DOMAIN hist
      /\ \A o \in Out : ack[o].no \in DOMAIN hist
  BY DEF Carried, QueuedOpen, GotOpen, OutOpen, Open
<1>5. GotOpen' /\ OutOpen'
  BY <1>1, <1>2, <1>3, <1>4, AllNumbered
     DEF Carried, GotOpen, OutOpen, Settled, Processing
<1>6. ProcessOpen' /\ BusinessCounted'
  <2>1. \A w \in Workers : wpc[w] = "process" => wreq[w].no \in DOMAIN hist
    BY DEF Held, HeadsNumbered, Numbered
  <2> QED BY <1>1, <2>1 DEF Carried, ProcessOpen, BusinessCounted
<1>7. OnePlace' /\ QueuedOpen'
  <2>1. CASE UNCHANGED svcQ
    BY <1>1, <1>2, <1>3, <1>4, <2>1, AllNumbered
       DEF Carried, OnePlace, QueuedOpen
  <2>2. ASSUME NEW r \in ReqType, svcQ' = Append(svcQ, r), r.no = n, r.cmd = c,
               Traced(conn', hist', r)
        PROVE  OnePlace' /\ QueuedOpen'
    <3>1. /\ DOMAIN svcQ' = DOMAIN svcQ \cup {Len(svcQ) + 1}
          /\ Len(svcQ) + 1 \notin DOMAIN svcQ
          /\ \A i \in DOMAIN svcQ : svcQ'[i] = svcQ[i]
          /\ svcQ'[Len(svcQ) + 1] = r
      <4>1. svcQ \in Seq(ReqType)
        BY QueueTypes
      <4> QED BY <2>2, <4>1
    <3>2. OnePlace'
      BY <1>1, <1>2, <1>4, <2>2, <3>1 DEF Carried, OnePlace
    <3>3. Open(conn', hist', r) /\ hist'[r.no].cmd = r.cmd
      BY <1>1, <2>2 DEF Open
    <3>4. QueuedOpen'
      BY <1>1, <1>3, <1>4, <3>1, <3>3, AllNumbered DEF Carried, QueuedOpen
    <3> QED BY <3>2, <3>4
  <2> QED BY <2>1, <2>2 DEF n
<1>8. Pending' = IF UNCHANGED svcQ THEN Pending ELSE Pending \cup {n}
  <2>1. CASE UNCHANGED svcQ
    BY <1>2, <2>1 DEF Pending
  <2>2. ASSUME NEW r \in ReqType, svcQ' = Append(svcQ, r), r.no = n
        PROVE  Pending' = Pending \cup {n} /\ svcQ' # svcQ
    <3>1. /\ DOMAIN svcQ' = DOMAIN svcQ \cup {Len(svcQ) + 1}
          /\ Len(svcQ) + 1 \notin DOMAIN svcQ
          /\ \A i \in DOMAIN svcQ : svcQ'[i] = svcQ[i]
          /\ svcQ'[Len(svcQ) + 1] = r
      <4>1. svcQ \in Seq(ReqType)
        BY QueueTypes
      <4> QED BY <2>2, <4>1
    <3>2. {svcQ'[i].no : i \in DOMAIN svcQ'} =
            {svcQ[i].no : i \in DOMAIN svcQ} \cup {n}
      BY <2>2, <3>1
    <3> QED BY <1>2, <3>1, <3>2 DEF Pending
  <2> QED BY <2>1, <2>2 DEF n
<1> QED BY <1>5, <1>6, <1>7, <1>8 DEF Carried, n

LEMMA TakeAckCarried ==
    ASSUME Held, Owned, Carried, NEW w \in Workers, TakeAck(w)
    PROVE  Carried' /\ Pending' = Pending
<1> DEFINE x == Head(ackFree)
           a == HeadOf(wreq[w], ack[x])
<1>1. /\ x \in AckObjs /\ Out' = Out \cup {x} /\ x \notin Out
      /\ \A o \in Out : o \in AckObjs
  <2>1. x \in AckObjs
    BY QueueTypes, TailElements DEF TakeAck
  <2> QED BY <2>1, OutGrows DEF TakeAck, Out
<1>2. /\ a.no = wreq[w].no /\ a.prot = wreq[w].prot
      /\ a.fd = wreq[w].fd /\ a.seq = wreq[w].seq
  <2>1. ack[x] \in AckType
    BY <1>1, QueueTypes
  <2> QED BY <2>1 DEF HeadOf, AckType
<1>3. ack' = [ack EXCEPT ![x] = a]
  BY DEF TakeAck
<1>4. /\ UNCHANGED <<hist, conn, conns, svcQ, wreq>>
      /\ wpc[w] = "got" /\ wpc' = [wpc EXCEPT ![w] = "process"]
      /\ wack' = [wack EXCEPT ![w] = x]
  BY DEF TakeAck, sockVars
<1> HIDE DEF x, a
<1>5. ack'[x] = a /\ \A o \in AckObjs \ {x} : ack'[o] = ack[o]
  BY <1>1, <1>3, QueueTypes
<1>6. w \in Got /\ Got' = Got \ {w}
  BY <1>4, QueueTypes DEF Got
<1>7. OnePlace'
  <2>1. ack'[x].no = wreq[w].no /\ \A o \in Out : ack'[o] = ack[o]
    BY <1>1, <1>2, <1>5
  <2> QED BY <1>1, <1>4, <1>6, <2>1 DEF Carried, OnePlace
<1>8. QueuedOpen' /\ GotOpen'
  BY <1>4, <1>6 DEF Carried, QueuedOpen, GotOpen
<1>9. OutOpen'
  <2>1. Open(conn, hist, ack'[x])
    BY <1>2, <1>5, <1>6 DEF Carried, GotOpen, Open, Traced
  <2>2. wpc'[w] = "process" /\ wack'[w] = x
    BY <1>4, QueueTypes
  <2>3. \A o \in Out : Processing(o) => Processing(o)'
    <3>1. \A v \in Workers : wpc[v] = "process" =>
            wpc'[v] = "process" /\ wack'[v] = wack[v]
      BY <1>4, QueueTypes
    <3> QED BY <3>1 DEF Processing
  <2> SUFFICES ASSUME NEW o \in Out'
               PROVE  /\ Open(conn, hist, ack'[o])
                      /\ Settled(hist, ack'[o]) \/ Processing(o)'
    BY <1>4 DEF OutOpen
  <2>4. CASE o = x
    BY <2>1, <2>2, <2>4 DEF Processing
  <2>5. CASE o # x
    BY <1>1, <1>5, <2>3, <2>5 DEF Carried, OutOpen
  <2> QED BY <2>4, <2>5
<1>10. ProcessOpen'
  <2> SUFFICES ASSUME NEW v \in Workers, wpc'[v] = "process"
               PROVE  /\ ack'[wack'[v]].no = wreq[v].no
                      /\ hist[wreq[v].no].cmd = wreq[v].cmd
    BY <1>4 DEF ProcessOpen
  <2>1. CASE v = w
    BY <1>2, <1>4, <1>5, <1>6, <2>1, QueueTypes DEF Carried, GotOpen
  <2>2. CASE v # w
    <3>1. wpc[v] = "process" /\ wack'[v] = wack[v]
      BY <1>4, <2>2, QueueTypes
    <3>2. wack[v] \in Out
      <4>1. wack[v] \in AckObjs /\ v \in Filling(wack[v])
        BY <3>1 DEF Held, Control, Filling
      <4> QED BY <4>1, OutPlace
    <3> QED BY <1>1, <1>5, <3>1, <3>2 DEF Carried, ProcessOpen
  <2> QED BY <2>1, <2>2
<1>11. AskersKnown' /\ BusinessCounted'
  BY <1>4 DEF Carried, AskersKnown, BusinessCounted
<1>12. Pending' = Pending
  <2>1. {ack'[o].no : o \in Out'} = {ack[o].no : o \in Out} \cup {wreq[w].no}
    BY <1>1, <1>2, <1>5
  <2>2. {wreq[v].no : v \in Got} = {wreq[v].no : v \in Got'} \cup {wreq[w].no}
    BY <1>6
  <2> QED BY <1>4, <2>1, <2>2 DEF Pending
<1> QED BY <1>7, <1>8, <1>9, <1>10, <1>11, <1>12 DEF Carried

(* The history when the processing of a request has ended.                 *)
LEMMA EndedFields ==
    ASSUME Held, NEW w, NEW res, Ended(w, res)
    PROVE  /\ DOMAIN hist' = DOMAIN hist
           /\ \A n \in DOMAIN hist :
                /\ hist'[n].asker = hist[n].asker
                /\ hist'[n].cmd = hist[n].cmd
                /\ hist'[n].counted = hist[n].counted
                /\ hist'[n].sentTo = hist[n].sentTo
                /\ hist'[n].result = IF n = wreq[w].no THEN res
                                                      ELSE hist[n].result
<1>1. ASSUME NEW n \in DOMAIN hist
      PROVE  hist'[n] = IF n = wreq[w].no THEN [hist[n] EXCEPT !.result = res]
                                          ELSE hist[n]
  BY DEF Ended
<1>2. \A n \in DOMAIN hist : hist[n] \in HistType
  BY QueueTypes
<1>3. DOMAIN hist' = DOMAIN hist
  BY DEF Ended
<1> QED BY <1>1, <1>2, <1>3 DEF HistType

(* The worker is done with its request.                                    *)
LEMMA ProcessCarried ==
    ASSUME Held, Owned, Carried, NEW w \in Workers, NEW res \in Results,
           wpc[w] = "process", Ended(w, res),
           \/ UNCHANGED ack /\ wreq[w].cmd = "internal"
           \/ SetRet(w, res),
           ToSend(w) \/ NoReply(w),
           UNCHANGED <<sockVars, svcQ>>
    PROVE  /\ Carried'
           /\ wreq[w].no \in Pending
           /\ Pending' \in {Pending, Pending \ {wreq[w].no}}
<1> DEFINE x == wack[w]
           n == wreq[w].no
<1>1. x \in AckObjs /\ x \in Out /\ ack[x].no = n /\ hist[n].cmd = wreq[w].cmd
  <2>1. x \in AckObjs /\ w \in Filling(x)
    BY DEF Held, Control, Filling
  <2> QED BY <2>1, OutPlace DEF Carried, ProcessOpen
<1>2. \A o \in AckObjs : /\ ack'[o].no = ack[o].no
                         /\ ack'[o].prot = ack[o].prot
                         /\ ack'[o].fd = ack[o].fd
                         /\ ack'[o].seq = ack[o].seq
                         /\ o # x => ack'[o] = ack[o]
                         /\ o = x => wreq[w].cmd = "internal" \/ ack'[o].ret = res
  <2>1. CASE UNCHANGED ack /\ wreq[w].cmd = "internal"
    BY <2>1
  <2>2. CASE SetRet(w, res)
    <3> DEFINE a == [ack[x] EXCEPT !.ret = res]
    <3>1. /\ a.no = ack[x].no /\ a.prot = ack[x].prot
          /\ a.fd = ack[x].fd /\ a.seq = ack[x].seq /\ a.ret = res
      <4>1. ack[x] \in AckType
        BY <1>1, QueueTypes
      <4> QED BY <4>1 DEF AckType
    <3>2. ack' = [ack EXCEPT ![x] = a]
      BY <2>2 DEF SetRet
    <3> HIDE DEF a, x
    <3> QED BY <3>1, <3>2, QueueTypes
  <2> QED BY <2>1, <2>2
<1>3. /\ DOMAIN hist' = DOMAIN hist
      /\ \A k \in DOMAIN hist :
           /\ hist'[k].asker = hist[k].asker
           /\ hist'[k].cmd = hist[k].cmd
           /\ hist'[k].counted = hist[k].counted
           /\ hist'[k].result = IF k = n THEN res ELSE hist[k].result
  BY EndedFields
<1>4. /\ UNCHANGED <<conn, conns, svcQ>>
      /\ wreq' = [wreq EXCEPT ![w] = NoReq]
      /\ \/ /\ wpc' = [wpc EXCEPT ![w] = "send"]
            /\ UNCHANGED <<wack, ackFree>>
         \/ /\ wpc' = [wpc EXCEPT ![w] = "idle"]
            /\ wack' = [wack EXCEPT ![w] = NoAck]
            /\ ackFree' = Append(ackFree, x)
  BY DEF ToSend, NoReply, sockVars
<1> HIDE DEF x, n
<1>5. /\ Out' = Out \/ Out' = Out \ {x}
      /\ Out' \subseteq Out /\ Out \subseteq AckObjs /\ Got' = Got
  <2>1. Out' = Out \/ Out' = Out \ {x}
    <3>1. UNCHANGED ackFree => Out' = Out
      BY DEF Out, AckObjs
    <3> QED BY <1>1, <1>4, <3>1, OutShrinks
  <2>2. Got' = Got
    BY <1>4, QueueTypes DEF Got
  <2> QED BY <2>1, <2>2 DEF Out
<1>6. \A v \in Workers \ {w} : /\ wreq'[v] = wreq[v] /\ wpc'[v] = wpc[v]
                              /\ wack'[v] = wack[v]
  BY <1>4, QueueTypes
<1>7. w \notin Got /\ wpc'[w] # "process"
  BY <1>4, QueueTypes DEF Got
<1>8. \A m : Numbered(hist, m) /\ Open(conn, hist, m) => Open(conn', hist', m)
  <2> SUFFICES ASSUME NEW m, Numbered(hist, m), Open(conn, hist, m)
               PROVE  Open(conn', hist', m)
    OBVIOUS
  <2> QED BY <1>3, <1>4, OpenStays DEF Open, ConnsStay
<1>9. OnePlace'
  <2>1. \A v \in Got : wreq'[v] = wreq[v]
    BY <1>6, <1>7 DEF Got
  <2>2. \A o \in Out' : o \in Out /\ ack'[o].no = ack[o].no
    BY <1>2, <1>5
  <2> QED BY <1>4, <1>5, <2>1, <2>2 DEF Carried, OnePlace
<1>10. QueuedOpen' /\ GotOpen'
  <2>1. \A v \in Got : wreq'[v] = wreq[v]
    BY <1>6, <1>7 DEF Got
  <2> QED BY <1>3, <1>4, <1>5, <1>8, <2>1, AllNumbered
          DEF Carried, QueuedOpen, GotOpen, Open
<1>11. OutOpen'
  <2> SUFFICES ASSUME NEW o \in Out'
               PROVE  /\ Open(conn', hist', ack'[o])
                      /\ Settled(hist', ack'[o]) \/ Processing(o)'
    BY DEF OutOpen
  <2>1. o \in Out /\ o \in AckObjs
    BY <1>5
  <2>2. Open(conn', hist', ack'[o])
    <3>1. Open(conn', hist', ack[o])
      BY <1>8, <2>1, AllNumbered DEF Carried, OutOpen
    <3> QED BY <1>2, <2>1, <3>1 DEF Open, Traced
  <2>3. ack[o].no \in DOMAIN hist
    BY <2>1 DEF Carried, OutOpen, Open
  <2>4. CASE o = x
    BY <1>1, <1>2, <1>3, <2>1, <2>2, <2>3, <2>4 DEF Settled
  <2>5. CASE o # x
    <3>1. ack[o].no # n /\ ack'[o] = ack[o]
      BY <1>1, <1>2, <2>1, <2>5 DEF Carried, OnePlace
    <3>2. Settled(hist, ack[o]) => Settled(hist', ack'[o])
      BY <1>3, <2>3, <3>1 DEF Settled
    <3>3. Processing(o) => Processing(o)'
      <4>1. \A v \in Workers : wpc[v] = "process" /\ wack[v] = o => v # w
        BY <2>5 DEF x
      <4> QED BY <1>6, <4>1 DEF Processing
    <3> QED BY <2>1, <2>2, <3>2, <3>3 DEF Carried, OutOpen
  <2> QED BY <2>4, <2>5
<1>12. ProcessOpen'
  <2> SUFFICES ASSUME NEW v \in Workers, wpc'[v] = "process"
               PROVE  /\ ack'[wack'[v]].no = wreq'[v].no
                      /\ hist'[wreq'[v].no].cmd = wreq'[v].cmd
    BY DEF ProcessOpen
  <2>1. /\ wpc[v] = "process" /\ wack'[v] = wack[v] /\ wreq'[v] = wreq[v]
        /\ wack[v] \in AckObjs /\ wreq[v].no \in DOMAIN hist
    BY <1>6, <1>7 DEF Held, Control, HeadsNumbered, Numbered
  <2> QED BY <1>2, <1>3, <2>1 DEF Carried, ProcessOpen
<1>13. AskersKnown'
  BY <1>3, <1>4 DEF Carried, AskersKnown
<1>14. BusinessCounted'
  <2>1. hist[n].counted = "none"
    BY <1>1 DEF Carried, OutOpen, Open
  <2> QED BY <1>3, <2>1 DEF Carried, BusinessCounted
<1>15. n \in Pending /\ Pending' \in {Pending, Pending \ {n}}
  <2>1. n \in {ack[o].no : o \in Out}
    BY <1>1
  <2>2. {wreq'[v].no : v \in Got'} = {wreq[v].no : v \in Got}
    BY <1>5, <1>6, <1>7 DEF Got
  <2>3. {ack'[o].no : o \in Out'} = {ack[o].no : o \in Out'}
    BY <1>2, <1>5
  <2>4. /\ \A i \in DOMAIN svcQ : svcQ[i].no # n
        /\ \A v \in Got : wreq[v].no # n
        /\ {ack[o].no : o \in Out \ {x}} = {ack[o].no : o \in Out} \ {n}
    BY <1>1 DEF Carried, OnePlace
  <2>5. CASE Out' = Out
    <3>1. Pending' = Pending
      BY <1>4, <2>2, <2>3, <2>5 DEF Pending
    <3> QED BY <2>1, <3>1 DEF Pending
  <2>6. CASE Out' = Out \ {x}
    <3>1. Pending' = Pending \ {n}
      BY <1>4, <2>2, <2>3, <2>4, <2>6 DEF Pending
    <3> QED BY <2>1, <3>1 DEF Pending
  <2> QED BY <1>5, <2>5, <2>6
<1> QED BY <1>9, <1>10, <1>11, <1>12, <1>13, <1>14, <1>15 DEF Carried, n

(* The history when the reactor is done with a reply.                      *)
LEMMA DoneFields ==
    ASSUME Held, NEW o \in AckObjs, NEW tos, DoneWith(o, tos)
    PROVE  /\ DOMAIN hist' = DOMAIN hist
           /\ \A n \in DOMAIN hist :
                /\ hist'[n].asker = hist[n].asker
                /\ hist'[n].cmd = hist[n].cmd
                /\ hist'[n].result = hist[n].result
                /\ hist'[n].counted = IF n = ack[o].no THEN ack[o].ret
                                                      ELSE hist[n].counted
                /\ hist'[n].sentTo = IF n = ack[o].no THEN hist[n].sentTo \o tos
                                                     ELSE hist[n].sentTo
<1>1. ASSUME NEW n \in DOMAIN hist
      PROVE  hist'[n] = IF n = ack[o].no
                          THEN [hist[n] EXCEPT !.counted = ack[o].ret,
                                               !.sentTo = hist[n].sentTo \o tos]
                          ELSE hist[n]
  <2>1. hist[n] \in HistType
    BY QueueTypes
  <2> QED BY <2>1 DEF DoneWith, HistType
<1>2. \A n \in DOMAIN hist : hist[n] \in HistType
  BY QueueTypes
<1>3. DOMAIN hist' = DOMAIN hist
  BY DEF DoneWith
<1> QED BY <1>1, <1>2, <1>3 DEF HistType

LEMMA DoneCarried ==
    ASSUME Held, Owned, Carried, rpc = "deliver",
           NEW tos, DoneWith(rack, tos),
           UNCHANGED conn \/ conn' = [conn EXCEPT ![ack[rack].fd] = NoConn]
    PROVE  /\ Carried'
           /\ ack[rack].no \in Pending
           /\ Pending' = Pending \ {ack[rack].no}
<1> DEFINE n == ack[rack].no
<1>1. /\ rack \in AckObjs /\ rack \in Out /\ Filling(rack) = {}
      /\ n \in DOMAIN hist
  <2>1. rack \in AckObjs
    BY DEF Held, Control
  <2>2. rack \in Out /\ Filling(rack) = {}
    BY <2>1, OutPlace
  <2> QED BY <2>1, <2>2 DEF Carried, OutOpen, Open
<1>2. /\ DOMAIN hist' = DOMAIN hist
      /\ \A k \in DOMAIN hist :
           /\ hist'[k].asker = hist[k].asker
           /\ hist'[k].cmd = hist[k].cmd
           /\ hist'[k].result = hist[k].result
           /\ hist'[k].counted = IF k = n THEN ack[rack].ret ELSE hist[k].counted
  BY <1>1, DoneFields
<1>3. UNCHANGED <<conns, svcQ, wreq, wpc, wack, ack>> /\ Out' = Out \ {rack}
  BY <1>1, OutShrinks DEF DoneWith, workerVars
<1>4. ConnsStay
  BY QueueTypes, IsgwServerAssumption DEF ConnsStay, NoConn
<1> HIDE DEF n
<1>5. \A m : Numbered(hist, m) /\ Open(conn, hist, m) /\ m.no # n
              => Open(conn', hist', m)
  <2> SUFFICES ASSUME NEW m, Numbered(hist, m), Open(conn, hist, m), m.no # n
               PROVE  Open(conn', hist', m)
    OBVIOUS
  <2> QED BY <1>2, <1>4, OpenStays DEF Open
<1>6. Got' = Got
  BY <1>3 DEF Got
<1>7. OnePlace'
  BY <1>3, <1>6 DEF Carried, OnePlace
<1>8. /\ \A i \in DOMAIN svcQ : svcQ[i].no # n
      /\ \A w \in Got : wreq[w].no # n
      /\ \A o \in Out \ {rack} : ack[o].no # n
  BY <1>1 DEF Carried, OnePlace, n
<1>9. QueuedOpen' /\ GotOpen'
  BY <1>2, <1>3, <1>5, <1>6, <1>8, AllNumbered
     DEF Carried, QueuedOpen, GotOpen, Open
<1>10. OutOpen'
  <2> SUFFICES ASSUME NEW o \in Out \ {rack}
               PROVE  /\ Open(conn', hist', ack[o])
                      /\ Settled(hist', ack[o]) \/ Processing(o)'
    BY <1>3 DEF OutOpen
  <2>1. Open(conn, hist, ack[o]) /\ Numbered(hist, ack[o])
    BY AllNumbered DEF Carried, OutOpen
  <2>2. Settled(hist, ack[o]) => Settled(hist', ack[o])
    BY <1>2, <2>1 DEF Settled, Open
  <2>3. Processing(o)' <=> Processing(o)
    BY <1>3 DEF Processing
  <2> QED BY <1>5, <1>8, <2>1, <2>2, <2>3 DEF Carried, OutOpen
<1>11. ProcessOpen'
  <2>1. \A w \in Workers : wpc[w] = "process" => wreq[w].no \in DOMAIN hist
    BY DEF Held, HeadsNumbered, Numbered
  <2> QED BY <1>2, <1>3, <2>1 DEF Carried, ProcessOpen
<1>12. AskersKnown'
  <2>1. \A f \in Fds : conn'[f] = conn[f] \/ conn'[f].id = 0
    BY QueueTypes DEF NoConn
  <2>2. \A f, g \in Fds : conn'[f].id = conn'[g].id /\ conn'[f].id # 0 => f = g
    BY <2>1 DEF Carried, AskersKnown
  <2> QED BY <1>2, <1>3, <2>2 DEF Carried, AskersKnown
<1>13. BusinessCounted'
  <2>1. ~ Processing(rack)
    BY <1>1 DEF Processing, Filling
  <2>2. Settled(hist, ack[rack])
    BY <1>1, <2>1 DEF Carried, OutOpen
  <2> QED BY <1>2, <2>2 DEF Carried, BusinessCounted, Settled, n
<1>14. n \in Pending /\ Pending' = Pending \ {n}
  <2>1. {ack[o].no : o \in Out'} = {ack[o].no : o \in Out} \ {n}
    BY <1>1, <1>3, <1>8 DEF n
  <2>2. n \in {ack[o].no : o \in Out}
    BY <1>1 DEF n
  <2> QED BY <1>3, <1>6, <1>8, <2>1, <2>2 DEF Pending
<1> QED BY <1>7, <1>9, <1>10, <1>11, <1>12, <1>13, <1>14 DEF Carried, n

(* Connections come and go.                                                *)
LEMMA ConnsCarried ==
    ASSUME Held, Carried, UNCHANGED hist, NEW fd \in Fds,
           \/ /\ conn' = [conn EXCEPT ![fd] = [id |-> conns + 1, seq |-> total_seq]]
              /\ conns' = conns + 1
           \/ /\ conn' = [conn EXCEPT ![fd] = NoConn]
              /\ UNCHANGED conns
    PROVE  ConnsStay /\ AskersKnown'
<1>1. conns \in Nat /\ conns' \in Nat /\ conns <= conns'
  BY QueueTypes, IsgwServerAssumption
<1>2. \A f \in Fds : \/ conn'[f] = conn[f]
                     \/ f = fd /\ conn'[f].id = conns + 1 /\ conns' = conns + 1
                     \/ conn'[f].id = 0
  BY QueueTypes DEF NoConn
<1>3. \A f \in Fds : conn[f].id \in 0 .. conns
  BY QueueTypes DEF Held, ConnIds, NoConn
<1>4. ConnsStay
  BY <1>1, <1>2 DEF ConnsStay
<1>5. \A f, g \in Fds : conn'[f].id = conn'[g].id /\ conn'[f].id # 0 => f = g
  BY <1>1, <1>2, <1>3 DEF Carried, AskersKnown
<1> QED BY <1>1, <1>4, <1>5 DEF Carried, AskersKnown

(* The one who asks by a connection that is there is known.                *)
LEMMA ArrivalKnown ==
    ASSUME Held, Carried, NEW asker, NEW c, hist' = Asked(asker, c),
           asker.prot = "TCP" => asker.who \in 1 .. conns,
           UNCHANGED conns,
           UNCHANGED conn \/ \E f \in Fds : conn' = [conn EXCEPT ![f] = NoConn]
    PROVE  ConnsStay /\ AskersKnown'
<1>1. \A f \in Fds : conn'[f] = conn[f] \/ conn'[f].id = 0
  BY QueueTypes DEF NoConn
<1>2. ConnsStay
  BY <1>1, QueueTypes, IsgwServerAssumption DEF ConnsStay
<1>3. \A f, g \in Fds : conn'[f].id = conn'[g].id /\ conn'[f].id # 0 => f = g
  BY <1>1 DEF Carried, AskersKnown
<1> QED BY <1>2, <1>3, AskedFields DEF Carried, AskersKnown

LEMMA InputCarried ==
    ASSUME Held, Carried, NEW c \in Cmds, InputRequest(c) \/ InputOverload(c)
    PROVE  /\ Carried'
           /\ Pending' = IF UNCHANGED svcQ THEN Pending
                                           ELSE Pending \cup {Len(hist) + 1}
<1> DEFINE asker == Asker("TCP", conn[rfd].id)
           r == [prot |-> "TCP", fd |-> rfd, peer |-> 0,
                 seq |-> conn[rfd].seq, no |-> Len(hist) + 1, cmd |-> c]
<1>1. /\ rfd \in Fds /\ conn[rfd] # NoConn /\ conn[rfd].id \in 1 .. conns
      /\ Len(hist) + 1 <= MaxReqs /\ Len(hist) \in Nat
  BY QueueTypes, IsgwServerAssumption
     DEF InputRequest, InputOverload, Held, TypeOK, PlaceOK, Control, ConnIds
<1>2. asker.prot = "TCP" /\ asker.who = conn[rfd].id
  BY DEF Asker
<1>3. /\ hist' = Asked(asker, c) /\ UNCHANGED <<ack, ackFree, wpc, wreq, wack, conns>>
      /\ UNCHANGED conn \/ conn' = [conn EXCEPT ![rfd] = NoConn]
      /\ UNCHANGED svcQ \/ (svcQ' = Append(svcQ, r) /\ UNCHANGED conn)
  BY DEF InputRequest, InputOverload, sockVars, ackVars, workerVars
<1>4. r \in ReqType /\ r.no = Len(hist) + 1 /\ r.cmd = c
  BY <1>1, QueueTypes, IsgwServerAssumption DEF ReqType
<1>5. UNCHANGED conn => Traced(conn', hist', r)
  <2>1. hist'[Len(hist) + 1].asker = asker
    BY <1>3, AskedFields
  <2> QED BY <1>1, <1>2, <2>1 DEF Traced, Carried, AskersKnown
<1> HIDE DEF asker, r
<1>6. ConnsStay /\ AskersKnown'
  BY <1>1, <1>2, <1>3, ArrivalKnown
<1> QED BY <1>3, <1>4, <1>5, <1>6, ArrivalCarried

LEMMA InputUdpCarried ==
    ASSUME Held, Carried, NEW p \in Peers, NEW c \in Cmds, InputUdp(p, c)
    PROVE  /\ Carried'
           /\ Pending' = IF UNCHANGED svcQ THEN Pending
                                           ELSE Pending \cup {Len(hist) + 1}
<1> DEFINE asker == Asker("UDP", p)
           r == [NoReq EXCEPT !.prot = "UDP", !.peer = p,
                              !.no = Len(hist) + 1, !.cmd = c]
<1>1. asker.prot = "UDP"
  BY DEF Asker
<1>2. /\ hist' = Asked(asker, c)
      /\ UNCHANGED <<ack, ackFree, wpc, wreq, wack, conns, conn>>
      /\ UNCHANGED svcQ \/ svcQ' = Append(svcQ, r)
  BY DEF InputUdp, sockVars, ackVars, workerVars
<1>3. r \in ReqType /\ r.no = Len(hist) + 1 /\ r.cmd = c /\ r.prot = "UDP"
  <2>1. Len(hist) + 1 \in 0 .. MaxReqs
    BY IsgwServerAssumption DEF InputUdp, Held, TypeOK, HistOK
  <2> QED BY <2>1, Constants DEF ReqType
<1> HIDE DEF asker, r
<1>4. Traced(conn', hist', r)
  BY <1>3 DEF Traced
<1>5. ConnsStay /\ AskersKnown'
  BY <1>1, <1>2, ArrivalKnown
<1> QED BY <1>2, <1>3, <1>4, <1>5, ArrivalCarried

LEMMA DeliverCarried ==
    ASSUME Held, Owned, Carried, Deliver
    PROVE  Carried'
<1>1. rpc = "deliver"
  BY DEF Deliver, DeliverUdp, DropNoOwner, DeliverTcp, SendFails
<1>2. \E tos : DoneWith(rack, tos)
  BY DEF Deliver, DeliverUdp, DropNoOwner, DeliverTcp, SendFails
<1>3. UNCHANGED conn \/ conn' = [conn EXCEPT ![ack[rack].fd] = NoConn]
  BY DEF Deliver, DeliverUdp, DropNoOwner, DeliverTcp, SendFails
<1> QED BY <1>1, <1>2, <1>3, DoneCarried

LEMMA NextCarried == Held /\ Owned /\ Carried /\ [Next]_vars => Carried'
<1> SUFFICES ASSUME Held, Owned, Carried, [Next]_vars PROVE Carried'
  OBVIOUS
<1> USE DEF sockVars, ackVars, workerVars, inputVars
<1>1. UNCHANGED <<conn, conns, hist>> => ConnsStay /\ AskersKnown'
  BY DEF ConnsStay, Carried, AskersKnown
<1>2. CASE Network
  <2>1. ASSUME NEW fd \in Fds, Accept(fd) \/ Disconnect(fd) PROVE Carried'
    <3>1. ConnsStay /\ AskersKnown'
      BY <2>1, ConnsCarried DEF Accept, Disconnect
    <3> QED BY <2>1, <3>1, QuietCarried DEF Accept, Disconnect
  <2>2. ASSUME NEW fd \in Fds, NEW k \in 1 .. MaxBatch, BeginInput(fd, k)
        PROVE  Carried'
    BY <1>1, <2>2, QuietCarried DEF BeginInput
  <2> QED BY <1>2, <2>1, <2>2, InputUdpCarried DEF Network
<1>3. CASE ReactorBusy
  <2>1. CASE Pop \/ ReadSize
    BY <1>1, <2>1, QuietCarried DEF Pop, ReadSize
  <2> QED BY <1>3, <2>1, InputCarried, DeliverCarried DEF ReactorBusy
<1>4. CASE BeginDrain
  BY <1>1, <1>4, QuietCarried DEF BeginDrain
<1>5. ASSUME NEW w \in Workers, Worker(w) PROVE Carried'
  <2>1. CASE Recv(w)
    BY <2>1, RecvCarried
  <2>2. CASE TakeAck(w)
    BY <2>2, TakeAckCarried
  <2>3. ASSUME NEW res \in Results, Internal(w, res) \/ Business(w, res)
        PROVE  Carried'
    BY <2>3, ProcessCarried DEF Internal, Business
  <2>4. CASE CheckFails(w)
    <3>1. "fail" \in Results
      BY DEF Results
    <3> QED BY <2>4, <3>1, ProcessCarried DEF CheckFails
  <2>5. CASE Putq(w) \/ PutqNotify(w)
    BY <1>1, <2>5, QuietCarried, QueueTypes DEF Putq, PutqNotify
  <2> QED BY <1>5, <2>1, <2>2, <2>3, <2>4, <2>5 DEF Worker
<1>6. CASE UNCHANGED vars
  BY <1>1, <1>6, QuietCarried DEF vars
<1> QED BY <1>2, <1>3, <1>4, <1>5, <1>6 DEF Next

LEMMA AlwaysCarried == Spec => []Carried
BY InitCarried, NextCarried, AlwaysHeld, AlwaysOwned, PTL DEF Spec

(* The statistics are right for business requests: ISGWAck::statisitc      *)
(* counts what the processing of the same request has returned, although   *)
(* reply objects are reused and keep old values.                           *)
THEOREM BusinessRequestsCounted == Spec => []BusinessCounted
<1>1. Carried => BusinessCounted
  BY DEF Carried
<1> QED BY <1>1, AlwaysCarried, PTL

-----------------------------------------------------------------------------
(* What is dropped.                                                        *)

(* A reply is dropped only if the one who asked is gone when the reactor   *)
(* is done with it, or is a UDP address: the test of sock_fd and sock_seq  *)
(* in ISGWAck::process loses no reply, even when numbers wrap.             *)
THEOREM OnlyOrphansDropped == Spec => DropsOnlyOrphans
<1> DEFINE A == \A n \in DOMAIN hist :
                  (/\ rpc = "deliver"
                   /\ ack[rack].no = n
                   /\ rpc' = "size"
                   /\ hist'[n].sentTo = hist[n].sentTo
                   /\ hist[n].asker.prot = "TCP") => hist[n].asker \notin LiveAskers'
<1>1. Held /\ Owned /\ Carried /\ [Next]_vars => [A]_vars
  <2> SUFFICES ASSUME Held, Owned, Carried, Next,
                      rpc = "deliver", rpc' = "size",
                      NEW n \in DOMAIN hist, ack[rack].no = n,
                      hist'[n].sentTo = hist[n].sentTo,
                      hist[n].asker.prot = "TCP",
                      hist[n].asker \in LiveAskers'
               PROVE  FALSE
    OBVIOUS
  <2>1. Deliver
    <3>1. ~ Network
      BY DEF Network, Accept, Disconnect, BeginInput, InputUdp
    <3>2. ~ BeginDrain /\ ~ Pop /\ ~ ReadSize
      BY DEF BeginDrain, Pop, ReadSize
    <3>3. \A c \in Cmds : ~ InputRequest(c) /\ ~ InputOverload(c)
      BY DEF InputRequest, InputOverload
    <3>4. \A w \in Workers : ~ Worker(w)
      BY DEF Worker, Recv, TakeAck, Internal, Business, CheckFails, Putq, PutqNotify
    <3> QED BY <3>1, <3>2, <3>3, <3>4 DEF Next, ReactorBusy
  <2>2. /\ rack \in AckObjs /\ rack \in Out
        /\ Open(conn, hist, ack[rack]) /\ Numbered(hist, ack[rack])
    <3>1. rack \in AckObjs
      BY DEF Held, Control
    <3>2. rack \in Out
      BY <3>1, OutPlace
    <3> QED BY <3>1, <3>2, AllNumbered DEF Carried, OutOpen
  <2>3. ack[rack].prot = "TCP" /\ ack[rack].fd \in Fds
    BY <2>2, QueueTypes DEF Numbered, AckType
  <2>4. PICK f \in Fds : conn'[f] # NoConn /\ hist[n].asker = Asker("TCP", conn'[f].id)
    BY DEF LiveAskers, Asker
  <2>5. conn'[f] = conn[f]
    <3>1. UNCHANGED conn \/ conn' = [conn EXCEPT ![ack[rack].fd] = NoConn]
      BY <2>1 DEF Deliver, DeliverUdp, DropNoOwner, DeliverTcp, SendFails
    <3> QED BY <2>4, <3>1, QueueTypes
  <2>6. f = ack[rack].fd /\ conn[f].seq = ack[rack].seq /\ conn[f] # NoConn
    BY <2>2, <2>3, <2>4, <2>5 DEF Open, Traced, Asker
  <2>7. ~ DeliverUdp /\ ~ DropNoOwner
    BY <2>3, <2>6 DEF DeliverUdp, DropNoOwner, HasOwner
  <2>8. ~ SendFails
    BY <2>4, <2>6, QueueTypes DEF SendFails
  <2>9. ~ DeliverTcp
    <3> SUFFICES ASSUME DeliverTcp PROVE FALSE
      OBVIOUS
    <3> DEFINE to == Asker("TCP", conn[ack[rack].fd].id)
    <3>1. DoneWith(rack, <<to>>)
      BY DEF DeliverTcp
    <3> HIDE DEF to
    <3>2. hist'[n].sentTo = hist[n].sentTo \o <<to>>
      BY <2>2, <3>1, DoneFields
    <3>3. hist[n].sentTo \in Seq(Askers)
      <4>1. hist[n] \in HistType
        BY QueueTypes
      <4> QED BY <4>1 DEF HistType
    <3>4. Len(hist[n].sentTo \o <<to>>) = Len(hist[n].sentTo) + 1
      BY <3>3
    <3>5. Len(hist[n].sentTo) \in Nat
      BY <3>3
    <3> QED BY <3>2, <3>4, <3>5
  <2> QED BY <2>1, <2>7, <2>8, <2>9 DEF Deliver
<1> QED BY <1>1, AlwaysHeld, AlwaysOwned, AlwaysCarried, PTL
        DEF Spec, DropsOnlyOrphans

-----------------------------------------------------------------------------
(* The pipeline implements ReplyService.                                   *)

(* What clients see of the history h.                                      *)
AskersOf(h) == [n \in DOMAIN h |-> h[n].asker]
SentsOf(h) == [n \in DOMAIN h |-> h[n].sentTo]

(* The requests pending for ReplyService are those Carried speaks of.      *)
LEMMA InFlightPending == Held /\ Owned /\ Carried => InFlight = Pending
<1> SUFFICES ASSUME Held, Owned, Carried, NEW n
             PROVE  n \in InFlight <=> n \in Pending
  OBVIOUS
<1>1. /\ \A w \in Workers : wpc[w] \in {"process", "send"} => wack[w] \in AckObjs
      /\ \A i \in DOMAIN ackQ : ackQ[i] \in AckObjs
      /\ rpc = "deliver" <=> rack \in AckObjs
  <2>1. 0 \notin AckObjs
    BY DEF AckObjs
  <2> QED BY <2>1, QueueTypes DEF Held, Control, Owned, NoAck
<1>2. \A w \in Workers : wpc[w] = "process" => ack[wack[w]].no = wreq[w].no
  BY DEF Carried, ProcessOpen
<1>3. \A o \in AckObjs : o \in Out <=>
        ( \/ \E w \in Workers : wack[w] = o /\ wpc[w] \in {"process", "send"}
          \/ \E i \in DOMAIN ackQ : ackQ[i] = o
          \/ rack = o )
  BY OutPlace DEF Filling
<1>4. \A o \in Out : o \in AckObjs
  BY DEF Out
<1>5. n \in InFlight =>
        \/ \E i \in DOMAIN svcQ : n = svcQ[i].no
        \/ \E w \in Got : n = wreq[w].no
        \/ \E w \in Workers : wpc[w] \in {"process", "send"} /\ n = ack[wack[w]].no
        \/ \E i \in DOMAIN ackQ : n = ack[ackQ[i]].no
        \/ rpc = "deliver" /\ n = ack[rack].no
  BY <1>2 DEF InFlight, Got
<1>6. n \in InFlight => n \in Pending
  <2> SUFFICES ASSUME n \in InFlight PROVE n \in Pending
    OBVIOUS
  <2>1. ASSUME NEW o \in AckObjs, o \in Out, n = ack[o].no PROVE n \in Pending
    BY <2>1 DEF Pending
  <2>2. CASE \E i \in DOMAIN svcQ : n = svcQ[i].no
    BY <2>2 DEF Pending
  <2>3. CASE \E w \in Got : n = wreq[w].no
    BY <2>3 DEF Pending
  <2>4. CASE \E w \in Workers : wpc[w] \in {"process", "send"} /\ n = ack[wack[w]].no
    BY <1>1, <1>3, <2>1, <2>4
  <2>5. CASE \E i \in DOMAIN ackQ : n = ack[ackQ[i]].no
    BY <1>1, <1>3, <2>1, <2>5
  <2>6. CASE rpc = "deliver" /\ n = ack[rack].no
    BY <1>1, <1>3, <2>1, <2>6
  <2> QED BY <1>5, <2>2, <2>3, <2>4, <2>5, <2>6
<1>7. n \in Pending => n \in InFlight
  <2> SUFFICES ASSUME n \in Pending PROVE n \in InFlight
    OBVIOUS
  <2>1. CASE \E i \in DOMAIN svcQ : n = svcQ[i].no
    BY <2>1 DEF InFlight
  <2>2. CASE \E w \in Got : n = wreq[w].no
    BY <2>2 DEF InFlight, Got
  <2>3. ASSUME NEW o \in Out, n = ack[o].no PROVE n \in InFlight
    <3>1. CASE \E w \in Workers : wack[w] = o /\ wpc[w] \in {"process", "send"}
      BY <1>2, <2>3, <3>1 DEF InFlight
    <3>2. CASE \E i \in DOMAIN ackQ : ackQ[i] = o
      BY <2>3, <3>2 DEF InFlight
    <3>3. CASE rack = o
      BY <1>1, <1>4, <2>3, <3>3 DEF InFlight
    <3> QED BY <1>3, <1>4, <2>3, <3>1, <3>2, <3>3
  <2> QED BY <2>1, <2>2, <2>3 DEF Pending
<1> QED BY <1>6, <1>7

LEMMA InFlightPendingNext == Held' /\ Owned' /\ Carried' => (InFlight = Pending)'
BY InFlightPending, PTL

(* One more element at the end of a sequence, point by point.              *)
LEMMA MapAppend ==
    ASSUME NEW S, NEW s \in Seq(S), NEW x \in S, NEW t,
           t = [n \in DOMAIN s \cup {Len(s) + 1} |->
                  IF n \in DOMAIN s THEN s[n] ELSE x]
    PROVE  t = Append(s, x)
<1>1. /\ DOMAIN s = 1 .. Len(s) /\ Len(s) \in Nat
      /\ \A n \in DOMAIN s : s[n] \in S
  OBVIOUS
<1>2. /\ Append(s, x) \in Seq(S) /\ Len(Append(s, x)) = Len(s) + 1
      /\ \A n \in 1 .. Len(s) : Append(s, x)[n] = s[n]
      /\ Append(s, x)[Len(s) + 1] = x
  OBVIOUS
<1>3. DOMAIN s \cup {Len(s) + 1} = 1 .. Len(s) + 1
  BY <1>1
<1>4. \A n \in 1 .. Len(s) + 1 : t[n] = Append(s, x)[n] /\ t[n] \in S
  BY <1>1, <1>2, <1>3
<1>5. t = [n \in 1 .. Len(s) + 1 |-> t[n]]
  BY <1>3
<1>6. t \in Seq(S) /\ Len(t) = Len(s) + 1
  BY <1>1, <1>4, <1>5
<1> QED BY <1>1, <1>2, <1>4, <1>6, SeqEqual

LEMMA Views ==
    ASSUME Held
    PROVE  /\ AskersOf(hist) \in Seq(Askers)
           /\ SentsOf(hist) \in Seq(Seq(Askers))
           /\ Len(AskersOf(hist)) = Len(hist) /\ Len(SentsOf(hist)) = Len(hist)
           /\ DOMAIN AskersOf(hist) = DOMAIN hist
           /\ DOMAIN SentsOf(hist) = DOMAIN hist
           /\ \A n \in DOMAIN hist : /\ AskersOf(hist)[n] = hist[n].asker
                                     /\ SentsOf(hist)[n] = hist[n].sentTo
<1>1. /\ DOMAIN hist = 1 .. Len(hist) /\ Len(hist) \in Nat
      /\ \A n \in DOMAIN hist : hist[n] \in HistType
  BY QueueTypes
<1>2. \A n \in DOMAIN hist : /\ hist[n].asker \in Askers
                             /\ hist[n].sentTo \in Seq(Askers)
  BY <1>1 DEF HistType
<1>3. AskersOf(hist) \in [1 .. Len(hist) -> Askers]
  BY <1>1, <1>2 DEF AskersOf
<1>4. SentsOf(hist) \in [1 .. Len(hist) -> Seq(Askers)]
  BY <1>1, <1>2 DEF SentsOf
<1> QED BY <1>1, <1>3, <1>4 DEF AskersOf, SentsOf

(* Who can be sent something, when a connection is opened ...              *)
LEMMA LiveOpens ==
    ASSUME Held, NEW fd \in Fds, Accept(fd)
    PROVE  LiveAskers' = LiveAskers \cup {Asker("TCP", conns + 1)}
<1>1. /\ conn[fd] = NoConn
      /\ conn' = [conn EXCEPT ![fd] = [id |-> conns + 1, seq |-> total_seq]]
  BY DEF Accept
<1>2. conns + 1 # 0
  BY QueueTypes, IsgwServerAssumption
<1>3. conn'[fd] # NoConn /\ conn'[fd].id = conns + 1
  BY <1>1, <1>2, QueueTypes DEF NoConn
<1>4. \A f \in Fds : f # fd => conn'[f] = conn[f]
  BY <1>1, QueueTypes
<1> QED BY <1>1, <1>3, <1>4 DEF LiveAskers

(* ... or closed.                                                          *)
LEMMA LiveCloses ==
    ASSUME Held, Carried, NEW fd \in Fds, conn[fd] # NoConn,
           conn' = [conn EXCEPT ![fd] = NoConn]
    PROVE  /\ LiveAskers' = LiveAskers \ {Asker("TCP", conn[fd].id)}
           /\ Asker("TCP", conn[fd].id) \in LiveAskers
<1> DEFINE x == Asker("TCP", conn[fd].id)
<1>1. \A f \in Fds : IF f = fd THEN conn'[f] = NoConn ELSE conn'[f] = conn[f]
  BY QueueTypes
<1>2. \A f \in Fds : conn[f] # NoConn =>
        (Asker("TCP", conn[f].id) = x <=> f = fd)
  <2>1. conn[fd].id # 0
    BY QueueTypes, IsgwServerAssumption DEF Held, ConnIds
  <2> QED BY <2>1 DEF Asker, Carried, AskersKnown
<1>3. \A p \in Peers : Asker("UDP", p) # x
  BY DEF Asker
<1>4. x \in LiveAskers
  BY DEF LiveAskers
<1> HIDE DEF x
<1>5. LiveAskers' = LiveAskers \ {x}
  BY <1>1, <1>2, <1>3 DEF LiveAskers
<1> QED BY <1>4, <1>5 DEF x

(* What the steps are to ReplyService: its clients see nothing, ...        *)
LEMMA SeenUnchanged ==
    ASSUME UNCHANGED LiveAskers, UNCHANGED InFlight,
           AskersOf(hist') = AskersOf(hist), SentsOf(hist') = SentsOf(hist)
    PROVE  UNCHANGED Service!vars
BY DEF Service!vars, AskersOf, SentsOf

(* ... one of them comes or goes, ...                                      *)
LEMMA SeenArriveOrLeave ==
    ASSUME NEW c \in Askers, UNCHANGED InFlight, UNCHANGED hist,
           LiveAskers' \in {LiveAskers \cup {c}, LiveAskers \ {c}}
    PROVE  Service!Next
BY DEF Service!Next, Service!Arrive, Service!Leave

(* ... a request arrives ...                                               *)
LEMMA SeenArrival ==
    ASSUME Held, NEW c \in Askers, NEW cmd \in Cmds, hist' = Asked(c, cmd),
           c \in LiveAskers,
           \/ /\ InFlight' = InFlight \cup {Len(hist) + 1}
              /\ UNCHANGED LiveAskers
           \/ /\ UNCHANGED InFlight
              /\ LiveAskers' \in {LiveAskers, LiveAskers \ {c}}
    PROVE  Service!Next
<1>1. AskersOf(hist') = Append(AskersOf(hist), c)
  <2>1. AskersOf(hist') = [n \in DOMAIN AskersOf(hist) \cup {Len(AskersOf(hist)) + 1} |->
          IF n \in DOMAIN AskersOf(hist) THEN AskersOf(hist)[n] ELSE c]
    BY AskedFields, Views DEF AskersOf
  <2> QED BY <2>1, MapAppend, Views
<1>2. SentsOf(hist') = Append(SentsOf(hist), <<>>)
  <2>1. SentsOf(hist') = [n \in DOMAIN SentsOf(hist) \cup {Len(SentsOf(hist)) + 1} |->
          IF n \in DOMAIN SentsOf(hist) THEN SentsOf(hist)[n] ELSE <<>>]
    BY AskedFields, Views DEF SentsOf
  <2>2. <<>> \in Seq(Askers)
    OBVIOUS
  <2> QED BY <2>1, <2>2, MapAppend, Views
<1>3. Len(AskersOf(hist)) = Len(hist)
  BY Views
<1>4. Service!Ask(c) \/ Service!Refuse(c)
  BY <1>1, <1>2, <1>3 DEF Service!Ask, Service!Refuse, AskersOf, SentsOf
<1> QED BY <1>4 DEF Service!Next

(* ... or one is answered or dropped.                                      *)
LEMMA SeenDrop ==
    ASSUME NEW n \in InFlight, InFlight' = InFlight \ {n},
           AskersOf(hist') = AskersOf(hist), SentsOf(hist') = SentsOf(hist),
           LiveAskers' \in {LiveAskers, LiveAskers \ {AskersOf(hist)[n]}}
    PROVE  Service!Next
BY DEF Service!Next, Service!Drop, AskersOf, SentsOf

LEMMA SeenAnswer ==
    ASSUME NEW n \in InFlight, InFlight' = InFlight \ {n},
           AskersOf(hist)[n] \in LiveAskers, UNCHANGED LiveAskers,
           AskersOf(hist') = AskersOf(hist),
           SentsOf(hist') = [SentsOf(hist) EXCEPT ![n] = Append(@, AskersOf(hist)[n])]
    PROVE  Service!Next
BY DEF Service!Next, Service!Answer, AskersOf, SentsOf

(* The steps of the pipeline, one after the other.                         *)
Implements == [Service!Next]_(Service!vars)

(* The reactor reads requests.                                             *)
LEMMA InputImplements ==
    ASSUME Held, Carried, InFlight = Pending, (InFlight = Pending)',
           NEW c \in Cmds, InputRequest(c) \/ InputOverload(c)
    PROVE  Implements
<1> DEFINE a == Asker("TCP", conn[rfd].id)
<1>1. /\ rfd \in Fds /\ conn[rfd] # NoConn /\ conn[rfd].id \in 1 .. MaxConns
      /\ hist' = Asked(a, c)
  BY QueueTypes, IsgwServerAssumption
     DEF InputRequest, InputOverload, Held, TypeOK, PlaceOK, Control, ConnIds
<1>2. a \in Askers /\ a \in LiveAskers
  BY <1>1 DEF Asker, Askers, LiveAskers
<1>3. Pending' = IF UNCHANGED svcQ THEN Pending ELSE Pending \cup {Len(hist) + 1}
  BY InputCarried
<1>4. CASE InputRequest(c)
  <2>1. svcQ' # svcQ
    <3>1. \A r : Len(Append(svcQ, r)) = Len(svcQ) + 1 /\ Len(svcQ) \in Nat
      BY QueueTypes
    <3> QED BY <1>4, <3>1 DEF InputRequest
  <2>2. UNCHANGED LiveAskers
    BY <1>4 DEF InputRequest, sockVars, LiveAskers
  <2> HIDE DEF a
  <2> QED BY <1>1, <1>2, <1>3, <2>1, <2>2, SeenArrival DEF Implements
<1>5. CASE InputOverload(c)
  <2>1. UNCHANGED svcQ /\ LiveAskers' = LiveAskers \ {a}
    BY <1>1, <1>5, LiveCloses DEF InputOverload
  <2> HIDE DEF a
  <2> QED BY <1>1, <1>2, <1>3, <2>1, SeenArrival DEF Implements
<1> QED BY <1>4, <1>5

LEMMA InputUdpImplements ==
    ASSUME Held, Carried, InFlight = Pending, (InFlight = Pending)',
           NEW p \in Peers, NEW c \in Cmds, InputUdp(p, c)
    PROVE  Implements
<1> DEFINE a == Asker("UDP", p)
<1>1. a \in Askers /\ a \in LiveAskers
  BY DEF Asker, Askers, LiveAskers
<1>2. hist' = Asked(a, c) /\ UNCHANGED LiveAskers
  BY DEF InputUdp, sockVars, LiveAskers
<1>3. Pending' = IF UNCHANGED svcQ THEN Pending ELSE Pending \cup {Len(hist) + 1}
  BY InputUdpCarried
<1> HIDE DEF a
<1> QED BY <1>1, <1>2, <1>3, SeenArrival DEF Implements

(* A worker processes a request.                                           *)
LEMMA ProcessImplements ==
    ASSUME Held, Owned, Carried, InFlight = Pending, (InFlight = Pending)',
           NEW w \in Workers, NEW res \in Results,
           wpc[w] = "process", Ended(w, res),
           \/ UNCHANGED ack /\ wreq[w].cmd = "internal"
           \/ SetRet(w, res),
           ToSend(w) \/ NoReply(w),
           UNCHANGED <<sockVars, svcQ>>
    PROVE  Implements
<1>1. AskersOf(hist') = AskersOf(hist) /\ SentsOf(hist') = SentsOf(hist)
  BY EndedFields DEF AskersOf, SentsOf
<1>2. UNCHANGED LiveAskers
  BY DEF sockVars, LiveAskers
<1>3. /\ wreq[w].no \in InFlight
      /\ InFlight' \in {InFlight, InFlight \ {wreq[w].no}}
  BY ProcessCarried
<1> QED BY <1>1, <1>2, <1>3, SeenUnchanged, SeenDrop DEF Implements

(* The reactor delivers a reply or drops it.                               *)
LEMMA DeliverImplements ==
    ASSUME Held, Owned, Carried, Matched,
           InFlight = Pending, (InFlight = Pending)', Deliver
    PROVE  Implements
<1> DEFINE a == ack[rack]
           n == a.no
<1>1. rpc = "deliver" /\ rack \in AckObjs /\ a \in AckType
  BY QueueTypes DEF Deliver, DeliverUdp, DropNoOwner, DeliverTcp, SendFails, Held,
                    Control
<1>2. n \in DOMAIN hist /\ n # 0 /\ Numbered(hist, a)
  <2>1. rack \in Out
    BY <1>1, OutPlace
  <2>2. n \in DOMAIN hist /\ Numbered(hist, a)
    BY <2>1, AllNumbered DEF Numbered
  <2> QED BY <2>2, QueueTypes
<1>3. hist[n].asker \in Askers /\ hist[n].sentTo \in Seq(Askers)
  <2>1. hist[n] \in HistType
    BY <1>2, QueueTypes
  <2> QED BY <2>1 DEF HistType
<1>4. AskersOf(hist)[n] = hist[n].asker /\ SentsOf(hist)[n] = hist[n].sentTo
  BY <1>2 DEF AskersOf, SentsOf
<1> HIDE DEF n
<1>5. ASSUME NEW tos, DoneWith(rack, tos),
             UNCHANGED conn \/ conn' = [conn EXCEPT ![a.fd] = NoConn]
      PROVE  /\ n \in InFlight /\ InFlight' = InFlight \ {n}
             /\ AskersOf(hist') = AskersOf(hist)
             /\ SentsOf(hist') = [SentsOf(hist) EXCEPT ![n] = hist[n].sentTo \o tos]
  <2>1. n \in InFlight /\ InFlight' = InFlight \ {n}
    BY <1>1, <1>5, DoneCarried DEF n
  <2>2. /\ DOMAIN hist' = DOMAIN hist
        /\ \A k \in DOMAIN hist :
             /\ hist'[k].asker = hist[k].asker
             /\ hist'[k].sentTo = IF k = n THEN hist[k].sentTo \o tos
                                           ELSE hist[k].sentTo
    BY <1>1, <1>5, DoneFields DEF n
  <2>3. AskersOf(hist') = AskersOf(hist)
    BY <2>2 DEF AskersOf
  <2>4. SentsOf(hist') = [SentsOf(hist) EXCEPT ![n] = hist[n].sentTo \o tos]
    BY <1>2, <2>2 DEF SentsOf
  <2> QED BY <2>1, <2>3, <2>4
<1>6. ASSUME DoneWith(rack, <<>>),
             UNCHANGED conn \/ conn' = [conn EXCEPT ![a.fd] = NoConn]
      PROVE  /\ n \in InFlight /\ InFlight' = InFlight \ {n}
             /\ AskersOf(hist') = AskersOf(hist) /\ SentsOf(hist') = SentsOf(hist)
  <2>1. hist[n].sentTo \o <<>> = hist[n].sentTo
    BY <1>3
  <2>2. [SentsOf(hist) EXCEPT ![n] = hist[n].sentTo] = SentsOf(hist)
    BY <1>2, <1>4 DEF SentsOf
  <2> QED BY <1>5, <1>6, <2>1, <2>2
<1>7. ASSUME NEW to, to = hist[n].asker, DoneWith(rack, <<to>>), UNCHANGED conn,
             to \in LiveAskers
      PROVE  Implements
  <2>1. UNCHANGED LiveAskers
    BY <1>7 DEF LiveAskers
  <2>2. hist[n].sentTo \o <<to>> = Append(hist[n].sentTo, to)
    BY <1>3, <1>7
  <2>3. SentsOf(hist') =
          [SentsOf(hist) EXCEPT ![n] = Append(@, AskersOf(hist)[n])]
    BY <1>4, <1>5, <1>7, <2>2
  <2> QED BY <1>4, <1>5, <1>7, <2>1, <2>3, SeenAnswer DEF Implements
<1>8. CASE UNCHANGED conn /\ DoneWith(rack, <<>>)
  <2>1. UNCHANGED LiveAskers
    BY <1>8 DEF LiveAskers
  <2> QED BY <1>6, <1>8, <2>1, SeenDrop DEF Implements
<1>9. CASE DeliverUdp
  <2> DEFINE to == Asker("UDP", a.peer)
  <2>1. PICK tos \in {<<>>, <<to>>} : DoneWith(rack, tos)
    BY <1>9 DEF DeliverUdp
  <2>2. to = hist[n].asker /\ to \in LiveAskers
    BY <1>2, <1>3, <1>9 DEF DeliverUdp, Numbered, Asker, Askers, LiveAskers, n
  <2> HIDE DEF to
  <2> QED BY <1>7, <1>8, <1>9, <2>1, <2>2 DEF DeliverUdp
<1>10. CASE DeliverTcp \/ SendFails
  <2> DEFINE to == Asker("TCP", conn[a.fd].id)
  <2>1. to = hist[n].asker
    BY <1>1, <1>2, <1>10, OwnerIsAsker DEF DeliverTcp, SendFails, n
  <2>2. a.fd \in Fds /\ conn[a.fd] # NoConn
    BY <1>1, <1>10 DEF DeliverTcp, SendFails, HasOwner, AckType
  <2>3. to \in LiveAskers
    BY <2>2 DEF LiveAskers
  <2>4. CASE DeliverTcp
    <3>1. DoneWith(rack, <<to>>) /\ UNCHANGED conn
      BY <2>4 DEF DeliverTcp
    <3> HIDE DEF to
    <3> QED BY <1>7, <2>1, <2>3, <3>1
  <2>5. CASE SendFails
    <3>1. /\ DoneWith(rack, <<>>) /\ conn' = [conn EXCEPT ![a.fd] = NoConn]
          /\ LiveAskers' = LiveAskers \ {to}
      BY <2>2, <2>5, LiveCloses DEF SendFails
    <3> HIDE DEF to
    <3> QED BY <1>4, <1>6, <2>1, <3>1, SeenDrop DEF Implements
  <2> QED BY <1>10, <2>4, <2>5
<1> QED BY <1>8, <1>9, <1>10 DEF Deliver, DropNoOwner

LEMMA InitImplements == Init => Service!Init
<1> SUFFICES ASSUME Init PROVE Service!Init
  OBVIOUS
<1> USE DEF Init
<1>1. LiveAskers \subseteq Askers
  BY DEF LiveAskers, Asker, Askers
<1>2. InFlight = {}
  BY DEF InFlight
<1>3. /\ [n \in DOMAIN hist |-> hist[n].asker] = <<>>
      /\ [n \in DOMAIN hist |-> hist[n].sentTo] = <<>>
  OBVIOUS
<1> QED BY <1>1, <1>2, <1>3 DEF Service!Init

LEMMA NextImplements ==
    ASSUME Held, Owned, Carried, Matched,
           InFlight = Pending, (InFlight = Pending)', [Next]_vars
    PROVE  Implements
<1> USE DEF sockVars, ackVars, workerVars, inputVars
<1>1. ASSUME UNCHANGED <<conn, hist>>, Pending' = Pending PROVE Implements
  <2>1. UNCHANGED LiveAskers
    BY <1>1 DEF LiveAskers
  <2> QED BY <1>1, <2>1, SeenUnchanged DEF Implements
<1>2. UNCHANGED <<conn, conns, hist>> => ConnsStay /\ AskersKnown'
  BY DEF ConnsStay, Carried, AskersKnown
<1>3. CASE Network
  <2>1. ASSUME NEW fd \in Fds, Accept(fd) \/ Disconnect(fd) PROVE Implements
    <3>1. ConnsStay /\ AskersKnown'
      BY <2>1, ConnsCarried DEF Accept, Disconnect
    <3>2. UNCHANGED InFlight
      BY <2>1, <3>1, QuietCarried DEF Accept, Disconnect
    <3>3. CASE Accept(fd)
      <4>1. Asker("TCP", conns + 1) \in Askers
        BY <3>3, QueueTypes, IsgwServerAssumption DEF Accept, Asker, Askers
      <4> QED BY <3>2, <3>3, <4>1, LiveOpens, SeenArriveOrLeave
              DEF Accept, Implements
    <3>4. CASE Disconnect(fd)
      <4>1. Asker("TCP", conn[fd].id) \in Askers
        BY <3>4, QueueTypes, IsgwServerAssumption
           DEF Disconnect, Held, ConnIds, Asker, Askers
      <4> QED BY <3>2, <3>4, <4>1, LiveCloses, SeenArriveOrLeave
              DEF Disconnect, Implements
    <3> QED BY <2>1, <3>3, <3>4
  <2>2. ASSUME NEW fd \in Fds, NEW k \in 1 .. MaxBatch, BeginInput(fd, k)
        PROVE  Implements
    BY <1>1, <1>2, <2>2, QuietCarried DEF BeginInput
  <2> QED BY <1>3, <2>1, <2>2, InputUdpImplements DEF Network
<1>4. CASE ReactorBusy
  <2>1. CASE Pop \/ ReadSize
    BY <1>1, <1>2, <2>1, QuietCarried DEF Pop, ReadSize
  <2> QED BY <1>4, <2>1, InputImplements, DeliverImplements DEF ReactorBusy
<1>5. CASE BeginDrain
  BY <1>1, <1>2, <1>5, QuietCarried DEF BeginDrain
<1>6. ASSUME NEW w \in Workers, Worker(w) PROVE Implements
  <2>1. CASE Recv(w)
    BY <1>1, <2>1, RecvCarried DEF Recv
  <2>2. CASE TakeAck(w)
    BY <1>1, <2>2, TakeAckCarried DEF TakeAck
  <2>3. ASSUME NEW res \in Results, Internal(w, res) \/ Business(w, res)
        PROVE  Implements
    BY <2>3, ProcessImplements DEF Internal, Business
  <2>4. CASE CheckFails(w)
    <3>1. "fail" \in Results
      BY DEF Results
    <3> QED BY <2>4, <3>1, ProcessImplements DEF CheckFails
  <2>5. CASE Putq(w) \/ PutqNotify(w)
    BY <1>1, <1>2, <2>5, QuietCarried, QueueTypes DEF Putq, PutqNotify
  <2> QED BY <1>6, <2>1, <2>2, <2>3, <2>4, <2>5 DEF Worker
<1>7. CASE UNCHANGED vars
  BY <1>1, <1>2, <1>7, QuietCarried DEF vars
<1> QED BY <1>3, <1>4, <1>5, <1>6, <1>7 DEF Next

(* Clients can forget about queues, threads, pools and descriptors: as     *)
(* long as sock_seq does not wrap, all the pipeline does is a behaviour of *)
(* ReplyService.  A request is answered at most once, to the one who       *)
(* asked and while that one is there, or dropped, and a refused one        *)
(* costs at most the connection it came by.                                *)
THEOREM PipelineImplementsService ==
    ASSUME NoWrap
    PROVE  Spec => ImplementsService
<1>1. Init => Matched
  BY InitMatched
<1>2. Held /\ Matched /\ [Next]_vars => Matched'
  BY NextMatched
<1>3. Held /\ Owned /\ Carried /\ Matched /\ [Next]_vars
        /\ Held' /\ Owned' /\ Carried' => Implements
  <2> SUFFICES ASSUME Held, Owned, Carried, Matched, [Next]_vars,
                      Held', Owned', Carried'
               PROVE  Implements
    OBVIOUS
  <2>1. InFlight = Pending /\ (InFlight = Pending)'
    BY InFlightPending, InFlightPendingNext
  <2> QED BY <2>1, NextImplements
<1> QED BY <1>1, <1>2, <1>3, InitImplements, AlwaysHeld, AlwaysOwned,
           AlwaysCarried, PTL DEF Spec, ImplementsService, Service!Spec, Implements
=============================================================================
