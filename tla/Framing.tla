------------------------------- MODULE Framing --------------------------------
(***************************************************************************)
(* How ISGWIntf (requests) and ISGWCIntf (answers of backends) cut the     *)
(* bytes of a TCP connection into messages: by a separator, or, when       *)
(* MSG_LEN_SIZE is defined, by a length field in front of each message.    *)
(* frMode is the handler and the build:                                    *)
(*   "text", "len", "bin"   ISGWIntf with separators, with lengths, with   *)
(*                          lengths that count themselves (BINARY_PROTOCOL)*)
(*   "ctext", "clen"        ISGWCIntf with separators, with lengths        *)
(*                                                                         *)
(* A byte is its place: <<k, o>>, the o-th byte of the k-th message of the *)
(* stream, so that what a buffer holds says where it came from; a byte     *)
(* nobody received is one of FrFresh.                                      *)
(***************************************************************************)
EXTENDS Integers, Sequences, SequencesExt

CONSTANTS
    FrMax,      \* MAX_RECV_BUF_LEN
    FrField,    \* MSG_LEN_SIZE
    FrModes,    \* the handlers and builds
    FrStreams   \* what peers send: sequences of messages, [size, cmd]: the
                \* bytes of the message without a length field in front of
                \* it, with its separator, and the place of its "cmd" (or 0)

ASSUME FrAssumption ==
    /\ {FrMax, FrField} \subseteq Nat \ {0}
    /\ FrField < FrMax
    /\ FrModes \subseteq {"text", "len", "bin", "ctext", "clen"}
    /\ FrStreams \subseteq Seq([size : Nat, cmd : Nat])

VARIABLES
    frMode,
    frStream,   \* what the peer sends on this connection
    frSent,     \* bytes of it the kernel has handed out
    frBuf,      \* recv_buf_
    frRecvLen,  \* recv_len_
    frMsgLen,   \* msg_len_, and msg_len of the loop
    frAt,       \* where the handler is: "idle", "loop", or "closed"
    frDone,     \* proced_len
    frGiven,    \* history: what process got, in order
    frDropped,  \* history: messages refused by is_legal
    frAstray    \* history: a read met one of the two cases FrFramed excepts

frVars == <<frMode, frStream, frSent, frBuf, frRecvLen, frMsgLen, frAt, frDone,
            frGiven, frDropped, frAstray>>

FrText == frMode \in {"text", "ctext"}
FrServes == frMode \in {"text", "len", "bin"}

(* len_field_extra_size; ISGWCIntf adds MSG_LEN_SIZE in every build.       *)
FrExtra == IF frMode \in {"len", "clen"} THEN FrField ELSE 0

(* The lengths the handlers accept.                                        *)
FrLegal(n) == n <= FrMax /\ (FrServes => n > FrField)

(* The bytes of the k-th message, and those of them process gets.  A peer  *)
(* that sends an illegal length sends no more of that message.             *)
FrCount(k) ==
    LET n == frStream[k].size
    IN  IF FrText THEN n ELSE IF FrLegal(n) THEN FrExtra + n ELSE FrField
FrBytes(k) == [o \in 1 .. FrCount(k) |-> <<k, o>>]
FrBody(k) == SubSeq(FrBytes(k), FrExtra + 1, FrCount(k))
FrAll == FlattenSeq([k \in DOMAIN frStream |-> FrBytes(k)])

(* Memory as it was before anything was received: zero, a separator, or    *)
(* anything else.                                                          *)
FrZero == <<0, 0>>
FrFresh == {FrZero, <<0, 1>>, <<0, 2>>}

FrSep == {<<0, 1>>} \cup {<<k, frStream[k].size>> : k \in DOMAIN frStream}
FrCmd == {<<k, frStream[k].cmd>> : k \in DOMAIN frStream}

(* strstr: the first place from i on that holds one of the bytes sought,   *)
(* before a zero byte; 0 if there is none.                                 *)
FrFind(buf, i, found) ==
    LET here == {j \in i .. FrMax :
                   buf[j] \in found /\ \A z \in i .. j : buf[z] # FrZero}
    IN  IF here = {} THEN 0 ELSE CHOOSE j \in here : \A m \in here : j <= m

(* The length field after the first p bytes of the buffer: the one of a    *)
(* message if the bytes are its, else any number.                          *)
FrLengths(buf, p) ==
    LET field == SubSeq(buf, p + 1, p + FrField)
        k == field[1][1]
    IN  IF k > 0 /\ field = SubSeq(FrBytes(k), 1, FrField)
        THEN {frStream[k].size} ELSE 0 .. FrMax + 1

(* The constructors: ISGWIntf leaves its buffer as the memory is.          *)
FrInit ==
    /\ frMode \in FrModes
    /\ frStream \in FrStreams
    /\ frSent = 0
    /\ \E b \in IF frMode = "text" THEN FrFresh ELSE {FrZero} :
          frBuf = [i \in 1 .. FrMax |-> b]
    /\ frRecvLen = 0
    /\ frMsgLen = 0
    /\ frAt = "idle"
    /\ frDone = 0
    /\ frGiven = <<>>
    /\ frDropped = {}
    /\ frAstray = FALSE

-----------------------------------------------------------------------------
(* handle_input up to its loop: the buffer holds got, len bytes of it      *)
(* received.                                                               *)

FrStays == UNCHANGED <<frMode, frStream, frDone, frGiven>>

FrGoOn(len, at) == frRecvLen' = len /\ frAt' = at

(* No separator in the buffer: no message yet.                             *)
FrNoEnd(got, len) ==
    /\ FrFind(got, 1, FrSep) = 0
    /\ FrGoOn(len, IF len < FrMax THEN "idle" ELSE "closed")
    /\ frBuf' = got
    /\ UNCHANGED <<frDropped, frAstray>>

(* No "cmd" in the buffer: is_legal refuses what was received, along with  *)
(* the beginning of a message the rest of which is on its way.             *)
FrRefused(got, len) ==
    /\ FrFind(got, 1, FrSep) # 0
    /\ FrFind(got, 1, FrCmd) = 0
    /\ FrGoOn(0, "idle")
    /\ frBuf' = IF frMode = "ctext" THEN [i \in 1 .. FrMax |-> FrZero] ELSE got
    /\ frDropped' = frDropped \cup
                    {got[i][1] : i \in {j \in 1 .. len : got[j] \in FrSep}}
    /\ frAstray' = (frAstray \/ got[len] \notin FrSep)

FrEnded(got, len) ==
    /\ FrFind(got, 1, FrSep) # 0
    /\ FrFind(got, 1, FrCmd) # 0
    /\ FrGoOn(len, "loop")
    /\ frBuf' = got
    /\ UNCHANGED <<frDropped, frAstray>>

FrTextArrives(got, len) ==
    /\ FrText
    /\ FrNoEnd(got, len) \/ FrRefused(got, len) \/ FrEnded(got, len)
    /\ UNCHANGED frMsgLen

(* The length of the first message is read when its field is there, and    *)
(* once.                                                                   *)
FrFirstLengths(got, len) ==
    IF frMsgLen # 0 THEN {frMsgLen}
    ELSE IF len >= FrField THEN FrLengths(got, 0) ELSE {0}

FrLengthArrives(got, len) ==
    /\ ~FrText
    /\ \E n \in FrFirstLengths(got, len) :
          /\ frMsgLen' = n
          /\ FrGoOn(len,
                    IF frMsgLen = 0 /\ len >= FrField /\ ~FrLegal(n)
                    THEN "closed"
                    ELSE IF len < FrField \/ len < FrExtra + n
                    THEN "idle" ELSE "loop")
    /\ frBuf' = got
    /\ UNCHANGED <<frDropped, frAstray>>

(* recv returns some bytes.                                                *)
FrRecv ==
    /\ frAt = "idle"
    /\ \E n \in 1 .. FrMax - frRecvLen :
          LET len == frRecvLen + n
              got == [i \in 1 .. FrMax |->
                        IF i \in frRecvLen + 1 .. len
                        THEN FrAll[frSent + i - frRecvLen] ELSE frBuf[i]]
          IN  /\ frSent + n <= Len(FrAll)
              /\ frSent' = frSent + n
              /\ FrTextArrives(got, len) \/ FrLengthArrives(got, len)
    /\ FrStays

FrClose ==
    /\ frAt' = "closed"
    /\ UNCHANGED <<frMode, frStream, frSent, frBuf, frRecvLen, frMsgLen, frDone,
                   frGiven, frDropped, frAstray>>

(* recv returns 0: the peer has closed, or there is no room in the buffer. *)
FrNothing == frAt = "idle" /\ FrClose

(* handle_timeout: nothing was received for MAX_IDLE_TIME_SEC, or ever:    *)
(* lastrtime_ is set by the first bytes.                                   *)
FrTimeout == frAt = "idle" /\ FrServes /\ FrClose

-----------------------------------------------------------------------------
(* The loop.                                                               *)

(* The end of the next message in the buffer; 0 if it holds no more.  The  *)
(* bytes after recv_len_ are what earlier messages left.                   *)
FrTextEndStale == FrFind(frBuf, frDone + 1, FrSep) \* mutant: no bound

FrTextEnd ==
    LET end == FrFind(frBuf, frDone + 1, FrSep)
    IN  IF frMode = "text" /\ (frDone >= frRecvLen \/ end > frRecvLen)
        THEN 0 ELSE end

FrEnd ==
    LET end == frDone + FrExtra + frMsgLen
    IN  IF FrText THEN FrTextEnd ELSE IF end <= frRecvLen THEN end ELSE 0

(* The length of the message after the first end bytes.                    *)
FrNextLength(end) ==
    IF FrText THEN UNCHANGED frMsgLen /\ frAt' = "loop"
    ELSE IF frRecvLen - end < FrField
    THEN frMsgLen' = (IF FrServes THEN frMsgLen ELSE 0) /\ frAt' = "loop"
    ELSE \E n \in FrLengths(frBuf, end) :
            /\ frMsgLen' = n
            /\ frAt' = IF FrServes /\ ~FrLegal(n) THEN "closed" ELSE "loop"

(* process of the next message.                                            *)
FrProcess ==
    /\ frAt = "loop"
    /\ FrEnd # 0
    /\ frGiven' = Append(frGiven, SubSeq(frBuf, frDone + FrExtra + 1, FrEnd))
    /\ frDone' = FrEnd
    /\ FrNextLength(FrEnd)
    /\ UNCHANGED <<frMode, frStream, frSent, frBuf, frRecvLen, frDropped, frAstray>>

(* No request object, or no room in the queue of the workers: process      *)
(* fails and the handler is closed.                                        *)
FrProcessFails ==
    /\ frAt = "loop"
    /\ FrEnd # 0
    /\ FrClose

(* What is left moves to the front of the buffer.  ISGWIntf keeps the      *)
(* length of the message before when less than a length field is left.     *)
FrLeave ==
    LET left == frRecvLen - frDone
        moved == SubSeq(frBuf, frDone + 1, frRecvLen)
    IN  /\ frAt = "loop"
        /\ FrEnd = 0
        /\ frBuf' = [i \in 1 .. FrMax |->
                       IF i <= left THEN moved[i]
                       ELSE IF frMode = "ctext" THEN FrZero ELSE frBuf[i]]
        /\ frRecvLen' = left
        /\ frMsgLen' = IF left = 0 THEN 0 ELSE frMsgLen
        /\ frAt' = "idle"
        /\ frDone' = 0
        /\ frAstray' = \/ frAstray
                       \/ /\ FrServes /\ ~FrText
                          /\ 0 < left /\ left < FrField
                          /\ frStream[moved[1][1]].size # frMsgLen
        /\ UNCHANGED <<frMode, frStream, frSent, frGiven, frDropped>>

FrNext ==
    \/ FrRecv
    \/ FrNothing
    \/ FrTimeout
    \/ FrProcess
    \/ FrProcessFails
    \/ FrLeave

FrSpec == FrInit /\ [][FrNext]_frVars

-----------------------------------------------------------------------------
FrTypeOK ==
    /\ frMode \in FrModes
    /\ frStream \in FrStreams
    /\ frSent \in 0 .. Len(FrAll)
    /\ \A i \in 1 .. FrMax :
          \/ frBuf[i] \in FrFresh
          \/ frBuf[i] \in {FrAll[j] : j \in 1 .. frSent}
    /\ frRecvLen \in 0 .. FrMax
    /\ frMsgLen \in Nat
    /\ frAt \in {"idle", "loop", "closed"}
    /\ frDone \in 0 .. FrMax
    /\ frDropped \subseteq DOMAIN frStream
    /\ frAstray \in BOOLEAN

(* The elements of s with the numbers in taken, in their order.             *)
FrTaken(s, taken) ==
    LET upTo[n \in 0 .. Len(s)] ==
          IF n = 0 THEN <<>>
          ELSE IF n \in taken THEN Append(upTo[n - 1], s[n]) ELSE upTo[n - 1]
    IN  upTo[Len(s)]

(* The messages that have come as a whole, up to the first illegal one.    *)
FrWhole ==
    LET come == {FrAll[i] : i \in 1 .. frSent}
    IN  {k \in DOMAIN frStream :
           /\ <<k, FrCount(k)>> \in come
           /\ FrText \/ \A j \in 1 .. k : FrLegal(frStream[j].size)}
FrBodies == [k \in DOMAIN frStream |-> FrBody(k)]
FrComplete == FrTaken(FrBodies, FrWhole \ frDropped)

(* What process gets is the messages of the peer, whole, once and in       *)
(* order, however the stream was cut into reads, and none waits: when the  *)
(* handler is done with a read, process has had every message that is      *)
(* complete, the last one of the read as well (isgw_intf.cpp:130, 279;     *)
(* isgw_cintf.cpp:145, 271).  Except after one of two reads: one that      *)
(* ISGWIntf with lengths leaves at less than a length field of a message   *)
(* of another length than the one before (isgw_intf.cpp:300-304), and one  *)
(* whose bytes is_legal refuses while they end in the middle of a message  *)
(* (isgw_intf.cpp:114-122, isgw_cintf.cpp:130-137).                        *)
FrFramed ==
    \/ frAstray
    \/ LET complete == FrComplete
       IN  /\ IsPrefix(frGiven, complete)
           /\ frAt = "idle" => frGiven = complete
===============================================================================
