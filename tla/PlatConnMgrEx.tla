---------------------------- MODULE PlatConnMgrEx ----------------------------
(***************************************************************************)
(* PlatConnMgrEx: worker threads talk to backends over a pool of blocking  *)
(* connections, conn_[ip][index], each with a lock, a use flag that get_   *)
(* index reads without the lock, and, for each ip, a record of failures.   *)
(*                                                                         *)
(* Bytes are parts of answers.  A part is "own" if it answers the request  *)
(* the thread that uses the connection has sent, "old" if it answers one   *)
(* of an earlier call; "ownEnd" and "oldEnd" are the parts that hold the   *)
(* separator.  Nobody sees a part arrive before it is read, so that which  *)
(* parts have arrived is chosen when a connection is read or lost.  Time   *)
(* is what the strategy tells apart: whether the last failure of an ip is  *)
(* less than recon_interval_ ago.                                          *)
(***************************************************************************)
EXTENDS Naturals, Sequences, FiniteSets

CONSTANTS
    ExThreads,   \* threads that use the pool
    ExSizes,     \* configurations: <<ip_num_, conn_nums_>>
    ExMaxFails,  \* max_fail_times_
    ExRoom,      \* recv_len: parts a caller's buffer has room for
    ExMaxParts   \* bound: parts of answers on a connection

ASSUME PlatConnMgrExAssumption ==
    /\ IsFiniteSet(ExThreads)
    /\ ExSizes \subseteq (Nat \ {0}) \X (Nat \ {0})
    /\ ExMaxFails \in Nat
    /\ ExRoom \in Nat \ {0}
    /\ ExMaxParts \in Nat \ {0}

VARIABLES
    exSize,    \* <<ip_num_, conn_nums_>>, as init has read them
    exPc,      \* where each thread is
    exKind,    \* the function it is in
    exAt,      \* <<ip_idx, index>>
    exBack,    \* where it goes on after fini
    exLoad,    \* fail_times_[ip_idx], loaded to be incremented
    exBuf,     \* recv_buf
    exConn,    \* conn_: the state of each connection, the parts not read yet
    exFlag,    \* conn_use_flag_
    exFails,   \* fail_times_, up to max_fail_times_ + 1
    exRecent,  \* last_fail_time_ is less than recon_interval_ ago
    exLeft,    \* history: a call succeeded with parts of its answer to come
    exForeign  \* history: a call returned parts of another one's answer,
               \* although no call had left any behind

exThread == <<exPc, exKind, exAt, exBack, exLoad, exBuf>>
exShared == <<exConn, exFlag, exFails, exRecent>>
exHist == <<exLeft, exForeign>>
exVars == <<exSize, exThread, exShared, exHist>>

ExIps == exSize[1]
ExPool == exSize[2]
ExIp == 0 .. ExIps - 1
ExIndex == 0 .. ExPool - 1
ExConns == ExIp \X ExIndex
ExParts == {"own", "ownEnd", "old", "oldEnd"}
ExKinds == {"send", "send_recv", "send_recv_ex", "recv"}

(* An answer is one part or two.                                           *)
ExAnswers == {<<"ownEnd">>, <<"own", "ownEnd">>}

ExNull == [state |-> "null", in |-> <<>>]
ExFresh == [ExNull EXCEPT !.state = "connecting"]
ExOpen == [ExNull EXCEPT !.state = "open"]

Saturated(n) == IF n > ExMaxFails THEN ExMaxFails + 1 ELSE n

(* init tries every connection in turn and goes on when one fails; the     *)
(* other constructor leaves them to get_conn.                              *)
ExInitPool(up) ==
    /\ exConn = [c \in ExConns |-> IF up[c] THEN ExOpen ELSE ExNull]
    /\ exFails = [ip \in ExIp |-> Saturated(Cardinality(
                   {i \in ExIndex : \A j \in i .. ExPool - 1 : ~up[<<ip, j>>]}))]
    /\ exRecent = [ip \in ExIp |-> \E i \in ExIndex : ~up[<<ip, i>>]]

ExInit ==
    /\ exSize \in ExSizes
    /\ \/ \E up \in [ExConns -> BOOLEAN] : ExInitPool(up)
       \/ /\ exConn = [c \in ExConns |-> ExNull]
          /\ exFails = [ip \in ExIp |-> 0]
          /\ exRecent = [ip \in ExIp |-> FALSE]
    /\ exFlag = [c \in ExConns |-> 0]
    /\ exPc = [t \in ExThreads |-> "idle"]
    /\ exKind = [t \in ExThreads |-> "send"]
    /\ exAt = [t \in ExThreads |-> <<0, 0>>]
    /\ exBack = [t \in ExThreads |-> "idle"]
    /\ exLoad = [t \in ExThreads |-> 0]
    /\ exBuf = [t \in ExThreads |-> <<>>]
    /\ exLeft = FALSE
    /\ exForeign = FALSE

ExGoto(t, place) == exPc' = [exPc EXCEPT ![t] = place]

(* A call that returns forgets its connection.                             *)
ExReturn(t) ==
    /\ ExGoto(t, "idle")
    /\ exAt' = [exAt EXCEPT ![t] = <<0, 0>>]
    /\ exKind' = [exKind EXCEPT ![t] = "send"]
    /\ exBuf' = [exBuf EXCEPT ![t] = <<>>]

ExGo(t, c, place) ==
    /\ exAt' = [exAt EXCEPT ![t] = c]
    /\ ExGoto(t, place)
    /\ UNCHANGED <<exKind, exBuf>>

(* conn_lock_ is held while a connection is made, used or closed.          *)
ExUsing == {"drain", "send", "recv"}
ExLocked == ExUsing \cup {"connect", "fini", "close"}
ExHolds(t, c) == exAt[t] = c /\ exPc[t] \in ExLocked
ExLockFree(c) == \A t \in ExThreads : ~ExHolds(t, c)

(* get_index: a connection that is not flagged, or any if all are.         *)
ExChoice(ip) ==
    LET free == {i \in ExIndex : exFlag[<<ip, i>>] = 0}
    IN  IF free # {} THEN free ELSE ExIndex

(* A call chooses an ip, by uin, by address or at random, and an index.    *)
(* Which function was called is chosen where it begins to matter, ExLock.  *)
ExCall(t) ==
    /\ exPc[t] = "idle"
    /\ \E ip \in ExIp : \E i \in ExChoice(ip) : ExGo(t, <<ip, i>>, "get")
    /\ UNCHANGED <<exBack, exLoad, exShared, exHist>>

(* The strategy: an ip that keeps failing is left alone for a while.       *)
ExAvoided(ip) == exFails[ip] > ExMaxFails /\ exRecent[ip]

(* get_conn takes the next ip's connection as it is, the connection as it  *)
(* is, or waits for the lock to make one.                                  *)
ExGetConn(t) ==
    LET c == exAt[t]
        next == <<(c[1] + 1) % ExIps, c[2]>>
    IN  /\ exPc[t] = "get"
        /\ IF ExAvoided(c[1])
             THEN IF exConn[next].state = "null"
                    THEN ExReturn(t) ELSE ExGo(t, next, "lock")
             ELSE ExGo(t, c, IF exConn[c].state = "null"
                               THEN "init" ELSE "lock")
        /\ UNCHANGED <<exBack, exLoad, exShared, exHist>>

(* Under the lock a connection another thread has made is not made again;  *)
(* a new one is stored before it is connected.                             *)
ExInitConn(t) ==
    LET c == exAt[t]
    IN  /\ exPc[t] = "init"
        /\ ExLockFree(c)
        /\ IF exConn[c].state = "null"
             THEN /\ exConn' = [exConn EXCEPT ![c] = ExFresh]
                  /\ exBack' = [exBack EXCEPT ![t] = "got"]
                  /\ ExGoto(t, "connect")
             ELSE /\ ExGoto(t, "got")
                  /\ UNCHANGED <<exConn, exBack>>
        /\ UNCHANGED <<exKind, exAt, exLoad, exBuf, exFlag, exFails,
                       exRecent, exHist>>

(* A connection made clears the failures and the flag; send_recv goes on   *)
(* with the request, get_conn returns.                                     *)
ExConnected(t) ==
    LET c == exAt[t]
    IN  /\ exPc[t] = "connect"
        /\ exConn' = [exConn EXCEPT ![c] = ExOpen]
        /\ exFails' = [exFails EXCEPT ![c[1]] = 0]
        /\ exFlag' = [exFlag EXCEPT ![c] = 0]
        /\ ExGoto(t, IF exBack[t] = "got" THEN "got" ELSE "send")
        /\ exBack' = [exBack EXCEPT ![t] = "idle"]
        /\ UNCHANGED <<exKind, exAt, exLoad, exBuf, exRecent, exHist>>

(* fini after a refused connection; send_recv then returns.                *)
ExRefused(t) ==
    /\ exPc[t] = "connect"
    /\ exBack' = [exBack EXCEPT ![t] = IF @ = "got" THEN "got" ELSE "idle"]
    /\ ExGoto(t, "fini")
    /\ UNCHANGED <<exKind, exAt, exLoad, exBuf, exShared, exHist>>

(* get_conn's last line reads conn_ after the lock was released.           *)
ExGot(t) ==
    /\ exPc[t] = "got"
    /\ IF exConn[exAt[t]].state = "null"
         THEN ExReturn(t) ELSE ExGo(t, exAt[t], "lock")
    /\ UNCHANGED <<exBack, exLoad, exShared, exHist>>

(* The caller takes the lock and looks at conn_ again.                     *)
ExUse(t, c) ==
    \E kind \in ExKinds :
      /\ exFlag' = [exFlag EXCEPT ![c] = 1]
      /\ exKind' = [exKind EXCEPT ![t] = kind]
      /\ ExGoto(t, IF kind \in {"send", "recv"} THEN kind ELSE "drain")
      /\ UNCHANGED <<exAt, exBuf>>

ExUnchecked(t) ==    \* mutant: no second look
    /\ exPc[t] = "lock"
    /\ ExLockFree(exAt[t])
    /\ ExUse(t, exAt[t])
    /\ UNCHANGED <<exBack, exLoad, exConn, exFails, exRecent, exHist>>

ExLock(t) ==
    /\ exPc[t] = "lock"
    /\ ExLockFree(exAt[t])
    /\ IF exConn[exAt[t]].state = "null"
         THEN ExReturn(t) /\ UNCHANGED exFlag
         ELSE ExUse(t, exAt[t])
    /\ UNCHANGED <<exBack, exLoad, exConn, exFails, exRecent, exHist>>

(* How many parts one recv may return, with room for so many.              *)
ExReadable(c, room) ==
    1 .. (IF Len(exConn[c].in) < room THEN Len(exConn[c].in) ELSE room)

ExConsume(c, n) ==
    exConn' = [exConn EXCEPT ![c].in = SubSeq(@, n + 1, Len(@))]

(* What an earlier call has left is read and thrown away, without waiting; *)
(* a connection found closed is replaced.                                  *)
ExDrain(t) ==
    LET c == exAt[t]
    IN  /\ exPc[t] = "drain"
        /\ \/ /\ \E n \in ExReadable(c, ExRoom) : ExConsume(c, n)
              /\ ExGoto(t, "send")
              /\ UNCHANGED exBack
           \/ /\ exConn[c].state = "open"
              /\ ExGoto(t, "send")
              /\ UNCHANGED <<exConn, exBack>>
           \/ /\ exConn[c].in = <<>>
              /\ exConn[c].state = "closed"
              /\ exBack' = [exBack EXCEPT ![t] = "connect"]
              /\ ExGoto(t, "fini")
              /\ UNCHANGED exConn
        /\ UNCHANGED <<exKind, exAt, exLoad, exBuf, exFlag, exFails,
                       exRecent, exHist>>

(* A call that ends well: whatever is still to come is old from now on.    *)
ExAged(s) ==
    [i \in DOMAIN s |-> IF s[i] \in {"own", "old"} THEN "old" ELSE "oldEnd"]

ExUnflag(c) == exFlag' = [exFlag EXCEPT ![c] = 0]

ExDone(t, conn) ==
    LET c == exAt[t]
    IN  /\ exConn' = [exConn EXCEPT ![c] = [conn EXCEPT !.in = ExAged(@)]]
        /\ exLeft' = (exLeft \/ conn.in # <<>>)
        /\ ExUnflag(c)
        /\ ExReturn(t)
        /\ UNCHANGED <<exBack, exLoad, exFails, exRecent>>

ExGiveUp(t) ==
    /\ exBack' = [exBack EXCEPT ![t] = "idle"]
    /\ ExGoto(t, "fini")
    /\ UNCHANGED <<exKind, exAt, exLoad, exBuf, exShared, exHist>>

(* The request is sent, to be answered if the backend is still there, or   *)
(* the send fails; send returns.                                           *)
ExSend(t) ==
    LET c == exAt[t]
        fits == {a \in ExAnswers : Len(exConn[c].in \o a) <= ExMaxParts}
        sent == {[exConn[c] EXCEPT !.in = @ \o a] : a \in fits}
    IN  /\ exPc[t] = "send"
        /\ \/ \E conn \in IF exConn[c].state = "open"
                            THEN sent ELSE {exConn[c]} :
                IF exKind[t] = "send"
                  THEN ExDone(t, conn) /\ UNCHANGED exForeign
                  ELSE /\ exConn' = [exConn EXCEPT ![c] = conn]
                       /\ ExGoto(t, "recv")
                       /\ UNCHANGED <<exKind, exAt, exBack, exLoad, exBuf,
                                      exFlag, exFails, exRecent, exHist>>
           \/ ExGiveUp(t)

(* recv returns some of the parts that are there.  send_recv_ex receives   *)
(* on until it has a separator or its buffer is full.                      *)
ExRecv(t) ==
    LET c == exAt[t]
    IN  /\ exPc[t] = "recv"
        /\ \E n \in ExReadable(c, ExRoom - Len(exBuf[t])) :
             LET got == exBuf[t] \o SubSeq(exConn[c].in, 1, n)
                 has == {got[i] : i \in DOMAIN got}
                 conn == [exConn[c] EXCEPT !.in = SubSeq(@, n + 1, Len(@))]
             IN  IF /\ exKind[t] = "send_recv_ex"
                    /\ has \cap {"ownEnd", "oldEnd"} = {}
                    /\ Len(got) < ExRoom
                   THEN /\ exBuf' = [exBuf EXCEPT ![t] = got]
                        /\ ExConsume(c, n)
                        /\ UNCHANGED <<exPc, exKind, exAt, exBack, exLoad,
                                       exFlag, exFails, exRecent, exHist>>
                   ELSE /\ ExDone(t, conn)
                        /\ exForeign' = (exForeign \/
                             (/\ ~exLeft'
                              /\ exKind[t] # "recv"
                              /\ has \cap {"old", "oldEnd"} # {}))

(* Nothing in time_out_, or the end of the connection: fini.               *)
ExTimeoutIgnored(t) ==    \* mutant: the connection is kept
    /\ exPc[t] = "recv"
    /\ exConn' = [exConn EXCEPT ![exAt[t]].in = ExAged(@)]
    /\ ExUnflag(exAt[t])
    /\ ExReturn(t)
    /\ UNCHANGED <<exBack, exLoad, exFails, exRecent, exHist>>

ExRecvFails(t) ==
    /\ exPc[t] = "recv"
    /\ exConn[exAt[t]].state = "closed" => exConn[exAt[t]].in = <<>>
    /\ ExGiveUp(t)

(* fini increments fail_times_[ip_idx], which threads with other           *)
(* connections to the ip increment as well: a load ...                     *)
ExFini(t) ==
    /\ exPc[t] = "fini"
    /\ exLoad' = [exLoad EXCEPT ![t] = exFails[exAt[t][1]]]
    /\ ExGoto(t, "close")
    /\ UNCHANGED <<exKind, exAt, exBack, exBuf, exShared, exHist>>

(* ... and a store; then the connection is closed.                         *)
ExClose(t) ==
    LET c == exAt[t]
    IN  /\ exPc[t] = "close"
        /\ exFails' = [exFails EXCEPT ![c[1]] = Saturated(exLoad[t] + 1)]
        /\ exRecent' = [exRecent EXCEPT ![c[1]] = TRUE]
        /\ exConn' = [exConn EXCEPT ![c] =
                        IF exBack[t] = "connect" THEN ExFresh ELSE ExNull]
        /\ exFlag' = [exFlag EXCEPT ![c] = 0]
        /\ exLoad' = [exLoad EXCEPT ![t] = 0]
        /\ IF exBack[t] = "idle"
             THEN ExReturn(t) ELSE ExGo(t, c, exBack[t])
        /\ exBack' = [exBack EXCEPT ![t] = IF @ = "got" THEN "idle" ELSE @]
        /\ UNCHANGED exHist

(* The backend goes; the last parts may not have been sent.                *)
ExPeerCloses(c) ==
    /\ exConn[c].state = "open"
    /\ \E n \in 0 .. Len(exConn[c].in) :
         exConn' = [exConn EXCEPT ![c] =
                      [state |-> "closed", in |-> SubSeq(@.in, 1, n)]]
    /\ UNCHANGED <<exThread, exFlag, exFails, exRecent, exHist>>

(* recon_interval_ goes by.                                                *)
ExElapse(ip) ==
    /\ exRecent[ip]
    /\ exRecent' = [exRecent EXCEPT ![ip] = FALSE]
    /\ UNCHANGED <<exThread, exConn, exFlag, exFails, exHist>>

ExNext ==
    /\ \/ \E t \in ExThreads :
            \/ ExCall(t) \/ ExGetConn(t) \/ ExInitConn(t)
            \/ ExConnected(t) \/ ExRefused(t) \/ ExGot(t)
            \/ ExLock(t) \/ ExDrain(t) \/ ExSend(t)
            \/ ExRecv(t) \/ ExRecvFails(t)
            \/ ExFini(t) \/ ExClose(t)
       \/ \E c \in ExConns : ExPeerCloses(c)
       \/ \E ip \in ExIp : ExElapse(ip)
    /\ UNCHANGED exSize

ExSpec == ExInit /\ [][ExNext]_exVars

-----------------------------------------------------------------------------
(* Properties.                                                             *)

ExTypeOK ==
    /\ exSize \in ExSizes
    /\ exPc \in [ExThreads -> {"idle", "get", "init", "got", "lock"}
                                \cup ExLocked]
    /\ exKind \in [ExThreads -> ExKinds]
    /\ exAt \in [ExThreads -> ExConns]
    /\ exBack \in [ExThreads -> {"idle", "got", "connect"}]
    /\ exLoad \in [ExThreads -> 0 .. ExMaxFails + 1]
    /\ \A t \in ExThreads : exBuf[t] \in Seq(ExParts) /\ Len(exBuf[t]) < ExRoom
    /\ \A c \in ExConns :
         /\ exConn[c].state \in {"null", "connecting", "open", "closed"}
         /\ exConn[c].in \in Seq(ExParts)
         /\ Len(exConn[c].in) <= ExMaxParts
    /\ exFlag \in [ExConns -> {0, 1}]
    /\ exFails \in [ExIp -> 0 .. ExMaxFails + 1]
    /\ exRecent \in [ExIp -> BOOLEAN]
    /\ exLeft \in BOOLEAN
    /\ exForeign \in BOOLEAN

(* A thread that uses a connection has it to itself and it is not NULL,    *)
(* although every thread may replace or close connections (init_conn,      *)
(* fini), and a flag that is set is that of a thread that uses it: no      *)
(* connection stays flagged for ever (plat_conn_mgr_ex.cpp:674-677).       *)
ExConnectionHeld ==
    /\ \A t \in ExThreads : exPc[t] \in ExUsing =>
         /\ exConn[exAt[t]].state \in {"open", "closed"}
         /\ \A u \in ExThreads \ {t} : ~ExHolds(u, exAt[t])
    /\ \A c \in ExConns : exFlag[c] = 1 =>
         \E t \in ExThreads : ExHolds(t, c)

(* send_recv and send_recv_ex return nothing of another call's answer as   *)
(* long as no call succeeds before its whole answer has arrived: timeouts, *)
(* lost connections and late answers do not mix answers up                 *)
(* (plat_conn_mgr_ex.h:13, "garbage left over").                           *)
ExOwnAnswer == ~exForeign
=============================================================================
