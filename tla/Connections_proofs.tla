------------------------- MODULE Connections_proofs -------------------------
(***************************************************************************)
(* Proofs about the components that hold connections: PlatConnMgrEx (names *)
(* with Ex), PlatConnMgrAsy (Asy) and CliSockets (Cli).                    *)
(*                                                                         *)
(* Of PlatConnMgrEx the invariant says who holds the locks of conn_lock_,  *)
(* which connections may be in which state then (ExLocks), and where the   *)
(* parts of an answer are as long as no call has left any behind (ExClean).*)
(* Of PlatConnMgrAsy, AsyInv says where a request and its record are; and  *)
(* AsySafe, as long as nothing has raced, whose number and descriptor each *)
(* address has: those of a message for the backend were its own or are the *)
(* defaults, and no client ever gets both.  Of CliSockets, CliCalls says   *)
(* where a thread has the connection it uses.                              *)
(*                                                                         *)
(* At the end, MCConnections is shown to check what it is meant to: each   *)
(* of its behaviours is one of each component.                             *)
(***************************************************************************)
EXTENDS MCConnections, QueueFacts, SequenceTheorems

-----------------------------------------------------------------------------
(* PlatConnMgrEx: the invariant.                                           *)

ExStates == {"null", "connecting", "open", "closed"}

ExTypes ==
    /\ ExTypeOK
    /\ exConn \in [ExConns -> [state : ExStates, in : Seq(ExParts)]]
    /\ exBuf \in [ExThreads -> Seq(ExParts)]

(* A lock has one holder.  A connection that is used is there, one that is *)
(* being made or flagged is in the hands of a thread.                      *)
ExLocks ==
    /\ \A t, u \in ExThreads :
         t # u /\ exPc[t] \in ExLocked /\ exPc[u] \in ExLocked =>
           exAt[t] # exAt[u]
    /\ \A t \in ExThreads : exPc[t] \in ExUsing =>
         exConn[exAt[t]].state \in {"open", "closed"}
    /\ \A c \in ExConns :
         exConn[c].state = "connecting" \/ exFlag[c] = 1 =>
           \E t \in ExThreads : ExHolds(t, c)

(* Parts of the answer to the request the connection was last used for.    *)
ExOwnOnly(s) == \A i \in DOMAIN s : s[i] \in {"own", "ownEnd"}

ExAwaits == {"recv", "fini", "close"}

(* As long as no call has left any part behind, those there are belong to  *)
(* the call that is being made on their connection.                        *)
ExClean ==
    /\ ~exForeign
    /\ ~exLeft =>
         /\ \A c \in ExConns :
              /\ ExOwnOnly(exConn[c].in)
              /\ exConn[c].in # <<>> =>
                   \E t \in ExThreads : exAt[t] = c /\ exPc[t] \in ExAwaits
         /\ \A t \in ExThreads : ExOwnOnly(exBuf[t])

ExInv == ExTypes /\ ExLocks /\ ExClean

-----------------------------------------------------------------------------
(* Parts of answers.                                                       *)

LEMMA ExSuffix ==
    ASSUME NEW s \in Seq(ExParts), NEW n \in 0 .. Len(s)
    PROVE  /\ SubSeq(s, n + 1, Len(s)) \in Seq(ExParts)
           /\ Len(SubSeq(s, n + 1, Len(s))) = Len(s) - n
           /\ ExOwnOnly(s) => ExOwnOnly(SubSeq(s, n + 1, Len(s)))
<1> DEFINE r == SubSeq(s, n + 1, Len(s))
<1>1. /\ Len(s) \in Nat /\ DOMAIN s = 1 .. Len(s)
      /\ n \in Nat /\ n <= Len(s)
      /\ \A i \in n + 1 .. Len(s) : s[i] \in ExParts
  BY ElementOfSeq
<1>2. /\ r \in Seq(ExParts)
      /\ Len(r) = IF n + 1 <= Len(s) THEN Len(s) - (n + 1) + 1 ELSE 0
      /\ \A i \in 1 .. Len(s) - (n + 1) + 1 : r[i] = s[n + 1 + i - 1]
  BY <1>1, SubSeqProperties
<1> HIDE DEF r
<1>3. Len(r) = Len(s) - n
  <2>1. CASE n = Len(s)
    <3>1. ~ (n + 1 <= Len(s)) /\ Len(s) - n = 0
      BY <1>1, <2>1
    <3> QED BY <1>2, <3>1
  <2>2. CASE n # Len(s)
    <3>1. \A k, m \in Nat : /\ k - (m + 1) + 1 = k - m
                             /\ m <= k /\ m # k => m + 1 <= k
      OBVIOUS
    <3>2. Len(s) \in Nat /\ n \in Nat /\ n <= Len(s)
      BY <1>1
    <3>3. n + 1 <= Len(s) /\ Len(s) - (n + 1) + 1 = Len(s) - n
      BY <2>2, <3>1, <3>2
    <3> QED BY <1>2, <3>3
  <2> QED BY <2>1, <2>2
<1>4. ASSUME NEW i \in DOMAIN r
      PROVE  n + i \in DOMAIN s /\ r[i] = s[n + i]
  <2>1. i \in 1 .. Len(r)
    BY <1>2
  <2>2. i \in 1 .. Len(s) - (n + 1) + 1 /\ n + 1 + i - 1 = n + i
    BY <1>1, <1>3, <2>1
  <2>3. n + i \in 1 .. Len(s)
    BY <1>1, <2>2
  <2> QED BY <1>1, <1>2, <2>2, <2>3
<1>5. ExOwnOnly(s) => ExOwnOnly(r)
  BY <1>4 DEF ExOwnOnly
<1> QED BY <1>2, <1>3, <1>5 DEF r

LEMMA ExPrefix ==
    ASSUME NEW s \in Seq(ExParts), NEW n \in 0 .. Len(s)
    PROVE  /\ SubSeq(s, 1, n) \in Seq(ExParts)
           /\ Len(SubSeq(s, 1, n)) = n
           /\ ExOwnOnly(s) => ExOwnOnly(SubSeq(s, 1, n))
           /\ s = <<>> => SubSeq(s, 1, n) = <<>>
<1> DEFINE r == SubSeq(s, 1, n)
<1>1. /\ Len(s) \in Nat /\ DOMAIN s = 1 .. Len(s) /\ n \in Nat
      /\ \A i \in 1 .. n : s[i] \in ExParts
  BY ElementOfSeq
<1>2. /\ r \in Seq(ExParts)
      /\ Len(r) = IF 1 <= n THEN n - 1 + 1 ELSE 0
      /\ \A i \in 1 .. n - 1 + 1 : r[i] = s[1 + i - 1]
  BY <1>1, SubSeqProperties
<1> HIDE DEF r
<1>3. Len(r) = n /\ DOMAIN r = 1 .. n
  BY <1>1, <1>2
<1>4. \A i \in DOMAIN r : i \in DOMAIN s /\ r[i] = s[i]
  BY <1>1, <1>2, <1>3
<1>5. ExOwnOnly(s) => ExOwnOnly(r)
  BY <1>4 DEF ExOwnOnly
<1>6. s = <<>> => r = <<>>
  BY <1>2, <1>3
<1> QED BY <1>2, <1>3, <1>5, <1>6 DEF r

LEMMA ExCat ==
    ASSUME NEW s \in Seq(ExParts), NEW r \in Seq(ExParts)
    PROVE  /\ s \o r \in Seq(ExParts)
           /\ Len(s \o r) = Len(s) + Len(r)
           /\ ExOwnOnly(s) /\ ExOwnOnly(r) => ExOwnOnly(s \o r)
<1>1. s \o r \in Seq(ExParts) /\ Len(s \o r) = Len(s) + Len(r)
  BY ConcatProperties
<1>2. ASSUME ExOwnOnly(s), ExOwnOnly(r), NEW i \in DOMAIN (s \o r)
      PROVE  (s \o r)[i] \in {"own", "ownEnd"}
  BY <1>2, CatElements DEF ExOwnOnly
<1> QED BY <1>1, <1>2 DEF ExOwnOnly

LEMMA ExAgedParts ==
    ASSUME NEW s \in Seq(ExParts)
    PROVE  /\ ExAged(s) \in Seq(ExParts)
           /\ Len(ExAged(s)) = Len(s)
           /\ s = <<>> => ExAged(s) = <<>>
<1>1. Len(s) \in Nat /\ DOMAIN s = 1 .. Len(s)
  OBVIOUS
<1>2. \A i \in 1 .. Len(s) :
        (IF s[i] \in {"own", "old"} THEN "old" ELSE "oldEnd") \in ExParts
  BY DEF ExParts
<1>3. ExAged(s) \in [1 .. Len(s) -> ExParts]
  BY <1>1, <1>2 DEF ExAged
<1>4. ExAged(s) \in Seq(ExParts) /\ Len(ExAged(s)) = Len(s)
  BY <1>1, <1>3
<1> QED BY <1>4

-----------------------------------------------------------------------------
(* What a step of a thread may do to the locks, to the connection it is at *)
(* and to the parts on it.                                                 *)

(* Another thread's connection, and what it has received, stay as they are.*)
ExOthersStay(t) ==
    /\ exSize' = exSize
    /\ \A u \in ExThreads \ {t} :
         exPc'[u] = exPc[u] /\ exAt'[u] = exAt[u] /\ exBuf'[u] = exBuf[u]

LEMMA ExInside ==
    ASSUME ExInv, NEW t \in ExThreads, NEW c \in ExConns, ExOthersStay(t),
           ExHolds(t, c) \/ (exPc[t] \notin ExLocked /\ ExLockFree(c)),
           \A d \in ExConns \ {c} :
             exConn'[d] = exConn[d] /\ exFlag'[d] = exFlag[d],
           exPc'[t] \in ExLocked => exAt'[t] = c,
           exPc'[t] \in ExUsing => exConn'[c].state \in {"open", "closed"},
           exPc'[t] \notin ExLocked =>
             exConn'[c].state # "connecting" /\ exFlag'[c] # 1,
           ~exForeign', exLeft => exLeft',
           ~exLeft' => /\ ExOwnOnly(exConn'[c].in) /\ ExOwnOnly(exBuf'[t])
                       /\ exConn'[c].in # <<>> =>
                            exAt'[t] = c /\ exPc'[t] \in ExAwaits
    PROVE  ExLocks' /\ ExClean'
<1>1. ExConns' = ExConns /\ \A u \in ExThreads : exAt[u] \in ExConns
  BY DEF ExConns, ExIp, ExIndex, ExIps, ExPool, ExOthersStay, ExInv, ExTypes,
         ExTypeOK
<1>2. ASSUME NEW u \in ExThreads \ {t}
      PROVE  /\ exPc'[u] = exPc[u] /\ exAt'[u] = exAt[u] /\ exBuf'[u] = exBuf[u]
             /\ exPc[u] \in ExLocked => exAt[u] # c
  BY DEF ExInv, ExLocks, ExLockFree, ExHolds, ExOthersStay
<1>3. ASSUME NEW u \in ExThreads, NEW v \in ExThreads, u # v,
             exPc'[u] \in ExLocked, exPc'[v] \in ExLocked
      PROVE  exAt'[u] # exAt'[v]
  BY <1>2, <1>3 DEF ExInv, ExLocks
<1>4. ASSUME NEW u \in ExThreads, exPc'[u] \in ExUsing
      PROVE  exConn'[exAt'[u]].state \in {"open", "closed"}
  <2>1. exPc'[u] \in ExLocked
    BY <1>4 DEF ExLocked
  <2>2. CASE u = t
    BY <1>4, <2>1, <2>2
  <2>3. CASE u # t
    BY <1>1, <1>2, <1>4, <2>1, <2>3 DEF ExInv, ExLocks
  <2> QED BY <2>2, <2>3
<1>5. ASSUME NEW d \in ExConns,
             exConn'[d].state = "connecting" \/ exFlag'[d] = 1
      PROVE  \E u \in ExThreads : ExHolds(u, d)'
  <2>1. CASE d = c
    BY <1>5, <2>1 DEF ExHolds
  <2>2. CASE d # c
    <3>1. PICK u \in ExThreads : ExHolds(u, d)
      BY <1>5, <2>2 DEF ExInv, ExLocks
    <3>2. u # t
      BY <2>2, <3>1 DEF ExHolds
    <3> QED BY <1>2, <3>1, <3>2 DEF ExHolds
  <2> QED BY <2>1, <2>2
<1>6. ExLocks'
  BY <1>1, <1>3, <1>4, <1>5 DEF ExLocks
<1>7. ASSUME ~exLeft', NEW d \in ExConns
      PROVE  /\ ExOwnOnly(exConn'[d].in)
             /\ exConn'[d].in # <<>> =>
                  \E u \in ExThreads : exAt'[u] = d /\ exPc'[u] \in ExAwaits
  <2>1. CASE d = c
    BY <1>7, <2>1
  <2>2. CASE d # c
    <3>1. exConn'[d] = exConn[d] /\ ExOwnOnly(exConn[d].in)
      BY <1>7, <2>2 DEF ExInv, ExClean
    <3>2. ASSUME exConn[d].in # <<>>
          PROVE  \E u \in ExThreads : exAt'[u] = d /\ exPc'[u] \in ExAwaits
      <4>1. PICK u \in ExThreads : exAt[u] = d /\ exPc[u] \in ExAwaits
        BY <1>7, <3>2 DEF ExInv, ExClean
      <4>2. exPc[u] \in ExLocked
        BY <4>1 DEF ExAwaits, ExLocked, ExUsing
      <4>3. u # t
        BY <2>2, <4>1, <4>2 DEF ExHolds
      <4> QED BY <1>2, <4>1, <4>3
    <3> QED BY <3>1, <3>2
  <2> QED BY <2>1, <2>2
<1>8. ASSUME ~exLeft', NEW u \in ExThreads PROVE ExOwnOnly(exBuf'[u])
  BY <1>2, <1>8 DEF ExInv, ExClean
<1>9. ExClean'
  BY <1>1, <1>7, <1>8 DEF ExClean, ExOwnOnly
<1> QED BY <1>6, <1>9

(* Without the lock of its connection a thread leaves it as it is.         *)
LEMMA ExOutside ==
    ASSUME ExInv, NEW t \in ExThreads, ExOthersStay(t),
           exPc[t] \notin ExLocked, exPc'[t] \notin ExLocked,
           exConn' = exConn, exFlag' = exFlag,
           exBuf'[t] = exBuf[t] \/ exBuf'[t] = <<>>,
           exLeft' = exLeft, exForeign' = exForeign
    PROVE  ExLocks' /\ ExClean'
<1>1. ExConns' = ExConns
  BY DEF ExConns, ExIp, ExIndex, ExIps, ExPool, ExOthersStay
<1>2. \A u \in ExThreads : exPc[u] \in ExLocked =>
        u # t /\ exPc'[u] = exPc[u] /\ exAt'[u] = exAt[u]
  BY DEF ExOthersStay
<1>3. \A u \in ExThreads : exPc'[u] \in ExLocked => exPc[u] \in ExLocked
  BY DEF ExOthersStay
<1>4. ExUsing \subseteq ExLocked /\ ExAwaits \subseteq ExLocked
  BY DEF ExUsing, ExLocked, ExAwaits
<1>5. ExLocks'
  BY <1>1, <1>2, <1>3, <1>4 DEF ExInv, ExLocks, ExHolds
<1>6. ExOwnOnly(<<>>)
  BY DEF ExOwnOnly
<1>7. ASSUME ~exLeft, NEW u \in ExThreads PROVE ExOwnOnly(exBuf'[u])
  BY <1>6, <1>7 DEF ExInv, ExClean, ExOthersStay
<1>8. ASSUME ~exLeft, NEW c \in ExConns, exConn[c].in # <<>>
      PROVE  \E u \in ExThreads : exAt'[u] = c /\ exPc'[u] \in ExAwaits
  BY <1>2, <1>4, <1>8 DEF ExInv, ExClean
<1>9. ExClean'
  BY <1>1, <1>7, <1>8 DEF ExInv, ExClean, ExOwnOnly
<1> QED BY <1>5, <1>9

-----------------------------------------------------------------------------
(* The steps of PlatConnMgrEx.                                             *)

(* Of the types, what threads have and what they share.                    *)
ExThreadTypes ==
    /\ exPc \in [ExThreads -> {"idle", "get", "init", "got", "lock"}
                                \cup ExLocked]
    /\ exKind \in [ExThreads -> ExKinds]
    /\ exAt \in [ExThreads -> ExConns]
    /\ exBack \in [ExThreads -> {"idle", "got", "connect"}]
    /\ exLoad \in [ExThreads -> 0 .. ExMaxFails + 1]
    /\ exBuf \in [ExThreads -> Seq(ExParts)]
    /\ \A t \in ExThreads : Len(exBuf[t]) < ExRoom

ExSharedTypes ==
    /\ exConn \in [ExConns -> [state : ExStates, in : Seq(ExParts)]]
    /\ \A c \in ExConns : Len(exConn[c].in) <= ExMaxParts
    /\ exFlag \in [ExConns -> {0, 1}]
    /\ exFails \in [ExIp -> 0 .. ExMaxFails + 1]
    /\ exRecent \in [ExIp -> BOOLEAN]

ExHistTypes == exLeft \in BOOLEAN /\ exForeign \in BOOLEAN

LEMMA ExTypesParts ==
    ExTypes <=> ( /\ exSize \in ExSizes /\ ExThreadTypes
                  /\ ExSharedTypes /\ ExHistTypes )
<1>1. ASSUME ExTypes
      PROVE  exSize \in ExSizes /\ ExThreadTypes /\ ExSharedTypes /\ ExHistTypes
  BY <1>1 DEF ExTypes, ExTypeOK, ExThreadTypes, ExSharedTypes, ExHistTypes
<1>2. ASSUME exSize \in ExSizes, ExThreadTypes, ExSharedTypes, ExHistTypes
      PROVE  ExTypes
  <2>1. \A c \in ExConns : /\ exConn[c].state \in ExStates
                           /\ exConn[c].in \in Seq(ExParts)
    BY <1>2 DEF ExSharedTypes
  <2>2. \A t \in ExThreads : exBuf[t] \in Seq(ExParts)
    BY <1>2 DEF ExThreadTypes
  <2> QED BY <1>2, <2>1, <2>2
          DEF ExTypes, ExTypeOK, ExThreadTypes, ExSharedTypes, ExHistTypes,
              ExStates
<1> QED BY <1>1, <1>2

LEMMA ExTypesPartsNext ==
    (ExTypes <=> ( /\ exSize \in ExSizes /\ ExThreadTypes
                   /\ ExSharedTypes /\ ExHistTypes ))'
BY ExTypesParts, PTL

(* The connections there are, before and after a step.                     *)
LEMMA ExPlacesKept ==
    ASSUME ExTypes, exSize' = exSize
    PROVE  /\ ExConns' = ExConns /\ ExIp' = ExIp
           /\ ExConns = ExIp \X ExIndex
           /\ 0 \in ExIp /\ 0 \in ExIndex /\ <<0, 0>> \in ExConns
           /\ ExIps \in Nat \ {0} /\ ExPool \in Nat \ {0}
           /\ ExIp \subseteq Nat /\ ExIndex \subseteq Nat
<1>1. ExIps \in Nat \ {0} /\ ExPool \in Nat \ {0}
  BY PlatConnMgrExAssumption DEF ExTypes, ExTypeOK, ExIps, ExPool
<1>2. 0 \in ExIp /\ 0 \in ExIndex /\ ExIp \subseteq Nat /\ ExIndex \subseteq Nat
  BY <1>1 DEF ExIp, ExIndex
<1> QED BY <1>1, <1>2 DEF ExConns, ExIp, ExIndex, ExIps, ExPool

LEMMA ExAtTypes ==
    ASSUME ExInv, NEW t \in ExThreads
    PROVE  /\ exAt[t] \in ExConns
           /\ exAt[t][1] \in ExIp /\ exAt[t][2] \in ExIndex
           /\ exAt[t] = <<exAt[t][1], exAt[t][2]>>
BY DEF ExInv, ExTypes, ExTypeOK, ExConns

LEMMA ExParted ==
    ASSUME ExInv
    PROVE  ExThreadTypes /\ ExSharedTypes /\ ExHistTypes /\ exSize \in ExSizes
BY ExTypesParts DEF ExInv

(* A thread that goes on, and one that returns.                            *)
LEMMA ExGone ==
    ASSUME ExInv, NEW t \in ExThreads, exSize' = exSize, NEW c \in ExConns,
           NEW p \in {"idle", "get", "init", "got", "lock"} \cup ExLocked,
           \/ ExGo(t, c, p)
           \/ ExReturn(t) /\ p = "idle" /\ c = <<0, 0>>
           \/ ExGoto(t, p) /\ c = exAt[t] /\ UNCHANGED <<exKind, exAt, exBuf>>
    PROVE  /\ exPc'[t] = p /\ exAt'[t] = c
           /\ exBuf'[t] = exBuf[t] \/ exBuf'[t] = <<>>
           /\ ExOthersStay(t)
           /\ exPc' \in [ExThreads -> {"idle", "get", "init", "got", "lock"}
                                        \cup ExLocked]
           /\ exKind' \in [ExThreads -> ExKinds]
           /\ exAt' \in [ExThreads -> ExConns]
           /\ exBuf' \in [ExThreads -> Seq(ExParts)]
           /\ \A u \in ExThreads : Len(exBuf'[u]) < ExRoom
<1> USE DEF ExGo, ExGoto, ExReturn
<1>1. ExThreadTypes
  BY ExParted
<1>2. /\ exPc'[t] = p /\ exAt'[t] = c
      /\ exBuf'[t] = exBuf[t] \/ exBuf'[t] = <<>>
      /\ \A u \in ExThreads \ {t} :
           exPc'[u] = exPc[u] /\ exAt'[u] = exAt[u] /\ exBuf'[u] = exBuf[u]
  BY <1>1 DEF ExThreadTypes
<1>3. /\ exPc' \in [ExThreads -> {"idle", "get", "init", "got", "lock"}
                                   \cup ExLocked]
      /\ exAt' \in [ExThreads -> ExConns]
  <2>1. exPc' = [exPc EXCEPT ![t] = p]
    OBVIOUS
  <2>2. exAt' = [exAt EXCEPT ![t] = c] \/ exAt' = exAt
    OBVIOUS
  <2> QED BY ONLY <1>1, <2>1, <2>2, c \in ExConns,
             p \in {"idle", "get", "init", "got", "lock"} \cup ExLocked
          DEF ExThreadTypes
<1>4. exKind' \in [ExThreads -> ExKinds]
  BY <1>1 DEF ExThreadTypes, ExKinds
<1>5. <<>> \in Seq(ExParts) /\ Len(<<>>) = 0 /\ ExRoom > 0
  BY PlatConnMgrExAssumption
<1>6. /\ exBuf' \in [ExThreads -> Seq(ExParts)]
      /\ \A u \in ExThreads : Len(exBuf'[u]) < ExRoom
  <2>1. exBuf' = [exBuf EXCEPT ![t] = <<>>] \/ exBuf' = exBuf
    OBVIOUS
  <2>2. CASE exBuf' = [exBuf EXCEPT ![t] = <<>>]
    <3>1. exBuf' \in [ExThreads -> Seq(ExParts)]
      BY <1>1, <1>5, <2>2 DEF ExThreadTypes
    <3>2. ASSUME NEW u \in ExThreads PROVE Len(exBuf'[u]) < ExRoom
      <4>1. exBuf'[u] = <<>> \/ exBuf'[u] = exBuf[u]
        BY <1>1, <2>2 DEF ExThreadTypes
      <4> QED BY <1>1, <1>5, <4>1 DEF ExThreadTypes
    <3> QED BY <3>1, <3>2
  <2> QED BY <1>1, <2>1, <2>2 DEF ExThreadTypes
<1> QED BY <1>2, <1>3, <1>4, <1>6 DEF ExOthersStay

(* A step outside of any lock.                                             *)
LEMMA ExOutsideInv ==
    ASSUME ExInv, NEW t \in ExThreads, exSize' = exSize, NEW c \in ExConns,
           NEW p \in {"idle", "get", "init", "got", "lock"},
           \/ ExGo(t, c, p)
           \/ ExReturn(t) /\ p = "idle" /\ c = <<0, 0>>
           \/ ExGoto(t, p) /\ c = exAt[t] /\ UNCHANGED <<exKind, exAt, exBuf>>,
           exPc[t] \notin ExLocked,
           UNCHANGED <<exBack, exLoad, exShared, exHist>>
    PROVE  ExInv'
<1>1. ExThreadTypes /\ ExSharedTypes /\ ExHistTypes /\ exSize \in ExSizes
  BY ExParted
<1>2. ExConns' = ExConns /\ ExIp' = ExIp
  BY ExPlacesKept DEF ExInv
<1>3. /\ exConn' = exConn /\ exFlag' = exFlag /\ exFails' = exFails
      /\ exRecent' = exRecent /\ exLeft' = exLeft /\ exForeign' = exForeign
      /\ exBack' = exBack /\ exLoad' = exLoad
  BY DEF exShared, exHist
<1>4. /\ exPc'[t] = p /\ exAt'[t] = c
      /\ exBuf'[t] = exBuf[t] \/ exBuf'[t] = <<>>
      /\ ExOthersStay(t)
      /\ exPc' \in [ExThreads -> {"idle", "get", "init", "got", "lock"}
                                   \cup ExLocked]
      /\ exKind' \in [ExThreads -> ExKinds]
      /\ exAt' \in [ExThreads -> ExConns]
      /\ exBuf' \in [ExThreads -> Seq(ExParts)]
      /\ \A u \in ExThreads : Len(exBuf'[u]) < ExRoom
  BY ExGone
<1>5. exPc'[t] \notin ExLocked
  BY <1>4 DEF ExLocked, ExUsing
<1>6. ExLocks' /\ ExClean'
  BY <1>3, <1>4, <1>5, ExOutside
<1>7. ExThreadTypes'
  BY <1>1, <1>2, <1>3, <1>4 DEF ExThreadTypes
<1>8. ExSharedTypes' /\ ExHistTypes'
  BY <1>1, <1>2, <1>3 DEF ExSharedTypes, ExHistTypes
<1> QED BY <1>1, <1>6, <1>7, <1>8, ExTypesPartsNext DEF ExInv

(* A step of a thread that has its connection to itself.                   *)
LEMMA ExInsideInv ==
    ASSUME ExInv, NEW t \in ExThreads, exSize' = exSize, NEW c \in ExConns,
           NEW p \in {"idle", "get", "init", "got", "lock"} \cup ExLocked,
           NEW d \in ExConns,
           \/ ExGo(t, d, p)
           \/ ExReturn(t) /\ p = "idle" /\ d = <<0, 0>>
           \/ ExGoto(t, p) /\ d = exAt[t] /\ UNCHANGED <<exKind, exAt, exBuf>>
           \/ ExUse(t, c) /\ exPc' = [exPc EXCEPT ![t] = p] /\ d = exAt[t],
           ExHolds(t, c) \/ (exPc[t] \notin ExLocked /\ ExLockFree(c)),
           \A b \in ExConns \ {c} :
             exConn'[b] = exConn[b] /\ exFlag'[b] = exFlag[b],
           p \in ExLocked => d = c,
           p \in ExUsing => exConn'[c].state \in {"open", "closed"},
           p \notin ExLocked =>
             exConn'[c].state # "connecting" /\ exFlag'[c] # 1,
           exLeft => exLeft', ~exForeign',
           ~exLeft' => /\ ExOwnOnly(exConn'[c].in)
                       /\ exConn'[c].in # <<>> => d = c /\ p \in ExAwaits,
           exBack' \in [ExThreads -> {"idle", "got", "connect"}],
           exLoad' \in [ExThreads -> 0 .. ExMaxFails + 1],
           ExSharedTypes', ExHistTypes'
    PROVE  ExInv'
<1>1. ExThreadTypes /\ ExSharedTypes /\ ExHistTypes /\ exSize \in ExSizes
  BY ExParted
<1>2. ExConns' = ExConns /\ ExIp' = ExIp
  BY ExPlacesKept DEF ExInv
<1>3. /\ exPc'[t] = p /\ exAt'[t] = d
      /\ exBuf'[t] = exBuf[t] \/ exBuf'[t] = <<>>
      /\ ExOthersStay(t)
      /\ exPc' \in [ExThreads -> {"idle", "get", "init", "got", "lock"}
                                   \cup ExLocked]
      /\ exKind' \in [ExThreads -> ExKinds]
      /\ exAt' \in [ExThreads -> ExConns]
      /\ exBuf' \in [ExThreads -> Seq(ExParts)]
      /\ \A u \in ExThreads : Len(exBuf'[u]) < ExRoom
  <2>1. CASE ~ (ExUse(t, c) /\ exPc' = [exPc EXCEPT ![t] = p] /\ d = exAt[t])
    BY <2>1, ExGone
  <2>2. CASE ExUse(t, c) /\ exPc' = [exPc EXCEPT ![t] = p] /\ d = exAt[t]
    <3>1. exAt' = exAt /\ exBuf' = exBuf
      BY <2>2 DEF ExUse
    <3>2. exKind' \in [ExThreads -> ExKinds]
      BY <1>1, <2>2 DEF ExUse, ExThreadTypes
    <3>3. exPc' = [exPc EXCEPT ![t] = p] /\ d = exAt[t]
      BY <2>2
    <3> QED BY ONLY <1>1, <3>1, <3>2, <3>3, exSize' = exSize, t \in ExThreads,
               p \in {"idle", "get", "init", "got", "lock"} \cup ExLocked
            DEF ExThreadTypes, ExOthersStay
  <2> QED BY <2>1, <2>2
<1>4. ~exLeft' => ExOwnOnly(exBuf'[t])
  BY <1>3 DEF ExInv, ExClean, ExOwnOnly
<1>5. ExLocks' /\ ExClean'
  BY <1>3, <1>4, ExInside
<1>6. ExThreadTypes'
  BY <1>1, <1>2, <1>3 DEF ExThreadTypes
<1> QED BY <1>1, <1>5, <1>6, ExTypesPartsNext DEF ExInv

(* A call begins.                                                          *)
LEMMA ExCallInv ==
    ASSUME ExInv, NEW t \in ExThreads, ExCall(t), exSize' = exSize
    PROVE  ExInv'
<1>1. PICK ip \in ExIp : \E i \in ExChoice(ip) : ExGo(t, <<ip, i>>, "get")
  BY DEF ExCall
<1>2. PICK i \in ExChoice(ip) : ExGo(t, <<ip, i>>, "get")
  BY <1>1
<1>3. <<ip, i>> \in ExConns
  BY DEF ExChoice, ExConns
<1>4. exPc[t] \notin ExLocked
  BY DEF ExCall, ExLocked, ExUsing
<1> QED BY <1>2, <1>3, <1>4, ExOutsideInv DEF ExCall

(* get_conn                                                                *)
LEMMA ExGetConnInv ==
    ASSUME ExInv, NEW t \in ExThreads, ExGetConn(t), exSize' = exSize
    PROVE  ExInv'
<1> DEFINE c == exAt[t]
           next == <<(c[1] + 1) % ExIps, c[2]>>
<1>1. /\ c \in ExConns /\ c[1] \in Nat /\ c[2] \in ExIndex
      /\ <<0, 0>> \in ExConns /\ ExIps \in Nat \ {0}
  BY ExAtTypes, ExPlacesKept DEF ExInv
<1>2. next \in ExConns
  <2>1. (c[1] + 1) % ExIps \in 0 .. ExIps - 1
    BY <1>1
  <2> QED BY <1>1, <2>1 DEF ExConns, ExIp
<1>3. /\ exPc[t] = "get" /\ UNCHANGED <<exBack, exLoad, exShared, exHist>>
      /\ \/ ExReturn(t) \/ ExGo(t, next, "lock")
         \/ ExGo(t, c, "init") \/ ExGo(t, c, "lock")
  BY DEF ExGetConn
<1>4. exPc[t] \notin ExLocked
  BY <1>3 DEF ExLocked, ExUsing
<1> HIDE DEF next
<1> QED BY <1>1, <1>2, <1>3, <1>4, ExOutsideInv

(* get_conn's last line                                                    *)
LEMMA ExGotInv ==
    ASSUME ExInv, NEW t \in ExThreads, ExGot(t), exSize' = exSize
    PROVE  ExInv'
<1>1. exAt[t] \in ExConns /\ <<0, 0>> \in ExConns
  BY ExAtTypes, ExPlacesKept DEF ExInv
<1>2. exPc[t] \notin ExLocked
  BY DEF ExGot, ExLocked, ExUsing
<1> QED BY <1>1, <1>2, ExOutsideInv DEF ExGot

(* A connection is given a new state.                                      *)
ExConnTypes == [state : ExStates, in : Seq(ExParts)]

LEMMA ExShares ==
    ASSUME ExInv, exSize' = exSize, NEW c \in ExConns,
           NEW conn \in ExConnTypes, Len(conn.in) <= ExMaxParts,
           exConn' = [exConn EXCEPT ![c] = conn],
           NEW n \in {0, 1},
           exFlag' = [exFlag EXCEPT ![c] = n] \/ exFlag' = exFlag,
           exFails' \in [ExIp -> 0 .. ExMaxFails + 1],
           exRecent' \in [ExIp -> BOOLEAN]
    PROVE  /\ ExSharedTypes' /\ exConn'[c] = conn
           /\ exFlag'[c] = n \/ exFlag' = exFlag
           /\ \A b \in ExConns \ {c} :
                exConn'[b] = exConn[b] /\ exFlag'[b] = exFlag[b]
<1>1. ExSharedTypes
  BY ExParted
<1>2. ExConns' = ExConns /\ ExIp' = ExIp
  BY ExPlacesKept DEF ExInv
<1>3. exConn \in [ExConns -> ExConnTypes] /\ exFlag \in [ExConns -> {0, 1}]
  BY <1>1 DEF ExSharedTypes, ExConnTypes
<1>4. /\ exConn' \in [ExConns -> ExConnTypes] /\ exConn'[c] = conn
      /\ \A b \in ExConns \ {c} : exConn'[b] = exConn[b]
  BY <1>3
<1>5. /\ exFlag' \in [ExConns -> {0, 1}]
      /\ \A b \in ExConns \ {c} : exFlag'[b] = exFlag[b]
      /\ exFlag'[c] = n \/ exFlag' = exFlag
  BY <1>3
<1>6. \A b \in ExConns : Len(exConn'[b].in) <= ExMaxParts
  <2> SUFFICES ASSUME NEW b \in ExConns PROVE Len(exConn'[b].in) <= ExMaxParts
    OBVIOUS
  <2>1. CASE b = c
    BY <1>4, <2>1
  <2>2. CASE b # c
    BY <1>1, <1>4, <2>2 DEF ExSharedTypes
  <2> QED BY <2>1, <2>2
<1> QED BY <1>2, <1>4, <1>5, <1>6 DEF ExSharedTypes, ExConnTypes

LEMMA ExNew ==
    /\ ExNull \in ExConnTypes /\ ExNull.state = "null" /\ ExNull.in = <<>>
    /\ ExFresh \in ExConnTypes /\ ExFresh.state = "connecting"
    /\ ExFresh.in = <<>>
    /\ ExOpen \in ExConnTypes /\ ExOpen.state = "open" /\ ExOpen.in = <<>>
    /\ Len(<<>>) <= ExMaxParts /\ ExOwnOnly(<<>>)
<1>1. <<>> \in Seq(ExParts) /\ Len(<<>>) = 0 /\ ExOwnOnly(<<>>)
  BY DEF ExOwnOnly
<1>2. 0 <= ExMaxParts
  BY PlatConnMgrExAssumption
<1>3. /\ ExNull \in ExConnTypes /\ ExNull.state = "null" /\ ExNull.in = <<>>
      /\ ExFresh \in ExConnTypes /\ ExFresh.state = "connecting"
      /\ ExFresh.in = <<>>
      /\ ExOpen \in ExConnTypes /\ ExOpen.state = "open" /\ ExOpen.in = <<>>
  BY <1>1 DEF ExNull, ExFresh, ExOpen, ExConnTypes, ExStates
<1> QED BY <1>1, <1>2, <1>3

(* init_conn                                                               *)
LEMMA ExInitConnInv ==
    ASSUME ExInv, NEW t \in ExThreads, ExInitConn(t), exSize' = exSize
    PROVE  ExInv'
<1> DEFINE c == exAt[t]
<1>1. /\ c \in ExConns /\ ExThreadTypes /\ ExSharedTypes /\ ExHistTypes
      /\ exPc[t] \notin ExLocked
  BY ExAtTypes, ExParted DEF ExInitConn, ExLocked, ExUsing
<1>2. CASE exConn[c].state = "null"
  <2>1. /\ exConn' = [exConn EXCEPT ![c] = ExFresh] /\ ExGoto(t, "connect")
        /\ exBack' = [exBack EXCEPT ![t] = "got"]
        /\ exFlag' = exFlag /\ exFails' = exFails /\ exRecent' = exRecent
        /\ exLoad' = exLoad /\ exLeft' = exLeft /\ exForeign' = exForeign
        /\ UNCHANGED <<exKind, exAt, exBuf>> /\ ExLockFree(c)
    BY <1>2 DEF ExInitConn, exHist
  <2>2. /\ ExSharedTypes' /\ exConn'[c] = ExFresh
        /\ \A b \in ExConns \ {c} :
             exConn'[b] = exConn[b] /\ exFlag'[b] = exFlag[b]
    BY <1>1, <2>1, ExNew, ExShares DEF ExSharedTypes
  <2>3. /\ exBack' \in [ExThreads -> {"idle", "got", "connect"}]
        /\ exLoad' \in [ExThreads -> 0 .. ExMaxFails + 1]
        /\ ExHistTypes' /\ ~exForeign'
    BY <1>1, <2>1 DEF ExThreadTypes, ExHistTypes, ExInv, ExClean
  <2>4. "connect" \in ExLocked /\ "connect" \notin ExUsing
    BY DEF ExLocked, ExUsing
  <2> HIDE DEF c
  <2> QED BY <1>1, <2>1, <2>2, <2>3, <2>4, ExNew, ExInsideInv DEF c
<1>3. CASE exConn[c].state # "null"
  <2>1. ExGoto(t, "got") /\ UNCHANGED <<exKind, exAt, exBuf>>
        /\ UNCHANGED <<exBack, exLoad, exShared, exHist>>
    BY <1>3 DEF ExInitConn, exShared
  <2> QED BY <1>1, <2>1, ExOutsideInv
<1> QED BY <1>2, <1>3

(* The connection is made.                                                 *)
LEMMA ExConnectedInv ==
    ASSUME ExInv, NEW t \in ExThreads, ExConnected(t), exSize' = exSize
    PROVE  ExInv'
<1> DEFINE c == exAt[t]
<1>1. /\ c \in ExConns /\ ExThreadTypes /\ ExSharedTypes /\ ExHistTypes
      /\ ExHolds(t, c) /\ c[1] \in ExIp
  BY ExAtTypes, ExParted DEF ExConnected, ExLocked, ExUsing, ExHolds
<1>2. /\ exConn' = [exConn EXCEPT ![c] = ExOpen]
      /\ exFails' = [exFails EXCEPT ![c[1]] = 0] /\ exRecent' = exRecent
      /\ exFlag' = [exFlag EXCEPT ![c] = 0]
      /\ exBack' = [exBack EXCEPT ![t] = "idle"]
      /\ exLoad' = exLoad /\ exLeft' = exLeft /\ exForeign' = exForeign
      /\ UNCHANGED <<exKind, exAt, exBuf>>
      /\ ExGoto(t, "got") \/ ExGoto(t, "send")
  BY DEF ExConnected, exHist
<1>3. exFails' \in [ExIp -> 0 .. ExMaxFails + 1]
  BY <1>1, <1>2, PlatConnMgrExAssumption DEF ExSharedTypes
<1>4. /\ ExSharedTypes' /\ exConn'[c] = ExOpen
      /\ \A b \in ExConns \ {c} :
           exConn'[b] = exConn[b] /\ exFlag'[b] = exFlag[b]
  BY <1>1, <1>2, <1>3, ExNew, ExShares DEF ExSharedTypes
<1>5. exFlag'[c] = 0
  BY <1>1, <1>2 DEF ExSharedTypes
<1>6. /\ exBack' \in [ExThreads -> {"idle", "got", "connect"}]
      /\ exLoad' \in [ExThreads -> 0 .. ExMaxFails + 1]
      /\ ExHistTypes' /\ ~exForeign'
  BY <1>1, <1>2 DEF ExThreadTypes, ExHistTypes, ExInv, ExClean
<1>7. "send" \in ExLocked
  BY DEF ExLocked, ExUsing
<1>8. /\ exConn'[c].state = "open" /\ exConn'[c].in = <<>>
      /\ ExOwnOnly(exConn'[c].in) /\ exFlag'[c] # 1
      /\ exLeft => exLeft'
      /\ c = exAt[t]
  BY <1>2, <1>4, <1>5, ExNew
<1>9. ASSUME NEW p \in {"got", "send"}, ExGoto(t, p) PROVE ExInv'
  <2>1. p \in {"idle", "get", "init", "got", "lock"} \cup ExLocked
    BY <1>7
  <2>2. ExGoto(t, p) /\ c = exAt[t] /\ UNCHANGED <<exKind, exAt, exBuf>>
    BY <1>2, <1>9
  <2>3. /\ p \in ExUsing => exConn'[c].state \in {"open", "closed"}
        /\ p \notin ExLocked => exConn'[c].state # "connecting" /\ exFlag'[c] # 1
        /\ ~exLeft' => /\ ExOwnOnly(exConn'[c].in)
                       /\ exConn'[c].in # <<>> => c = c /\ p \in ExAwaits
        /\ exLoad' \in [ExThreads -> 0 .. ExMaxFails + 1]
    BY <1>6, <1>8
  <2> HIDE DEF c
  <2> QED BY <1>1, <1>4, <1>6, <1>8, <2>1, <2>2, <2>3, ExInsideInv
<1> QED BY <1>2, <1>9

(* A thread that only goes on, with the lock of its connection.            *)
LEMMA ExStayInside ==
    ASSUME ExInv, NEW t \in ExThreads, exSize' = exSize,
           NEW p \in ExLocked, ExGoto(t, p), UNCHANGED <<exKind, exAt, exBuf>>,
           exPc[t] \in ExLocked,
           p \in ExUsing => exPc[t] \in ExUsing,
           exPc[t] \in ExAwaits => p \in ExAwaits,
           exBack' \in [ExThreads -> {"idle", "got", "connect"}],
           exLoad' \in [ExThreads -> 0 .. ExMaxFails + 1],
           UNCHANGED <<exShared, exHist>>
    PROVE  ExInv'
<1> DEFINE c == exAt[t]
<1>1. /\ c \in ExConns /\ ExThreadTypes /\ ExSharedTypes /\ ExHistTypes
      /\ ExHolds(t, c)
  BY ExAtTypes, ExParted DEF ExHolds
<1>2. /\ exConn' = exConn /\ exFlag' = exFlag /\ exFails' = exFails
      /\ exRecent' = exRecent /\ exLeft' = exLeft /\ exForeign' = exForeign
  BY DEF exShared, exHist
<1>3. ExConns' = ExConns /\ ExIp' = ExIp
  BY ExPlacesKept DEF ExInv
<1>4. ExSharedTypes' /\ ExHistTypes'
  BY <1>1, <1>2, <1>3 DEF ExSharedTypes, ExHistTypes
<1>5. p \in ExUsing => exConn'[c].state \in {"open", "closed"}
  BY <1>2 DEF ExInv, ExLocks
<1>6. ~exForeign'
  BY <1>2 DEF ExInv, ExClean
<1>7. ASSUME ~exLeft'
      PROVE  ExOwnOnly(exConn'[c].in)
             /\ (exConn'[c].in # <<>> => p \in ExAwaits)
  <2>1. ASSUME exConn[c].in # <<>>
        PROVE  p \in ExAwaits
    <3>1. PICK u \in ExThreads : exAt[u] = c /\ exPc[u] \in ExAwaits
      BY <1>1, <1>2, <1>7, <2>1 DEF ExInv, ExClean
    <3>2. u = t
      BY <1>1, <3>1 DEF ExInv, ExLocks, ExHolds, ExAwaits, ExLocked, ExUsing
    <3> QED BY <3>1, <3>2
  <2> QED BY <1>1, <1>2, <1>7, <2>1 DEF ExInv, ExClean
<1> HIDE DEF c
<1> QED BY <1>1, <1>2, <1>4, <1>5, <1>6, <1>7, ExInsideInv DEF c

(* A connection that is refused.                                           *)
LEMMA ExRefusedInv ==
    ASSUME ExInv, NEW t \in ExThreads, ExRefused(t), exSize' = exSize
    PROVE  ExInv'
<1>1. /\ exPc[t] = "connect" /\ ExGoto(t, "fini") /\ exLoad' = exLoad
      /\ UNCHANGED <<exKind, exAt, exBuf>> /\ UNCHANGED <<exShared, exHist>>
  BY DEF ExRefused
<1>2. /\ exBack' \in [ExThreads -> {"idle", "got", "connect"}]
      /\ exLoad' \in [ExThreads -> 0 .. ExMaxFails + 1]
  BY <1>1, ExParted DEF ExRefused, ExThreadTypes
<1> QED BY <1>1, <1>2, ExStayInside DEF ExLocked, ExUsing, ExAwaits

(* A call that fails goes on to fini, with its connection as it is.        *)
LEMMA ExGiveUpInv ==
    ASSUME ExInv, NEW t \in ExThreads, ExGiveUp(t), exSize' = exSize,
           exPc[t] \in ExUsing
    PROVE  ExInv'
<1>1. /\ ExGoto(t, "fini") /\ exLoad' = exLoad
      /\ UNCHANGED <<exKind, exAt, exBuf>> /\ UNCHANGED <<exShared, exHist>>
  BY DEF ExGiveUp
<1>2. /\ exBack' \in [ExThreads -> {"idle", "got", "connect"}]
      /\ exLoad' \in [ExThreads -> 0 .. ExMaxFails + 1]
  BY <1>1, ExParted DEF ExGiveUp, ExThreadTypes
<1> QED BY <1>1, <1>2, ExStayInside DEF ExLocked, ExUsing, ExAwaits

LEMMA ExRecvFailsInv ==
    ASSUME ExInv, NEW t \in ExThreads, ExRecvFails(t), exSize' = exSize
    PROVE  ExInv'
BY ExGiveUpInv DEF ExRecvFails, ExUsing

(* fini, the load                                                          *)
LEMMA ExFiniInv ==
    ASSUME ExInv, NEW t \in ExThreads, ExFini(t), exSize' = exSize
    PROVE  ExInv'
<1>1. /\ exPc[t] = "fini" /\ ExGoto(t, "close") /\ exBack' = exBack
      /\ UNCHANGED <<exKind, exAt, exBuf>> /\ UNCHANGED <<exShared, exHist>>
  BY DEF ExFini
<1>2. exFails[exAt[t][1]] \in 0 .. ExMaxFails + 1
  BY ExAtTypes, ExParted DEF ExSharedTypes
<1>3. /\ exBack' \in [ExThreads -> {"idle", "got", "connect"}]
      /\ exLoad' \in [ExThreads -> 0 .. ExMaxFails + 1]
  BY <1>1, <1>2, ExParted DEF ExFini, ExThreadTypes
<1> QED BY <1>1, <1>3, ExStayInside DEF ExLocked, ExUsing, ExAwaits

(* While no call has left anything behind, what there is on a connection   *)
(* is for the thread that has it, if any.                                  *)
LEMMA ExOnlyMine ==
    ASSUME ExInv, NEW c \in ExConns, ~exLeft, exConn[c].in # <<>>
    PROVE  \E u \in ExThreads : ExHolds(u, c) /\ exPc[u] \in ExAwaits
BY DEF ExInv, ExClean, ExHolds, ExAwaits, ExLocked, ExUsing

LEMMA ExHolderAwaits ==
    ASSUME ExInv, NEW t \in ExThreads, NEW c \in ExConns, ExHolds(t, c),
           ~exLeft, exConn[c].in # <<>>
    PROVE  exPc[t] \in ExAwaits
BY ExOnlyMine DEF ExInv, ExLocks, ExHolds

(* The caller takes the lock.                                              *)
LEMMA ExLockInv ==
    ASSUME ExInv, NEW t \in ExThreads, ExLock(t), exSize' = exSize
    PROVE  ExInv'
<1> DEFINE c == exAt[t]
<1>1. /\ c \in ExConns /\ <<0, 0>> \in ExConns
      /\ ExThreadTypes /\ ExSharedTypes /\ ExHistTypes
  BY ExAtTypes, ExParted, ExPlacesKept DEF ExInv
<1>2. /\ exPc[t] = "lock" /\ exPc[t] \notin ExLocked /\ ExLockFree(c)
      /\ exConn' = exConn /\ exBack' = exBack /\ exLoad' = exLoad
      /\ exFails' = exFails /\ exRecent' = exRecent
      /\ exLeft' = exLeft /\ exForeign' = exForeign
  BY DEF ExLock, ExLocked, ExUsing, exHist
<1>3. ExConns' = ExConns /\ ExIp' = ExIp
  BY ExPlacesKept DEF ExInv
<1>4. CASE exConn[c].state = "null"
  <2>1. ExReturn(t) /\ exFlag' = exFlag
    BY <1>4 DEF ExLock
  <2>2. UNCHANGED <<exBack, exLoad, exShared, exHist>>
    BY <1>2, <2>1 DEF exShared, exHist
  <2> QED BY <1>1, <1>2, <2>1, <2>2, ExOutsideInv
<1>5. CASE exConn[c].state # "null"
  <2>1. ExUse(t, c)
    BY <1>5 DEF ExLock
  <2>2. PICK p \in ExUsing : exPc' = [exPc EXCEPT ![t] = p]
    BY <2>1 DEF ExUse, ExGoto, ExUsing, ExKinds
  <2>3. p \in ExLocked
    BY DEF ExLocked
  <2>4. exConn'[c].state \in {"open", "closed"}
    BY <1>1, <1>2, <1>5 DEF ExInv, ExLocks, ExLockFree, ExSharedTypes, ExStates
  <2>5. /\ exFlag' \in [ExConns -> {0, 1}]
        /\ \A b \in ExConns \ {c} : exFlag'[b] = exFlag[b]
    BY <1>1, <2>1 DEF ExUse, ExSharedTypes
  <2>6. ExSharedTypes' /\ ExHistTypes'
    BY <1>1, <1>2, <1>3, <2>5 DEF ExSharedTypes, ExHistTypes
  <2>7. ~exLeft' => exConn'[c].in = <<>> /\ ExOwnOnly(exConn'[c].in)
    BY <1>1, <1>2, ExOnlyMine, ExNew DEF ExLockFree
  <2>8. /\ exBack' \in [ExThreads -> {"idle", "got", "connect"}]
        /\ exLoad' \in [ExThreads -> 0 .. ExMaxFails + 1]
        /\ ~exForeign'
    BY <1>1, <1>2 DEF ExThreadTypes, ExInv, ExClean
  <2>9. /\ exLeft => exLeft'
        /\ \A b \in ExConns \ {c} : exConn'[b] = exConn[b]
    BY <1>2
  <2>10. /\ p \in {"idle", "get", "init", "got", "lock"} \cup ExLocked
         /\ ExUse(t, c) /\ exPc' = [exPc EXCEPT ![t] = p] /\ c = exAt[t]
         /\ p \in ExLocked => c = c
         /\ p \notin ExLocked =>
              exConn'[c].state # "connecting" /\ exFlag'[c] # 1
         /\ ~exLeft' => /\ ExOwnOnly(exConn'[c].in)
                        /\ exConn'[c].in # <<>> => c = c /\ p \in ExAwaits
         /\ \A b \in ExConns \ {c} :
              exConn'[b] = exConn[b] /\ exFlag'[b] = exFlag[b]
    BY <2>1, <2>2, <2>3, <2>5, <2>7, <2>9
  <2> HIDE DEF c
  <2> QED BY <1>1, <1>2, <2>4, <2>6, <2>8, <2>9, <2>10, ExInsideInv
<1> QED BY <1>4, <1>5

(* A call that uses its connection changes what there is on it.            *)
LEMMA ExChangesIn ==
    ASSUME ExInv, NEW t \in ExThreads, exSize' = exSize,
           exPc[t] \in ExUsing, NEW p \in ExUsing, ExGoto(t, p),
           UNCHANGED <<exKind, exAt, exBuf>>,
           NEW conn \in ExConnTypes, Len(conn.in) <= ExMaxParts,
           conn.state = exConn[exAt[t]].state,
           exConn' = [exConn EXCEPT ![exAt[t]] = conn],
           ~exLeft => ExOwnOnly(conn.in) /\ (conn.in # <<>> => p \in ExAwaits),
           exBack' = exBack, exLoad' = exLoad, exFlag' = exFlag,
           exFails' = exFails, exRecent' = exRecent, UNCHANGED exHist
    PROVE  ExInv'
<1> DEFINE c == exAt[t]
<1>1. /\ c \in ExConns /\ ExThreadTypes /\ ExSharedTypes /\ ExHistTypes
      /\ ExHolds(t, c)
  BY ExAtTypes, ExParted DEF ExHolds, ExLocked
<1>2. exConn[c] \in ExConnTypes /\ exConn[c].state \in {"open", "closed"}
  BY <1>1 DEF ExSharedTypes, ExConnTypes, ExInv, ExLocks
<1>3. conn.state = exConn[c].state /\ exConn' = [exConn EXCEPT ![c] = conn]
  OBVIOUS
<1>4. /\ exFails' \in [ExIp -> 0 .. ExMaxFails + 1]
      /\ exRecent' \in [ExIp -> BOOLEAN]
  BY <1>1 DEF ExSharedTypes
<1>5. /\ ExSharedTypes' /\ exConn'[c] = conn
      /\ \A b \in ExConns \ {c} :
           exConn'[b] = exConn[b] /\ exFlag'[b] = exFlag[b]
  BY <1>1, <1>3, <1>4, ExShares
<1>6. /\ exLeft' = exLeft /\ exForeign' = exForeign
      /\ ExHistTypes' /\ ~exForeign'
      /\ exBack' \in [ExThreads -> {"idle", "got", "connect"}]
      /\ exLoad' \in [ExThreads -> 0 .. ExMaxFails + 1]
  BY <1>1 DEF ExThreadTypes, ExHistTypes, exHist, ExInv, ExClean
<1>7. /\ exConn'[c].state \in {"open", "closed"}
      /\ exLeft => exLeft'
      /\ ~exLeft' => /\ ExOwnOnly(exConn'[c].in)
                     /\ exConn'[c].in # <<>> => c = c /\ p \in ExAwaits
      /\ c = exAt[t] /\ p \in ExLocked
  BY <1>2, <1>3, <1>5, <1>6 DEF ExLocked
<1>8. /\ p \in {"idle", "get", "init", "got", "lock"} \cup ExLocked
      /\ ExGoto(t, p) /\ c = exAt[t] /\ UNCHANGED <<exKind, exAt, exBuf>>
      /\ p \notin ExLocked =>
           exConn'[c].state # "connecting" /\ exFlag'[c] # 1
  BY <1>7
<1> HIDE DEF c
<1> QED BY <1>1, <1>5, <1>6, <1>7, <1>8, ExInsideInv

(* A call ends well.                                                       *)
LEMMA ExDoneInv ==
    ASSUME ExInv, NEW t \in ExThreads, exSize' = exSize,
           exPc[t] \in ExUsing,
           NEW conn \in ExConnTypes, Len(conn.in) <= ExMaxParts,
           conn.state # "connecting", ExDone(t, conn),
           exForeign' \in BOOLEAN, ~exForeign'
    PROVE  ExInv'
<1> DEFINE c == exAt[t]
           new == [conn EXCEPT !.in = ExAged(conn.in)]
<1>1. /\ c \in ExConns /\ ExThreadTypes /\ ExSharedTypes /\ ExHistTypes
      /\ ExHolds(t, c) /\ <<0, 0>> \in ExConns
  BY ExAtTypes, ExParted, ExPlacesKept DEF ExHolds, ExLocked, ExInv
<1>2. /\ ExAged(conn.in) \in Seq(ExParts)
      /\ Len(ExAged(conn.in)) = Len(conn.in)
      /\ conn.in = <<>> => ExAged(conn.in) = <<>>
  BY ExAgedParts DEF ExConnTypes
<1>3. /\ new \in ExConnTypes /\ new.in = ExAged(conn.in)
      /\ new.state = conn.state /\ Len(new.in) <= ExMaxParts
  BY <1>2 DEF ExConnTypes
<1>4. /\ exConn' = [exConn EXCEPT ![c] = new]
      /\ exLeft' = (exLeft \/ conn.in # <<>>)
      /\ exFlag' = [exFlag EXCEPT ![c] = 0] /\ ExReturn(t)
      /\ exBack' = exBack /\ exLoad' = exLoad /\ exFails' = exFails
      /\ exRecent' = exRecent
  BY DEF ExDone, ExUnflag
<1> HIDE DEF new
<1>5. /\ exFails' \in [ExIp -> 0 .. ExMaxFails + 1]
      /\ exRecent' \in [ExIp -> BOOLEAN]
      /\ exBack' \in [ExThreads -> {"idle", "got", "connect"}]
      /\ exLoad' \in [ExThreads -> 0 .. ExMaxFails + 1]
      /\ exFlag'[c] = 0
  BY <1>1, <1>4 DEF ExSharedTypes, ExThreadTypes
<1>6. /\ ExSharedTypes' /\ exConn'[c] = new
      /\ \A b \in ExConns \ {c} :
           exConn'[b] = exConn[b] /\ exFlag'[b] = exFlag[b]
  BY <1>1, <1>2, <1>3, <1>4, <1>5, ExShares
<1>7. ExHistTypes'
  BY <1>1, <1>4 DEF ExHistTypes
<1>8. /\ exConn'[c].state # "connecting" /\ exFlag'[c] # 1
      /\ exLeft => exLeft'
      /\ ~exLeft' => ExOwnOnly(exConn'[c].in) /\ exConn'[c].in = <<>>
  <2>1. (exLeft => exLeft') /\ (~exLeft' => conn.in = <<>>)
    BY <1>4, Zenon
  <2> QED BY <1>2, <1>3, <1>5, <1>6, <2>1, ExNew
<1>9. "idle" \notin ExLocked /\ "idle" \notin ExUsing
  BY DEF ExLocked, ExUsing
<1> HIDE DEF c
<1> QED BY <1>1, <1>4, <1>5, <1>6, <1>7, <1>8, <1>9, ExInsideInv

(* A read takes some of the parts there are.                               *)
LEMMA ExReads ==
    ASSUME ExInv, NEW c \in ExConns, NEW room \in Nat,
           NEW n \in ExReadable(c, room)
    PROVE  /\ n \in 0 .. Len(exConn[c].in) /\ n <= room
           /\ exConn[c].in # <<>>
           /\ [exConn[c] EXCEPT !.in = SubSeq(@, n + 1, Len(@))] \in ExConnTypes
           /\ SubSeq(exConn[c].in, n + 1, Len(exConn[c].in)) \in Seq(ExParts)
           /\ Len(SubSeq(exConn[c].in, n + 1, Len(exConn[c].in))) <= ExMaxParts
           /\ ExOwnOnly(exConn[c].in) =>
                ExOwnOnly(SubSeq(exConn[c].in, n + 1, Len(exConn[c].in)))
           /\ ExConsume(c, n) =>
                exConn' = [exConn EXCEPT ![c] =
                  [exConn[c] EXCEPT !.in = SubSeq(@, n + 1, Len(@))]]
<1>1. /\ exConn[c].in \in Seq(ExParts) /\ exConn[c] \in ExConnTypes
      /\ Len(exConn[c].in) <= ExMaxParts /\ Len(exConn[c].in) \in Nat
      /\ exConn \in [ExConns -> ExConnTypes]
  BY ExParted DEF ExSharedTypes, ExConnTypes
<1>2. /\ n \in 1 .. Len(exConn[c].in) /\ n <= room
      /\ n \in 0 .. Len(exConn[c].in)
  BY <1>1 DEF ExReadable
<1>3. exConn[c].in # <<>>
  BY <1>1, <1>2
<1> DEFINE s == exConn[c].in
           r == SubSeq(s, n + 1, Len(s))
<1>4. /\ r \in Seq(ExParts) /\ Len(r) = Len(s) - n
      /\ ExOwnOnly(s) => ExOwnOnly(r)
  BY <1>1, <1>2, ExSuffix
<1>5. Len(r) <= ExMaxParts
  <2>1. ExMaxParts \in Nat
    BY PlatConnMgrExAssumption
  <2> HIDE DEF r
  <2> QED BY <1>1, <1>2, <1>4, <2>1
<1>6. [exConn[c] EXCEPT !.in = SubSeq(@, n + 1, Len(@))]
        = [exConn[c] EXCEPT !.in = r]
  BY <1>1 DEF ExConnTypes
<1>7. [exConn[c] EXCEPT !.in = r] \in ExConnTypes
  <2> HIDE DEF r
  <2> QED BY <1>1, <1>4 DEF ExConnTypes
<1>8. ExConsume(c, n) =>
        exConn' = [exConn EXCEPT ![c] =
                     [exConn[c] EXCEPT !.in = SubSeq(@, n + 1, Len(@))]]
  BY <1>1 DEF ExConsume
<1> QED BY <1>2, <1>3, <1>4, <1>5, <1>6, <1>7, <1>8

(* What was left behind is thrown away.                                    *)
LEMMA ExDrainInv ==
    ASSUME ExInv, NEW t \in ExThreads, ExDrain(t), exSize' = exSize
    PROVE  ExInv'
<1> DEFINE c == exAt[t]
<1>1. /\ exPc[t] = "drain" /\ exPc[t] \in ExUsing /\ "send" \in ExUsing
      /\ c \in ExConns /\ ExHolds(t, c) /\ ExRoom \in Nat
  BY ExAtTypes, PlatConnMgrExAssumption DEF ExDrain, ExUsing, ExHolds, ExLocked
<1>2. /\ UNCHANGED <<exKind, exAt, exBuf>> /\ exLoad' = exLoad
      /\ exFlag' = exFlag /\ exFails' = exFails /\ exRecent' = exRecent
      /\ UNCHANGED exHist
  BY DEF ExDrain
<1>3. exPc[t] \in ExLocked /\ "send" \in ExLocked /\ "fini" \in ExLocked
  BY <1>1 DEF ExLocked, ExUsing
<1>4. ASSUME NEW n \in ExReadable(c, ExRoom), ExConsume(c, n),
             ExGoto(t, "send"), exBack' = exBack
      PROVE  ExInv'
  <2> DEFINE conn == [exConn[c] EXCEPT !.in = SubSeq(@, n + 1, Len(@))]
  <2>1. /\ conn \in ExConnTypes /\ exConn[c].in # <<>>
        /\ exConn' = [exConn EXCEPT ![c] = conn]
        /\ Len(SubSeq(exConn[c].in, n + 1, Len(exConn[c].in))) <= ExMaxParts
    BY <1>1, <1>4, ExReads
  <2>2. /\ conn.in = SubSeq(exConn[c].in, n + 1, Len(exConn[c].in))
        /\ conn.state = exConn[c].state
    BY <1>1, ExParted DEF ExSharedTypes
  <2>3. exLeft
    BY <1>1, <2>1, ExHolderAwaits DEF ExAwaits
  <2> HIDE DEF conn
  <2> QED BY <1>1, <1>2, <1>4, <2>1, <2>2, <2>3, ExChangesIn
<1>5. ASSUME ExGoto(t, "send"), UNCHANGED <<exConn, exBack>> PROVE ExInv'
  <2>1. UNCHANGED <<exShared, exHist>>
    BY <1>2, <1>5 DEF exShared
  <2>2. /\ exBack' \in [ExThreads -> {"idle", "got", "connect"}]
        /\ exLoad' \in [ExThreads -> 0 .. ExMaxFails + 1]
        /\ exPc[t] \notin ExAwaits
    BY <1>1, <1>2, <1>5, ExParted DEF ExThreadTypes, ExAwaits
  <2> QED BY <1>1, <1>2, <1>3, <1>5, <2>1, <2>2, ExStayInside
<1>6. ASSUME exBack' = [exBack EXCEPT ![t] = "connect"], ExGoto(t, "fini"),
             UNCHANGED exConn
      PROVE  ExInv'
  <2>1. UNCHANGED <<exShared, exHist>>
    BY <1>2, <1>6 DEF exShared
  <2>2. /\ exBack' \in [ExThreads -> {"idle", "got", "connect"}]
        /\ exLoad' \in [ExThreads -> 0 .. ExMaxFails + 1]
        /\ "fini" \notin ExUsing /\ "fini" \in ExAwaits
    BY <1>1, <1>2, <1>6, ExParted DEF ExThreadTypes, ExUsing, ExAwaits
  <2> QED BY <1>1, <1>2, <1>3, <1>6, <2>1, <2>2, ExStayInside
<1> QED BY <1>4, <1>5, <1>6 DEF ExDrain

(* The request is sent.                                                    *)
LEMMA ExAnswerParts ==
    \A a \in ExAnswers : a \in Seq(ExParts) /\ ExOwnOnly(a)
<1>1. /\ <<"ownEnd">> \in Seq(ExParts) /\ <<"own", "ownEnd">> \in Seq(ExParts)
  BY DEF ExParts
<1>2. ExOwnOnly(<<"ownEnd">>) /\ ExOwnOnly(<<"own", "ownEnd">>)
  BY DEF ExOwnOnly
<1> QED BY <1>1, <1>2 DEF ExAnswers

LEMMA ExSendInv ==
    ASSUME ExInv, NEW t \in ExThreads, ExSend(t), exSize' = exSize
    PROVE  ExInv'
<1> DEFINE c == exAt[t]
           fits == {a \in ExAnswers : Len(exConn[c].in \o a) <= ExMaxParts}
           sent == {[exConn[c] EXCEPT !.in = @ \o a] : a \in fits}
<1>1. /\ exPc[t] = "send" /\ exPc[t] \in ExUsing /\ "recv" \in ExUsing
      /\ "recv" \in ExAwaits
      /\ c \in ExConns /\ ExHolds(t, c) /\ exConn[c] \in ExConnTypes
      /\ exConn[c].in \in Seq(ExParts) /\ Len(exConn[c].in) <= ExMaxParts
      /\ ExHistTypes
  BY ExAtTypes, ExParted
     DEF ExSend, ExUsing, ExAwaits, ExHolds, ExLocked, ExSharedTypes, ExConnTypes
<1>2. exConn[c].state \in {"open", "closed"}
  BY <1>1 DEF ExInv, ExLocks
<1>3. ~exLeft => exConn[c].in = <<>> /\ ExOwnOnly(exConn[c].in)
  BY <1>1, ExHolderAwaits, ExNew DEF ExAwaits
<1>4. CASE ExGiveUp(t)
  BY <1>1, <1>4, ExGiveUpInv
<1>5. ASSUME NEW conn \in sent \cup {exConn[c]},
             IF exKind[t] = "send"
               THEN ExDone(t, conn) /\ UNCHANGED exForeign
               ELSE /\ exConn' = [exConn EXCEPT ![c] = conn]
                    /\ ExGoto(t, "recv")
                    /\ UNCHANGED <<exKind, exAt, exBack, exLoad, exBuf,
                                   exFlag, exFails, exRecent, exHist>>
      PROVE  ExInv'
  <2>1. /\ conn \in ExConnTypes /\ conn.state = exConn[c].state
        /\ Len(conn.in) <= ExMaxParts /\ (~exLeft => ExOwnOnly(conn.in))
    <3>1. CASE conn = exConn[c]
      BY <1>1, <1>3, <3>1
    <3>2. CASE conn \in sent
      <4>1. PICK a \in fits : conn = [exConn[c] EXCEPT !.in = @ \o a]
        BY <3>2
      <4>2. /\ a \in Seq(ExParts) /\ ExOwnOnly(a)
            /\ Len(exConn[c].in \o a) <= ExMaxParts
        BY ExAnswerParts
      <4>3. /\ exConn[c].in \o a \in Seq(ExParts)
            /\ ~exLeft => ExOwnOnly(exConn[c].in \o a)
        BY <1>1, <1>3, <4>2, ExCat
      <4>4. conn.in = exConn[c].in \o a /\ conn.state = exConn[c].state
        BY <1>1, <4>1 DEF ExConnTypes
      <4>5. conn = [exConn[c] EXCEPT !.in = exConn[c].in \o a]
        BY <1>1, <4>1 DEF ExConnTypes
      <4> DEFINE r == exConn[c].in \o a
      <4>6. r \in Seq(ExParts) /\ conn = [exConn[c] EXCEPT !.in = r]
        BY <4>3, <4>5
      <4> HIDE DEF r
      <4>7. conn \in ExConnTypes
        BY <1>1, <4>6 DEF ExConnTypes
      <4> QED BY <4>2, <4>3, <4>4, <4>7
    <3> QED BY <3>1, <3>2
  <2>2. CASE exKind[t] = "send"
    <3>1. exForeign' = exForeign /\ ~exForeign' /\ exForeign' \in BOOLEAN
      BY <1>1, <1>5, <2>2 DEF ExInv, ExClean, ExHistTypes
    <3>2. conn.state # "connecting" /\ ExDone(t, conn)
      BY <1>2, <1>5, <2>1, <2>2
    <3> HIDE DEF sent
    <3> QED BY <1>1, <2>1, <3>1, <3>2, ExDoneInv
  <2>3. CASE exKind[t] # "send"
    <3>1. /\ exConn' = [exConn EXCEPT ![c] = conn] /\ ExGoto(t, "recv")
          /\ UNCHANGED <<exKind, exAt, exBuf>> /\ exBack' = exBack
          /\ exLoad' = exLoad /\ exFlag' = exFlag /\ exFails' = exFails
          /\ exRecent' = exRecent /\ UNCHANGED exHist
      BY <1>5, <2>3
    <3> HIDE DEF sent
    <3> QED BY <1>1, <2>1, <3>1, ExChangesIn
  <2> QED BY <2>2, <2>3
<1> QED BY <1>4, <1>5 DEF ExSend

(* Parts of the answer are received.                                       *)
LEMMA ExRecvInv ==
    ASSUME ExInv, NEW t \in ExThreads, ExRecv(t), exSize' = exSize
    PROVE  ExInv'
<1> DEFINE c == exAt[t]
           room == ExRoom - Len(exBuf[t])
<1>1. /\ exPc[t] = "recv" /\ exPc[t] \in ExUsing /\ exPc[t] \in ExLocked
      /\ exPc[t] \in ExAwaits
      /\ c \in ExConns /\ ExHolds(t, c) /\ exConn[c] \in ExConnTypes
      /\ exConn[c].in \in Seq(ExParts) /\ exBuf[t] \in Seq(ExParts)
      /\ ExThreadTypes /\ ExSharedTypes /\ ExHistTypes
  BY ExAtTypes, ExParted
     DEF ExRecv, ExUsing, ExAwaits, ExHolds, ExLocked, ExSharedTypes,
         ExThreadTypes, ExConnTypes
<1>2. /\ exConn[c].state \in {"open", "closed"}
      /\ ~exLeft => ExOwnOnly(exConn[c].in) /\ ExOwnOnly(exBuf[t])
      /\ ~exForeign
  BY <1>1 DEF ExInv, ExLocks, ExClean
<1>3. room \in Nat /\ Len(exBuf[t]) \in Nat
  <2>1. Len(exBuf[t]) < ExRoom /\ ExRoom \in Nat
    BY <1>1, PlatConnMgrExAssumption DEF ExThreadTypes
  <2> QED BY <1>1, <2>1
<1>4. PICK n \in ExReadable(c, room) :
        LET got == exBuf[t] \o SubSeq(exConn[c].in, 1, n)
            has == {got[i] : i \in DOMAIN got}
            conn == [exConn[c] EXCEPT !.in = SubSeq(@, n + 1, Len(@))]
        IN  IF /\ exKind[t] = "send_recv_ex"
               /\ has \cap {"ownEnd", "oldEnd"} = {}
               /\ Len(got) < ExRoom
              THEN /\ exBuf' = [exBuf EXCEPT ![t] = got]
                   /\ ExConsume(c, n)
                   /\ UNCHANGED <<exPc, exKind, exAt, exBack, exLoad,
                                  exFlag, exFails, exRecent, exHist>>
              ELSE /\ ExDone(t, conn)
                   /\ exForeign' = (exForeign \/
                        (/\ ~exLeft'
                         /\ exKind[t] # "recv"
                         /\ has \cap {"old", "oldEnd"} # {}))
  BY DEF ExRecv
<1> DEFINE rest == SubSeq(exConn[c].in, n + 1, Len(exConn[c].in))
           got == exBuf[t] \o SubSeq(exConn[c].in, 1, n)
           has == {got[i] : i \in DOMAIN got}
           conn == [exConn[c] EXCEPT !.in = SubSeq(@, n + 1, Len(@))]
<1>5. /\ n \in 0 .. Len(exConn[c].in) /\ conn \in ExConnTypes
      /\ Len(rest) <= ExMaxParts
      /\ ExOwnOnly(exConn[c].in) => ExOwnOnly(rest)
      /\ ExConsume(c, n) => exConn' = [exConn EXCEPT ![c] = conn]
  BY <1>1, <1>3, ExReads
<1>6. conn.in = rest /\ conn.state = exConn[c].state
  BY <1>1 DEF ExConnTypes
<1>7. /\ got \in Seq(ExParts)
      /\ ~exLeft => ExOwnOnly(got)
  BY <1>1, <1>2, <1>5, ExPrefix, ExCat
<1> HIDE DEF conn, rest, got
<1>8. CASE /\ exBuf' = [exBuf EXCEPT ![t] = got] /\ Len(got) < ExRoom
           /\ ExConsume(c, n)
           /\ UNCHANGED <<exPc, exKind, exAt, exBack, exLoad,
                          exFlag, exFails, exRecent, exHist>>
  <2>1. /\ exBuf' \in [ExThreads -> Seq(ExParts)] /\ exBuf'[t] = got
        /\ \A u \in ExThreads \ {t} : exBuf'[u] = exBuf[u]
    BY <1>1, <1>7, <1>8 DEF ExThreadTypes
  <2>2. \A u \in ExThreads : Len(exBuf'[u]) < ExRoom
    BY <1>1, <1>8, <2>1 DEF ExThreadTypes
  <2>3. /\ exPc' = exPc /\ exKind' = exKind /\ exAt' = exAt /\ exBack' = exBack
        /\ exLoad' = exLoad /\ exFlag' = exFlag /\ exFails' = exFails
        /\ exRecent' = exRecent /\ exLeft' = exLeft /\ exForeign' = exForeign
    BY <1>8 DEF exHist
  <2>4. ExConns' = ExConns
    BY ExPlacesKept DEF ExInv
  <2>5. ExThreadTypes' /\ ExHistTypes'
    BY <1>1, <2>1, <2>2, <2>3, <2>4 DEF ExThreadTypes, ExHistTypes
  <2>6. /\ ExSharedTypes' /\ exConn'[c] = conn
        /\ \A b \in ExConns \ {c} :
             exConn'[b] = exConn[b] /\ exFlag'[b] = exFlag[b]
    <3>1. /\ exFails' \in [ExIp -> 0 .. ExMaxFails + 1]
          /\ exRecent' \in [ExIp -> BOOLEAN] /\ Len(conn.in) <= ExMaxParts
      BY <1>1, <1>5, <1>6, <2>3 DEF ExSharedTypes
    <3> QED BY <1>1, <1>5, <1>8, <2>3, <3>1, ExShares
  <2>7. ExOthersStay(t)
    BY <2>1, <2>3 DEF ExOthersStay
  <2>8. /\ exAt'[t] = c /\ exPc'[t] \in ExLocked /\ exPc'[t] \in ExAwaits
        /\ exConn'[c].state \in {"open", "closed"}
        /\ ~exForeign' /\ (exLeft => exLeft')
        /\ ~exLeft' => ExOwnOnly(exConn'[c].in) /\ ExOwnOnly(exBuf'[t])
    BY <1>1, <1>2, <1>5, <1>6, <1>7, <2>1, <2>3, <2>6
  <2>9. ExLocks' /\ ExClean'
    <3> HIDE DEF c
    <3> QED BY <1>1, <2>6, <2>7, <2>8, ExInside
  <2> QED BY <1>1, <2>5, <2>6, <2>9, ExParted, ExTypesPartsNext DEF ExInv
<1>9. CASE /\ ExDone(t, conn)
           /\ exForeign' = (exForeign \/
                (/\ ~exLeft'
                 /\ exKind[t] # "recv"
                 /\ has \cap {"old", "oldEnd"} # {}))
  <2>1. ASSUME ~exLeft' PROVE has \cap {"old", "oldEnd"} = {}
    <3>1. ~exLeft
      BY <1>9, <2>1, Zenon DEF ExDone
    <3>2. \A i \in DOMAIN got : got[i] \in {"own", "ownEnd"}
      BY <1>7, <3>1 DEF ExOwnOnly
    <3> QED BY <3>2
  <2>2. ~exForeign' /\ exForeign' \in BOOLEAN
    BY <1>2, <1>9, <2>1, Zenon
  <2>3. conn.state # "connecting" /\ Len(conn.in) <= ExMaxParts
    BY <1>2, <1>5, <1>6
  <2> QED BY <1>1, <1>5, <1>9, <2>2, <2>3, ExDoneInv
<1> QED BY <1>4, <1>8, <1>9 DEF conn, got

(* fini, the store; the connection is closed.                              *)
LEMMA ExCloseInv ==
    ASSUME ExInv, NEW t \in ExThreads, ExClose(t), exSize' = exSize
    PROVE  ExInv'
<1> DEFINE c == exAt[t]
           conn == IF exBack[t] = "connect" THEN ExFresh ELSE ExNull
<1>1. /\ exPc[t] = "close" /\ exPc[t] \in ExLocked
      /\ c \in ExConns /\ ExHolds(t, c) /\ c[1] \in ExIp
      /\ <<0, 0>> \in ExConns
      /\ ExThreadTypes /\ ExSharedTypes /\ ExHistTypes
  BY ExAtTypes, ExParted, ExPlacesKept DEF ExClose, ExHolds, ExLocked, ExInv
<1>2. /\ exFails' = [exFails EXCEPT ![c[1]] = Saturated(exLoad[t] + 1)]
      /\ exRecent' = [exRecent EXCEPT ![c[1]] = TRUE]
      /\ exConn' = [exConn EXCEPT ![c] = conn]
      /\ exFlag' = [exFlag EXCEPT ![c] = 0]
      /\ exLoad' = [exLoad EXCEPT ![t] = 0]
      /\ IF exBack[t] = "idle" THEN ExReturn(t) ELSE ExGo(t, c, exBack[t])
      /\ exBack' = [exBack EXCEPT ![t] = IF @ = "got" THEN "idle" ELSE @]
      /\ exLeft' = exLeft /\ exForeign' = exForeign
  BY DEF ExClose, exHist
<1>3. Saturated(exLoad[t] + 1) \in 0 .. ExMaxFails + 1
  BY <1>1, PlatConnMgrExAssumption DEF Saturated, ExThreadTypes
<1>4. /\ exFails' \in [ExIp -> 0 .. ExMaxFails + 1]
      /\ exRecent' \in [ExIp -> BOOLEAN]
  BY <1>1, <1>2, <1>3 DEF ExSharedTypes
<1>5. /\ exLoad' \in [ExThreads -> 0 .. ExMaxFails + 1]
      /\ exBack' \in [ExThreads -> {"idle", "got", "connect"}]
      /\ exBack[t] \in {"idle", "got", "connect"}
  BY <1>1, <1>2, PlatConnMgrExAssumption DEF ExThreadTypes
<1>6. /\ conn \in ExConnTypes /\ conn.in = <<>>
      /\ Len(conn.in) <= ExMaxParts /\ ExOwnOnly(conn.in)
      /\ exBack[t] = "connect" \/ conn.state = "null"
  BY ExNew
<1> HIDE DEF conn
<1>7. /\ ExSharedTypes' /\ exConn'[c] = conn
      /\ \A b \in ExConns \ {c} :
           exConn'[b] = exConn[b] /\ exFlag'[b] = exFlag[b]
  BY <1>1, <1>2, <1>4, <1>6, ExShares
<1>8. /\ exFlag'[c] = 0 /\ ~exForeign' /\ ExHistTypes'
      /\ exLeft => exLeft'
  BY <1>1, <1>2 DEF ExSharedTypes, ExHistTypes, ExInv, ExClean
<1>9. CASE exBack[t] = "idle"
  <2>1. ExReturn(t) /\ conn.state = "null"
    BY <1>2, <1>6, <1>9
  <2>2. "idle" \notin ExLocked /\ "idle" \notin ExUsing
    BY DEF ExLocked, ExUsing
  <2> HIDE DEF c
  <2> QED BY <1>1, <1>5, <1>6, <1>7, <1>8, <2>1, <2>2, ExInsideInv
<1>10. CASE exBack[t] = "got"
  <2>1. ExGo(t, c, "got") /\ conn.state = "null"
    BY <1>2, <1>6, <1>10
  <2>2. "got" \notin ExLocked /\ "got" \notin ExUsing
    BY DEF ExLocked, ExUsing
  <2> HIDE DEF c
  <2> QED BY <1>1, <1>5, <1>6, <1>7, <1>8, <2>1, <2>2, ExInsideInv
<1>11. CASE exBack[t] = "connect"
  <2>1. ExGo(t, c, "connect")
    BY <1>2, <1>11
  <2>2. "connect" \in ExLocked /\ "connect" \notin ExUsing
    BY DEF ExLocked, ExUsing
  <2> HIDE DEF c
  <2> QED BY <1>1, <1>5, <1>6, <1>7, <1>8, <2>1, <2>2, ExInsideInv
<1> QED BY <1>5, <1>9, <1>10, <1>11

(* The backend goes.                                                       *)
LEMMA ExPeerClosesInv ==
    ASSUME ExInv, NEW c \in ExConns, ExPeerCloses(c), exSize' = exSize
    PROVE  ExInv'
<1>1. /\ ExThreadTypes /\ ExSharedTypes /\ ExHistTypes
      /\ exConn[c] \in ExConnTypes /\ exConn[c].in \in Seq(ExParts)
      /\ Len(exConn[c].in) <= ExMaxParts
  BY ExParted DEF ExSharedTypes, ExConnTypes
<1>2. PICK n \in 0 .. Len(exConn[c].in) :
        exConn' = [exConn EXCEPT ![c] =
                     [state |-> "closed", in |-> SubSeq(@.in, 1, n)]]
  BY DEF ExPeerCloses
<1> DEFINE s == SubSeq(exConn[c].in, 1, n)
           conn == [state |-> "closed", in |-> s]
<1>3. /\ s \in Seq(ExParts) /\ Len(s) = n
      /\ ExOwnOnly(exConn[c].in) => ExOwnOnly(s)
      /\ exConn[c].in = <<>> => s = <<>>
  BY <1>1, ExPrefix
<1>4. exConn' = [exConn EXCEPT ![c] = conn]
  BY <1>1, <1>2 DEF ExSharedTypes
<1>5. Len(s) <= ExMaxParts
  <2>1. ExMaxParts \in Nat /\ Len(exConn[c].in) \in Nat
    BY <1>1, PlatConnMgrExAssumption
  <2> HIDE DEF s
  <2> QED BY <1>1, <1>3, <2>1
<1> HIDE DEF s
<1>6. conn \in ExConnTypes /\ conn.in = s /\ conn.state = "closed"
  BY <1>3 DEF ExConnTypes, ExStates
<1> HIDE DEF conn
<1>7. /\ UNCHANGED <<exThread, exFlag, exFails, exRecent, exHist>>
      /\ exConn[c].state = "open"
  BY DEF ExPeerCloses
<1>8. /\ exPc' = exPc /\ exKind' = exKind /\ exAt' = exAt /\ exBack' = exBack
      /\ exLoad' = exLoad /\ exBuf' = exBuf /\ exFlag' = exFlag
      /\ exFails' = exFails /\ exRecent' = exRecent /\ exLeft' = exLeft
      /\ exForeign' = exForeign
  BY <1>7 DEF exThread, exHist
<1>9. ExConns' = ExConns
  BY ExPlacesKept DEF ExInv
<1>10. ExThreadTypes' /\ ExHistTypes'
  BY <1>1, <1>8, <1>9 DEF ExThreadTypes, ExHistTypes
<1>11. /\ ExSharedTypes' /\ exConn'[c] = conn
       /\ \A b \in ExConns \ {c} : exConn'[b] = exConn[b]
  BY <1>1, <1>4, <1>5, <1>6, <1>8, ExShares DEF ExSharedTypes
<1>12. \A t \in ExThreads : exAt[t] \in ExConns
  BY <1>1 DEF ExThreadTypes
<1>13. ExLocks'
  BY <1>6, <1>8, <1>9, <1>11, <1>12 DEF ExInv, ExLocks, ExHolds
<1>14. ASSUME ~exLeft', NEW b \in ExConns
       PROVE  /\ ExOwnOnly(exConn'[b].in)
              /\ exConn'[b].in # <<>> =>
                   \E t \in ExThreads : exAt'[t] = b /\ exPc'[t] \in ExAwaits
  <2>1. /\ ExOwnOnly(exConn[b].in)
        /\ exConn[b].in # <<>> =>
             \E t \in ExThreads : exAt[t] = b /\ exPc[t] \in ExAwaits
    BY <1>8, <1>14 DEF ExInv, ExClean
  <2>2. CASE b = c
    BY <1>3, <1>6, <1>8, <1>11, <2>1, <2>2
  <2>3. CASE b # c
    BY <1>8, <1>11, <2>1, <2>3
  <2> QED BY <2>2, <2>3
<1>15. ExClean'
  BY <1>8, <1>9, <1>14 DEF ExInv, ExClean, ExOwnOnly
<1> QED BY <1>10, <1>11, <1>13, <1>15, ExParted, ExTypesPartsNext DEF ExInv

(* Time goes by.                                                           *)
LEMMA ExElapseInv ==
    ASSUME ExInv, NEW ip \in ExIp, ExElapse(ip), exSize' = exSize
    PROVE  ExInv'
<1>1. /\ exPc' = exPc /\ exKind' = exKind /\ exAt' = exAt /\ exBack' = exBack
      /\ exLoad' = exLoad /\ exBuf' = exBuf /\ exConn' = exConn
      /\ exFlag' = exFlag /\ exFails' = exFails /\ exLeft' = exLeft
      /\ exForeign' = exForeign
      /\ exRecent' = [exRecent EXCEPT ![ip] = FALSE]
  BY DEF ExElapse, exThread, exHist
<1>2. ExConns' = ExConns /\ ExIp' = ExIp
  BY ExPlacesKept DEF ExInv
<1>3. ExThreadTypes' /\ ExSharedTypes' /\ ExHistTypes'
  BY <1>1, <1>2, ExParted DEF ExThreadTypes, ExSharedTypes, ExHistTypes
<1>4. ExLocks' /\ ExClean'
  BY <1>1, <1>2 DEF ExInv, ExLocks, ExClean, ExHolds
<1> QED BY <1>3, <1>4, ExParted, ExTypesPartsNext DEF ExInv

-----------------------------------------------------------------------------
(* PlatConnMgrEx: the theorems.                                            *)

LEMMA ExInitInv == ExInit => ExInv
<1> SUFFICES ASSUME ExInit PROVE ExInv
  OBVIOUS
<1>1. exSize \in ExSizes /\ ExIps \in Nat \ {0} /\ ExPool \in Nat \ {0}
  BY PlatConnMgrExAssumption DEF ExInit, ExIps, ExPool
<1>2. <<0, 0>> \in ExConns /\ ExConns = ExIp \X ExIndex
  BY <1>1 DEF ExConns, ExIp, ExIndex
<1>3. <<>> \in Seq(ExParts) /\ Len(<<>>) = 0 /\ ExRoom > 0
  BY PlatConnMgrExAssumption
<1>4. 0 \in 0 .. ExMaxFails + 1
  BY PlatConnMgrExAssumption
<1>5. ExThreadTypes
  <2>1. exBuf \in [ExThreads -> Seq(ExParts)]
        /\ \A t \in ExThreads : exBuf[t] = <<>>
    BY <1>3 DEF ExInit
  <2>2. /\ exPc \in [ExThreads -> {"idle", "get", "init", "got", "lock"}
                                    \cup ExLocked]
        /\ exKind \in [ExThreads -> ExKinds]
        /\ exBack \in [ExThreads -> {"idle", "got", "connect"}]
    BY DEF ExInit, ExKinds
  <2>3. exAt \in [ExThreads -> ExConns] /\ exLoad \in [ExThreads -> 0 .. ExMaxFails + 1]
    BY <1>2, <1>4 DEF ExInit
  <2> QED BY <1>3, <2>1, <2>2, <2>3 DEF ExThreadTypes
<1>6. /\ exConn \in [ExConns -> ExConnTypes]
      /\ \A c \in ExConns : exConn[c].in = <<>> /\ exConn[c].state # "connecting"
  <2>1. exConn = [c \in ExConns |-> exConn[c]]
        /\ \A c \in ExConns : exConn[c] \in {ExOpen, ExNull}
    BY DEF ExInit, ExInitPool
  <2> QED BY <2>1, ExNew
<1>7. exFails \in [ExIp -> 0 .. ExMaxFails + 1] /\ exRecent \in [ExIp -> BOOLEAN]
  <2>1. CASE \E up \in [ExConns -> BOOLEAN] : ExInitPool(up)
    <3>1. PICK up \in [ExConns -> BOOLEAN] : ExInitPool(up)
      BY <2>1
    <3> DEFINE down(ip) == {i \in ExIndex :
                              \A j \in i .. ExPool - 1 : ~up[<<ip, j>>]}
    <3>2. ASSUME NEW ip \in ExIp
          PROVE  Saturated(Cardinality(down(ip))) \in 0 .. ExMaxFails + 1
      <4>1. IsFiniteSet(ExIndex)
        BY <1>1, FS_Interval DEF ExIndex
      <4>2. IsFiniteSet(down(ip))
        BY <4>1, FS_Subset
      <4>3. Cardinality(down(ip)) \in Nat
        BY <4>2, FS_CardinalityType
      <4> HIDE DEF down
      <4> QED BY <4>3, PlatConnMgrExAssumption DEF Saturated
    <3>3. /\ exFails = [ip \in ExIp |-> Saturated(Cardinality(down(ip)))]
          /\ exRecent = [ip \in ExIp |-> \E i \in ExIndex : ~up[<<ip, i>>]]
      BY <3>1 DEF ExInitPool
    <3> HIDE DEF down
    <3> QED BY <3>2, <3>3
  <2>2. CASE /\ exFails = [ip \in ExIp |-> 0]
             /\ exRecent = [ip \in ExIp |-> FALSE]
    BY <1>4, <2>2
  <2> QED BY <2>1, <2>2 DEF ExInit
<1>8. exFlag \in [ExConns -> {0, 1}] /\ \A c \in ExConns : exFlag[c] = 0
  BY DEF ExInit
<1>9. ExSharedTypes /\ ExHistTypes
  <2>1. \A c \in ExConns : Len(exConn[c].in) <= ExMaxParts
    BY <1>6, ExNew
  <2>2. ExHistTypes
    BY DEF ExInit, ExHistTypes
  <2> QED BY <1>6, <1>7, <1>8, <2>1, <2>2 DEF ExSharedTypes, ExConnTypes
<1>10. \A t \in ExThreads : exPc[t] = "idle" /\ exBuf[t] = <<>>
  BY DEF ExInit
<1>11. ExLocks
  BY <1>6, <1>8, <1>10 DEF ExLocks, ExLocked, ExUsing
<1>12. ExClean
  <2>1. ~exForeign
    BY DEF ExInit
  <2> QED BY <1>6, <1>10, <2>1, ExNew DEF ExClean
<1> QED BY <1>1, <1>5, <1>9, <1>11, <1>12, ExTypesParts DEF ExInv

LEMMA ExNextInv == ExInv /\ [ExNext]_exVars => ExInv'
<1> SUFFICES ASSUME ExInv, [ExNext]_exVars PROVE ExInv'
  OBVIOUS
<1>1. ASSUME NEW t \in ExThreads, exSize' = exSize,
             \/ ExCall(t) \/ ExGetConn(t) \/ ExInitConn(t)
             \/ ExConnected(t) \/ ExRefused(t) \/ ExGot(t)
             \/ ExLock(t) \/ ExDrain(t) \/ ExSend(t)
             \/ ExRecv(t) \/ ExRecvFails(t)
             \/ ExFini(t) \/ ExClose(t)
      PROVE  ExInv'
  BY <1>1, ExCallInv, ExGetConnInv, ExInitConnInv, ExConnectedInv,
     ExRefusedInv, ExGotInv, ExLockInv, ExDrainInv, ExSendInv, ExRecvInv,
     ExRecvFailsInv, ExFiniInv, ExCloseInv
<1>2. ASSUME NEW c \in ExConns, exSize' = exSize, ExPeerCloses(c)
      PROVE  ExInv'
  BY <1>2, ExPeerClosesInv
<1>3. ASSUME NEW ip \in ExIp, exSize' = exSize, ExElapse(ip)
      PROVE  ExInv'
  BY <1>3, ExElapseInv
<1>4. CASE UNCHANGED exVars
  <2>1. /\ exSize' = exSize /\ exPc' = exPc /\ exKind' = exKind
        /\ exAt' = exAt /\ exBack' = exBack
        /\ exLoad' = exLoad /\ exBuf' = exBuf /\ exConn' = exConn
        /\ exFlag' = exFlag /\ exFails' = exFails /\ exRecent' = exRecent
        /\ exLeft' = exLeft /\ exForeign' = exForeign
    BY <1>4 DEF exVars, exThread, exShared, exHist
  <2>2. ExConns' = ExConns /\ ExIp' = ExIp
    BY <2>1, ExPlacesKept DEF ExInv
  <2>3. ExThreadTypes' /\ ExSharedTypes' /\ ExHistTypes'
    BY <2>1, <2>2, ExParted DEF ExThreadTypes, ExSharedTypes, ExHistTypes
  <2>4. ExLocks' /\ ExClean'
    BY <2>1, <2>2 DEF ExInv, ExLocks, ExClean, ExHolds
  <2> QED BY <2>1, <2>3, <2>4, ExParted, ExTypesPartsNext DEF ExInv
<1> QED BY <1>1, <1>2, <1>3, <1>4 DEF ExNext

LEMMA ExAlwaysInv == ExSpec => []ExInv
BY ExInitInv, ExNextInv, PTL DEF ExSpec

(* The variables of the pool of connections take the values they are meant *)
(* to: no buffer is filled beyond recv_len, no index leaves conn_.         *)
THEOREM ExTypeCorrect == ExSpec => []ExTypeOK
<1>1. ExInv => ExTypeOK
  BY DEF ExInv, ExTypes
<1> QED BY <1>1, ExAlwaysInv, PTL

(* Whatever the other threads make and close meanwhile, a thread that uses *)
(* a connection has it to itself and it is there, and no connection stays  *)
(* flagged when nobody has it.                                             *)
THEOREM ExConnectionsHeld == ExSpec => []ExConnectionHeld
<1>1. ExInv => ExConnectionHeld
  <2> SUFFICES ASSUME ExInv PROVE ExConnectionHeld
    OBVIOUS
  <2>1. ExUsing \subseteq ExLocked
    BY DEF ExLocked
  <2> QED BY <2>1 DEF ExInv, ExLocks, ExConnectionHeld, ExHolds
<1> QED BY <1>1, ExAlwaysInv, PTL

(* Timeouts, lost connections and late answers do not mix answers up: as   *)
(* long as no call has ended before its whole answer was there, send_recv  *)
(* and send_recv_ex return nothing of another call's.                      *)
THEOREM ExOwnAnswers == ExSpec => []ExOwnAnswer
<1>1. ExInv => ExOwnAnswer
  BY DEF ExInv, ExClean, ExOwnAnswer
<1> QED BY <1>1, ExAlwaysInv, PTL

-----------------------------------------------------------------------------
(* PlatConnMgrAsy: the invariant.                                          *)

AsyMessages == [to : {"backend", "client"}, req : AsyClients,
                fd : AsyFds \cup {0}, seq : AsySeqs]

AsyTypes == AsyTypeOK /\ asyOut \in Seq(AsyMessages)

AsyMakes   == {"number", "setfd", "setseq"}
AsyLocking == {"connect"} \cup AsyMakes

(* What each worker has in its hands, and that one at a time connects.     *)
AsyWork ==
    /\ \A t \in AsyThreads : asyPc[t] = "idle" <=> asyReq[t] = "none"
    /\ \A t, u \in AsyThreads :
         asyReq[t] = asyReq[u] /\ asyReq[t] # "none" => t = u
    /\ \A t \in AsyThreads : asyReq[t] # "none" =>
         /\ asyClient[asyReq[t]].at \in {"forward", "task"}
         /\ asyPc[t] = "insert" => asyClient[asyReq[t]].at = "task"
    /\ \A t, u \in AsyThreads :
         asyPc[t] \in AsyLocking /\ asyPc[u] \in AsyLocking => t = u
    /\ \A t \in AsyThreads : asyPc[t] \in AsyMakes => asyFd[t] \in AsyFds
    /\ \A t \in AsyThreads : asyPc[t] = "number" => asyLoad[t] < AsyMaxSeq
    /\ asyAccept.who # "none" =>
         /\ asyAccept.fd \in AsyFds /\ asyAccept.load < AsyMaxSeq
         /\ asyTable[asyAccept.fd].who = asyAccept.who
         /\ asyClient[asyAccept.who].at = "new"

(* A request is in one place: with a worker, in ISGWAck's queue, with the  *)
(* backend or, answered, in ISGWCIntf's queue.                             *)
AsyUnsent(c) == \/ asyClient[c].at \in {"new", "queued"}
                \/ \E t \in AsyThreads : asyReq[t] = c

AsyHas(q, c) == \E i \in DOMAIN q : q[i].to = "backend" /\ q[i].req = c
AsyQueued(c) == AsyHas(asyOut, c)

AsySingle(q) == \A i, j \in DOMAIN q :
                  /\ q[i].to = "backend" /\ q[j].to = "backend"
                  /\ q[i].req = q[j].req
                  => i = j

AsyOnce ==
    /\ \A c \in AsyClients : AsyUnsent(c) =>
         ~AsyQueued(c) /\ c \notin asyAway /\ c \notin asyBack
    /\ \A c \in AsyClients : AsyQueued(c) => c \notin asyAway /\ c \notin asyBack
    /\ AsySingle(asyOut)
    /\ asyAway \cap asyBack = {}

(* From when it is sent until its answer is handled, a request of ASYTask  *)
(* has its record, unless that was dropped as old.                         *)
AsyKnown == asyRecord \cup asyGone

AsyRecorded ==
    /\ \A c \in AsyClients :
         asyClient[c].at = "task" /\ (AsyQueued(c) \/ c \in asyAway) =>
           c \in AsyKnown
    /\ asyBack \subseteq AsyKnown
    /\ \A t \in AsyThreads :
         /\ asyReq[t] # "none" /\ asyPc[t] # "insert"
         /\ asyClient[asyReq[t]].at = "task"
         => asyReq[t] \in AsyKnown
    /\ asyBare \subseteq asyGone

AsyInv == AsyTypes /\ AsyWork /\ AsyOnce /\ AsyRecorded

(* As long as nothing has raced: numbers grow, and a connection that is    *)
(* about to get one gets the next, or one that would be given twice.       *)
AsyNumbers ==
    /\ \A n \in asyGiven : n < asyTotal
    /\ asyAccept.who # "none" =>
         asyAccept.load \in asyGiven \/ asyAccept.load = asyTotal
    /\ \A t \in AsyThreads : asyPc[t] = "number" =>
         asyLoad[t] \in asyGiven \/ asyLoad[t] = asyTotal

(* The numbers of clients are their own.                                   *)
AsyNamed ==
    /\ \A c \in AsyClients : asyClient[c].at # "new" =>
         asyClient[c].seq \in asyGiven
    /\ \A c, d \in AsyClients :
         /\ asyClient[c].at # "new" /\ asyClient[d].at # "new"
         /\ asyClient[c].seq = asyClient[d].seq
         => c = d
    /\ \A fd \in AsyFds : asyTable[fd].who \in AsyClients =>
         \/ asyAccept.who = asyTable[fd].who /\ asyAccept.fd = fd
         \/ /\ asyClient[asyTable[fd].who].at # "new"
            /\ asyTable[fd].seq = asyClient[asyTable[fd].who].seq

(* A number that was given to a connection to the backend.                 *)
AsyOurs(n) == n \in asyGiven /\ \A c \in AsyClients :
                asyClient[c].at # "new" => asyClient[c].seq # n

(* The connection that is open is the one a thread is making, or else the  *)
(* one conn_info_ refers to.                                               *)
AsyBackends ==
    /\ \A fd \in AsyFds : asyTable[fd].who = "backend" =>
         \/ AsyOurs(asyTable[fd].seq)
         \/ /\ asyTable[fd].seq = 0
            /\ \E t \in AsyThreads : asyPc[t] = "number" /\ asyFd[t] = fd
    /\ \A t \in AsyThreads : asyPc[t] = "connect" =>
         \A fd \in AsyFds : asyTable[fd].who # "backend"
    /\ \A t \in AsyThreads : asyPc[t] \in AsyMakes =>
         \A fd \in AsyFds : asyTable[fd].who = "backend" <=> fd = asyFd[t]
    /\ \A t \in AsyThreads : asyPc[t] = "setseq" => asyInfo.fd = asyFd[t]
    /\ (\A t \in AsyThreads : asyPc[t] \notin AsyLocking) =>
         \A fd \in AsyFds : asyTable[fd].who = "backend" =>
           asyInfo.fd = fd /\ asyInfo.seq = asyTable[fd].seq

(* A descriptor conn_info_ has had was the backend's; a client that gets   *)
(* it later does not get the number 0, which conn_info_ has when the       *)
(* connection is gone.                                                     *)
AsyHad(fd) ==
    fd \in AsyFds =>
      /\ asyTotal > 0
      /\ asyTable[fd].who \in AsyClients =>
           IF asyAccept.who = asyTable[fd].who
             THEN asyAccept.load > 0 ELSE asyTable[fd].seq > 0

AsyBackendSeq(n) == AsyOurs(n) \/ n = 0

AsyAddressed(m) ==
    IF m.to = "backend"
      THEN AsyHad(m.fd) /\ AsyBackendSeq(m.seq)
      ELSE asyClient[m.req].at # "new" /\ m = AsyReply(m.req)

AsyIn(q, m) == \E i \in DOMAIN q : q[i] = m

AsyAddresses ==
    /\ AsyBackendSeq(asyInfo.seq) /\ AsyHad(asyInfo.fd)
    /\ \A t \in AsyThreads : asyPc[t] = "put" => AsyHad(asyFd[t])
    /\ \A m \in AsyMessages : AsyIn(asyOut, m) => AsyAddressed(m)

AsySafe == AsyNumbers /\ AsyNamed /\ AsyBackends /\ AsyAddresses

(* A message that is not a connection's own reaches it before it has its   *)
(* number.                                                                 *)
AsyStrays == \A s \in asyStray : s.conn = "new" /\ s.seq = 0

AsyRaceFree == asyRaced \/ (AsySafe /\ AsyStrays)

-----------------------------------------------------------------------------
(* The queue of ISGWAck, and the steps of a call.                          *)

LEMMA AsyAppended ==
    ASSUME NEW q \in Seq(AsyMessages), NEW m \in AsyMessages
    PROVE  /\ Append(q, m) \in Seq(AsyMessages)
           /\ \A c : AsyHas(Append(q, m), c)
                       <=> AsyHas(q, c) \/ (m.to = "backend" /\ m.req = c)
           /\ AsySingle(q) /\ (m.to = "backend" => ~AsyHas(q, m.req))
                => AsySingle(Append(q, m))
<1> DEFINE r == Append(q, m)
<1>1. /\ r \in Seq(AsyMessages)
      /\ \A i \in DOMAIN r : \/ i = Len(q) + 1 /\ r[i] = m
                             \/ i \in DOMAIN q /\ r[i] = q[i]
      /\ \A i \in DOMAIN q : i \in DOMAIN r /\ r[i] = q[i]
      /\ Len(q) + 1 \in DOMAIN r /\ r[Len(q) + 1] = m
  OBVIOUS
<1> HIDE DEF r
<1>2. \A c : AsyHas(r, c) <=> AsyHas(q, c) \/ (m.to = "backend" /\ m.req = c)
  BY <1>1 DEF AsyHas
<1>3. AsySingle(q) /\ (m.to = "backend" => ~AsyHas(q, m.req)) => AsySingle(r)
  BY <1>1 DEF AsyHas, AsySingle
<1> QED BY <1>1, <1>2, <1>3 DEF r

LEMMA AsyTaken ==
    ASSUME NEW q \in Seq(AsyMessages), q # <<>>
    PROVE  /\ Head(q) \in AsyMessages
           /\ Tail(q) \in Seq(AsyMessages)
           /\ \A c : AsyHas(Tail(q), c) => AsyHas(q, c)
           /\ Head(q).to = "backend" => AsyHas(q, Head(q).req)
           /\ AsySingle(q) =>
                /\ AsySingle(Tail(q))
                /\ Head(q).to = "backend" => ~AsyHas(Tail(q), Head(q).req)
<1> DEFINE r == Tail(q)
           h == Head(q)
<1>1. /\ h = q[1] /\ 1 \in DOMAIN q /\ h \in AsyMessages
      /\ r \in Seq(AsyMessages)
      /\ \A i \in DOMAIN r : i + 1 \in DOMAIN q /\ r[i] = q[i + 1]
  BY TailElements
<1>2. \A i \in DOMAIN r : i \in Nat /\ i >= 1
  BY <1>1
<1> HIDE DEF r, h
<1>3. \A c : AsyHas(r, c) => AsyHas(q, c)
  BY <1>1 DEF AsyHas
<1>4. h.to = "backend" => AsyHas(q, h.req)
  BY <1>1 DEF AsyHas
<1>5. ASSUME AsySingle(q)
      PROVE  AsySingle(r) /\ (h.to = "backend" => ~AsyHas(r, h.req))
  <2>1. \A i, j \in Nat : i + 1 = j + 1 => i = j
    OBVIOUS
  <2>2. ASSUME NEW i \in DOMAIN r, NEW j \in DOMAIN r,
               r[i].to = "backend", r[j].to = "backend", r[i].req = r[j].req
        PROVE  i = j
    <3>1. /\ i + 1 \in DOMAIN q /\ j + 1 \in DOMAIN q
          /\ r[i] = q[i + 1] /\ r[j] = q[j + 1]
      BY <1>1
    <3>2. i + 1 = j + 1
      BY <1>5, <2>2, <3>1 DEF AsySingle
    <3> QED BY <1>2, <2>1, <3>2
  <2>3. \A i \in DOMAIN r : i + 1 # 1
    BY <1>2
  <2>4. h.to = "backend" => ~AsyHas(r, h.req)
    BY <1>1, <1>5, <2>3 DEF AsySingle, AsyHas
  <2>5. AsySingle(r)
    BY <2>2 DEF AsySingle
  <2> QED BY <2>4, <2>5
<1> QED BY <1>1, <1>3, <1>4, <1>5 DEF r, h

LEMMA AsyFollowing ==
    /\ AsyFollows("task", "take") = "insert"
    /\ AsyFollows("forward", "take") = "estab"
    /\ \A mode : AsyFollows(mode, "insert") = "estab"
    /\ \A mode : AsyFollows(mode, "put") = "idle"
BY DEF AsyFollows

-----------------------------------------------------------------------------
(* Types.                                                                  *)

LEMMA AsyTypesInit == AsyInit => AsyInv
<1> SUFFICES ASSUME AsyInit PROVE AsyInv
  OBVIOUS
<1>1. /\ 0 \in Nat /\ AsyMaxSeq \in Nat /\ 0 \in AsySeqs
      /\ "none" \notin AsyClients
      /\ \A c : ~AsyHas(<<>>, c)
      /\ AsySingle(<<>>)
  BY PlatConnMgrAsyAssumption DEF AsySeqs, AsyHas, AsySingle
<1>2. AsyTypes
  <2>1. <<>> \in Seq(AsyMessages) /\ DOMAIN <<>> = {}
    OBVIOUS
  <2> QED BY <1>1, <2>1 DEF AsyInit, AsyTypes, AsyTypeOK, AsyNobody, AsyOwners
<1>3. AsyWork
  BY <1>1 DEF AsyInit, AsyWork, AsyLocking, AsyMakes
<1>4. AsyOnce
  BY <1>1 DEF AsyInit, AsyOnce, AsyQueued
<1>5. AsyRecorded
  BY <1>1 DEF AsyInit, AsyRecorded, AsyKnown, AsyQueued
<1> QED BY <1>2, <1>3, <1>4, <1>5 DEF AsyInv

(* The variables of the workers, for an action that does not send.         *)
LEMMA AsyTypesNext ==
    ASSUME AsyTypes, AsyWork, AsyNext
    PROVE  AsyTypes'
<1> USE DEF AsyOwners
<1>1. /\ 0 \in Nat /\ AsyMaxSeq \in Nat /\ 0 \in AsySeqs
      /\ "none" \notin AsyClients
      /\ \A n \in AsySeqs : n # AsyMaxSeq => n + 1 \in AsySeqs
      /\ \A n \in AsySeqs : n < AsyMaxSeq => n + 1 \in AsySeqs
  BY PlatConnMgrAsyAssumption DEF AsySeqs
<1>2. /\ AsyFollows("task", "take") = "insert"
      /\ AsyFollows("forward", "take") = "estab"
      /\ \A mode : AsyFollows(mode, "insert") = "estab"
      /\ \A mode : AsyFollows(mode, "put") = "idle"
  BY AsyFollowing
<1>3. asyOut \in Seq(AsyMessages) /\ AsyTypeOK
  BY DEF AsyTypes
<1>4. \A q \in Seq(AsyMessages) : \A i \in DOMAIN q : q[i] \in AsyMessages
  OBVIOUS
<1>5. asyOut' = asyOut => asyOut' \in Seq(AsyMessages)
  BY <1>3
<1>6. ASSUME NEW m \in AsyMessages, asyOut' = Append(asyOut, m)
      PROVE  asyOut' \in Seq(AsyMessages)
  BY <1>3, <1>6, AsyAppended
<1>7. asyOut' \in Seq(AsyMessages) =>
        \A i \in DOMAIN asyOut' : asyOut'[i] \in AsyMessages
  BY <1>4
<1> USE DEF AsyMessages
<1>8. ASSUME NEW c \in AsyClients PROVE AsyReply(c) \in AsyMessages
  BY <1>3 DEF AsyReply, AsyTypeOK
<1>9. ASSUME NEW t \in AsyThreads, AsyInsert(t) PROVE AsyTypes'
  <2>1. asyReq[t] \in AsyClients
    BY <1>9, <1>3 DEF AsyInsert, AsyWork, AsyTypeOK
  <2> QED BY <1>9, <1>2, <1>3, <1>5, <1>7, <2>1
          DEF AsyTypes, AsyTypeOK, AsyInsert, AsyGoto, asyConns, asyTasks
<1>10. ASSUME NEW t \in AsyThreads, AsyEstab(t) PROVE AsyTypes'
  BY <1>10, <1>3, <1>5, <1>7
     DEF AsyTypes, AsyTypeOK, AsyEstab, AsyGoto, asyConns, asyTasks
<1>11. ASSUME NEW t \in AsyThreads, AsyLock(t) PROVE AsyTypes'
  BY <1>11, <1>3, <1>5, <1>7
     DEF AsyTypes, AsyTypeOK, AsyLock, AsyGoto, asyConns, asyTasks
<1>12. ASSUME NEW t \in AsyThreads, AsyConnect(t) PROVE AsyTypes'
  BY <1>12, <1>1, <1>3, <1>5, <1>7
     DEF AsyTypes, AsyTypeOK, AsyConnect, AsyGoto, asyTasks
<1>13. ASSUME NEW t \in AsyThreads, AsyConnectFails(t) PROVE AsyTypes'
  BY <1>13, <1>1, <1>3, <1>5, <1>7
     DEF AsyTypes, AsyTypeOK, AsyConnectFails, AsyGoto, asyTasks
<1>14. ASSUME NEW t \in AsyThreads, AsyOpen(t) PROVE AsyTypes'
  <2>1. asyFd[t] \in AsyFds /\ asyLoad[t] \in AsySeqs /\ asyLoad[t] + 1 \in AsySeqs
    BY <1>14, <1>1, <1>3 DEF AsyOpen, AsyWork, AsyTypeOK, AsyMakes
  <2>2. /\ asyTable' \in [AsyFds -> [who : AsyOwners \cup {"none"}, seq : AsySeqs]]
        /\ asyTotal' \in AsySeqs /\ asyGiven' \subseteq AsySeqs
    <3>1. /\ asyTable \in [AsyFds -> [who : AsyOwners \cup {"none"}, seq : AsySeqs]]
          /\ asyGiven \subseteq AsySeqs
      BY <1>3 DEF AsyTypeOK
    <3>2. /\ asyTotal' = asyLoad[t] + 1
          /\ \/ /\ asyTable' = [asyTable EXCEPT ![asyFd[t]].seq = asyLoad[t]]
                /\ asyGiven' = asyGiven \cup {asyLoad[t]}
             \/ asyTable' = asyTable /\ asyGiven' = asyGiven
      BY <1>14 DEF AsyOpen, AsyNumber
    <3> QED BY <2>1, <3>1, <3>2
  <2>3. asyRaced' \in BOOLEAN
    BY <1>14, <1>3, Zenon DEF AsyOpen, AsyTypeOK, AsyNumber
  <2> QED BY <1>14, <1>3, <1>5, <1>7, <2>2, <2>3
          DEF AsyTypes, AsyTypeOK, AsyOpen, AsyGoto, asyTasks
<1>15. ASSUME NEW t \in AsyThreads, AsySetFd(t) PROVE AsyTypes'
  <2>1. AsyHandle(t) \subseteq AsyFds \cup {0}
    BY <1>3 DEF AsyHandle, AsyTypeOK
  <2> QED BY <1>15, <1>3, <1>5, <1>7, <2>1
          DEF AsyTypes, AsyTypeOK, AsySetFd, AsyGoto, asyTasks
<1>16. ASSUME NEW t \in AsyThreads, AsySetSeq(t) PROVE AsyTypes'
  <2>1. AsySeqOf(t) \subseteq AsySeqs
    BY <1>16, <1>3 DEF AsySetSeq, AsyWork, AsyMakes, AsySeqOf, AsyTypeOK
  <2> QED BY <1>16, <1>3, <1>5, <1>7, <2>1
          DEF AsyTypes, AsyTypeOK, AsySetSeq, AsyGoto, asyTasks
<1>17. ASSUME NEW t \in AsyThreads, AsyReadFd(t) PROVE AsyTypes'
  BY <1>17, <1>3, <1>5, <1>7
     DEF AsyTypes, AsyTypeOK, AsyReadFd, AsyGoto, asyConns, asyTasks
<1>18. ASSUME NEW t \in AsyThreads, AsyPut(t) PROVE AsyTypes'
  <2>1. asyReq[t] \in AsyClients
    BY <1>18, <1>3 DEF AsyPut, AsyWork, AsyTypeOK
  <2>2. asyOut' \in Seq(AsyMessages)
    BY <1>18, <1>6, <1>3, <2>1 DEF AsyPut, AsyTypeOK
  <2> QED BY <1>18, <1>2, <1>1, <1>3, <1>7, <2>2
          DEF AsyTypes, AsyTypeOK, AsyPut, AsyReturn, AsyGoto, asyConns, asyTasks
<1>19. ASSUME NEW t \in AsyThreads, AsyFail(t) PROVE AsyTypes'
  <2>1. asyReq[t] \in AsyClients
    BY <1>19, <1>3 DEF AsyFail, AsyWork, AsyTypeOK
  <2>2. asyOut' \in Seq(AsyMessages)
    BY <1>19, <1>6, <1>8, <2>1 DEF AsyFail
  <2> QED BY <1>19, <1>1, <1>3, <1>7, <2>2
          DEF AsyTypes, AsyTypeOK, AsyFail, AsyReturn, AsyGoto, asyConns, asyTasks
<1>20. ASSUME NEW t \in AsyThreads, NEW c \in AsyClients, AsyTake(t, c)
       PROVE  AsyTypes'
  BY <1>20, <1>2, <1>3, <1>5, <1>7
     DEF AsyTypes, AsyTypeOK, AsyTake, AsyGoto, asyConns, asyTasks
<1>21. ASSUME NEW c \in AsyClients, AsyAccepts(c) PROVE AsyTypes'
  BY <1>21, <1>1, <1>3, <1>5, <1>7
     DEF AsyTypes, AsyTypeOK, AsyAccepts, asyWorker, asyTasks
<1>22. ASSUME NEW c \in AsyClients, AsyAnswerReply(c) PROVE AsyTypes'
  <2>1. asyOut' \in Seq(AsyMessages)
    BY <1>22, <1>6, <1>8 DEF AsyAnswerReply
  <2> QED BY <1>22, <1>3, <1>7, <2>1
          DEF AsyTypes, AsyTypeOK, AsyAnswerReply, asyConns, asyWorker, asyTasks
<1>23. ASSUME NEW c \in AsyClients, AsyAnswerTask(c) PROVE AsyTypes'
  BY <1>23, <1>3, <1>5, <1>7
     DEF AsyTypes, AsyTypeOK, AsyAnswerTask, asyConns, asyWorker
<1>24. ASSUME NEW c \in AsyClients, AsySvc(c) PROVE AsyTypes'
  <2>1. asyOut' \in Seq(AsyMessages)
    BY <1>24, <1>6, <1>8, <1>5 DEF AsySvc
  <2> QED BY <1>24, <1>3, <1>7, <2>1
          DEF AsyTypes, AsyTypeOK, AsySvc, asyConns, asyWorker
<1>25. ASSUME NEW c \in AsyClients, AsyElapse(c) PROVE AsyTypes'
  BY <1>25, <1>3, <1>5, <1>7
     DEF AsyTypes, AsyTypeOK, AsyElapse, asyConns, asyWorker
<1>26. ASSUME NEW fd \in AsyFds, AsyCloses(fd) PROVE AsyTypes'
  <2>1. asyRaced' \in BOOLEAN
    BY <1>26, <1>3, Zenon DEF AsyCloses, AsyTypeOK
  <2> QED BY <1>26, <1>1, <1>3, <1>5, <1>7, <2>1
          DEF AsyTypes, AsyTypeOK, AsyCloses, AsyNobody, asyWorker, asyTasks
<1>27. ASSUME AsyAccepted PROVE AsyTypes'
  <2>1. /\ asyAccept.who \in AsyClients /\ asyAccept.fd \in AsyFds
        /\ asyAccept.load \in AsySeqs /\ asyAccept.load + 1 \in AsySeqs
    BY <1>27, <1>1, <1>3 DEF AsyAccepted, AsyWork, AsyTypeOK
  <2>2. /\ asyTable' \in [AsyFds -> [who : AsyOwners \cup {"none"}, seq : AsySeqs]]
        /\ asyTotal' \in AsySeqs /\ asyGiven' \subseteq AsySeqs
    <3>1. AsyNumber(asyAccept.who, asyAccept.fd, asyAccept.load)
      BY <1>27 DEF AsyAccepted
    <3>2. asyTotal' \in AsySeqs /\ asyGiven' \subseteq AsySeqs
      BY <1>3, <2>1, <3>1 DEF AsyTypeOK, AsyNumber
    <3>3. asyTable' \in [AsyFds -> [who : AsyOwners \cup {"none"}, seq : AsySeqs]]
      BY <1>3, <2>1, <3>1 DEF AsyTypeOK, AsyNumber
    <3> QED BY <3>2, <3>3
  <2>3. asyRaced' \in BOOLEAN
    BY <1>27, <1>3, Zenon DEF AsyAccepted, AsyTypeOK, AsyNumber
  <2> QED BY <1>27, <1>1, <1>3, <1>5, <1>7, <2>1, <2>2, <2>3
          DEF AsyTypes, AsyTypeOK, AsyAccepted, asyWorker, asyTasks
<1>28. ASSUME AsyDeliver PROVE AsyTypes'
  <2>1. Head(asyOut) \in AsyMessages /\ asyOut' \in Seq(AsyMessages)
    BY <1>28, <1>3, AsyTaken DEF AsyDeliver
  <2>2. asyStray' \subseteq [conn : {"numbered", "new"}, seq : AsySeqs]
    <3>1. AsyAstray(Head(asyOut)) \in [conn : {"numbered", "new"}, seq : AsySeqs]
      BY <2>1 DEF AsyAstray, AsyMessages
    <3>2. asyStray' \subseteq asyStray \cup {AsyAstray(Head(asyOut))}
      BY <1>28 DEF AsyDeliver
    <3> QED BY <1>3, <3>1, <3>2 DEF AsyTypeOK
  <2>3. asyAway' \subseteq AsyClients
    BY <1>28, <1>3, <2>1 DEF AsyDeliver, AsyTypeOK
  <2> QED BY <1>28, <1>3, <1>7, <2>1, <2>2, <2>3
          DEF AsyTypes, AsyTypeOK, AsyDeliver, asyConns, asyWorker, asyTasks
<1> QED BY <1>9, <1>10, <1>11, <1>12, <1>13, <1>14, <1>15, <1>16, <1>17, <1>18, <1>19,
           <1>20, <1>21, <1>22, <1>23, <1>24, <1>25, <1>26, <1>27, <1>28
        DEF AsyNext

-----------------------------------------------------------------------------
(* Who has which request, and who connects.                                *)

LEMMA AsyWorkNext ==
    ASSUME AsyTypes, AsyWork, AsyNext
    PROVE  AsyWork'
<1> USE DEF AsyOwners, AsyLocking, AsyMakes
<1>1. "none" \notin AsyClients /\ "backend" \notin AsyClients
  BY PlatConnMgrAsyAssumption
<1>2. /\ \A n \in AsySeqs : n <= AsyMaxSeq /\ n \in Nat
      /\ AsyMaxSeq \in Nat
  BY PlatConnMgrAsyAssumption DEF AsySeqs
<1>3. /\ AsyFollows("task", "take") = "insert"
      /\ AsyFollows("forward", "take") = "estab"
      /\ \A mode : AsyFollows(mode, "insert") = "estab"
      /\ \A mode : AsyFollows(mode, "put") = "idle"
  BY AsyFollowing
<1>4. AsyTypeOK
  BY DEF AsyTypes
<1>5. ASSUME NEW t \in AsyThreads, AsyInsert(t) PROVE AsyWork'
  BY <1>5, <1>1, <1>3, <1>4 DEF AsyWork, AsyTypeOK, AsyInsert, AsyGoto, asyConns
<1>6. ASSUME NEW t \in AsyThreads, AsyEstab(t) PROVE AsyWork'
  BY <1>6, <1>1, <1>4 DEF AsyWork, AsyTypeOK, AsyEstab, AsyGoto, asyConns
<1>7. ASSUME NEW t \in AsyThreads, AsyLock(t) PROVE AsyWork'
  <2>1. \A u \in AsyThreads : asyPc[u] \notin AsyLocking
    BY <1>7 DEF AsyLock, AsyLockHeld, AsyMaking
  <2> QED BY <1>7, <1>1, <1>4, <2>1
          DEF AsyWork, AsyTypeOK, AsyLock, AsyGoto, asyConns
<1>8. ASSUME NEW t \in AsyThreads, AsyConnect(t) PROVE AsyWork'
  BY <1>8, <1>1, <1>2, <1>4 DEF AsyWork, AsyTypeOK, AsyConnect, AsyGoto, AsyIsFree
<1>9. ASSUME NEW t \in AsyThreads, AsyConnectFails(t) PROVE AsyWork'
  BY <1>9, <1>1, <1>4 DEF AsyWork, AsyTypeOK, AsyConnectFails, AsyGoto
<1>10. ASSUME NEW t \in AsyThreads, AsyOpen(t) PROVE AsyWork'
  <2>1. \A fd \in AsyFds : asyTable'[fd].who = asyTable[fd].who
    BY <1>10, <1>4 DEF AsyOpen, AsyNumber, AsyTypeOK
  <2> QED BY <1>10, <1>1, <1>4, <2>1 DEF AsyWork, AsyTypeOK, AsyOpen, AsyGoto
<1>11. ASSUME NEW t \in AsyThreads, AsySetFd(t) PROVE AsyWork'
  BY <1>11, <1>1, <1>4 DEF AsyWork, AsyTypeOK, AsySetFd, AsyGoto
<1>12. ASSUME NEW t \in AsyThreads, AsySetSeq(t) PROVE AsyWork'
  BY <1>12, <1>1, <1>4 DEF AsyWork, AsyTypeOK, AsySetSeq, AsyGoto
<1>13. ASSUME NEW t \in AsyThreads, AsyReadFd(t) PROVE AsyWork'
  BY <1>13, <1>1, <1>4 DEF AsyWork, AsyTypeOK, AsyReadFd, AsyGoto, asyConns
<1>14. ASSUME NEW t \in AsyThreads, AsyPut(t) PROVE AsyWork'
  BY <1>14, <1>1, <1>3, <1>4
     DEF AsyWork, AsyTypeOK, AsyPut, AsyReturn, AsyGoto, asyConns
<1>15. ASSUME NEW t \in AsyThreads, AsyFail(t) PROVE AsyWork'
  BY <1>15, <1>1, <1>4
     DEF AsyWork, AsyTypeOK, AsyFail, AsyReturn, AsyGoto, asyConns
<1>16. ASSUME NEW t \in AsyThreads, NEW c \in AsyClients, AsyTake(t, c)
       PROVE  AsyWork'
  <2>1. \A u \in AsyThreads : asyReq[u] # c
    BY <1>16, <1>1 DEF AsyTake, AsyWork
  <2> QED BY <1>16, <1>1, <1>3, <1>4, <2>1
          DEF AsyWork, AsyTypeOK, AsyTake, AsyGoto, asyConns
<1>17. ASSUME NEW c \in AsyClients, AsyAccepts(c) PROVE AsyWork'
  BY <1>17, <1>1, <1>2, <1>4 DEF AsyWork, AsyTypeOK, AsyAccepts, asyWorker
<1>18. ASSUME NEW c \in AsyClients,
              \/ AsyAnswerReply(c) \/ AsyAnswerTask(c)
              \/ AsySvc(c) \/ AsyElapse(c)
       PROVE  AsyWork'
  BY <1>18 DEF AsyWork, AsyAnswerReply, AsyAnswerTask, AsySvc, AsyElapse,
               asyConns, asyWorker
<1>19. ASSUME NEW fd \in AsyFds, AsyCloses(fd) PROVE AsyWork'
  BY <1>19, <1>1, <1>4 DEF AsyWork, AsyTypeOK, AsyCloses, asyWorker
<1>20. ASSUME AsyAccepted PROVE AsyWork'
  <2>1. \A u \in AsyThreads : asyReq[u] # asyAccept.who
    BY <1>20, <1>1 DEF AsyAccepted, AsyWork
  <2> QED BY <1>20, <1>1, <1>4, <2>1 DEF AsyWork, AsyTypeOK, AsyAccepted, asyWorker
<1>21. ASSUME AsyDeliver PROVE AsyWork'
  BY <1>21 DEF AsyWork, AsyDeliver, asyConns, asyWorker
<1> QED BY <1>5, <1>6, <1>7, <1>8, <1>9, <1>10, <1>11, <1>12, <1>13, <1>14, <1>15,
           <1>16, <1>17, <1>18, <1>19, <1>20, <1>21
        DEF AsyNext

-----------------------------------------------------------------------------
(* Where requests are, and their records.                                  *)

LEMMA AsyOnceNext ==
    ASSUME AsyTypes, AsyWork, AsyOnce, AsyNext
    PROVE  AsyOnce'
<1>1. "none" \notin AsyClients /\ "backend" \notin AsyClients
  BY PlatConnMgrAsyAssumption
<1>2. AsyTypeOK /\ asyOut \in Seq(AsyMessages)
  BY DEF AsyTypes
<1>3. ASSUME UNCHANGED <<asyClient, asyReq, asyOut, asyAway, asyBack>>
      PROVE  AsyOnce'
  BY <1>3 DEF AsyOnce, AsyUnsent, AsyQueued
<1>4. ASSUME NEW m \in AsyMessages, asyOut' = Append(asyOut, m)
      PROVE  /\ \A c : AsyQueued(c)' <=> AsyQueued(c) \/ (m.to = "backend" /\ m.req = c)
             /\ (m.to = "backend" => ~AsyQueued(m.req)) => AsySingle(asyOut)'
  BY <1>4, <1>2, AsyAppended DEF AsyOnce, AsyQueued
<1>5. ASSUME NEW c \in AsyClients, asyOut' = Append(asyOut, AsyReply(c))
      PROVE  (\A d : AsyQueued(d)' <=> AsyQueued(d)) /\ AsySingle(asyOut)'
  <2>1. AsyReply(c) \in AsyMessages /\ AsyReply(c).to # "backend"
    BY <1>2 DEF AsyReply, AsyMessages, AsyTypeOK
  <2> QED BY <1>5, <1>4, <2>1
<1>6. asyOut' = asyOut => (\A d : AsyQueued(d)' <=> AsyQueued(d)) /\ AsySingle(asyOut)'
  BY DEF AsyQueued, AsyOnce
<1>7. ASSUME NEW t \in AsyThreads,
             \/ AsyInsert(t) \/ AsyEstab(t) \/ AsyLock(t)
             \/ AsyConnect(t) \/ AsyConnectFails(t) \/ AsyOpen(t)
             \/ AsySetFd(t) \/ AsySetSeq(t) \/ AsyReadFd(t)
      PROVE  AsyOnce'
  BY <1>7, <1>3 DEF AsyInsert, AsyEstab, AsyLock, AsyConnect, AsyConnectFails,
                    AsyOpen, AsySetFd, AsySetSeq, AsyReadFd, asyTasks
<1>8. ASSUME NEW t \in AsyThreads, AsyPut(t) PROVE AsyOnce'
  <2> DEFINE m == [to |-> "backend", req |-> asyReq[t],
                   fd |-> asyFd[t], seq |-> asyInfo.seq]
  <2>1. PICK r \in AsyClients : asyReq[t] = r
    BY <1>8, <1>2 DEF AsyPut, AsyWork, AsyTypeOK
  <2>2. /\ m \in AsyMessages /\ m.to = "backend" /\ m.req = r
        /\ asyOut' = Append(asyOut, m)
    BY <1>8, <1>2, <2>1 DEF AsyPut, AsyTypeOK, AsyMessages
  <2>3. AsyUnsent(r) /\ ~AsyQueued(r)
    BY <2>1 DEF AsyOnce, AsyUnsent
  <2>4. /\ \A c : AsyQueued(c)' <=> AsyQueued(c) \/ r = c
        /\ AsySingle(asyOut)'
    <3> HIDE DEF m
    <3> QED BY <1>4, <2>2, <2>3
  <2>5. /\ asyReq' = [asyReq EXCEPT ![t] = "none"]
        /\ UNCHANGED <<asyClient, asyAway, asyBack>>
    BY <1>8, AsyFollowing DEF AsyPut, AsyReturn, asyTasks
  <2>6. ~AsyUnsent(r)'
    BY <1>1, <1>2, <2>1, <2>5 DEF AsyUnsent, AsyWork, AsyTypeOK
  <2>7. \A c \in AsyClients : AsyUnsent(c)' => AsyUnsent(c)
    BY <1>1, <1>2, <2>5 DEF AsyUnsent, AsyTypeOK
  <2> HIDE DEF m
  <2> QED BY <2>1, <2>3, <2>4, <2>5, <2>6, <2>7 DEF AsyOnce
<1>9. ASSUME NEW t \in AsyThreads, AsyFail(t) PROVE AsyOnce'
  <2>1. asyReq[t] \in AsyClients
    BY <1>9, <1>2 DEF AsyFail, AsyWork, AsyTypeOK
  <2>2. (\A d : AsyQueued(d)' <=> AsyQueued(d)) /\ AsySingle(asyOut)'
    BY <1>9, <1>5, <2>1 DEF AsyFail
  <2>3. /\ asyReq' = [asyReq EXCEPT ![t] = "none"]
        /\ UNCHANGED <<asyClient, asyAway, asyBack>>
    BY <1>9 DEF AsyFail, AsyReturn, asyTasks
  <2>4. \A c \in AsyClients : AsyUnsent(c)' => AsyUnsent(c)
    BY <1>1, <1>2, <2>3 DEF AsyUnsent, AsyTypeOK
  <2> QED BY <2>2, <2>3, <2>4 DEF AsyOnce
<1>10. ASSUME NEW t \in AsyThreads, NEW c \in AsyClients, AsyTake(t, c)
       PROVE  AsyOnce'
  <2>1. \A d : AsyQueued(d)' <=> AsyQueued(d)
    BY <1>10, <1>6 DEF AsyTake
  <2>2. \A d \in AsyClients : AsyUnsent(d)' => AsyUnsent(d)
    BY <1>10, <1>2 DEF AsyTake, AsyUnsent, AsyTypeOK
  <2> QED BY <1>10, <1>6, <2>1, <2>2 DEF AsyTake, AsyOnce, asyTasks
<1>11. ASSUME NEW c \in AsyClients, AsyAccepts(c) \/ AsyElapse(c) PROVE AsyOnce'
  BY <1>11, <1>3 DEF AsyAccepts, AsyElapse, asyWorker, asyTasks
<1>12. ASSUME NEW c \in AsyClients, AsyAnswerReply(c) PROVE AsyOnce'
  <2>1. \A d \in AsyClients : AsyUnsent(d)' <=> AsyUnsent(d)
    BY <1>12 DEF AsyAnswerReply, AsyUnsent, asyWorker
  <2> QED BY <1>12, <1>5, <2>1 DEF AsyAnswerReply, AsyOnce, asyTasks
<1>13. ASSUME NEW c \in AsyClients, AsyAnswerTask(c) PROVE AsyOnce'
  <2>1. \A d \in AsyClients : AsyUnsent(d)' <=> AsyUnsent(d)
    BY <1>13 DEF AsyAnswerTask, AsyUnsent, asyWorker
  <2> QED BY <1>13, <1>6, <2>1 DEF AsyAnswerTask, AsyOnce
<1>14. ASSUME NEW c \in AsyClients, AsySvc(c) PROVE AsyOnce'
  <2>1. \A d \in AsyClients : AsyUnsent(d)' <=> AsyUnsent(d)
    BY <1>14 DEF AsySvc, AsyUnsent, asyWorker
  <2>2. (\A d : AsyQueued(d)' <=> AsyQueued(d)) /\ AsySingle(asyOut)'
    BY <1>14, <1>5, <1>6 DEF AsySvc
  <2> QED BY <1>14, <2>1, <2>2 DEF AsySvc, AsyOnce
<1>15. ASSUME NEW fd \in AsyFds, AsyCloses(fd) PROVE AsyOnce'
  <2>1. \A d \in AsyClients : AsyUnsent(d)' <=> AsyUnsent(d)
    BY <1>15 DEF AsyCloses, AsyUnsent, asyWorker
  <2> QED BY <1>15, <1>6, <2>1 DEF AsyCloses, AsyOnce, asyTasks
<1>16. ASSUME AsyAccepted PROVE AsyOnce'
  <2>1. \A d \in AsyClients : AsyUnsent(d)' => AsyUnsent(d)
    BY <1>16, <1>2 DEF AsyAccepted, AsyWork, AsyUnsent, asyWorker, AsyTypeOK
  <2> QED BY <1>16, <1>6, <2>1 DEF AsyAccepted, AsyOnce, asyTasks
<1>17. ASSUME AsyDeliver PROVE AsyOnce'
  <2>1. PICK m : m = Head(asyOut)
    OBVIOUS
  <2>2. \A d \in AsyClients : AsyUnsent(d)' <=> AsyUnsent(d)
    BY <1>17 DEF AsyDeliver, AsyUnsent, asyWorker
  <2>3. /\ m \in AsyMessages /\ AsySingle(asyOut)'
        /\ \A c : AsyQueued(c)' => AsyQueued(c)
        /\ m.to = "backend" => AsyQueued(m.req) /\ ~AsyQueued(m.req)'
    BY <1>17, <1>2, <2>1, AsyTaken DEF AsyDeliver, AsyOnce, AsyQueued
  <2>4. \/ asyAway' = asyAway
        \/ m.to = "backend" /\ asyAway' = asyAway \cup {m.req}
    BY <1>1, <1>17, <2>1, <2>3 DEF AsyDeliver, AsyMessages
  <2>5. m.req \in AsyClients /\ asyBack' = asyBack
    BY <1>17, <2>3 DEF AsyDeliver, AsyMessages, asyTasks
  <2>6. CASE asyAway' = asyAway
    BY <2>2, <2>3, <2>5, <2>6 DEF AsyOnce
  <2>7. CASE m.to = "backend" /\ asyAway' = asyAway \cup {m.req}
    BY <2>2, <2>3, <2>5, <2>7 DEF AsyOnce
  <2> QED BY <2>4, <2>6, <2>7
<1> QED BY <1>7, <1>8, <1>9, <1>10, <1>11, <1>12, <1>13, <1>14, <1>15, <1>16, <1>17
        DEF AsyNext

LEMMA AsyRecordedNext ==
    ASSUME AsyTypes, AsyWork, AsyOnce, AsyRecorded, AsyNext
    PROVE  AsyRecorded'
<1>1. "none" \notin AsyClients /\ "backend" \notin AsyClients
  BY PlatConnMgrAsyAssumption
<1>2. AsyTypeOK /\ asyOut \in Seq(AsyMessages)
  BY DEF AsyTypes
<1>3. /\ AsyFollows("task", "take") = "insert"
      /\ AsyFollows("forward", "take") = "estab"
      /\ \A mode : AsyFollows(mode, "insert") = "estab"
      /\ \A mode : AsyFollows(mode, "put") = "idle"
  BY AsyFollowing
<1>4. ASSUME NEW m \in AsyMessages, asyOut' = Append(asyOut, m)
      PROVE  \A c : AsyQueued(c)' <=> AsyQueued(c) \/ (m.to = "backend" /\ m.req = c)
  BY <1>4, <1>2, AsyAppended DEF AsyQueued
<1>5. ASSUME NEW c \in AsyClients, asyOut' = Append(asyOut, AsyReply(c))
      PROVE  \A d : AsyQueued(d)' <=> AsyQueued(d)
  <2>1. AsyReply(c) \in AsyMessages /\ AsyReply(c).to # "backend"
    BY <1>2 DEF AsyReply, AsyMessages, AsyTypeOK
  <2> QED BY <1>5, <1>4, <2>1
<1>6. asyOut' = asyOut => \A d : AsyQueued(d)' <=> AsyQueued(d)
  BY DEF AsyQueued
<1>7. ASSUME NEW t \in AsyThreads, AsyInsert(t) PROVE AsyRecorded'
  <2>1. AsyKnown' = AsyKnown \cup {asyReq[t]} /\ asyGone \subseteq asyGone'
    BY <1>7 DEF AsyInsert, AsyKnown
  <2>2. /\ asyPc' = [asyPc EXCEPT ![t] = "estab"]
        /\ UNCHANGED <<asyReq, asyClient, asyOut, asyAway, asyBack, asyBare>>
    BY <1>7, <1>3 DEF AsyInsert, AsyGoto
  <2> QED BY <1>2, <1>6, <2>1, <2>2 DEF AsyRecorded, AsyTypeOK
<1>8. ASSUME NEW t \in AsyThreads,
             \/ AsyEstab(t) \/ AsyLock(t)
             \/ AsyConnect(t) \/ AsyConnectFails(t) \/ AsyOpen(t)
             \/ AsySetFd(t) \/ AsySetSeq(t) \/ AsyReadFd(t)
      PROVE  AsyRecorded'
  <2>1. /\ asyPc[t] # "insert"
        /\ \A u \in AsyThreads : u # t => asyPc'[u] = asyPc[u]
        /\ UNCHANGED <<asyReq, asyClient, asyOut, asyAway, asyTasks>>
    BY <1>8, <1>2 DEF AsyEstab, AsyLock, AsyConnect, AsyConnectFails, AsyOpen,
                  AsySetFd, AsySetSeq, AsyReadFd, AsyGoto, AsyTypeOK
  <2> QED BY <1>6, <2>1 DEF AsyRecorded, AsyKnown, asyTasks
<1>9. ASSUME NEW t \in AsyThreads, AsyPut(t) PROVE AsyRecorded'
  <2> DEFINE m == [to |-> "backend", req |-> asyReq[t],
                   fd |-> asyFd[t], seq |-> asyInfo.seq]
  <2>1. asyReq[t] \in AsyClients /\ asyReq[t] # "none"
    BY <1>9, <1>2 DEF AsyPut, AsyWork, AsyTypeOK
  <2>2. /\ m \in AsyMessages /\ m.to = "backend" /\ m.req = asyReq[t]
        /\ asyOut' = Append(asyOut, m)
    BY <1>9, <1>2, <2>1 DEF AsyPut, AsyTypeOK, AsyMessages
  <2>3. \A c : AsyQueued(c)' <=> AsyQueued(c) \/ asyReq[t] = c
    <3> HIDE DEF m
    <3> QED BY <1>4, <2>2
  <2>4. /\ asyReq' = [asyReq EXCEPT ![t] = "none"]
        /\ asyPc' = [asyPc EXCEPT ![t] = "idle"]
        /\ UNCHANGED <<asyClient, asyAway, asyTasks>>
    BY <1>9, <1>3 DEF AsyPut, AsyReturn, AsyGoto
  <2>5. asyClient[asyReq[t]].at = "task" => asyReq[t] \in AsyKnown
    BY <1>9, <2>1 DEF AsyRecorded, AsyPut
  <2> HIDE DEF m
  <2> QED BY <1>1, <1>2, <2>1, <2>3, <2>4, <2>5
          DEF AsyRecorded, AsyKnown, asyTasks, AsyTypeOK
<1>10. ASSUME NEW t \in AsyThreads, AsyFail(t) PROVE AsyRecorded'
  <2>1. asyReq[t] \in AsyClients
    BY <1>10, <1>2 DEF AsyFail, AsyWork, AsyTypeOK
  <2>2. \A d : AsyQueued(d)' <=> AsyQueued(d)
    BY <1>10, <1>5, <2>1 DEF AsyFail
  <2>3. /\ asyReq' = [asyReq EXCEPT ![t] = "none"]
        /\ asyPc' = [asyPc EXCEPT ![t] = "idle"]
        /\ UNCHANGED <<asyClient, asyAway, asyTasks>>
    BY <1>10 DEF AsyFail, AsyReturn, AsyGoto
  <2> QED BY <1>1, <1>2, <2>1, <2>2, <2>3
          DEF AsyRecorded, AsyKnown, asyTasks, AsyTypeOK
<1>11. ASSUME NEW t \in AsyThreads, NEW c \in AsyClients, AsyTake(t, c)
       PROVE  AsyRecorded'
  <2>1. \A d : AsyQueued(d)' <=> AsyQueued(d)
    BY <1>11, <1>6 DEF AsyTake
  <2>2. /\ ~AsyQueued(c) /\ c \notin asyAway
        /\ \A u \in AsyThreads : asyReq[u] # c
    BY <1>11, <1>1 DEF AsyTake, AsyOnce, AsyUnsent, AsyWork
  <2> QED BY <1>11, <1>3, <1>2, <2>1, <2>2
          DEF AsyTake, AsyGoto, AsyRecorded, AsyKnown, AsyTypeOK, asyTasks
<1>12. ASSUME NEW c \in AsyClients, AsyAccepts(c) \/ AsyElapse(c) PROVE AsyRecorded'
  BY <1>12, <1>6 DEF AsyAccepts, AsyElapse, AsyRecorded, AsyKnown, asyWorker, asyTasks
<1>13. ASSUME NEW c \in AsyClients, AsyAnswerReply(c) PROVE AsyRecorded'
  BY <1>13, <1>5 DEF AsyAnswerReply, AsyRecorded, AsyKnown, asyWorker, asyTasks
<1>14. ASSUME NEW c \in AsyClients, AsyAnswerTask(c) PROVE AsyRecorded'
  BY <1>14, <1>6 DEF AsyAnswerTask, AsyRecorded, AsyKnown, asyWorker
<1>15. ASSUME NEW c \in AsyClients, AsySvc(c) PROVE AsyRecorded'
  <2>1. \A d : AsyQueued(d)' <=> AsyQueued(d)
    BY <1>15, <1>5, <1>6 DEF AsySvc
  <2>2. /\ ~AsyQueued(c) /\ c \notin asyAway
        /\ \A u \in AsyThreads : asyReq[u] # c
    BY <1>15 DEF AsySvc, AsyOnce, AsyUnsent
  <2>3. c \in AsyKnown
    BY <1>15 DEF AsySvc, AsyRecorded
  <2> QED BY <1>15, <1>2, <2>1, <2>2, <2>3
          DEF AsySvc, AsyRecorded, AsyKnown, asyWorker, AsyTypeOK
<1>16. ASSUME NEW fd \in AsyFds, AsyCloses(fd) PROVE AsyRecorded'
  BY <1>16, <1>6 DEF AsyCloses, AsyRecorded, AsyKnown, asyWorker, asyTasks
<1>17. ASSUME AsyAccepted PROVE AsyRecorded'
  <2>1. asyAccept.who \in AsyClients /\ asyClient[asyAccept.who].at = "new"
    BY <1>17, <1>2 DEF AsyAccepted, AsyWork, AsyTypeOK
  <2>2. \A u \in AsyThreads : asyReq[u] # asyAccept.who
    BY <1>1, <2>1 DEF AsyWork
  <2> QED BY <1>17, <1>2, <1>6, <2>1, <2>2
          DEF AsyAccepted, AsyRecorded, AsyKnown, asyWorker, asyTasks, AsyTypeOK
<1>18. ASSUME AsyDeliver PROVE AsyRecorded'
  <2> DEFINE m == Head(asyOut)
  <2>1. UNCHANGED <<asyClient, asyPc, asyReq, asyTasks>>
    BY <1>18 DEF AsyDeliver, asyWorker
  <2>2. /\ m \in AsyMessages
        /\ \A c : AsyQueued(c)' => AsyQueued(c)
        /\ m.to = "backend" => AsyQueued(m.req)
    BY <1>18, <1>2, AsyTaken DEF AsyDeliver, AsyQueued
  <2>3. asyAway' = asyAway \/ (m.to = "backend" /\ asyAway' = asyAway \cup {m.req})
    BY <1>1, <1>18, <2>2 DEF AsyDeliver, AsyMessages
  <2> HIDE DEF m
  <2> QED BY <2>1, <2>2, <2>3 DEF AsyRecorded, AsyKnown, asyTasks
<1> QED BY <1>7, <1>8, <1>9, <1>10, <1>11, <1>12, <1>13, <1>14, <1>15, <1>16,
           <1>17, <1>18
        DEF AsyNext

-----------------------------------------------------------------------------
(* The theorems of the types and the records.                              *)

LEMMA AsyAlwaysInv == AsySpec => []AsyInv
<1>1. AsyInv /\ [AsyNext]_asyVars => AsyInv'
  <2> SUFFICES ASSUME AsyInv, [AsyNext]_asyVars PROVE AsyInv'
    OBVIOUS
  <2>1. CASE AsyNext
    BY <2>1, AsyTypesNext, AsyWorkNext, AsyOnceNext, AsyRecordedNext DEF AsyInv
  <2>2. CASE UNCHANGED asyVars
    BY <2>2 DEF AsyInv, asyVars, asyConns, asyWorker, asyTasks, AsyTypes, AsyTypeOK,
                AsyWork, AsyOnce, AsyUnsent, AsyQueued, AsyRecorded, AsyKnown
  <2> QED BY <2>1, <2>2
<1> QED BY <1>1, AsyTypesInit, PTL DEF AsySpec

(* Connections, requests and messages have their types: in particular no   *)
(* connection gets a number beyond those there are, and only requests that *)
(* are sent, or answered, are in a queue (plat_conn_mgr_asy.cpp:100-250).  *)
THEOREM AsyTypeCorrect == AsySpec => []AsyTypeOK
<1>1. AsyInv => AsyTypeOK
  BY DEF AsyInv, AsyTypes
<1> QED BY <1>1, AsyAlwaysInv, PTL

(* ASYTask handles an answer without the record of its request only if the *)
(* record was dropped as old, whatever the threads and however late or     *)
(* early the answer (plat_conn_mgr_asy.cpp:244, asy_task.cpp:44-64).       *)
THEOREM AsyRecordsFirst == AsySpec => []AsyRecordFirst
<1>1. AsyInv => AsyRecordFirst
  BY DEF AsyInv, AsyRecorded, AsyRecordFirst
<1> QED BY <1>1, AsyAlwaysInv, PTL

-----------------------------------------------------------------------------
(* Numbers, as long as nothing has raced.                                  *)

(* A connection that is there gets the next number.                        *)
LEMMA AsyNumberGiven ==
    ASSUME NEW who, NEW fd, NEW load, AsyNumber(who, fd, load),
           asyTable[fd].who = who, ~asyRaced',
           load \in asyGiven \/ load = asyTotal
    PROVE  /\ load = asyTotal /\ load \notin asyGiven
           /\ asyTotal' = asyTotal + 1
           /\ asyGiven' = asyGiven \cup {asyTotal}
           /\ asyTable' = [asyTable EXCEPT ![fd].seq = asyTotal]
<1>1. /\ asyTotal' = load + 1
      /\ asyTable' = [asyTable EXCEPT ![fd].seq = load]
      /\ asyGiven' = asyGiven \cup {load}
      /\ asyRaced' = (asyRaced \/ load \in asyGiven)
  BY DEF AsyNumber
<1>2. load \notin asyGiven
  BY <1>1, Zenon
<1> QED BY <1>1, <1>2

LEMMA AsyOpens ==
    ASSUME AsyInv, AsySafe, ~asyRaced', NEW t \in AsyThreads, AsyOpen(t)
    PROVE  /\ asyFd[t] \in AsyFds /\ asyTable[asyFd[t]].who = "backend"
           /\ asyTotal \notin asyGiven /\ asyLoad[t] = asyTotal
           /\ asyTotal' = asyTotal + 1
           /\ asyGiven' = asyGiven \cup {asyTotal}
           /\ asyTable' = [asyTable EXCEPT ![asyFd[t]].seq = asyTotal]
           /\ asyPc' = [asyPc EXCEPT ![t] = "setfd"]
           /\ \A u \in AsyThreads : asyPc[u] \in AsyLocking => u = t
<1>1. asyFd[t] \in AsyFds /\ asyTable[asyFd[t]].who = "backend"
  BY DEF AsyOpen, AsyInv, AsyWork, AsySafe, AsyBackends, AsyMakes
<1>2. asyLoad[t] \in asyGiven \/ asyLoad[t] = asyTotal
  BY DEF AsyOpen, AsySafe, AsyNumbers
<1>3. AsyNumber("backend", asyFd[t], asyLoad[t])
  BY DEF AsyOpen
<1>4. /\ asyPc' = [asyPc EXCEPT ![t] = "setfd"]
      /\ \A u \in AsyThreads : asyPc[u] \in AsyLocking => u = t
  BY DEF AsyOpen, AsyGoto, AsyInv, AsyWork, AsyLocking, AsyMakes
<1> QED BY <1>1, <1>2, <1>3, <1>4, AsyNumberGiven

LEMMA AsyAdmits ==
    ASSUME AsyInv, AsySafe, ~asyRaced', AsyAccepted
    PROVE  /\ asyAccept.fd \in AsyFds /\ asyAccept.who \in AsyClients
           /\ asyTable[asyAccept.fd].who = asyAccept.who
           /\ asyClient[asyAccept.who].at = "new"
           /\ asyTotal \notin asyGiven /\ asyAccept.load = asyTotal
           /\ asyTotal' = asyTotal + 1
           /\ asyGiven' = asyGiven \cup {asyTotal}
           /\ asyTable' = [asyTable EXCEPT ![asyAccept.fd].seq = asyTotal]
           /\ asyClient' = [asyClient EXCEPT ![asyAccept.who] =
                [at |-> "queued", fd |-> asyAccept.fd, seq |-> asyTotal]]
           /\ asyAccept'.who = "none"
<1>1. /\ asyAccept.fd \in AsyFds /\ asyAccept.who \in AsyClients
      /\ asyTable[asyAccept.fd].who = asyAccept.who
      /\ asyClient[asyAccept.who].at = "new"
  BY DEF AsyAccepted, AsyInv, AsyWork, AsyTypes, AsyTypeOK
<1>2. asyAccept.load \in asyGiven \/ asyAccept.load = asyTotal
  BY DEF AsyAccepted, AsySafe, AsyNumbers
<1>3. AsyNumber(asyAccept.who, asyAccept.fd, asyAccept.load)
  BY DEF AsyAccepted
<1>4. /\ asyClient' = [asyClient EXCEPT ![asyAccept.who] =
           [at |-> "queued", fd |-> asyAccept.fd, seq |-> asyAccept.load]]
      /\ asyAccept'.who = "none"
  BY DEF AsyAccepted
<1> QED BY <1>1, <1>2, <1>3, <1>4, AsyNumberGiven

(* A client that is accepted has no other connection.                      *)
LEMMA AsyEnters ==
    ASSUME AsyInv, AsySafe, NEW c \in AsyClients, AsyAccepts(c)
    PROVE  /\ \A fd \in AsyFds : asyTable[fd].who # c
           /\ asyAccept.who = "none" /\ asyClient[c].at = "new"
           /\ \E fd \in AsyFds :
                /\ asyTable[fd].who = "none"
                /\ asyTable' = [asyTable EXCEPT ![fd] = [who |-> c, seq |-> 0]]
                /\ asyAccept' = [who |-> c, fd |-> fd, load |-> asyTotal]
           /\ UNCHANGED <<asyTotal, asyInfo, asyGiven, asyClient, asyPc, asyReq,
                          asyFd, asyLoad, asyOut>>
<1>1. c # "none"
  BY PlatConnMgrAsyAssumption
<1>2. \A fd \in AsyFds : asyTable[fd].who # c
  BY <1>1 DEF AsyAccepts, AsySafe, AsyNamed
<1> QED BY <1>2 DEF AsyAccepts, AsyIsFree, asyWorker

LEMMA AsyShuts ==
    ASSUME AsyInv, ~asyRaced', NEW fd \in AsyFds, AsyCloses(fd)
    PROVE  /\ asyAccept.who = "none"
           /\ asyTable[fd].who # "none"
           /\ asyTable[fd].who = "backend" =>
                \A t \in AsyThreads : asyPc[t] \notin AsyMakes
           /\ asyTable' = [asyTable EXCEPT ![fd] = AsyNobody]
           /\ UNCHANGED <<asyTotal, asyInfo, asyGiven, asyAccept, asyClient,
                          asyPc, asyReq, asyFd, asyLoad, asyOut, asyStray>>
<1>1. asyTable[fd].who = "backend" => \A t \in AsyThreads : ~AsyMaking(t)
  BY Zenon DEF AsyCloses
<1> QED BY <1>1 DEF AsyCloses, AsyMaking, AsyMakes, asyWorker

(* A worker gets a free descriptor.                                        *)
LEMMA AsyConnects ==
    ASSUME AsyInv, NEW t \in AsyThreads, AsyConnect(t)
    PROVE  /\ asyPc[t] = "connect"
           /\ \A u \in AsyThreads : asyPc[u] \in AsyLocking => u = t
           /\ \E fd \in AsyFds :
                /\ asyTable[fd].who = "none"
                /\ asyTable' = [asyTable EXCEPT ![fd] = [who |-> "backend", seq |-> 0]]
                /\ asyFd' = [asyFd EXCEPT ![t] = fd]
           /\ asyLoad' = [asyLoad EXCEPT ![t] = asyTotal]
           /\ asyPc' = [asyPc EXCEPT ![t] = "number"]
           /\ UNCHANGED <<asyTotal, asyInfo, asyGiven, asyAccept, asyClient,
                          asyOut, asyStray>>
<1>1. \A u \in AsyThreads : asyPc[u] \in AsyLocking => u = t
  BY DEF AsyConnect, AsyInv, AsyWork, AsyLocking, AsyMakes
<1> QED BY <1>1 DEF AsyConnect, AsyIsFree, AsyGoto

(* The steps of a worker in which no connection changes.                   *)
AsyPasses(t) ==
    \/ AsyInsert(t) \/ AsyEstab(t) \/ AsyLock(t) \/ AsyConnectFails(t)
    \/ AsySetFd(t) \/ AsySetSeq(t) \/ AsyReadFd(t) \/ AsyPut(t) \/ AsyFail(t)
    \/ \E c \in AsyClients : AsyTake(t, c)

LEMMA AsyPassing ==
    ASSUME AsyInv, NEW t \in AsyThreads, AsyPasses(t)
    PROVE  /\ UNCHANGED <<asyTable, asyTotal, asyGiven, asyAccept>>
           /\ \A c \in AsyClients :
                /\ asyClient'[c].at = "new" <=> asyClient[c].at = "new"
                /\ asyClient'[c].fd = asyClient[c].fd
                /\ asyClient'[c].seq = asyClient[c].seq
           /\ asyPc'[t] # "number"
           /\ \A u \in AsyThreads : u # t =>
                /\ asyPc'[u] = asyPc[u] /\ asyFd'[u] = asyFd[u]
                /\ asyLoad'[u] = asyLoad[u]
<1>1. /\ \A mode : AsyFollows(mode, "insert") = "estab"
      /\ \A mode : AsyFollows(mode, "put") = "idle"
      /\ \A mode \in {"forward", "task"} : AsyFollows(mode, "take") # "number"
  BY DEF AsyFollows
<1>2. AsyTypeOK
  BY DEF AsyInv, AsyTypes
<1>3. CASE AsyInsert(t)
  BY <1>3, <1>1, <1>2 DEF AsyInsert, AsyGoto, asyConns, AsyTypeOK
<1>4. CASE AsyEstab(t) \/ AsyLock(t) \/ AsyConnectFails(t)
  BY <1>4, <1>2 DEF AsyEstab, AsyLock, AsyConnectFails, AsyGoto, asyConns, AsyTypeOK
<1>5. CASE AsySetFd(t) \/ AsySetSeq(t) \/ AsyReadFd(t)
  BY <1>5, <1>2 DEF AsySetFd, AsySetSeq, AsyReadFd, AsyGoto, asyConns, AsyTypeOK
<1>6. CASE AsyPut(t)
  BY <1>6, <1>1, <1>2 DEF AsyPut, AsyReturn, AsyGoto, asyConns, AsyTypeOK
<1>7. CASE AsyFail(t)
  BY <1>7, <1>2 DEF AsyFail, AsyReturn, AsyGoto, asyConns, AsyTypeOK
<1>8. ASSUME NEW c \in AsyClients, AsyTake(t, c)
      PROVE  /\ UNCHANGED <<asyTable, asyTotal, asyGiven, asyAccept>>
             /\ \A d \in AsyClients :
                  /\ asyClient'[d].at = "new" <=> asyClient[d].at = "new"
                  /\ asyClient'[d].fd = asyClient[d].fd
                  /\ asyClient'[d].seq = asyClient[d].seq
             /\ asyPc'[t] # "number"
             /\ \A u \in AsyThreads : u # t =>
                  /\ asyPc'[u] = asyPc[u] /\ asyFd'[u] = asyFd[u]
                  /\ asyLoad'[u] = asyLoad[u]
  BY <1>8, <1>1, <1>2 DEF AsyTake, AsyGoto, asyConns, AsyTypeOK
<1> QED BY <1>3, <1>4, <1>5, <1>6, <1>7, <1>8 DEF AsyPasses

(* The steps in which only the requests' places change.                    *)
AsyMoves(c) == \/ AsyAnswerReply(c) \/ AsyAnswerTask(c)
               \/ AsySvc(c) \/ AsyElapse(c)

AsySteady == <<asyTable, asyTotal, asyInfo, asyGiven, asyAccept, asyClient,
               asyPc, asyReq, asyFd, asyLoad>>

LEMMA AsyMoving ==
    ASSUME AsyDeliver \/ \E c \in AsyClients : AsyMoves(c)
    PROVE  UNCHANGED AsySteady
BY DEF AsyDeliver, AsyMoves, AsyAnswerReply, AsyAnswerTask, AsySvc, AsyElapse,
       asyConns, asyWorker, AsySteady

LEMMA AsyCases ==
    AsyNext => \/ \E t \in AsyThreads : AsyPasses(t) \/ AsyConnect(t) \/ AsyOpen(t)
               \/ \E c \in AsyClients : AsyAccepts(c) \/ AsyMoves(c)
               \/ \E fd \in AsyFds : AsyCloses(fd)
               \/ AsyAccepted \/ AsyDeliver
BY DEF AsyNext, AsyPasses, AsyMoves

LEMMA AsyNumbersNext ==
    ASSUME AsyInv, AsySafe, AsyNext, ~asyRaced'
    PROVE  AsyNumbers' /\ AsyNamed'
<1> DEFINE Goal == AsyNumbers /\ AsyNamed
<1>1. /\ "none" \notin AsyClients /\ "backend" \notin AsyClients
      /\ asyTotal \in Nat /\ asyGiven \subseteq Nat
      /\ \A n \in asyGiven : n < asyTotal /\ n < asyTotal + 1
      /\ asyTotal < asyTotal + 1
  BY PlatConnMgrAsyAssumption
     DEF AsyInv, AsyTypes, AsyTypeOK, AsySafe, AsyNumbers, AsySeqs
<1>2. AsyTypeOK /\ AsyNumbers /\ AsyNamed
  BY DEF AsyInv, AsyTypes, AsySafe
<1>3. ASSUME NEW t \in AsyThreads, AsyPasses(t) PROVE Goal'
  <2>1. /\ UNCHANGED <<asyTable, asyTotal, asyGiven, asyAccept>>
        /\ \A c \in AsyClients :
             /\ asyClient'[c].at = "new" <=> asyClient[c].at = "new"
             /\ asyClient'[c].seq = asyClient[c].seq
        /\ asyPc'[t] # "number"
        /\ \A u \in AsyThreads : u # t =>
             asyPc'[u] = asyPc[u] /\ asyLoad'[u] = asyLoad[u]
    BY <1>3, AsyPassing
  <2>2. AsyNumbers'
    BY <1>2, <2>1 DEF AsyNumbers
  <2>3. AsyNamed'
    BY ONLY <1>2, <2>1 DEF AsyNamed
  <2> QED BY <2>2, <2>3
<1>4. ASSUME NEW t \in AsyThreads, AsyConnect(t) PROVE Goal'
  <2>1. /\ asyLoad' = [asyLoad EXCEPT ![t] = asyTotal]
        /\ asyPc' = [asyPc EXCEPT ![t] = "number"]
        /\ UNCHANGED <<asyTotal, asyGiven, asyAccept, asyClient>>
    BY <1>4, AsyConnects
  <2>2. PICK fd \in AsyFds :
          asyTable' = [asyTable EXCEPT ![fd] = [who |-> "backend", seq |-> 0]]
    BY <1>4, AsyConnects
  <2>3. AsyNumbers'
    BY <1>2, <2>1 DEF AsyNumbers, AsyTypeOK
  <2>4. \A g \in AsyFds : \/ asyTable'[g] = asyTable[g]
                          \/ asyTable'[g].who = "backend"
    BY <1>2, <2>2 DEF AsyTypeOK
  <2>5. AsyNamed'
    BY ONLY <1>1, <1>2, <2>1, <2>4 DEF AsyNamed
  <2> QED BY <2>3, <2>5
<1>5. ASSUME NEW t \in AsyThreads, AsyOpen(t) PROVE Goal'
  <2>1. UNCHANGED <<asyAccept, asyClient, asyLoad>>
    BY <1>5 DEF AsyOpen
  <2>2. AsyNumbers'
    BY <1>1, <1>5, <1>2, <2>1, AsyOpens
       DEF AsyNumbers, AsyTypeOK, AsyLocking, AsyMakes
  <2>3. AsyNamed'
    BY <1>1, <1>5, <1>2, <2>1, AsyOpens DEF AsyNamed, AsyTypeOK
  <2> QED BY <2>2, <2>3
<1>6. ASSUME NEW c \in AsyClients, AsyAccepts(c) PROVE Goal'
  <2>1. /\ \A fd \in AsyFds : asyTable[fd].who # c
        /\ asyAccept.who = "none"
        /\ UNCHANGED <<asyTotal, asyGiven, asyClient, asyPc, asyLoad>>
    BY <1>6, AsyEnters
  <2>2. PICK fd \in AsyFds :
          /\ asyTable' = [asyTable EXCEPT ![fd] = [who |-> c, seq |-> 0]]
          /\ asyAccept' = [who |-> c, fd |-> fd, load |-> asyTotal]
    BY <1>6, AsyEnters
  <2>3. AsyNumbers'
    BY <1>2, <2>1, <2>2 DEF AsyNumbers
  <2>4. \A g \in AsyFds :
          asyTable'[g] = IF g = fd THEN [who |-> c, seq |-> 0] ELSE asyTable[g]
    BY <1>2, <2>2 DEF AsyTypeOK
  <2>5. asyAccept'.who = c /\ asyAccept'.fd = fd
    BY <2>2
  <2>6. AsyNamed'
    BY ONLY <1>1, <1>2, <2>1, <2>4, <2>5 DEF AsyNamed
  <2> QED BY <2>3, <2>6
<1>7. ASSUME NEW fd \in AsyFds, AsyCloses(fd) PROVE Goal'
  <2>1. /\ asyTable' = [asyTable EXCEPT ![fd] = AsyNobody]
        /\ UNCHANGED <<asyTotal, asyGiven, asyAccept, asyClient, asyPc, asyLoad>>
    BY <1>7, AsyShuts
  <2>2. AsyNumbers'
    BY <1>2, <2>1 DEF AsyNumbers
  <2>3. \A g \in AsyFds : \/ asyTable'[g] = asyTable[g]
                          \/ asyTable'[g].who = "none"
    BY <1>2, <2>1 DEF AsyNobody, AsyTypeOK
  <2>4. AsyNamed'
    BY ONLY <1>1, <1>2, <2>1, <2>3 DEF AsyNamed
  <2> QED BY <2>2, <2>4
<1>8. ASSUME AsyAccepted PROVE Goal'
  <2>1. UNCHANGED <<asyPc, asyLoad>>
    BY <1>8 DEF AsyAccepted, asyWorker
  <2>2. AsyNumbers'
    BY <1>1, <1>8, <1>2, <2>1, AsyAdmits DEF AsyNumbers
  <2>3. PICK a \in AsyClients, fd \in AsyFds :
          /\ a = asyAccept.who /\ fd = asyAccept.fd
          /\ asyTable[fd].who = a /\ asyClient[a].at = "new"
          /\ asyTotal \notin asyGiven
          /\ asyGiven' = asyGiven \cup {asyTotal}
          /\ asyTable' = [asyTable EXCEPT ![fd].seq = asyTotal]
          /\ asyClient' = [asyClient EXCEPT ![a] =
                             [at |-> "queued", fd |-> fd, seq |-> asyTotal]]
    BY <1>8, AsyAdmits
  <2>4. /\ \A g \in AsyFds : asyTable'[g].who = asyTable[g].who
        /\ \A g \in AsyFds : asyTable'[g].seq =
                              IF g = fd THEN asyTotal ELSE asyTable[g].seq
    BY <1>2, <2>3 DEF AsyTypeOK
  <2>5. /\ \A c \in AsyClients : c # a => asyClient'[c] = asyClient[c]
        /\ asyClient'[a].at = "queued" /\ asyClient'[a].seq = asyTotal
    BY <1>2, <2>3 DEF AsyTypeOK
  <2>6. AsyNamed'
    BY ONLY <1>1, <1>2, <2>3, <2>4, <2>5 DEF AsyNamed
  <2> QED BY <2>2, <2>6
<1>9. ASSUME UNCHANGED AsySteady PROVE Goal'
  BY <1>9, <1>2 DEF AsySteady, AsyNumbers, AsyNamed
<1> HIDE DEF Goal
<1>10. Goal'
  BY <1>3, <1>4, <1>5, <1>6, <1>7, <1>8, <1>9, AsyCases, AsyMoving
<1> QED BY <1>10 DEF Goal

-----------------------------------------------------------------------------
(* What stays so, as long as nothing has raced.                            *)

(* A number of the backend's does not become a client's.                   *)
LEMMA AsyOursKept ==
    ASSUME AsyInv, AsySafe, AsyNext, ~asyRaced', NEW n, AsyOurs(n)
    PROVE  AsyOurs(n)'
<1>1. AsyTypeOK /\ n \in asyGiven
      /\ \A c \in AsyClients : asyClient[c].at # "new" => asyClient[c].seq # n
  BY DEF AsyInv, AsyTypes, AsyOurs
<1>2. ASSUME NEW t \in AsyThreads, AsyPasses(t) PROVE AsyOurs(n)'
  BY <1>2, <1>1, AsyPassing DEF AsyOurs
<1>3. ASSUME UNCHANGED <<asyGiven, asyClient>> PROVE AsyOurs(n)'
  BY <1>3, <1>1 DEF AsyOurs
<1>4. ASSUME NEW t \in AsyThreads, AsyConnect(t) PROVE AsyOurs(n)'
  BY <1>3, <1>4, AsyConnects
<1>5. ASSUME NEW t \in AsyThreads, AsyOpen(t) PROVE AsyOurs(n)'
  <2>1. asyGiven' = asyGiven \cup {asyTotal} /\ asyClient' = asyClient
    BY <1>5, AsyOpens DEF AsyOpen
  <2> QED BY <1>1, <2>1 DEF AsyOurs
<1>6. ASSUME NEW c \in AsyClients, AsyAccepts(c) PROVE AsyOurs(n)'
  BY <1>3, <1>6, AsyEnters
<1>7. ASSUME NEW fd \in AsyFds, AsyCloses(fd) PROVE AsyOurs(n)'
  BY <1>3, <1>7, AsyShuts
<1>8. ASSUME AsyAccepted PROVE AsyOurs(n)'
  <2>1. PICK a \in AsyClients, fd \in AsyFds :
          /\ asyGiven' = asyGiven \cup {asyTotal} /\ asyTotal \notin asyGiven
          /\ asyClient' = [asyClient EXCEPT ![a] =
                             [at |-> "queued", fd |-> fd, seq |-> asyTotal]]
    BY <1>8, AsyAdmits
  <2>2. asyTotal # n
    BY <1>1, <2>1
  <2>3. \A c \in AsyClients : \/ asyClient'[c] = asyClient[c]
                              \/ asyClient'[c].seq = asyTotal
    BY <1>1, <2>1 DEF AsyTypeOK
  <2> QED BY <1>1, <2>1, <2>2, <2>3 DEF AsyOurs
<1>9. UNCHANGED AsySteady => AsyOurs(n)'
  BY <1>3 DEF AsySteady
<1> QED BY <1>2, <1>4, <1>5, <1>6, <1>7, <1>8, <1>9, AsyCases, AsyMoving

(* What a connection to the backend has just got is one of its numbers.    *)
LEMMA AsyOursOpened ==
    ASSUME AsyInv, AsySafe, ~asyRaced', NEW t \in AsyThreads, AsyOpen(t),
           NEW n, n = asyTotal
    PROVE  AsyOurs(n)'
<1>1. n \in asyGiven' /\ n \notin asyGiven /\ asyClient' = asyClient
  BY AsyOpens DEF AsyOpen
<1>2. \A c \in AsyClients : asyClient[c].at # "new" => asyClient[c].seq \in asyGiven
  BY DEF AsySafe, AsyNamed
<1> QED BY <1>1, <1>2 DEF AsyOurs

(* A descriptor the backend had is given to clients with a number only.    *)
LEMMA AsyHadKept ==
    ASSUME AsyInv, AsySafe, AsyNext, ~asyRaced', NEW f, AsyHad(f)
    PROVE  AsyHad(f)'
<1>1. /\ "none" \notin AsyClients /\ "backend" \notin AsyClients
      /\ asyTotal \in Nat /\ asyTotal + 1 > 0
  BY PlatConnMgrAsyAssumption DEF AsyInv, AsyTypes, AsyTypeOK, AsySeqs
<1>2. AsyTypeOK /\ AsyNamed
  BY DEF AsyInv, AsyTypes, AsySafe
<1> SUFFICES ASSUME f \in AsyFds PROVE AsyHad(f)'
  BY DEF AsyHad
<1>3. /\ asyTotal > 0
      /\ asyTable[f].who \in AsyClients /\ asyAccept.who = asyTable[f].who
           => asyAccept.load > 0
      /\ asyTable[f].who \in AsyClients /\ asyAccept.who # asyTable[f].who
           => asyTable[f].seq > 0
  BY DEF AsyHad
<1>4. ASSUME UNCHANGED <<asyTotal, asyTable, asyAccept>> PROVE AsyHad(f)'
  BY <1>4, <1>3 DEF AsyHad
<1>5. ASSUME NEW t \in AsyThreads, AsyPasses(t) PROVE AsyHad(f)'
  BY <1>5, <1>4, AsyPassing
<1>6. ASSUME NEW t \in AsyThreads, AsyConnect(t) PROVE AsyHad(f)'
  <2>1. UNCHANGED <<asyTotal, asyAccept>>
    BY <1>6, AsyConnects
  <2>2. PICK fd \in AsyFds :
          asyTable' = [asyTable EXCEPT ![fd] = [who |-> "backend", seq |-> 0]]
    BY <1>6, AsyConnects
  <2>3. asyTable'[f] = asyTable[f] \/ asyTable'[f].who = "backend"
    BY <1>2, <2>2 DEF AsyTypeOK
  <2> QED BY <1>1, <1>3, <2>1, <2>3 DEF AsyHad
<1>7. ASSUME NEW t \in AsyThreads, AsyOpen(t) PROVE AsyHad(f)'
  <2>1. /\ asyFd[t] \in AsyFds /\ asyTable[asyFd[t]].who = "backend"
        /\ asyTotal' = asyTotal + 1
        /\ asyTable' = [asyTable EXCEPT ![asyFd[t]].seq = asyTotal]
        /\ asyAccept' = asyAccept
    BY <1>7, AsyOpens DEF AsyOpen
  <2>2. asyTable'[f] = asyTable[f] \/ asyTable'[f].who = "backend"
    BY <1>2, <2>1 DEF AsyTypeOK
  <2>3. asyTotal' > 0
    BY <1>1, <2>1
  <2> QED BY <1>1, <1>3, <2>1, <2>2, <2>3 DEF AsyHad
<1>8. ASSUME NEW c \in AsyClients, AsyAccepts(c) PROVE AsyHad(f)'
  <2>1. /\ \A fd \in AsyFds : asyTable[fd].who # c
        /\ asyAccept.who = "none" /\ asyTotal' = asyTotal
    BY <1>8, AsyEnters
  <2>2. PICK fd \in AsyFds :
          /\ asyTable' = [asyTable EXCEPT ![fd] = [who |-> c, seq |-> 0]]
          /\ asyAccept' = [who |-> c, fd |-> fd, load |-> asyTotal]
    BY <1>8, AsyEnters
  <2>3. \/ asyTable'[f] = asyTable[f] \/ asyTable'[f].who = c
    BY <1>2, <2>2 DEF AsyTypeOK
  <2>4. asyAccept'.who = c /\ asyAccept'.load = asyTotal
    BY <2>2
  <2> QED BY <1>1, <1>3, <2>1, <2>3, <2>4 DEF AsyHad
<1>9. ASSUME NEW fd \in AsyFds, AsyCloses(fd) PROVE AsyHad(f)'
  <2>1. /\ asyTable' = [asyTable EXCEPT ![fd] = AsyNobody]
        /\ UNCHANGED <<asyTotal, asyAccept>>
    BY <1>9, AsyShuts
  <2>2. asyTable'[f] = asyTable[f] \/ asyTable'[f].who = "none"
    BY <1>2, <2>1 DEF AsyTypeOK, AsyNobody
  <2> QED BY <1>1, <1>3, <2>1, <2>2 DEF AsyHad
<1>10. ASSUME AsyAccepted PROVE AsyHad(f)'
  <2>1. PICK a \in AsyClients, fd \in AsyFds :
          /\ a = asyAccept.who /\ fd = asyAccept.fd
          /\ asyTable[fd].who = a /\ asyClient[a].at = "new"
          /\ asyTotal' = asyTotal + 1
          /\ asyTable' = [asyTable EXCEPT ![fd].seq = asyTotal]
          /\ asyAccept'.who = "none"
    BY <1>10, AsyAdmits
  <2>2. asyTotal' > 0
    BY <1>1, <2>1
  <2>3. asyTable[f].who = a => f = fd
    BY <1>2, <2>1 DEF AsyNamed
  <2>4. /\ asyTable'[f].who = asyTable[f].who
        /\ asyTable'[f].seq = IF f = fd THEN asyTotal ELSE asyTable[f].seq
    BY <1>2, <2>1 DEF AsyTypeOK
  <2> QED BY <1>1, <1>3, <2>1, <2>2, <2>3, <2>4 DEF AsyHad
<1>11. UNCHANGED AsySteady => AsyHad(f)'
  BY <1>4 DEF AsySteady
<1> QED BY <1>5, <1>6, <1>7, <1>8, <1>9, <1>10, <1>11, AsyCases, AsyMoving

-----------------------------------------------------------------------------
(* The connection to the backend, as long as nothing has raced.            *)

(* The steps of a worker that has nothing to do with conn_lock_.           *)
AsyAside(t) ==
    \/ AsyInsert(t) \/ AsyEstab(t) \/ AsyReadFd(t) \/ AsyPut(t) \/ AsyFail(t)
    \/ \E c \in AsyClients : AsyTake(t, c)

LEMMA AsyApart ==
    ASSUME AsyInv, NEW t \in AsyThreads, AsyAside(t)
    PROVE  /\ asyPc[t] \notin AsyLocking /\ asyPc'[t] \notin AsyLocking
           /\ UNCHANGED <<asyInfo, asyTable>>
           /\ \A u \in AsyThreads : u # t =>
                asyPc'[u] = asyPc[u] /\ asyFd'[u] = asyFd[u]
<1>1. /\ \A mode : AsyFollows(mode, "insert") = "estab"
      /\ \A mode : AsyFollows(mode, "put") = "idle"
      /\ \A mode \in {"forward", "task"} :
           AsyFollows(mode, "take") \in {"insert", "estab"}
  BY DEF AsyFollows
<1>2. AsyTypeOK
  BY DEF AsyInv, AsyTypes
<1>3. UNCHANGED <<asyInfo, asyTable>>
  BY DEF AsyAside, AsyInsert, AsyEstab, AsyReadFd, AsyPut, AsyFail, AsyTake, asyConns
<1>4. asyPc[t] \notin AsyLocking
  BY DEF AsyAside, AsyInsert, AsyEstab, AsyReadFd, AsyPut, AsyFail, AsyTake,
         AsyLocking, AsyMakes
<1>5. asyPc'[t] \notin AsyLocking
  BY <1>1, <1>2 DEF AsyAside, AsyInsert, AsyEstab, AsyReadFd, AsyPut, AsyFail,
         AsyTake, AsyGoto, AsyReturn, AsyTypeOK, AsyLocking, AsyMakes
<1>6. AsyAside(t) => AsyPasses(t)
  BY DEF AsyAside, AsyPasses
<1> QED BY <1>3, <1>4, <1>5, <1>6, AsyPassing

(* A number of the backend's is one that has been given.                   *)
LEMMA AsyOursGiven ==
    ASSUME AsyInv, AsySafe, NEW n, AsyOurs(n)
    PROVE  n \in asyGiven /\ n < asyTotal /\ asyTotal > 0
<1>1. asyTotal \in Nat /\ asyGiven \subseteq Nat
  BY PlatConnMgrAsyAssumption DEF AsyInv, AsyTypes, AsyTypeOK, AsySeqs
<1>2. n \in asyGiven /\ n < asyTotal
  BY DEF AsyOurs, AsySafe, AsyNumbers
<1> QED BY <1>1, <1>2

(* The thread that makes a connection has exactly that one open.           *)
LEMMA AsyMade ==
    ASSUME AsyInv, AsySafe, NEW t \in AsyThreads, asyPc[t] \in {"setfd", "setseq"}
    PROVE  /\ asyFd[t] \in AsyFds /\ asyTable[asyFd[t]].who = "backend"
           /\ \A fd \in AsyFds : asyTable[fd].who = "backend" => fd = asyFd[t]
           /\ AsyOurs(asyTable[asyFd[t]].seq)
           /\ \A u \in AsyThreads : asyPc[u] \in AsyLocking => u = t
<1>1. /\ asyFd[t] \in AsyFds
      /\ \A u \in AsyThreads : asyPc[u] \in AsyLocking => u = t
  BY DEF AsyInv, AsyWork, AsyLocking, AsyMakes
<1>2. \A fd \in AsyFds : asyTable[fd].who = "backend" <=> fd = asyFd[t]
  BY DEF AsySafe, AsyBackends, AsyMakes
<1>3. \A u \in AsyThreads : asyPc[u] # "number"
  BY <1>1 DEF AsyLocking, AsyMakes
<1>4. AsyOurs(asyTable[asyFd[t]].seq)
  BY <1>1, <1>2, <1>3 DEF AsySafe, AsyBackends
<1> QED BY <1>1, <1>2, <1>4

(* The connection of the backend, if it does not change.                   *)
LEMMA AsyOpenKept ==
    ASSUME AsyInv, AsySafe, AsyNext, ~asyRaced',
           \A fd \in AsyFds : asyTable'[fd].who = "backend" =>
             asyTable'[fd] = asyTable[fd],
           \A t \in AsyThreads : asyPc[t] = "number" =>
             asyPc'[t] = "number" /\ asyFd'[t] = asyFd[t]
    PROVE  \A fd \in AsyFds : asyTable'[fd].who = "backend" =>
             \/ AsyOurs(asyTable[fd].seq)'
             \/ /\ asyTable'[fd].seq = 0
                /\ \E t \in AsyThreads : asyPc'[t] = "number" /\ asyFd'[t] = fd
<1> TAKE fd \in AsyFds
<1> HAVE asyTable'[fd].who = "backend"
<1>1. asyTable'[fd] = asyTable[fd]
  OBVIOUS
<1>2. CASE AsyOurs(asyTable[fd].seq)
  <2>1. PICK n : n = asyTable[fd].seq
    OBVIOUS
  <2>2. AsyOurs(n)'
    BY <1>2, <2>1, AsyOursKept
  <2>3. n = asyTable'[fd].seq
    BY <1>1, <2>1
  <2> QED BY <2>2, <2>3 DEF AsyOurs
<1>3. CASE ~AsyOurs(asyTable[fd].seq)
  BY <1>1, <1>3 DEF AsySafe, AsyBackends
<1> QED BY <1>2, <1>3

LEMMA AsyBackendsNext ==
    ASSUME AsyInv, AsySafe, AsyNext, ~asyRaced'
    PROVE  AsyBackends'
<1> USE DEF AsyLocking, AsyMakes
<1>1. "none" \notin AsyClients /\ "backend" \notin AsyClients
  BY PlatConnMgrAsyAssumption
<1>2. AsyTypeOK /\ AsyBackends
  BY DEF AsyInv, AsyTypes, AsySafe
<1>3. \A t, u \in AsyThreads :
        asyPc[t] \in AsyLocking /\ asyPc[u] \in AsyLocking => t = u
  BY DEF AsyInv, AsyWork
<1>4. ASSUME \A fd \in AsyFds : asyTable'[fd].who = "backend" =>
               asyTable'[fd] = asyTable[fd],
             \A t \in AsyThreads : asyPc[t] = "number" =>
               asyPc'[t] = "number" /\ asyFd'[t] = asyFd[t]
      PROVE  \A fd \in AsyFds : asyTable'[fd].who = "backend" =>
               \/ AsyOurs(asyTable[fd].seq)'
               \/ /\ asyTable'[fd].seq = 0
                  /\ \E t \in AsyThreads : asyPc'[t] = "number" /\ asyFd'[t] = fd
  BY <1>4, AsyOpenKept
<1>5. ASSUME NEW t \in AsyThreads, AsyAside(t) PROVE AsyBackends'
  <2>1. /\ asyPc[t] \notin AsyLocking /\ asyPc'[t] \notin AsyLocking
        /\ UNCHANGED <<asyInfo, asyTable>>
        /\ \A u \in AsyThreads : u # t =>
             asyPc'[u] = asyPc[u] /\ asyFd'[u] = asyFd[u]
    BY <1>5, AsyApart
  <2> QED BY <1>4, <1>2, <2>1 DEF AsyBackends
<1>6. ASSUME NEW t \in AsyThreads, AsyLock(t) PROVE AsyBackends'
  <2>1. /\ \A u \in AsyThreads : asyPc[u] \notin AsyLocking
        /\ UNCHANGED <<asyInfo, asyTable, asyFd>>
        /\ asyPc' = [asyPc EXCEPT ![t] = IF AsyIsEstab THEN "dequeue" ELSE "connect"]
    BY <1>6 DEF AsyLock, AsyLockHeld, AsyMaking, AsyGoto, asyConns
  <2>2. \A fd \in AsyFds : asyTable[fd].who = "backend" =>
          asyInfo.fd = fd /\ asyInfo.seq = asyTable[fd].seq
    BY <1>2, <2>1 DEF AsyBackends
  <2>3. ~AsyIsEstab => \A fd \in AsyFds : asyTable[fd].who # "backend"
    BY <2>2 DEF AsyIsEstab, AsyFinds, AsyIsFree
  <2> QED BY <1>4, <1>2, <2>1, <2>2, <2>3 DEF AsyBackends, AsyTypeOK
<1>7. ASSUME NEW t \in AsyThreads, AsyConnectFails(t) PROVE AsyBackends'
  <2>1. /\ \A fd \in AsyFds : asyTable[fd].who # "backend"
        /\ \A u \in AsyThreads : asyPc'[u] \notin AsyLocking
        /\ asyTable' = asyTable
    BY <1>7, <1>2, <1>3 DEF AsyConnectFails, AsyBackends, AsyGoto, AsyTypeOK
  <2> QED BY <2>1 DEF AsyBackends
<1>8. ASSUME NEW t \in AsyThreads, AsySetFd(t) PROVE AsyBackends'
  <2>1. /\ asyPc[t] = "setfd" /\ asyPc' = [asyPc EXCEPT ![t] = "setseq"]
        /\ UNCHANGED <<asyTable, asyFd>>
    BY <1>8 DEF AsySetFd, AsyGoto
  <2>2. asyInfo'.fd = asyFd[t]
    BY <1>8, <1>2, <2>1, AsyMade DEF AsySetFd, AsyHandle, AsyTypeOK
  <2>3. \A u \in AsyThreads : asyPc[u] \in AsyLocking => u = t
    BY <1>3, <2>1
  <2> QED BY <1>4, <1>2, <2>1, <2>2, <2>3 DEF AsyBackends, AsyTypeOK
<1>9. ASSUME NEW t \in AsyThreads, AsySetSeq(t) PROVE AsyBackends'
  <2>1. /\ asyPc[t] = "setseq" /\ asyPc' = [asyPc EXCEPT ![t] = "dequeue"]
        /\ UNCHANGED <<asyTable, asyFd>>
    BY <1>9 DEF AsySetSeq, AsyGoto
  <2>2. asyInfo'.fd = asyFd[t] /\ asyInfo'.seq = asyTable[asyFd[t]].seq
    BY <1>9, <1>2, <2>1, AsyMade DEF AsySetSeq, AsySeqOf, AsyBackends, AsyTypeOK
  <2>3. \A u \in AsyThreads : asyPc[u] \in AsyLocking => u = t
    BY <1>3, <2>1
  <2>4. \A fd \in AsyFds : asyTable[fd].who = "backend" => fd = asyFd[t]
    BY <2>1, AsyMade
  <2> QED BY <1>4, <1>2, <2>1, <2>2, <2>3, <2>4 DEF AsyBackends, AsyTypeOK
<1>10. ASSUME NEW t \in AsyThreads, AsyConnect(t) PROVE AsyBackends'
  <2>1. /\ asyPc[t] = "connect"
        /\ asyPc' = [asyPc EXCEPT ![t] = "number"]
        /\ \A u \in AsyThreads : asyPc[u] \in AsyLocking => u = t
    BY <1>10, AsyConnects
  <2>2. PICK fd \in AsyFds :
          /\ asyTable' = [asyTable EXCEPT ![fd] = [who |-> "backend", seq |-> 0]]
          /\ asyFd' = [asyFd EXCEPT ![t] = fd]
    BY <1>10, AsyConnects
  <2>3. \A g \in AsyFds : asyTable'[g].who = "backend" <=> g = fd
    BY <1>2, <2>1, <2>2 DEF AsyBackends, AsyTypeOK
  <2>4. \A u \in AsyThreads : asyPc'[u] \in AsyLocking => u = t
    BY <1>2, <2>1 DEF AsyTypeOK
  <2>5. asyPc'[t] = "number" /\ asyFd'[t] = fd /\ asyTable'[fd].seq = 0
    BY <1>2, <2>1, <2>2 DEF AsyTypeOK
  <2> QED BY <2>3, <2>4, <2>5 DEF AsyBackends
<1>11. ASSUME NEW t \in AsyThreads, AsyOpen(t) PROVE AsyBackends'
  <2>1. /\ asyPc[t] = "number" /\ asyFd[t] \in AsyFds
        /\ asyTable' = [asyTable EXCEPT ![asyFd[t]].seq = asyTotal]
        /\ asyPc' = [asyPc EXCEPT ![t] = "setfd"]
        /\ asyFd' = asyFd
        /\ \A u \in AsyThreads : asyPc[u] \in AsyLocking => u = t
    BY <1>11, AsyOpens DEF AsyOpen
  <2>2. PICK n : n = asyTotal
    OBVIOUS
  <2>3. AsyOurs(n)'
    BY <1>11, <2>2, AsyOursOpened
  <2>4. /\ \A g \in AsyFds : asyTable'[g].who = "backend" <=> g = asyFd[t]
        /\ asyTable'[asyFd[t]].seq = n
    BY <1>2, <2>1, <2>2 DEF AsyBackends, AsyTypeOK
  <2>5. /\ asyPc'[t] = "setfd"
        /\ \A u \in AsyThreads : asyPc'[u] \in AsyLocking => u = t
    BY <1>2, <2>1 DEF AsyTypeOK
  <2>6. \A fd \in AsyFds : asyTable'[fd].who = "backend" => AsyOurs(asyTable[fd].seq)'
    BY <2>3, <2>4 DEF AsyOurs
  <2> QED BY <2>1, <2>4, <2>5, <2>6 DEF AsyBackends
<1>12. ASSUME NEW c \in AsyClients, AsyAccepts(c) PROVE AsyBackends'
  <2>1. UNCHANGED <<asyInfo, asyPc, asyFd>>
    BY <1>12, AsyEnters
  <2>2. PICK fd \in AsyFds :
          /\ asyTable[fd].who = "none"
          /\ asyTable' = [asyTable EXCEPT ![fd] = [who |-> c, seq |-> 0]]
    BY <1>12, AsyEnters
  <2>3. \A g \in AsyFds : \/ asyTable'[g] = asyTable[g]
                          \/ asyTable'[g].who # "backend" /\ asyTable[g].who # "backend"
    BY <1>1, <1>2, <2>2 DEF AsyTypeOK
  <2> QED BY <1>4, <1>2, <2>1, <2>3 DEF AsyBackends
<1>13. ASSUME NEW fd \in AsyFds, AsyCloses(fd) PROVE AsyBackends'
  <2>1. /\ asyTable[fd].who = "backend" =>
             \A t \in AsyThreads : asyPc[t] \notin AsyMakes
        /\ asyTable' = [asyTable EXCEPT ![fd] = AsyNobody]
        /\ UNCHANGED <<asyInfo, asyPc, asyFd>>
    BY <1>13, AsyShuts
  <2>2. /\ \A g \in AsyFds : g # fd => asyTable'[g] = asyTable[g]
        /\ asyTable'[fd].who # "backend"
    BY <1>2, <2>1 DEF AsyTypeOK, AsyNobody
  <2> QED BY <1>4, <1>2, <2>1, <2>2 DEF AsyBackends
<1>14. ASSUME AsyAccepted PROVE AsyBackends'
  <2>1. PICK fd \in AsyFds :
          /\ asyTable[fd].who \in AsyClients
          /\ asyTable' = [asyTable EXCEPT ![fd].seq = asyTotal]
    BY <1>14, AsyAdmits
  <2>2. \A g \in AsyFds : \/ asyTable'[g] = asyTable[g]
                          \/ asyTable'[g].who # "backend" /\ asyTable[g].who # "backend"
    BY <1>1, <1>2, <2>1 DEF AsyTypeOK
  <2>3. UNCHANGED <<asyInfo, asyPc, asyFd>>
    BY <1>14 DEF AsyAccepted, asyWorker
  <2> QED BY <1>4, <1>2, <2>2, <2>3 DEF AsyBackends
<1>15. ASSUME UNCHANGED AsySteady PROVE AsyBackends'
  BY <1>4, <1>15, <1>2 DEF AsySteady, AsyBackends
<1>16. \A t \in AsyThreads : AsyPasses(t) =>
         AsyAside(t) \/ AsyLock(t) \/ AsyConnectFails(t) \/ AsySetFd(t) \/ AsySetSeq(t)
  BY DEF AsyPasses, AsyAside
<1> QED BY <1>5, <1>6, <1>7, <1>8, <1>9, <1>10, <1>11, <1>12, <1>13, <1>14, <1>15,
           <1>16, AsyCases, AsyMoving

-----------------------------------------------------------------------------
(* Addresses, as long as nothing has raced.                                *)

LEMMA AsyAddressedKept ==
    ASSUME AsyInv, AsySafe, AsyNext, ~asyRaced',
           NEW m \in AsyMessages, AsyAddressed(m)
    PROVE  AsyAddressed(m)'
<1>1. AsyTypeOK
  BY DEF AsyInv, AsyTypes
<1>2. CASE m.to = "backend"
  <2>1. PICK f, n : f = m.fd /\ n = m.seq
    OBVIOUS
  <2>2. AsyHad(f) /\ AsyBackendSeq(n)
    BY <1>2, <2>1 DEF AsyAddressed
  <2>3. AsyHad(f)' /\ AsyBackendSeq(n)'
    BY <2>2, AsyHadKept, AsyOursKept DEF AsyBackendSeq
  <2> QED BY <1>2, <2>1, <2>3 DEF AsyAddressed
<1>3. CASE m.to # "backend"
  <2>1. PICK c \in AsyClients : c = m.req
    BY DEF AsyMessages
  <2>2. asyClient[c].at # "new" /\ m = AsyReply(c)
    BY <1>3, <2>1 DEF AsyAddressed
  <2>3. asyClient'[c].at # "new" /\ asyClient'[c].fd = asyClient[c].fd
        /\ asyClient'[c].seq = asyClient[c].seq
    <3>1. ASSUME NEW t \in AsyThreads, AsyPasses(t) PROVE <2>3!:
      BY <2>2, <3>1, AsyPassing
    <3>2. ASSUME asyClient' = asyClient PROVE <2>3!:
      BY <2>2, <3>2
    <3>3. ASSUME NEW t \in AsyThreads, AsyConnect(t) \/ AsyOpen(t) PROVE <2>3!:
      BY <3>2, <3>3 DEF AsyConnect, AsyOpen
    <3>4. ASSUME NEW d \in AsyClients, AsyAccepts(d) PROVE <2>3!:
      BY <3>2, <3>4, AsyEnters
    <3>5. ASSUME NEW fd \in AsyFds, AsyCloses(fd) PROVE <2>3!:
      BY <3>2, <3>5, AsyShuts
    <3>6. ASSUME AsyAccepted PROVE <2>3!:
      <4>1. PICK a \in AsyClients :
              /\ asyClient[a].at = "new"
              /\ \E r : asyClient' = [asyClient EXCEPT ![a] = r]
        BY <3>6, AsyAdmits
      <4>2. asyClient'[c] = asyClient[c]
        BY <1>1, <2>2, <4>1 DEF AsyTypeOK
      <4> QED BY <2>2, <4>2
    <3>7. UNCHANGED AsySteady => asyClient' = asyClient
      BY DEF AsySteady
    <3> QED BY <3>1, <3>2, <3>3, <3>4, <3>5, <3>6, <3>7, AsyCases, AsyMoving
  <2> QED BY <1>3, <2>1, <2>2, <2>3 DEF AsyAddressed, AsyReply
<1> QED BY <1>2, <1>3

(* The messages there are, and one that is added.                          *)
LEMMA AsyOneMore ==
    ASSUME NEW q \in Seq(AsyMessages), NEW x \in AsyMessages, NEW m,
           AsyIn(Append(q, x), m)
    PROVE  AsyIn(q, m) \/ m = x
BY AppendElements DEF AsyIn

LEMMA AsyOneLess ==
    ASSUME NEW q \in Seq(AsyMessages), q # <<>>
    PROVE  AsyIn(q, Head(q)) /\ \A m : AsyIn(Tail(q), m) => AsyIn(q, m)
BY TailElements DEF AsyIn

(* An answered request is that of a client that has its number.            *)
LEMMA AsyReplyAddressed ==
    ASSUME AsyInv, NEW c \in AsyClients,
           c \in asyAway \/ c \in asyBack \/ \E t \in AsyThreads : asyReq[t] = c
    PROVE  AsyReply(c) \in AsyMessages /\ AsyAddressed(AsyReply(c))
<1>1. asyClient[c].at # "new"
  <2>1. c # "none"
    BY PlatConnMgrAsyAssumption
  <2> QED BY <2>1 DEF AsyInv, AsyOnce, AsyUnsent, AsyWork
<1>2. /\ AsyReply(c) \in AsyMessages /\ AsyReply(c).to # "backend"
      /\ AsyReply(c).req = c
  BY DEF AsyReply, AsyMessages, AsyInv, AsyTypes, AsyTypeOK
<1> QED BY <1>1, <1>2 DEF AsyAddressed

(* The messages that are queued are those that were, or one more.          *)
LEMMA AsySends ==
    ASSUME AsyInv, AsySafe, AsyNext, NEW m \in AsyMessages, AsyIn(asyOut', m)
    PROVE  AsyIn(asyOut, m) \/ AsyAddressed(m)
<1>1. AsyTypeOK /\ asyOut \in Seq(AsyMessages)
  BY DEF AsyInv, AsyTypes
<1>2. asyOut' = asyOut => AsyIn(asyOut, m)
  OBVIOUS
<1>3. ASSUME NEW c \in AsyClients, asyOut' = Append(asyOut, AsyReply(c)),
             c \in asyAway \/ c \in asyBack \/ \E t \in AsyThreads : asyReq[t] = c
      PROVE  AsyIn(asyOut, m) \/ AsyAddressed(m)
  <2>1. AsyReply(c) \in AsyMessages /\ AsyAddressed(AsyReply(c))
    BY <1>3, AsyReplyAddressed
  <2> QED BY <1>1, <1>3, <2>1, AsyOneMore
<1>4. ASSUME NEW t \in AsyThreads, AsyPut(t) PROVE AsyIn(asyOut, m) \/ AsyAddressed(m)
  <2> DEFINE x == [to |-> "backend", req |-> asyReq[t],
                   fd |-> asyFd[t], seq |-> asyInfo.seq]
  <2>1. asyReq[t] \in AsyClients
    BY <1>4, <1>1 DEF AsyPut, AsyInv, AsyWork, AsyTypeOK
  <2>2. /\ x \in AsyMessages /\ asyOut' = Append(asyOut, x)
        /\ x.to = "backend" /\ x.fd = asyFd[t] /\ x.seq = asyInfo.seq
    BY <1>4, <1>1, <2>1 DEF AsyPut, AsyTypeOK, AsyMessages
  <2>3. AsyHad(asyFd[t]) /\ AsyBackendSeq(asyInfo.seq)
    BY <1>4 DEF AsyPut, AsySafe, AsyAddresses
  <2> HIDE DEF x
  <2>4. AsyAddressed(x)
    BY <2>2, <2>3 DEF AsyAddressed
  <2> QED BY <1>1, <2>2, <2>4, AsyOneMore
<1>5. ASSUME NEW t \in AsyThreads, AsyFail(t) PROVE AsyIn(asyOut, m) \/ AsyAddressed(m)
  <2>1. asyReq[t] \in AsyClients /\ asyOut' = Append(asyOut, AsyReply(asyReq[t]))
    BY <1>5, <1>1 DEF AsyFail, AsyInv, AsyWork, AsyTypeOK
  <2> QED BY <1>3, <2>1
<1>6. ASSUME NEW c \in AsyClients, AsyAnswerReply(c)
      PROVE  AsyIn(asyOut, m) \/ AsyAddressed(m)
  BY <1>6, <1>3 DEF AsyAnswerReply
<1>7. ASSUME NEW c \in AsyClients, AsySvc(c)
      PROVE  AsyIn(asyOut, m) \/ AsyAddressed(m)
  BY <1>7, <1>3, <1>2 DEF AsySvc
<1>8. ASSUME AsyDeliver PROVE AsyIn(asyOut, m)
  BY <1>8, <1>1, AsyOneLess DEF AsyDeliver
<1>9. ASSUME NEW t \in AsyThreads,
             \/ AsyInsert(t) \/ AsyEstab(t) \/ AsyLock(t) \/ AsyConnect(t)
             \/ AsyConnectFails(t) \/ AsyOpen(t) \/ AsySetFd(t) \/ AsySetSeq(t)
             \/ AsyReadFd(t) \/ \E c \in AsyClients : AsyTake(t, c)
      PROVE  asyOut' = asyOut
  BY <1>9 DEF AsyInsert, AsyEstab, AsyLock, AsyConnect, AsyConnectFails, AsyOpen,
              AsySetFd, AsySetSeq, AsyReadFd, AsyTake
<1>10. ASSUME NEW c \in AsyClients, AsyAccepts(c) \/ AsyAnswerTask(c) \/ AsyElapse(c)
      PROVE  asyOut' = asyOut
  BY <1>10 DEF AsyAccepts, AsyAnswerTask, AsyElapse
<1>11. ASSUME AsyAccepted \/ \E fd \in AsyFds : AsyCloses(fd)
      PROVE  asyOut' = asyOut
  BY <1>11 DEF AsyAccepted, AsyCloses
<1> QED BY <1>2, <1>4, <1>5, <1>6, <1>7, <1>8, <1>9, <1>10, <1>11 DEF AsyNext

LEMMA AsyAddressesNext ==
    ASSUME AsyInv, AsySafe, AsyNext, ~asyRaced'
    PROVE  AsyAddresses'
<1>1. AsyTypeOK /\ AsyAddresses
  BY DEF AsyInv, AsyTypes, AsySafe
<1>2. \A m \in AsyMessages : AsyIn(asyOut', m) => AsyAddressed(m)'
  <2> TAKE m \in AsyMessages
  <2> HAVE AsyIn(asyOut', m)
  <2>1. AsyAddressed(m)
    BY <1>1, AsySends DEF AsyAddresses
  <2> QED BY <2>1, AsyAddressedKept
<1>3. ASSUME NEW t \in AsyThreads, AsySetFd(t) \/ AsySetSeq(t)
      PROVE  AsyBackendSeq(asyInfo.seq)' /\ AsyHad(asyInfo.fd)'
  <2>1. PICK n, f : n = asyInfo'.seq /\ f = asyInfo'.fd
    OBVIOUS
  <2>2. /\ asyTable[asyFd[t]].who = "backend"
        /\ AsyOurs(asyTable[asyFd[t]].seq)
        /\ "backend" \notin AsyClients
    BY <1>3, AsyMade, PlatConnMgrAsyAssumption DEF AsySetFd, AsySetSeq
  <2>3. /\ n = asyInfo.seq \/ n = asyTable[asyFd[t]].seq
        /\ f = asyInfo.fd \/ f = asyFd[t]
    BY <1>3, <1>1, <2>1, <2>2
       DEF AsySetFd, AsySetSeq, AsyHandle, AsySeqOf, AsyTypeOK
  <2>4. AsyBackendSeq(n) /\ AsyHad(f)
    <3>1. asyTotal > 0
      BY <2>2, AsyOursGiven
    <3> QED BY <1>1, <2>2, <2>3, <3>1 DEF AsyAddresses, AsyBackendSeq, AsyHad
  <2>5. AsyBackendSeq(n)' /\ AsyHad(f)'
    BY <2>4, AsyHadKept, AsyOursKept DEF AsyBackendSeq
  <2> QED BY <2>1, <2>5 DEF AsyBackendSeq, AsyOurs, AsyHad
<1>4. ASSUME NEW t \in AsyThreads, AsyConnectFails(t)
      PROVE  AsyBackendSeq(asyInfo.seq)' /\ AsyHad(asyInfo.fd)'
  <2>1. asyInfo'.fd = 0 /\ asyInfo'.seq = 0 /\ 0 \notin AsyFds
    BY <1>4, PlatConnMgrAsyAssumption DEF AsyConnectFails
  <2> QED BY <2>1 DEF AsyBackendSeq, AsyHad
<1>5. ASSUME asyInfo' = asyInfo
      PROVE  AsyBackendSeq(asyInfo.seq)' /\ AsyHad(asyInfo.fd)'
  <2>1. PICK n, f : n = asyInfo.seq /\ f = asyInfo.fd
    OBVIOUS
  <2>2. AsyBackendSeq(n) /\ AsyHad(f)
    BY <1>1, <2>1 DEF AsyAddresses
  <2>3. AsyBackendSeq(n)' /\ AsyHad(f)'
    BY <2>2, AsyHadKept, AsyOursKept DEF AsyBackendSeq
  <2> QED BY <1>5, <2>1, <2>3 DEF AsyBackendSeq, AsyOurs, AsyHad
<1>6. AsyBackendSeq(asyInfo.seq)' /\ AsyHad(asyInfo.fd)'
  <2>1. \A t \in AsyThreads : AsyAside(t) \/ AsyLock(t) \/ AsyConnect(t) \/ AsyOpen(t)
          => asyInfo' = asyInfo
    BY DEF AsyAside, AsyInsert, AsyEstab, AsyReadFd, AsyPut, AsyFail, AsyTake,
           AsyLock, AsyConnect, AsyOpen, asyConns
  <2>2. \A c \in AsyClients : AsyAccepts(c) => asyInfo' = asyInfo
    BY DEF AsyAccepts
  <2>3. \A fd \in AsyFds : AsyCloses(fd) => asyInfo' = asyInfo
    BY DEF AsyCloses
  <2>4. AsyAccepted \/ UNCHANGED AsySteady => asyInfo' = asyInfo
    BY DEF AsyAccepted, AsySteady
  <2>5. \A t \in AsyThreads : AsyPasses(t) =>
          AsyAside(t) \/ AsyLock(t) \/ AsyConnectFails(t) \/ AsySetFd(t) \/ AsySetSeq(t)
    BY DEF AsyPasses, AsyAside
  <2> QED BY <1>3, <1>4, <1>5, <2>1, <2>2, <2>3, <2>4, <2>5, AsyCases, AsyMoving
<1>7. ASSUME NEW t \in AsyThreads, asyPc'[t] = "put" PROVE AsyHad(asyFd[t])'
  <2>1. PICK f : f = asyFd'[t]
    OBVIOUS
  <2>2. (asyPc[t] = "put" /\ f = asyFd[t]) \/ f = asyInfo.fd
    <3>1. \A u \in AsyThreads : AsyConnect(u) \/ AsyOpen(u) =>
            asyPc[t] = "put" /\ asyFd'[t] = asyFd[t]
      BY <1>7, <1>1 DEF AsyConnect, AsyOpen, AsyGoto, AsyTypeOK
    <3>2. \A u \in AsyThreads : AsyPasses(u) =>
            (asyPc[t] = "put" /\ asyFd'[t] = asyFd[t]) \/ asyFd'[t] = asyInfo.fd
      <4>1. /\ \A mode : AsyFollows(mode, "insert") = "estab"
            /\ \A mode : AsyFollows(mode, "put") = "idle"
            /\ \A mode \in {"forward", "task"} :
                 AsyFollows(mode, "take") \in {"insert", "estab"}
        BY DEF AsyFollows
      <4> TAKE u \in AsyThreads
      <4> HAVE AsyPasses(u)
      <4>2. CASE u # t
        BY <1>7, <4>2, AsyPassing
      <4>3. CASE u = t
        <5>1. CASE AsyReadFd(t)
          BY <1>1, <5>1 DEF AsyReadFd, AsyTypeOK
        <5>2. ASSUME ~AsyReadFd(t) PROVE asyPc'[t] # "put"
          BY <1>1, <4>1, <4>3, <5>2
             DEF AsyPasses, AsyInsert, AsyEstab, AsyLock, AsyConnectFails,
                 AsySetFd, AsySetSeq, AsyPut, AsyFail, AsyTake, AsyReturn,
                 AsyGoto, AsyTypeOK
        <5> QED BY <1>7, <5>1, <5>2
      <4> QED BY <4>2, <4>3
    <3>3. \A c \in AsyClients : AsyAccepts(c) => UNCHANGED <<asyPc, asyFd>>
      BY DEF AsyAccepts, asyWorker
    <3>4. \A fd \in AsyFds : AsyCloses(fd) => UNCHANGED <<asyPc, asyFd>>
      BY DEF AsyCloses, asyWorker
    <3>5. AsyAccepted \/ UNCHANGED AsySteady => UNCHANGED <<asyPc, asyFd>>
      BY DEF AsyAccepted, asyWorker, AsySteady
    <3> QED BY <1>7, <2>1, <3>1, <3>2, <3>3, <3>4, <3>5, AsyCases, AsyMoving
  <2>3. AsyHad(f)
    BY <1>1, <2>2 DEF AsyAddresses
  <2>4. AsyHad(f)'
    BY <2>3, AsyHadKept
  <2> QED BY <2>1, <2>4 DEF AsyHad
<1> QED BY <1>2, <1>6, <1>7 DEF AsyAddresses

-----------------------------------------------------------------------------
(* What reaches a connection is its own, and the theorems.                 *)

LEMMA AsyReaches ==
    ASSUME AsyInv, AsySafe, asyAccept.who = "none",
           NEW m \in AsyMessages, AsyAddressed(m), AsyFinds(m.fd, m.seq)
    PROVE  \/ asyTable[m.fd].who = IF m.to = "backend" THEN "backend" ELSE m.req
           \/ m.seq = 0 /\ ~AsyNumbered(m.fd)
<1> SUFFICES ASSUME ~(m.seq = 0 /\ ~AsyNumbered(m.fd))
             PROVE  asyTable[m.fd].who = IF m.to = "backend" THEN "backend" ELSE m.req
  OBVIOUS
<1>1. /\ "none" \notin AsyClients /\ "backend" \notin AsyClients
      /\ \A n \in AsySeqs : n > 0 => n # 0
  BY PlatConnMgrAsyAssumption DEF AsySeqs
<1> DEFINE who == asyTable[m.fd].who
<1>2. /\ m.fd \in AsyFds /\ asyTable[m.fd].seq = m.seq
      /\ who \in AsyClients \cup {"backend"}
      /\ m.seq \in AsySeqs /\ m.req \in AsyClients
  BY DEF AsyFinds, AsyIsFree, AsyInv, AsyTypes, AsyTypeOK, AsyOwners, AsyMessages
<1>3. ASSUME who \in AsyClients
      PROVE  asyClient[who].at # "new" /\ m.seq = asyClient[who].seq
  BY <1>1, <1>2, <1>3 DEF AsySafe, AsyNamed
<1>4. ASSUME who = "backend" PROVE AsyOurs(m.seq)
  BY <1>2, <1>4 DEF AsySafe, AsyBackends, AsyNumbered
<1>5. CASE m.to = "backend"
  <2>1. AsyHad(m.fd) /\ AsyBackendSeq(m.seq)
    BY <1>5 DEF AsyAddressed
  <2>2. ASSUME who \in AsyClients PROVE FALSE
    <3>1. m.seq > 0
      BY <1>1, <1>2, <2>1, <2>2 DEF AsyHad
    <3>2. AsyOurs(m.seq)
      BY <1>1, <1>2, <2>1, <3>1 DEF AsyBackendSeq
    <3> QED BY <1>3, <2>2, <3>2 DEF AsyOurs
  <2> QED BY <1>2, <1>5, <2>2
<1>6. CASE m.to # "backend"
  <2>1. asyClient[m.req].at # "new" /\ asyClient[m.req].seq = m.seq
    BY <1>6 DEF AsyAddressed, AsyReply
  <2>2. who # "backend"
    BY <1>2, <1>4, <2>1 DEF AsyOurs
  <2>3. who = m.req
    BY <1>2, <1>3, <2>1, <2>2 DEF AsySafe, AsyNamed
  <2> QED BY <1>6, <2>3
<1> QED BY <1>5, <1>6

LEMMA AsyStraysNext ==
    ASSUME AsyInv, AsySafe, AsyStrays, AsyNext
    PROVE  AsyStrays'
<1>1. ASSUME AsyDeliver PROVE AsyStrays'
  <2>1. PICK m : m = Head(asyOut)
    OBVIOUS
  <2>2. m \in AsyMessages /\ AsyIn(asyOut, m) /\ asyOut # <<>>
    BY <1>1, <2>1, AsyOneLess, AsyTaken DEF AsyDeliver, AsyInv, AsyTypes
  <2>3. AsyAddressed(m)
    BY <2>2 DEF AsySafe, AsyAddresses
  <2>4. AsyFinds(m.fd, m.seq) =>
          \/ asyTable[m.fd].who = IF m.to = "backend" THEN "backend" ELSE m.req
          \/ m.seq = 0 /\ ~AsyNumbered(m.fd)
    BY <1>1, <2>2, <2>3, AsyReaches DEF AsyDeliver
  <2>5. \/ asyStray' = asyStray
        \/ /\ AsyFinds(m.fd, m.seq)
           /\ asyTable[m.fd].who # IF m.to = "backend" THEN "backend" ELSE m.req
           /\ asyStray' = asyStray \cup {AsyAstray(m)}
    BY <1>1, <2>1 DEF AsyDeliver
  <2>6. m.seq = 0 /\ ~AsyNumbered(m.fd) =>
          AsyAstray(m).conn = "new" /\ AsyAstray(m).seq = 0
    BY DEF AsyAstray
  <2> QED BY <2>4, <2>5, <2>6 DEF AsyStrays
<1>2. ASSUME NEW t \in AsyThreads,
             \/ AsyInsert(t) \/ AsyEstab(t) \/ AsyLock(t)
             \/ AsyConnect(t) \/ AsyConnectFails(t) \/ AsyOpen(t)
             \/ AsySetFd(t) \/ AsySetSeq(t)
             \/ AsyReadFd(t) \/ AsyPut(t) \/ AsyFail(t)
             \/ \E c \in AsyClients : AsyTake(t, c)
      PROVE  asyStray' = asyStray
  BY <1>2 DEF AsyInsert, AsyEstab, AsyLock, AsyConnect, AsyConnectFails, AsyOpen,
              AsySetFd, AsySetSeq, AsyReadFd, AsyPut, AsyFail, AsyTake
<1>3. ASSUME NEW c \in AsyClients,
             \/ AsyAccepts(c) \/ AsyAnswerReply(c) \/ AsyAnswerTask(c)
             \/ AsySvc(c) \/ AsyElapse(c)
      PROVE  asyStray' = asyStray
  BY <1>3 DEF AsyAccepts, AsyAnswerReply, AsyAnswerTask, AsySvc, AsyElapse
<1>4. AsyAccepted \/ (\E fd \in AsyFds : AsyCloses(fd)) => asyStray' = asyStray
  BY DEF AsyAccepted, AsyCloses
<1>5. AsyDeliver \/ asyStray' = asyStray
  BY <1>2, <1>3, <1>4 DEF AsyNext
<1> QED BY <1>1, <1>5 DEF AsyStrays

(* Once something has raced, it has.                                       *)
LEMMA AsyRacedStays ==
    ASSUME asyRaced, AsyNext
    PROVE  asyRaced'
<1>1. ASSUME NEW who, NEW fd, NEW load, AsyNumber(who, fd, load) PROVE asyRaced'
  BY <1>1, Zenon DEF AsyNumber
<1>2. ASSUME NEW fd, AsyCloses(fd) PROVE asyRaced'
  BY <1>2, Zenon DEF AsyCloses
<1>3. ASSUME NEW t \in AsyThreads,
             \/ AsyInsert(t) \/ AsyEstab(t) \/ AsyLock(t)
             \/ AsyConnect(t) \/ AsyConnectFails(t)
             \/ AsySetFd(t) \/ AsySetSeq(t)
             \/ AsyReadFd(t) \/ AsyPut(t) \/ AsyFail(t)
             \/ \E c \in AsyClients : AsyTake(t, c)
      PROVE  asyRaced' = asyRaced
  BY <1>3 DEF AsyInsert, AsyEstab, AsyLock, AsyConnect, AsyConnectFails,
              AsySetFd, AsySetSeq, AsyReadFd, AsyPut, AsyFail, AsyTake, asyConns
<1>4. ASSUME NEW c \in AsyClients,
             \/ AsyAccepts(c) \/ AsyAnswerReply(c) \/ AsyAnswerTask(c)
             \/ AsySvc(c) \/ AsyElapse(c)
      PROVE  asyRaced' = asyRaced
  BY <1>4 DEF AsyAccepts, AsyAnswerReply, AsyAnswerTask, AsySvc, AsyElapse, asyConns
<1>5. AsyDeliver => asyRaced' = asyRaced
  BY DEF AsyDeliver, asyConns
<1>6. \A t \in AsyThreads : AsyOpen(t) => asyRaced'
  BY <1>1 DEF AsyOpen
<1>7. AsyAccepted => asyRaced'
  BY <1>1 DEF AsyAccepted
<1>8. asyRaced' = asyRaced => asyRaced'
  OBVIOUS
<1> QED BY <1>2, <1>3, <1>4, <1>5, <1>6, <1>7, <1>8 DEF AsyNext

LEMMA AsySafeInit == AsyInit => AsySafe /\ AsyStrays
<1> SUFFICES ASSUME AsyInit PROVE AsySafe /\ AsyStrays
  OBVIOUS
<1>1. /\ "none" \notin AsyClients /\ 0 \notin AsyFds
      /\ \A m : ~AsyIn(<<>>, m)
  BY PlatConnMgrAsyAssumption DEF AsyIn
<1>2. AsyNumbers /\ AsyNamed
  BY <1>1 DEF AsyInit, AsyNumbers, AsyNamed, AsyNobody
<1>3. AsyBackends
  BY <1>1 DEF AsyInit, AsyBackends, AsyNobody, AsyMakes, AsyLocking
<1>4. AsyAddresses
  BY <1>1 DEF AsyInit, AsyAddresses, AsyBackendSeq, AsyHad
<1>5. AsyStrays
  BY DEF AsyInit, AsyStrays
<1> QED BY <1>2, <1>3, <1>4, <1>5 DEF AsySafe

LEMMA AsyAlwaysRaceFree == AsySpec => [](AsyInv /\ AsyRaceFree)
<1>1. AsyInit => AsyRaceFree
  BY AsySafeInit DEF AsyRaceFree
<1>2. AsyInv /\ AsyInv' /\ AsyRaceFree /\ [AsyNext]_asyVars => AsyRaceFree'
  <2> SUFFICES ASSUME AsyInv, AsyInv', AsyRaceFree, [AsyNext]_asyVars
               PROVE  AsyRaceFree'
    OBVIOUS
  <2>1. CASE AsyNext
    <3>1. CASE asyRaced
      BY <2>1, <3>1, AsyRacedStays DEF AsyRaceFree
    <3>2. CASE ~asyRaced /\ ~asyRaced'
      <4>1. AsySafe /\ AsyStrays
        BY <3>2 DEF AsyRaceFree
      <4>2. AsySafe'
        BY <2>1, <3>2, <4>1, AsyNumbersNext, AsyBackendsNext, AsyAddressesNext
           DEF AsySafe
      <4>3. AsyStrays'
        BY <2>1, <4>1, AsyStraysNext
      <4> QED BY <4>2, <4>3 DEF AsyRaceFree
    <3> QED BY <3>1, <3>2 DEF AsyRaceFree
  <2>2. CASE UNCHANGED asyVars
    BY <2>2 DEF asyVars, asyConns, asyWorker, asyTasks, AsyRaceFree, AsySafe, AsyStrays,
                AsyNumbers, AsyNamed, AsyBackends, AsyAddresses, AsyBackendSeq,
                AsyAddressed, AsyReply, AsyOurs, AsyHad
  <2> QED BY <2>1, <2>2
<1> QED BY <1>1, <1>2, AsyAlwaysInv, PTL DEF AsySpec

(* Whatever the threads, the clients, the descriptors and the order of     *)
(* what they do: until two connections have got one number, or one was     *)
(* closed while init_conn made it, only a message whose number is 0        *)
(* reaches a connection that is not its own, and only before the           *)
(* connection has its number (plat_conn_mgr_asy.cpp:217-219,               *)
(* ace_sock_hdr_base.cpp:36-42).                                           *)
THEOREM AsyOwnersOnly == AsySpec => []AsyOnlyOwner
<1>1. AsyRaceFree => AsyOnlyOwner
  BY DEF AsyRaceFree, AsyStrays, AsyOnlyOwner
<1> QED BY <1>1, AsyAlwaysRaceFree, PTL

(* Until then at most one connection to the backend is open, and when no   *)
(* thread is in init_conn it is the one conn_info_ refers to               *)
(* (plat_conn_mgr_asy.cpp:118-130).                                        *)
THEOREM AsyConnectsOnce == AsySpec => []AsyOneConnection
<1>1. AsyInv /\ AsyRaceFree => AsyOneConnection
  <2> SUFFICES ASSUME AsyInv, AsySafe PROVE AsyOneConnection
    BY DEF AsyRaceFree, AsyOneConnection
  <2> DEFINE backend == {fd \in AsyFds : asyTable[fd].who = "backend"}
  <2>1. ASSUME ~AsyLockHeld, NEW fd \in backend
        PROVE  asyInfo = [fd |-> fd, seq |-> asyTable[fd].seq]
    <3>1. \A t \in AsyThreads : asyPc[t] \notin AsyLocking
      BY <2>1 DEF AsyLockHeld, AsyMaking, AsyLocking, AsyMakes
    <3>2. asyInfo.fd = fd /\ asyInfo.seq = asyTable[fd].seq
      BY <3>1 DEF AsySafe, AsyBackends
    <3> QED BY <3>2 DEF AsyInv, AsyTypes, AsyTypeOK
  <2>2. \A f, g \in backend : f = g
    <3>1. CASE \A t \in AsyThreads : asyPc[t] \notin AsyLocking
      BY <3>1 DEF AsySafe, AsyBackends
    <3>2. ASSUME NEW t \in AsyThreads, asyPc[t] \in AsyLocking
          PROVE  \A f, g \in backend : f = g
      BY <3>2 DEF AsySafe, AsyBackends, AsyLocking
    <3> QED BY <3>1, <3>2
  <2>3. Cardinality(backend) <= 1
    <3>1. CASE backend = {}
      BY <3>1, FS_EmptySet
    <3>2. CASE backend # {}
      <4>1. PICK f : f \in backend
        BY <3>2
      <4>2. backend = {f}
        BY <2>2, <4>1
      <4>3. Cardinality({f}) = 1
        BY FS_Singleton
      <4>4. Cardinality(backend) = 1
        BY ONLY <4>2, <4>3
      <4> HIDE DEF backend
      <4> QED BY <4>4
    <3> QED BY <3>1, <3>2
  <2> QED BY <2>1, <2>3 DEF AsyOneConnection
<1> QED BY <1>1, AsyAlwaysRaceFree, PTL

-----------------------------------------------------------------------------
(* CliSockets: the invariant.                                              *)

(* What is held, and what the table has, is a descriptor.                  *)
CliFdsOK ==
    /\ \A t \in CliThreads : cliAt[t] \in CliHolding => cliFd[t] \in CliFds
    /\ \A i \in CliSlot :
         cliSlots[i].fd \in CliFds <=> cliSlots[i].index # CliNobody

(* A thread that connects has no slot; one that has a connection to use    *)
(* has it in its slot, or there was none for it.                           *)
CliCalls ==
    /\ \A t \in CliThreads :
         cliAt[t] \in {"connect", "save", "again", "try"} => ~CliHas(t)
    /\ \A t \in CliThreads : cliAt[t] \in {"send", "recv", "close"} =>
         /\ ~CliHas(t) => cliFd[t] \in cliUnsaved
         /\ \A i \in CliSlot :
              cliSlots[i].index = t => cliSlots[i].fd = cliFd[t]
    /\ \A t \in CliThreads :
         cliAt[t] \in {"try", "connect"} => cliServer[t] < CliServers

CliInv == CliTypeOK /\ CliFdsOK /\ CliCalls /\ CliSound

LEMMA CliFirstIn ==
    ASSUME NEW S, S \subseteq CliSlot, S # {}
    PROVE  CliFirst(S) \in S
<1>1. S \subseteq Nat
  BY CliAssumption DEF CliSlot
<1>2. \E i \in S : \A j \in S : i <= j
  BY <1>1, LeastNatural
<1> QED BY <1>2 DEF CliFirst

(* The slot of a thread that has one.                                      *)
LEMMA CliOwnSlot ==
    ASSUME CliInv, NEW t \in CliThreads, CliHas(t)
    PROVE  /\ CliOwn(t) \in CliSlot
           /\ cliSlots[CliOwn(t)].index = t
           /\ \A i \in CliSlot : cliSlots[i].index = t => i = CliOwn(t)
           /\ cliSlots[CliOwn(t)].fd \in CliFds
           /\ cliOpen[cliSlots[CliOwn(t)].fd] = t
<1>1. /\ CliOwn(t) \in {i \in CliSlot : cliSlots[i].index = t}
  BY CliFirstIn DEF CliHas, CliOwn
<1>2. t # CliNobody
  BY CliAssumption
<1> QED BY <1>1, <1>2 DEF CliInv, CliSound, CliTable, CliFdsOK

LEMMA CliInvInit == CliInit => CliInv
<1> SUFFICES ASSUME CliInit PROVE CliInv
  OBVIOUS
<1>1. /\ -1 \notin CliFds /\ 0 \in 0 .. CliServers /\ CliNobody \notin CliThreads
  BY CliAssumption
<1>2. CliTypeOK
  BY <1>1 DEF CliInit, CliTypeOK, CliFree, CliPlaces
<1>3. CliFdsOK /\ CliCalls
  BY <1>1 DEF CliInit, CliFdsOK, CliCalls, CliHas, CliFree, CliHolding
<1>4. CliSound
  BY <1>1 DEF CliInit, CliSound, CliHeld, CliTable, CliKnown, CliFree, CliHolding
<1> QED BY <1>2, <1>3, <1>4 DEF CliInv

(* SYS_close of the descriptor the thread has in its slot, if it has one.  *)
LEMMA CliSysCloses ==
    ASSUME CliInv, NEW t \in CliThreads, NEW fd, CliSysClose(t, fd),
           CliHas(t) => fd = cliSlots[CliOwn(t)].fd
    PROVE  \/ UNCHANGED <<cliSlots, cliOpen>> /\ ~CliHas(t)
           \/ \E i \in CliSlot :
                /\ cliSlots[i].index = t /\ cliSlots[i].fd = fd
                /\ fd \in CliFds /\ cliOpen[fd] = t
                /\ cliSlots' = [cliSlots EXCEPT ![i] = CliFree]
                /\ cliOpen' = [f \in CliFds |-> IF f = fd THEN CliNobody
                                                          ELSE cliOpen[f]]
BY CliOwnSlot DEF CliSysClose, CliShut

(* What it leaves: no slot of the thread, and of the others what they had. *)
LEMMA CliAfterClose ==
    ASSUME CliInv, NEW t \in CliThreads, NEW fd, CliSysClose(t, fd),
           CliHas(t) => fd = cliSlots[CliOwn(t)].fd
    PROVE  /\ cliSlots' \in [CliSlot -> [index : CliThreads \cup {CliNobody},
                                         fd : CliFds \cup {-1}, old : BOOLEAN]]
           /\ cliOpen' \in [CliFds -> CliThreads \cup {CliNobody}]
           /\ \A i \in CliSlot : \/ cliSlots'[i] = cliSlots[i]
                                 \/ cliSlots'[i] = CliFree /\ cliSlots[i].index = t
           /\ \A i \in CliSlot : cliSlots'[i].index # t
           /\ \A i \in CliSlot : cliSlots[i].index # t => cliSlots'[i] = cliSlots[i]
           /\ \A f \in CliFds : \/ cliOpen'[f] = cliOpen[f]
                                \/ cliOpen'[f] = CliNobody /\ cliOpen[f] = t
           /\ \A i \in CliSlot : cliSlots[i].index = t /\ cliSlots[i].fd \in CliFds =>
                cliOpen'[cliSlots[i].fd] = CliNobody
<1>1. CASE UNCHANGED <<cliSlots, cliOpen>> /\ ~CliHas(t)
  BY <1>1 DEF CliInv, CliTypeOK, CliHas
<1>2. CASE \E i \in CliSlot :
             /\ cliSlots[i].index = t /\ cliSlots[i].fd = fd
             /\ fd \in CliFds /\ cliOpen[fd] = t
             /\ cliSlots' = [cliSlots EXCEPT ![i] = CliFree]
             /\ cliOpen' = [f \in CliFds |-> IF f = fd THEN CliNobody ELSE cliOpen[f]]
  <2>1. PICK i \in CliSlot :
             /\ cliSlots[i].index = t /\ cliSlots[i].fd = fd
             /\ fd \in CliFds /\ cliOpen[fd] = t
             /\ cliSlots' = [cliSlots EXCEPT ![i] = CliFree]
             /\ cliOpen' = [f \in CliFds |-> IF f = fd THEN CliNobody ELSE cliOpen[f]]
    BY <1>2
  <2>2. t # CliNobody
    BY CliAssumption
  <2>3. \A j \in CliSlot : cliSlots[j].index = t => j = i
    BY <2>1, <2>2 DEF CliInv, CliSound, CliTable
  <2>4. /\ CliFree.index = CliNobody
        /\ CliFree \in [index : CliThreads \cup {CliNobody},
                        fd : CliFds \cup {-1}, old : BOOLEAN]
    BY DEF CliFree
  <2>5. /\ \A j \in CliSlot : cliSlots'[j] = IF j = i THEN CliFree ELSE cliSlots[j]
        /\ \A f \in CliFds : cliOpen'[f] = IF f = fd THEN CliNobody ELSE cliOpen[f]
        /\ cliSlots' \in [CliSlot -> [index : CliThreads \cup {CliNobody},
                                      fd : CliFds \cup {-1}, old : BOOLEAN]]
        /\ cliOpen' \in [CliFds -> CliThreads \cup {CliNobody}]
    BY <2>1, <2>4 DEF CliInv, CliTypeOK
  <2> QED BY <2>1, <2>2, <2>3, <2>4, <2>5
<1> QED BY <1>1, <1>2, CliSysCloses

LEMMA CliInvNext ==
    ASSUME CliInv, CliNext
    PROVE  CliInv'
<1> USE DEF CliHolding, CliPlaces
<1>1. /\ CliNobody \notin CliThreads /\ -1 \notin CliFds
      /\ CliServers \in Nat /\ 0 \in 0 .. CliServers /\ 0 < CliServers
      /\ \A n \in 0 .. CliServers : n < CliServers => n + 1 \in 0 .. CliServers
  BY CliAssumption
<1>2. CliTypeOK /\ CliFdsOK /\ CliCalls /\ CliHeld /\ CliTable /\ CliKnown
  BY DEF CliInv, CliSound
<1>3. CliTypeOK' /\ CliFdsOK' /\ CliCalls' /\ CliHeld' /\ CliTable' /\ CliKnown'
        => CliInv'
  BY DEF CliInv, CliSound
(* Steps that change where a thread is, and perhaps its server.            *)
<1>4. ASSUME NEW t \in CliThreads, UNCHANGED <<cliSlots, cliFd, cliOpen, cliUnsaved>>,
             NEW place \in CliPlaces, cliAt' = [cliAt EXCEPT ![t] = place],
             \/ cliAt[t] \in {"send", "recv"} /\ place \in {"recv", "idle", "close"}
             \/ cliAt[t] = "connect" /\ place = "save"
             \/ cliAt[t] \in {"try", "again"} /\ place \in {"idle", "again"},
             cliServer' \in [CliThreads -> 0 .. CliServers],
             \A u \in CliThreads : u # t => cliServer'[u] = cliServer[u]
      PROVE  CliInv'
  <2>1. /\ \A u \in CliThreads : CliHas(u)' <=> CliHas(u)
        /\ \A u \in CliThreads : u # t => cliAt'[u] = cliAt[u]
        /\ cliAt'[t] = place
    BY <1>4, <1>2 DEF CliHas, CliTypeOK
  <2>2. CliTypeOK'
    BY <1>4, <1>2 DEF CliTypeOK
  <2>3. CliFdsOK' /\ CliCalls' /\ CliHeld' /\ CliTable'
    BY <1>4, <1>2, <2>1 DEF CliFdsOK, CliCalls, CliHeld, CliTable
  <2>4. CliKnown'
    <3>1. cliAt[t] \in {"send", "recv"} /\ cliFd[t] \in CliFds =>
            \/ cliFd[t] \in cliUnsaved
            \/ \E i \in CliSlot : cliSlots[i].fd = cliFd[t]
      BY <1>2 DEF CliCalls, CliHas
    <3> QED BY <1>4, <1>2, <2>1, <3>1 DEF CliKnown
  <2> QED BY <1>3, <2>2, <2>3, <2>4
<1>5. ASSUME NEW t \in CliThreads, CliBegin(t) PROVE CliInv'
  <2>1. \A u \in CliThreads : CliHas(u)' <=> CliHas(u)
    BY <1>5 DEF CliBegin, CliHas
  <2>2. CliTypeOK' /\ CliFdsOK' /\ CliCalls' /\ CliHeld' /\ CliTable'
    BY <1>5, <1>2, <2>1
       DEF CliBegin, CliGoto, CliTypeOK, CliFdsOK, CliCalls, CliHeld, CliTable
  <2>3. CliKnown'
    BY <1>5, <1>2 DEF CliBegin, CliGoto, CliTypeOK, CliKnown
  <2> QED BY <1>3, <2>2, <2>3
<1>6. ASSUME NEW t \in CliThreads, CliConnect(t) PROVE CliInv'
  BY <1>6, <1>4, <1>2 DEF CliConnect, CliGoto, CliTypeOK
<1>7. ASSUME NEW t \in CliThreads, CliSend(t) PROVE CliInv'
  BY <1>7, <1>4, <1>2 DEF CliSend, CliGoto, CliTypeOK
<1>8. ASSUME NEW t \in CliThreads, CliRecv(t) PROVE CliInv'
  BY <1>8, <1>4, <1>2 DEF CliRecv, CliGoto, CliTypeOK
<1>9. ASSUME NEW t \in CliThreads, CliNoServer(t) PROVE CliInv'
  BY <1>9, <1>4, <1>2 DEF CliNoServer, CliGoto, CliTypeOK
<1>10. ASSUME NEW t \in CliThreads, CliSocketFails(t) PROVE CliInv'
  BY <1>10, <1>4, <1>2 DEF CliSocketFails, CliGoto, CliTypeOK
<1>11. ASSUME NEW t \in CliThreads, CliSkip(t) PROVE CliInv'
  <2>1. cliServer[t] < CliServers
    BY <1>11, <1>2 DEF CliSkip, CliCalls
  <2>2. /\ cliServer' \in [CliThreads -> 0 .. CliServers]
        /\ \A u \in CliThreads : u # t => cliServer'[u] = cliServer[u]
    BY <1>1, <1>11, <1>2, <2>1 DEF CliSkip, CliNextServer, CliTypeOK
  <2> QED BY <1>11, <1>4, <1>2, <2>2 DEF CliSkip, CliNextServer, CliGoto
<1>12. ASSUME NEW t \in CliThreads, CliSocket(t) PROVE CliInv'
  <2>1. PICK f \in CliFds :
          /\ cliAt[t] = "try" /\ cliOpen[f] = CliNobody
          /\ cliOpen' = [cliOpen EXCEPT ![f] = t]
          /\ cliFd' = [cliFd EXCEPT ![t] = f]
          /\ cliAt' = [cliAt EXCEPT ![t] = "connect"]
          /\ UNCHANGED <<cliSlots, cliServer, cliUnsaved>>
    BY <1>12 DEF CliSocket, CliGoto
  <2>2. /\ \A u \in CliThreads : CliHas(u)' <=> CliHas(u)
        /\ \A u \in CliThreads : u # t =>
             cliAt'[u] = cliAt[u] /\ cliFd'[u] = cliFd[u]
        /\ cliAt'[t] = "connect" /\ cliFd'[t] = f
        /\ \A g \in CliFds : g # f => cliOpen'[g] = cliOpen[g]
        /\ cliOpen'[f] = t
    BY <1>2, <2>1 DEF CliHas, CliTypeOK
  <2>3. CliTypeOK'
    BY <1>2, <2>1 DEF CliTypeOK
  <2>4. CliFdsOK'
    BY <1>2, <2>1, <2>2 DEF CliFdsOK
  <2>5. CliCalls'
    BY <1>2, <2>1, <2>2 DEF CliCalls
  <2>6. CliHeld'
    BY <1>1, <1>2, <2>1, <2>2 DEF CliHeld, CliFdsOK
  <2>7. CliTable'
    BY <1>1, <1>2, <2>1, <2>2 DEF CliTable, CliFdsOK
  <2>8. CliKnown'
    BY <1>2, <2>1, <2>2 DEF CliKnown
  <2> QED BY <1>3, <2>3, <2>4, <2>5, <2>6, <2>7, <2>8
<1>13. ASSUME NEW t \in CliThreads, CliGetSock(t) PROVE CliInv'
  <2>1. /\ cliAt[t] = "get"
        /\ UNCHANGED <<cliSlots, cliOpen, cliUnsaved>>
        /\ cliServer' = [cliServer EXCEPT ![t] = 0]
        /\ \A u \in CliThreads : CliHas(u)' <=> CliHas(u)
    BY <1>13 DEF CliGetSock, CliHas
  <2>2. CASE CliHas(t)
    <3>1. PICK i \in CliSlot :
            /\ cliSlots[i].index = t /\ cliSlots[i].fd \in CliFds
            /\ \A j \in CliSlot : cliSlots[j].index = t => j = i
            /\ cliOpen[cliSlots[i].fd] = t
            /\ cliFd' = [cliFd EXCEPT ![t] = cliSlots[i].fd]
            /\ cliAt' = [cliAt EXCEPT ![t] = "send"]
      BY <1>13, <2>2, CliOwnSlot DEF CliGetSock, CliGoto
    <3>2. /\ \A u \in CliThreads : u # t =>
               /\ cliAt'[u] = cliAt[u] /\ cliFd'[u] = cliFd[u]
               /\ cliServer'[u] = cliServer[u]
          /\ cliAt'[t] = "send" /\ cliFd'[t] = cliSlots[i].fd
      BY <1>2, <2>1, <3>1 DEF CliTypeOK
    <3>3. CliTypeOK'
      BY <1>1, <1>2, <2>1, <3>1 DEF CliTypeOK
    <3>4. CliFdsOK' /\ CliCalls' /\ CliHeld' /\ CliTable'
      BY <1>2, <2>1, <2>2, <3>1, <3>2 DEF CliFdsOK, CliCalls, CliHeld, CliTable
    <3>5. CliKnown'
      BY <1>2, <2>1, <3>1, <3>2 DEF CliKnown
    <3> QED BY <1>3, <3>3, <3>4, <3>5
  <2>3. CASE ~CliHas(t)
    <3>1. /\ cliFd' = cliFd /\ cliAt' = [cliAt EXCEPT ![t] = "try"]
      BY <1>13, <2>3 DEF CliGetSock, CliGoto
    <3>2. /\ \A u \in CliThreads : u # t =>
               cliAt'[u] = cliAt[u] /\ cliServer'[u] = cliServer[u]
          /\ cliAt'[t] = "try" /\ cliServer'[t] = 0
      BY <1>2, <2>1, <3>1 DEF CliTypeOK
    <3>3. CliTypeOK'
      BY <1>1, <1>2, <2>1, <3>1 DEF CliTypeOK
    <3>4. CliFdsOK' /\ CliCalls' /\ CliHeld' /\ CliTable'
      BY <1>1, <1>2, <2>1, <2>3, <3>1, <3>2 DEF CliFdsOK, CliCalls, CliHeld, CliTable
    <3>5. CliKnown'
      BY <1>2, <2>1, <3>1, <3>2 DEF CliKnown
    <3> QED BY <1>3, <3>3, <3>4, <3>5
  <2> QED BY <2>2, <2>3
(* Steps that call SYS_close, with the descriptor of the thread's slot.    *)
<1>14. ASSUME NEW t \in CliThreads, NEW fd, CliSysClose(t, fd),
             CliHas(t) => fd = cliSlots[CliOwn(t)].fd,
             NEW place \in {"get", "try", "idle"}, cliAt' = [cliAt EXCEPT ![t] = place],
             \/ cliAt[t] = "valid" /\ place = "get"
             \/ cliAt[t] = "again" /\ place = "try" /\ cliServer[t] < CliServers
             \/ cliAt[t] = "close" /\ place = "idle",
             UNCHANGED <<cliFd, cliServer, cliUnsaved>>
      PROVE  CliInv'
  <2>1. /\ cliSlots' \in [CliSlot -> [index : CliThreads \cup {CliNobody},
                                      fd : CliFds \cup {-1}, old : BOOLEAN]]
        /\ cliOpen' \in [CliFds -> CliThreads \cup {CliNobody}]
        /\ \A i \in CliSlot : \/ cliSlots'[i] = cliSlots[i]
                              \/ cliSlots'[i] = CliFree /\ cliSlots[i].index = t
        /\ \A i \in CliSlot : cliSlots'[i].index # t
        /\ \A i \in CliSlot : cliSlots[i].index # t => cliSlots'[i] = cliSlots[i]
        /\ \A f \in CliFds : \/ cliOpen'[f] = cliOpen[f]
                             \/ cliOpen'[f] = CliNobody /\ cliOpen[f] = t
        /\ \A i \in CliSlot : cliSlots[i].index = t /\ cliSlots[i].fd \in CliFds =>
             cliOpen'[cliSlots[i].fd] = CliNobody
    BY <1>14, CliAfterClose
  <2>2. /\ \A u \in CliThreads : u # t => cliAt'[u] = cliAt[u]
        /\ cliAt'[t] = place
        /\ CliFree.index = CliNobody /\ CliFree.fd = -1
    BY <1>14, <1>2 DEF CliTypeOK, CliFree
  <2>3. CliTypeOK'
    BY <1>14, <1>2, <2>1 DEF CliTypeOK
  <2>4. CliFdsOK'
    BY <1>1, <1>14, <1>2, <2>1, <2>2 DEF CliFdsOK
  <2>5. CliCalls'
    <3>1. ~CliHas(t)'
      BY <2>1 DEF CliHas
    <3>2. \A u \in CliThreads : u # t => (CliHas(u)' <=> CliHas(u))
      BY <1>1, <2>1, <2>2 DEF CliHas
    <3>3. \A i \in CliSlot : \A u \in CliThreads :
            cliSlots'[i].index = u => cliSlots[i].index = u /\ cliSlots'[i] = cliSlots[i]
      BY <1>1, <2>1, <2>2
    <3> QED BY <1>14, <1>2, <2>2, <3>1, <3>2, <3>3 DEF CliCalls
  <2>6. CliHeld'
    BY <1>14, <1>2, <2>1, <2>2 DEF CliHeld, CliFdsOK
  <2>7. CliTable'
    <3>1. ASSUME NEW i \in CliSlot, cliSlots'[i].index # CliNobody
          PROVE  /\ cliSlots'[i] = cliSlots[i] /\ cliSlots[i].index # t
                 /\ cliSlots[i].index # CliNobody
      BY <2>1, <2>2, <3>1
    <3>2. ASSUME NEW i \in CliSlot, cliSlots'[i].index # CliNobody
          PROVE  cliOpen'[cliSlots'[i].fd] = cliSlots'[i].index
      BY <1>2, <2>1, <3>1, <3>2 DEF CliTable, CliFdsOK
    <3>3. ASSUME NEW i \in CliSlot, cliSlots'[i].index # CliNobody,
                 NEW j \in CliSlot, cliSlots'[j].index = cliSlots'[i].index
          PROVE  i = j
      BY <1>2, <3>1, <3>3 DEF CliTable
    <3> QED BY <3>2, <3>3 DEF CliTable
  <2>8. CliKnown'
    <3> SUFFICES ASSUME NEW f \in CliFds, cliOpen'[f] # CliNobody
                 PROVE  \/ \E i \in CliSlot : cliSlots'[i].fd = f
                        \/ \E u \in CliThreads : cliAt'[u] \in CliHolding /\ cliFd'[u] = f
                        \/ f \in cliUnsaved'
      BY DEF CliKnown
    <3>1. cliOpen[f] # CliNobody
      BY <2>1
    <3>2. ASSUME NEW i \in CliSlot, cliSlots[i].fd = f PROVE cliSlots'[i].fd = f
      BY <2>1, <3>2
    <3>3. ASSUME NEW u \in CliThreads, cliAt[u] \in CliHolding, cliFd[u] = f
          PROVE  cliAt'[u] \in CliHolding /\ cliFd'[u] = f
      BY <1>14, <2>2, <3>3
    <3> QED BY <1>14, <1>2, <3>1, <3>2, <3>3 DEF CliKnown
  <2> QED BY <1>3, <2>3, <2>4, <2>5, <2>6, <2>7, <2>8
<1>15. ASSUME NEW t \in CliThreads, CliIsSockValid(t) PROVE CliInv'
  <2> DEFINE fd == cliSlots[CliOwn(t)].fd
  <2>1. /\ cliAt[t] = "valid" /\ cliAt' = [cliAt EXCEPT ![t] = "get"]
        /\ UNCHANGED <<cliFd, cliServer, cliUnsaved>>
        /\ CliSysClose(t, fd) \/ UNCHANGED <<cliSlots, cliOpen>>
    BY <1>15 DEF CliIsSockValid, CliGoto
  <2>2. CASE CliSysClose(t, fd)
    BY <1>14, <2>1, <2>2
  <2>3. CASE UNCHANGED <<cliSlots, cliOpen>>
    <3>1. \A u \in CliThreads : CliHas(u)' <=> CliHas(u)
      BY <2>3 DEF CliHas
    <3>2. /\ \A u \in CliThreads : u # t => cliAt'[u] = cliAt[u]
          /\ cliAt'[t] = "get"
      BY <1>2, <2>1 DEF CliTypeOK
    <3>3. CliTypeOK'
      BY <1>2, <2>1, <2>3 DEF CliTypeOK
    <3>4. CliFdsOK' /\ CliCalls' /\ CliHeld' /\ CliTable'
      BY <1>2, <2>1, <2>3, <3>1, <3>2 DEF CliFdsOK, CliCalls, CliHeld, CliTable
    <3>5. CliKnown'
      BY <1>2, <2>1, <2>3, <3>2 DEF CliKnown
    <3> QED BY <1>3, <3>3, <3>4, <3>5
  <2> QED BY <2>1, <2>2, <2>3
<1>16. ASSUME NEW t \in CliThreads, CliAgain(t) PROVE CliInv'
  <2>1. ~CliHas(t)
    BY <1>16, <1>2 DEF CliAgain, CliCalls
  <2> QED BY <1>16, <1>14, <2>1 DEF CliAgain, CliMore, CliGoto
<1>17. ASSUME NEW t \in CliThreads, CliClose(t) PROVE CliInv'
  <2>1. CliHas(t) => cliFd[t] = cliSlots[CliOwn(t)].fd
    BY <1>17, <1>2, CliOwnSlot DEF CliClose, CliCalls
  <2> QED BY <1>17, <1>14, <2>1 DEF CliClose, CliGoto
<1>18. ASSUME NEW t \in CliThreads, CliConnectFails(t) PROVE CliInv'
  <2>1. /\ cliAt[t] = "connect" /\ cliFd[t] \in CliFds
        /\ cliOpen[cliFd[t]] = t /\ ~CliHas(t) /\ cliServer[t] < CliServers
        /\ cliAt' = [cliAt EXCEPT ![t] = "again"]
        /\ cliServer' = [cliServer EXCEPT ![t] = cliServer[t] + 1]
        /\ UNCHANGED <<cliSlots, cliFd, cliUnsaved>>
        /\ cliOpen' = [f \in CliFds |-> IF f = cliFd[t] THEN CliNobody ELSE cliOpen[f]]
    BY <1>18, <1>2
       DEF CliConnectFails, CliNextServer, CliGoto, CliShut, CliFdsOK, CliHeld, CliCalls
  <2>2. /\ \A u \in CliThreads : CliHas(u)' <=> CliHas(u)
        /\ \A u \in CliThreads : u # t =>
             cliAt'[u] = cliAt[u] /\ cliServer'[u] = cliServer[u]
        /\ cliAt'[t] = "again"
        /\ \A f \in CliFds : cliOpen'[f] = IF f = cliFd[t] THEN CliNobody ELSE cliOpen[f]
    BY <1>2, <2>1 DEF CliHas, CliTypeOK
  <2>3. CliTypeOK'
    <3>1. cliServer' \in [CliThreads -> 0 .. CliServers]
      BY <1>1, <1>2, <2>1 DEF CliTypeOK
    <3> QED BY <1>2, <2>1, <3>1 DEF CliTypeOK
  <2>4. CliFdsOK' /\ CliCalls'
    BY <1>2, <2>1, <2>2 DEF CliFdsOK, CliCalls
  <2>5. CliHeld'
    BY <1>2, <2>1, <2>2 DEF CliHeld, CliFdsOK
  <2>6. CliTable'
    BY <1>1, <1>2, <2>1, <2>2 DEF CliTable, CliFdsOK, CliHas
  <2>7. CliKnown'
    BY <1>2, <2>1, <2>2 DEF CliKnown
  <2> QED BY <1>3, <2>3, <2>4, <2>5, <2>6, <2>7
<1>19. ASSUME NEW t \in CliThreads, CliSave(t) PROVE CliInv'
  <2> DEFINE fits == {i \in CliSlot : cliSlots[i].index \in {CliNobody, t}}
  <2>1. /\ cliAt[t] = "save" /\ cliFd[t] \in CliFds
        /\ cliOpen[cliFd[t]] = t /\ ~CliHas(t)
        /\ cliAt' = [cliAt EXCEPT ![t] = "send"]
        /\ UNCHANGED <<cliFd, cliServer, cliOpen>>
    BY <1>19, <1>2 DEF CliSave, CliGoto, CliFdsOK, CliHeld, CliCalls
  <2>2. /\ \A u \in CliThreads : u # t => cliAt'[u] = cliAt[u]
        /\ cliAt'[t] = "send"
    BY <1>2, <2>1 DEF CliTypeOK
  <2>3. CASE fits # {}
    <3> DEFINE r == [index |-> t, fd |-> cliFd[t], old |-> FALSE]
    <3>1. CliFirst(fits) \in fits
      BY <2>3, CliFirstIn
    <3>2. PICK k \in CliSlot : k = CliFirst(fits) /\ cliSlots[k].index = CliNobody
      BY <2>1, <3>1 DEF CliHas
    <3>3. /\ cliSlots' = [cliSlots EXCEPT ![k] = r] /\ cliUnsaved' = cliUnsaved
          /\ r.index = t /\ r.fd = cliFd[t]
          /\ r \in [index : CliThreads \cup {CliNobody},
                    fd : CliFds \cup {-1}, old : BOOLEAN]
      BY <1>19, <2>1, <2>3, <3>2 DEF CliSave
    <3> HIDE DEF r, fits
    <3>4. \A i \in CliSlot : cliSlots'[i] = IF i = k THEN r ELSE cliSlots[i]
      BY <1>2, <3>3 DEF CliTypeOK
    <3>5. CliTypeOK'
      BY <1>2, <2>1, <3>3 DEF CliTypeOK
    <3>6. CliFdsOK'
      BY <1>1, <1>2, <2>1, <2>2, <3>3, <3>4 DEF CliFdsOK
    <3>7. CliCalls'
      <4>1. CliHas(t)'
        BY <3>3, <3>4 DEF CliHas
      <4>2. \A u \in CliThreads : u # t => (CliHas(u)' <=> CliHas(u))
        BY <1>1, <3>2, <3>3, <3>4 DEF CliHas
      <4>3. \A i \in CliSlot : cliSlots[i].index # t
        BY <2>1 DEF CliHas
      <4> QED BY <1>1, <1>2, <2>1, <2>2, <3>3, <3>4, <4>1, <4>2, <4>3 DEF CliCalls
    <3>8. CliHeld'
      BY <1>2, <2>1, <2>2 DEF CliHeld
    <3>9. CliTable'
      BY <1>1, <1>2, <2>1, <3>2, <3>3, <3>4 DEF CliTable, CliHas
    <3>10. CliKnown'
      BY <1>1, <1>2, <2>1, <2>2, <3>2, <3>3, <3>4 DEF CliKnown, CliFdsOK
    <3> QED BY <1>3, <3>5, <3>6, <3>7, <3>8, <3>9, <3>10
  <2>4. CASE fits = {}
    <3>1. cliUnsaved' = cliUnsaved \cup {cliFd[t]} /\ cliSlots' = cliSlots
      BY <1>19, <2>4 DEF CliSave
    <3>2. \A u \in CliThreads : CliHas(u)' <=> CliHas(u)
      BY <3>1 DEF CliHas
    <3>3. CliTypeOK'
      BY <1>2, <2>1, <3>1 DEF CliTypeOK
    <3>4. CliFdsOK' /\ CliHeld' /\ CliTable'
      BY <1>2, <2>1, <2>2, <3>1 DEF CliFdsOK, CliHeld, CliTable
    <3>5. CliCalls'
      BY <1>2, <2>1, <2>2, <3>1, <3>2 DEF CliCalls, CliHas
    <3>6. CliKnown'
      BY <1>2, <2>1, <2>2, <3>1 DEF CliKnown
    <3> QED BY <1>3, <3>3, <3>4, <3>5, <3>6
  <2> QED BY <2>3, <2>4
<1>20. ASSUME CliElapse PROVE CliInv'
  <2>1. PICK k \in CliSlot :
          /\ cliSlots' = [cliSlots EXCEPT ![k].old = TRUE]
          /\ UNCHANGED <<cliAt, cliFd, cliServer, cliOpen, cliUnsaved>>
    BY <1>20 DEF CliElapse
  <2>2. \A i \in CliSlot : /\ cliSlots'[i].index = cliSlots[i].index
                           /\ cliSlots'[i].fd = cliSlots[i].fd
    BY <1>2, <2>1 DEF CliTypeOK
  <2>3. CliTypeOK'
    BY <1>2, <2>1 DEF CliTypeOK
  <2>4. \A u \in CliThreads : CliHas(u)' <=> CliHas(u)
    BY <2>2 DEF CliHas
  <2>5. CliFdsOK' /\ CliCalls' /\ CliHeld' /\ CliTable' /\ CliKnown'
    BY <1>2, <2>1, <2>2, <2>4 DEF CliFdsOK, CliCalls, CliHeld, CliTable, CliKnown
  <2> QED BY <1>3, <2>3, <2>5
<1> QED BY <1>5, <1>6, <1>7, <1>8, <1>9, <1>10, <1>11, <1>12, <1>13, <1>15, <1>16,
           <1>17, <1>18, <1>19, <1>20
        DEF CliNext

LEMMA CliAlwaysInv == CliSpec => []CliInv
<1>1. CliInv /\ [CliNext]_cliVars => CliInv'
  <2> SUFFICES ASSUME CliInv, [CliNext]_cliVars PROVE CliInv'
    OBVIOUS
  <2>1. CASE CliNext
    BY <2>1, CliInvNext
  <2>2. CASE UNCHANGED cliVars
    BY <2>2 DEF CliInv, cliVars, CliTypeOK, CliFdsOK, CliCalls, CliHas,
                CliSound, CliHeld, CliTable, CliKnown
  <2> QED BY <2>1, <2>2
<1> QED BY <1>1, CliInvInit, PTL DEF CliSpec

(* A thread of a client uses open descriptors of its own only, the table   *)
(* has one connection per thread, and no connection is forgotten but those *)
(* there was no room for - however many threads and slots there are, and   *)
(* whichever closed descriptors the system hands out again                 *)
(* (sys_cli_io.cpp:100-330).                                               *)
THEOREM CliSocketsSound == CliSpec => []CliSound
<1>1. CliInv => CliSound
  BY DEF CliInv
<1> QED BY <1>1, CliAlwaysInv, PTL

-----------------------------------------------------------------------------
(* The three components together.                                          *)

(* A behaviour of MCConnections is one of each of its components: what it  *)
(* checks of them in one run is what it would check of each alone.         *)
THEOREM ConnectionsApart == Spec => ExSpec /\ AsySpec /\ CliSpec
<1>1. Init => ExInit /\ AsyInit /\ CliInit
  BY DEF Init
<1>2. [Next]_<<part, exVars, asyVars, cliVars>>
        => [ExNext]_exVars /\ [AsyNext]_asyVars /\ [CliNext]_cliVars
  BY DEF Next
<1> QED BY <1>1, <1>2, PTL DEF Spec, ExSpec, AsySpec, CliSpec

(* The variables of the component a behaviour is of have their types.      *)
THEOREM ConnectionsTypeCorrect == Spec => []ConnectionsTypeOK
<1>1. CliInv => CliTypeOK
  BY DEF CliInv
<1>2. ExTypeOK /\ AsyTypeOK /\ CliTypeOK => ConnectionsTypeOK
  BY DEF ConnectionsTypeOK
<1> QED BY <1>1, <1>2, ConnectionsApart, ExTypeCorrect, AsyTypeCorrect,
           CliAlwaysInv, PTL
=============================================================================
