-------------------------- MODULE ObjectPool_proofs --------------------------
(***************************************************************************)
(* Proofs about ObjectPool.  OpInv adds to OpTypeOK what a thread inside a *)
(* call holds (OpItems); while no thread has tested the result of another  *)
(* one's call, whose every object is (OpSole); and, while no more objects  *)
(* are wanted than the pool was filled with, how many are pooled           *)
(* (OpAmple).                                                              *)
(***************************************************************************)
EXTENDS ObjectPool, QueueFacts, FiniteSetTheorems, TLAPS

OpDequeuing ==
    {t \in OpThreads : opPc[t] \in {"dequeue_store", "dequeue_test"}}
OpEnqueuing ==
    {t \in OpThreads : opPc[t] \in {"enqueue_store", "enqueue_test"}}

(* The object of a call is that of an enqueue, or what a dequeue got.      *)
OpItems ==
    \A t \in OpThreads :
      opItem[t] # OpNull <=> \/ t \in OpEnqueuing
                             \/ t \in OpDequeuing /\ opGot[t] = "ok"

(* The threads that alone know the object of their call: it has been taken *)
(* out of the pool, or has not been taken by it.                           *)
OpKeepers ==
    {t \in OpDequeuing : opGot[t] = "ok"}
    \cup {t \in OpEnqueuing : opGot[t] = "fail"}

OpSole ==
    /\ OpNothingDangles
    /\ OpExclusive
    /\ \A t \in OpKeepers : /\ opItem[t] \in opAlive
                            /\ opItem[t] \notin OpPooled
                            /\ opItem[t] \notin opInUse
    /\ \A t, u \in OpKeepers : opItem[t] = opItem[u] => t = u
    /\ opAlive
          \subseteq OpPooled \cup opInUse \cup {opItem[t] : t \in OpKeepers}
    /\ ~opNulls

OpAmple ==
    opPeak <= OpSize =>
      /\ opRet = "ok"
      /\ ~opMisread
      /\ \A t \in OpThreads : opGot[t] = "ok"
      /\ Len(opQue) + Cardinality(opInUse) + Cardinality(OpDequeuing) = OpSize

OpInv == OpTypeOK /\ OpItems /\ (~opMisread => OpSole) /\ OpAmple

-----------------------------------------------------------------------------
LEMMA OpFinite ==
    ASSUME OpTypeOK
    PROVE  /\ IsFiniteSet(opInUse)
           /\ Cardinality(opInUse) \in Nat
           /\ IsFiniteSet(OpDequeuing)
           /\ Cardinality(OpDequeuing) \in Nat
           /\ IsFiniteSet({t \in OpThreads : opPc[t] # "idle"})
           /\ Cardinality({t \in OpThreads : opPc[t] # "idle"}) \in Nat
           /\ Cardinality(OpDequeuing)
                <= Cardinality({t \in OpThreads : opPc[t] # "idle"})
           /\ OpWanted \in Nat
           /\ Len(opQue) \in Nat
<1> DEFINE OpBusy == {t \in OpThreads : opPc[t] # "idle"}
<1>1. IsFiniteSet(opInUse) /\ IsFiniteSet(OpBusy)
  BY ObjectPoolAssumption, FS_Subset DEF OpTypeOK
<1>2. OpDequeuing \subseteq OpBusy
  BY DEF OpDequeuing
<1>3. /\ IsFiniteSet(OpDequeuing)
      /\ Cardinality(OpDequeuing) <= Cardinality(OpBusy)
  BY <1>1, <1>2, FS_Subset
<1>4. /\ Cardinality(opInUse) \in Nat
      /\ Cardinality(OpBusy) \in Nat
      /\ Cardinality(OpDequeuing) \in Nat
  BY <1>1, <1>3, FS_CardinalityType
<1>5. Len(opQue) \in Nat
  BY DEF OpTypeOK
<1> QED BY <1>1, <1>3, <1>4, <1>5 DEF OpWanted

(* The pool is filled with OpSize objects, all different.                  *)
LEMMA OpInitInv == OpInit => OpInv
<1> SUFFICES ASSUME OpInit PROVE OpInv
  OBVIOUS
<1> USE ObjectPoolAssumption DEF OpInit
<1>1. PICK s \in [1 .. OpSize -> OpObjects] :
        /\ \A i, j \in DOMAIN s : s[i] = s[j] => i = j
        /\ opQue = s
        /\ opAlive = {s[i] : i \in DOMAIN s}
  BY DEF OpInitPool
<1>2. opQue \in Seq(OpObjects) /\ Len(opQue) = OpSize
  BY <1>1
<1>3. opAlive = OpPooled /\ opAlive \subseteq OpObjects
  BY <1>1 DEF OpPooled
<1>4. OpTypeOK
  <2>1. /\ Len(opQue) <= OpSize
        /\ opPeak \in 0 .. OpMaxWanted
    BY <1>2
  <2>2. /\ opPc \in [OpThreads -> {"idle", "dequeue_store", "dequeue_test",
                               "enqueue_store", "enqueue_test"}]
        /\ opItem \in [OpThreads -> OpObjects \cup {OpNull}]
        /\ opGot \in [OpThreads -> {"ok", "fail"}]
    OBVIOUS
  <2> QED BY <1>2, <1>3, <2>1, <2>2 DEF OpTypeOK
<1>5. OpDequeuing = {} /\ OpEnqueuing = {}
  BY DEF OpDequeuing, OpEnqueuing
<1>6. OpItems
  BY <1>5 DEF OpItems
<1>7. OpSole
  <2>1. OpKeepers = {}
    BY <1>5 DEF OpKeepers
  <2>2. OpExclusive
    BY <1>1 DEF OpExclusive, OpPooled
  <2> QED BY <1>3, <2>1, <2>2 DEF OpSole, OpNothingDangles
<1>8. OpAmple
  BY <1>2, <1>5, FS_EmptySet DEF OpAmple
<1> QED BY <1>4, <1>6, <1>7, <1>8 DEF OpInv

(* An object is taken out of the pool, or the pool is empty.               *)
LEMMA OpDequeueCallStep ==
    ASSUME OpInv, NEW t \in OpThreads, OpDequeueCall(t)
    PROVE  OpInv'
<1> USE ObjectPoolAssumption DEF OpDequeueCall, OpGoto
<1> DEFINE OpBusy == {u \in OpThreads : opPc[u] # "idle"}
<1>1. /\ OpTypeOK /\ OpItems /\ OpAmple
      /\ opPc[t] = "idle" /\ t \notin OpDequeuing /\ t \notin OpEnqueuing
      /\ opItem[t] = OpNull
  BY DEF OpInv, OpItems, OpDequeuing, OpEnqueuing
<1>2. /\ OpDequeuing' = OpDequeuing \cup {t}
      /\ OpEnqueuing' = OpEnqueuing
  BY <1>1 DEF OpTypeOK, OpDequeuing, OpEnqueuing
<1>3. Cardinality(OpDequeuing') = Cardinality(OpDequeuing) + 1
  BY <1>1, <1>2, OpFinite, FS_AddElement
<1>4. CASE opQue # <<>>
  <2>1. /\ Head(opQue) = opQue[1]
        /\ 1 \in DOMAIN opQue
        /\ Head(opQue) \in OpObjects
        /\ Tail(opQue) \in Seq(OpObjects)
        /\ Len(Tail(opQue)) = Len(opQue) - 1
        /\ \A i \in DOMAIN Tail(opQue) : i + 1 \in DOMAIN opQue
                                        /\ Tail(opQue)[i] = opQue[i + 1]
    BY <1>1, <1>4, TailElements DEF OpTypeOK
  <2>2. /\ opQue' = Tail(opQue)
        /\ opItem' = [opItem EXCEPT ![t] = Head(opQue)]
        /\ opGot' = [opGot EXCEPT ![t] = "ok"]
    BY <1>4
  <2>3. OpTypeOK'
    BY <1>1, <2>1, <2>2, OpFinite DEF OpTypeOK
  <2>4. OpItems'
    BY <1>1, <1>2, <2>1, <2>2 DEF OpItems, OpTypeOK
  <2>5. ASSUME ~opMisread' PROVE OpSole'
    <3>1. OpSole
      BY <2>5 DEF OpInv
    <3>2. OpKeepers' = OpKeepers \cup {t} /\ t \notin OpKeepers
      BY <1>1, <1>2, <2>2 DEF OpKeepers, OpTypeOK
    <3>3. DOMAIN opQue' = 1 .. Len(opQue) - 1 /\ DOMAIN opQue = 1 .. Len(opQue)
          /\ Len(opQue) \in Nat
      BY <1>1, <2>1, <2>2 DEF OpTypeOK
    <3>4. OpPooled' \subseteq OpPooled /\ Head(opQue) \notin OpPooled'
      BY <2>1, <2>2, <3>1, <3>3 DEF OpSole, OpExclusive, OpPooled
    <3>5. OpPooled \subseteq OpPooled' \cup {Head(opQue)}
      <4>1. ASSUME NEW i \in DOMAIN opQue, i # 1 PROVE opQue[i] \in OpPooled'
        <5>1. i - 1 \in DOMAIN opQue' /\ opQue'[i - 1] = opQue[i]
          BY <2>1, <2>2, <3>3, <4>1
        <5> QED BY <5>1 DEF OpPooled
      <4> QED BY <2>1, <4>1 DEF OpPooled
    <3>6. OpNothingDangles' /\ OpExclusive'
      BY <2>1, <2>2, <3>1, <3>3, <3>4
         DEF OpSole, OpNothingDangles, OpExclusive, OpPooled
    <3>7. ASSUME NEW u \in OpKeepers
          PROVE  /\ opItem'[u] = opItem[u]
                 /\ opItem[u] # Head(opQue)
                 /\ opItem[u] \notin OpPooled'
      BY <1>1, <2>1, <2>2, <3>1, <3>2, <3>4, <3>7
         DEF OpSole, OpPooled, OpKeepers, OpDequeuing, OpEnqueuing, OpTypeOK
    <3>8. /\ opItem'[t] = Head(opQue)
          /\ Head(opQue) \in opAlive
          /\ Head(opQue) \notin opInUse
      BY <1>1, <2>1, <2>2, <3>1
            DEF OpSole, OpNothingDangles, OpExclusive, OpPooled, OpTypeOK
    <3>9. opAlive' \subseteq OpPooled' \cup opInUse'
                          \cup {opItem'[u] : u \in OpKeepers'}
      BY <3>1, <3>2, <3>5, <3>7, <3>8 DEF OpSole
    <3> QED BY <3>1, <3>2, <3>4, <3>6, <3>7, <3>8, <3>9 DEF OpSole
  <2>6. OpAmple'
    <3>1. opPeak <= opPeak'
      BY <1>1, OpFinite DEF OpTypeOK
    <3>2. Len(opQue') = Len(opQue) - 1
      BY <2>1, <2>2
    <3> QED BY <1>1, <1>3, <2>2, <3>1, <3>2, OpFinite DEF OpAmple, OpTypeOK
  <2> QED BY <2>3, <2>4, <2>5, <2>6 DEF OpInv
<1>5. CASE opQue = <<>>
  <2>1. opGot' = [opGot EXCEPT ![t] = "fail"] /\ UNCHANGED <<opQue, opItem>>
    BY <1>5
  <2>2. OpTypeOK'
    BY <1>1, <2>1, OpFinite DEF OpTypeOK
  <2>3. OpItems'
    BY <1>1, <1>2, <2>1 DEF OpItems, OpTypeOK
  <2>4. OpKeepers' = OpKeepers
    BY <1>1, <1>2, <2>1 DEF OpKeepers, OpTypeOK
  <2>5. ~opMisread' => OpSole'
    BY <2>1, <2>4 DEF OpInv, OpSole, OpNothingDangles, OpExclusive, OpPooled
  <2>6. OpAmple'
    <3>1. Len(opQue) = 0
      BY <1>5
    <3>2. opPeak' >= opPeak /\ opPeak' >= OpWanted + 1
      BY <1>1, OpFinite DEF OpTypeOK
    <3>3. opPeak' > OpSize
      BY <1>1, <3>1, <3>2, OpFinite DEF OpAmple, OpWanted, OpTypeOK
    <3> QED BY <1>1, <2>2, <3>3 DEF OpAmple, OpTypeOK
  <2> QED BY <2>2, <2>3, <2>5, <2>6 DEF OpInv
<1> QED BY <1>4, <1>5

(* An object is given back: the queue takes it or refuses it.              *)
LEMMA OpEnqueueCallStep ==
    ASSUME OpInv, NEW t \in OpThreads, NEW o \in OpObjects, OpEnqueueCall(t, o)
    PROVE  OpInv'
<1> USE ObjectPoolAssumption DEF OpEnqueueCall, OpGoto, OpHasRoom, opHist
<1>1. /\ OpTypeOK /\ OpItems /\ OpAmple
      /\ opPc[t] = "idle" /\ t \notin OpDequeuing /\ t \notin OpEnqueuing
      /\ o \in opInUse
      /\ opItem' = [opItem EXCEPT ![t] = o]
  BY DEF OpInv, OpDequeuing, OpEnqueuing
<1>2. /\ OpDequeuing' = OpDequeuing
      /\ OpEnqueuing' = OpEnqueuing \cup {t}
  BY <1>1 DEF OpTypeOK, OpDequeuing, OpEnqueuing
<1>3. Cardinality(opInUse') = Cardinality(opInUse) - 1
  BY <1>1, OpFinite, FS_RemoveElement
<1>4. CASE OpHasRoom
  <2>1. opQue' = Append(opQue, o) /\ opGot' = [opGot EXCEPT ![t] = "ok"]
    BY <1>4
  <2>2. /\ opQue' \in Seq(OpObjects)
        /\ Len(opQue') = Len(opQue) + 1
        /\ DOMAIN opQue = 1 .. Len(opQue)
        /\ DOMAIN opQue' = 1 .. Len(opQue) + 1
        /\ \A i \in DOMAIN opQue : opQue'[i] = opQue[i]
        /\ opQue'[Len(opQue) + 1] = o
    BY <1>1, <2>1 DEF OpTypeOK
  <2>3. OpTypeOK'
    BY <1>1, <1>4, <2>1, <2>2, OpFinite DEF OpTypeOK
  <2>4. OpItems'
    BY <1>1, <1>2, <2>1 DEF OpItems, OpTypeOK
  <2>5. ASSUME ~opMisread' PROVE OpSole'
    <3>1. OpSole
      BY <2>5 DEF OpInv
    <3>2. OpKeepers' = OpKeepers /\ t \notin OpKeepers
      BY <1>1, <1>2, <2>1 DEF OpKeepers, OpTypeOK
    <3>3. OpPooled' = OpPooled \cup {o} /\ o \notin OpPooled
      BY <1>1, <2>2, <3>1, OpFinite DEF OpPooled, OpSole, OpExclusive
    <3>4. OpNothingDangles' /\ OpExclusive'
      <4>1. \A i, j \in DOMAIN opQue' : opQue'[i] = opQue'[j] => i = j
        <5>1. \A i \in DOMAIN opQue' : i \in DOMAIN opQue \/ i = Len(opQue) + 1
          BY <1>1, <2>2, OpFinite
        <5>2. \A i \in DOMAIN opQue : opQue'[i] \in OpPooled
          BY <2>2 DEF OpPooled
        <5> QED BY <2>2, <3>1, <3>3, <5>1, <5>2 DEF OpSole, OpExclusive
      <4>2. /\ OpPooled' \cap opInUse' = {}
            /\ OpPooled' \cup opInUse' \subseteq opAlive'
        BY <1>1, <3>1, <3>3 DEF OpSole, OpNothingDangles, OpExclusive
      <4> QED BY <4>1, <4>2 DEF OpNothingDangles, OpExclusive
    <3>5. ASSUME NEW u \in OpKeepers
          PROVE  opItem'[u] = opItem[u] /\ opItem[u] # o
      BY <1>1, <3>1, <3>2, <3>5
         DEF OpSole, OpKeepers, OpDequeuing, OpEnqueuing, OpTypeOK
    <3>6. opAlive' \subseteq OpPooled' \cup opInUse'
                          \cup {opItem'[u] : u \in OpKeepers'}
      BY <3>1, <3>2, <3>3, <3>5 DEF OpSole
    <3> QED BY <3>1, <3>2, <3>3, <3>4, <3>5, <3>6 DEF OpSole
  <2>6. OpAmple'
    <3>1. \A u \in OpThreads : opGot[u] = "ok" => opGot'[u] = "ok"
      BY <1>1, <2>1 DEF OpTypeOK
    <3>2. Len(opQue') + Cardinality(opInUse') + Cardinality(OpDequeuing')
            = Len(opQue) + Cardinality(opInUse) + Cardinality(OpDequeuing)
      BY <1>1, <1>2, <1>3, <2>2, OpFinite
    <3> QED BY <1>1, <3>1, <3>2 DEF OpAmple
  <2> QED BY <2>3, <2>4, <2>5, <2>6 DEF OpInv
<1>5. CASE ~OpHasRoom
  <2>1. opGot' = [opGot EXCEPT ![t] = "fail"] /\ UNCHANGED opQue
    BY <1>5
  <2>2. OpTypeOK'
    BY <1>1, <2>1 DEF OpTypeOK
  <2>3. OpItems'
    BY <1>1, <1>2, <2>1 DEF OpItems, OpTypeOK
  <2>4. ASSUME ~opMisread' PROVE OpSole'
    <3>1. OpSole
      BY <2>4 DEF OpInv
    <3>2. OpKeepers' = OpKeepers \cup {t} /\ t \notin OpKeepers
      BY <1>1, <1>2, <2>1 DEF OpKeepers, OpTypeOK
    <3>3. ASSUME NEW u \in OpKeepers
          PROVE  opItem'[u] = opItem[u] /\ opItem[u] # o
      BY <1>1, <3>1, <3>2, <3>3
         DEF OpSole, OpKeepers, OpDequeuing, OpEnqueuing, OpTypeOK
    <3>4. /\ opItem'[t] = o
          /\ o \in opAlive /\ o \notin OpPooled' /\ o \notin opInUse'
      BY <1>1, <2>1, <3>1
            DEF OpSole, OpNothingDangles, OpExclusive, OpPooled, OpTypeOK
    <3>5. OpNothingDangles' /\ OpExclusive'
      BY <2>1, <3>1 DEF OpSole, OpNothingDangles, OpExclusive, OpPooled
    <3>6. opAlive' \subseteq OpPooled' \cup opInUse'
                          \cup {opItem'[u] : u \in OpKeepers'}
      BY <2>1, <3>1, <3>2, <3>3, <3>4 DEF OpSole, OpPooled
    <3> QED BY <2>1, <3>1, <3>2, <3>3, <3>4, <3>5, <3>6 DEF OpSole, OpPooled
  <2>5. OpAmple'
    <3>1. opInUse # {} /\ Cardinality(opInUse) >= 1
      BY <1>1, OpFinite, FS_EmptySet
    <3>2. opPeak > OpSize
      BY <1>1, <1>5, <3>1, OpFinite DEF OpAmple, OpTypeOK
    <3> QED BY <1>1, <3>2 DEF OpAmple, OpTypeOK
  <2> QED BY <2>2, <2>3, <2>4, <2>5 DEF OpInv
<1> QED BY <1>4, <1>5

(* The result of a call becomes the shared one.                            *)
LEMMA OpStoreStep ==
    ASSUME OpInv, NEW t \in OpThreads, OpStore(t)
    PROVE  OpInv'
<1> USE DEF OpStore, OpGoto, opHist
<1>1. OpTypeOK /\ OpItems /\ OpAmple
  BY DEF OpInv
<1>2. OpDequeuing' = OpDequeuing /\ OpEnqueuing' = OpEnqueuing
  BY <1>1 DEF OpTypeOK, OpDequeuing, OpEnqueuing
<1>3. OpTypeOK'
  BY <1>1 DEF OpTypeOK
<1>4. OpItems'
  BY <1>1, <1>2 DEF OpItems
<1>5. OpKeepers' = OpKeepers
  BY <1>2 DEF OpKeepers
<1>6. ~opMisread' => OpSole'
  BY <1>5 DEF OpInv, OpSole, OpNothingDangles, OpExclusive, OpPooled
<1>7. OpAmple'
  BY <1>1, <1>2 DEF OpAmple
<1> QED BY <1>3, <1>4, <1>6, <1>7 DEF OpInv

(* A thread returns from a call: what it held goes with it.                *)
LEMMA OpReturns ==
    ASSUME OpTypeOK, OpItems, NEW t \in OpThreads, opPc[t] # "idle",
           opPc' = [opPc EXCEPT ![t] = "idle"],
           opItem' = [opItem EXCEPT ![t] = OpNull],
           opGot' = opGot
    PROVE  /\ OpDequeuing' = OpDequeuing \ {t}
           /\ OpEnqueuing' = OpEnqueuing \ {t}
           /\ OpKeepers' = OpKeepers \ {t}
           /\ \A u \in OpKeepers' : opItem'[u] = opItem[u]
           /\ OpItems'
           /\ opPc' \in [OpThreads -> {"idle", "dequeue_store", "dequeue_test",
                                   "enqueue_store", "enqueue_test"}]
           /\ opItem' \in [OpThreads -> OpObjects \cup {OpNull}]
<1>1. OpDequeuing' = OpDequeuing \ {t} /\ OpEnqueuing' = OpEnqueuing \ {t}
  BY DEF OpTypeOK, OpDequeuing, OpEnqueuing
<1>2. OpKeepers' = OpKeepers \ {t}
  BY <1>1 DEF OpKeepers
<1>3. \A u \in OpKeepers' : opItem'[u] = opItem[u]
  BY <1>2 DEF OpTypeOK, OpKeepers, OpDequeuing, OpEnqueuing
<1>4. OpItems'
  BY <1>1 DEF OpItems, OpTypeOK
<1> QED BY <1>1, <1>2, <1>3, <1>4 DEF OpTypeOK

(* dequeue hands out what it got.                                          *)
LEMMA OpDequeueOkStep ==
    ASSUME OpInv, NEW t \in OpThreads, OpDequeueOk(t)
    PROVE  OpInv'
<1> USE DEF OpDequeueOk, OpGoto, OpMisreads
<1>1. /\ OpTypeOK /\ OpItems /\ OpAmple
      /\ t \in OpDequeuing /\ t \notin OpEnqueuing
  BY DEF OpInv, OpDequeuing, OpEnqueuing
<1>2. /\ OpDequeuing' = OpDequeuing \ {t}
      /\ OpEnqueuing' = OpEnqueuing \ {t}
      /\ OpKeepers' = OpKeepers \ {t}
      /\ \A u \in OpKeepers' : opItem'[u] = opItem[u]
      /\ OpItems'
      /\ opPc' \in [OpThreads -> {"idle", "dequeue_store", "dequeue_test",
                              "enqueue_store", "enqueue_test"}]
      /\ opItem' \in [OpThreads -> OpObjects \cup {OpNull}]
  BY <1>1, OpReturns
<1>3. OpTypeOK'
  BY <1>1, <1>2 DEF OpTypeOK
<1>4. ASSUME ~opMisread'
      PROVE  /\ OpSole
             /\ t \in OpKeepers
             /\ opItem[t] # OpNull
             /\ opItem[t] \notin opInUse
             /\ opInUse' = opInUse \cup {opItem[t]}
  <2>1. OpSole /\ opRet = opGot[t]
    BY <1>1, <1>4 DEF OpInv, OpTypeOK
  <2>2. t \in OpKeepers /\ opItem[t] # OpNull
    BY <1>1, <2>1 DEF OpKeepers, OpItems
  <2> QED BY <2>1, <2>2 DEF OpSole
<1>5. ASSUME ~opMisread' PROVE OpSole'
  <2>1. OpNothingDangles' /\ OpExclusive'
    BY <1>4, <1>5 DEF OpSole, OpNothingDangles, OpExclusive, OpPooled
  <2>2. \A u \in OpKeepers' : opItem[u] # opItem[t]
    BY <1>2, <1>4, <1>5 DEF OpSole
  <2>3. opAlive' \subseteq OpPooled' \cup opInUse'
                          \cup {opItem'[u] : u \in OpKeepers'}
    BY <1>2, <1>4, <1>5 DEF OpSole, OpPooled
  <2>4. \A u \in OpKeepers' : /\ opItem'[u] \in opAlive'
                              /\ opItem'[u] \notin OpPooled'
                              /\ opItem'[u] \notin opInUse'
    BY <1>2, <1>4, <1>5, <2>2 DEF OpSole, OpPooled
  <2>5. \A u, v \in OpKeepers' : opItem'[u] = opItem'[v] => u = v
    BY <1>2, <1>4, <1>5 DEF OpSole
  <2>6. ~opNulls'
    BY <1>4, <1>5 DEF OpSole
  <2> QED BY <2>1, <2>3, <2>4, <2>5, <2>6 DEF OpSole
<1>6. OpAmple'
  <2>1. SUFFICES ASSUME opPeak' <= OpSize PROVE OpAmple'
    BY DEF OpAmple
  <2>2. ~opMisread' /\ opRet' = "ok" /\ \A u \in OpThreads : opGot'[u] = "ok"
    BY <1>1, <2>1 DEF OpAmple
  <2>3. Cardinality(opInUse') = Cardinality(opInUse) + 1
    BY <1>1, <1>4, <2>2, OpFinite, FS_AddElement
  <2>4. Cardinality(OpDequeuing') = Cardinality(OpDequeuing) - 1
    BY <1>1, <1>2, OpFinite, FS_RemoveElement
  <2> QED BY <1>1, <2>1, <2>2, <2>3, <2>4, OpFinite DEF OpAmple
<1> QED BY <1>1, <1>2, <1>3, <1>5, <1>6 DEF OpInv

(* dequeue allocates an object, or fails to.                               *)
LEMMA OpDequeueNewStep ==
    ASSUME OpInv, NEW t \in OpThreads, OpDequeueNew(t)
    PROVE  OpInv'
<1> USE DEF OpDequeueNew, OpGoto, OpMisreads
<1>1. /\ OpTypeOK /\ OpItems /\ OpAmple
      /\ t \in OpDequeuing /\ t \notin OpEnqueuing
  BY DEF OpInv, OpDequeuing, OpEnqueuing
<1>2. /\ OpDequeuing' = OpDequeuing \ {t}
      /\ OpEnqueuing' = OpEnqueuing \ {t}
      /\ OpKeepers' = OpKeepers \ {t}
      /\ \A u \in OpKeepers' : opItem'[u] = opItem[u]
      /\ OpItems'
      /\ opPc' \in [OpThreads -> {"idle", "dequeue_store", "dequeue_test",
                              "enqueue_store", "enqueue_test"}]
      /\ opItem' \in [OpThreads -> OpObjects \cup {OpNull}]
  BY <1>1, OpReturns
<1>3. PICK new \in SUBSET (OpObjects \ opAlive) :
        /\ opAlive' = opAlive \cup new
        /\ opInUse' = opInUse \cup new
  <2>1. CASE \E o \in OpObjects \ opAlive : /\ opAlive' = opAlive \cup {o}
                                            /\ opInUse' = opInUse \cup {o}
    BY <2>1
  <2>2. CASE UNCHANGED <<opAlive, opInUse>>
    <3>1. opAlive' = opAlive \cup {} /\ opInUse' = opInUse \cup {}
      BY <2>2
    <3> QED BY <3>1
  <2> QED BY <2>1, <2>2
<1>4. OpTypeOK'
  BY <1>1, <1>2, <1>3 DEF OpTypeOK
<1>5. ASSUME ~opMisread' PROVE OpSole'
  <2>1. OpSole /\ opRet = opGot[t]
    BY <1>1, <1>5 DEF OpInv, OpTypeOK
  <2>2. t \notin OpKeepers
    BY <1>1, <2>1 DEF OpKeepers
  <2>3. OpNothingDangles' /\ OpExclusive'
    BY <1>3, <2>1 DEF OpSole, OpNothingDangles, OpExclusive, OpPooled
  <2>4. opAlive' \subseteq OpPooled' \cup opInUse'
                          \cup {opItem'[u] : u \in OpKeepers'}
    BY <1>2, <1>3, <2>1, <2>2 DEF OpSole, OpPooled
  <2> QED BY <1>2, <1>3, <2>1, <2>2, <2>3, <2>4 DEF OpSole, OpPooled
<1>6. OpAmple'
  BY <1>1 DEF OpAmple
<1> QED BY <1>2, <1>4, <1>5, <1>6 DEF OpInv

(* enqueue has given its object back, or deletes it.                       *)
LEMMA OpEnqueueTestStep ==
    ASSUME OpInv, NEW t \in OpThreads, OpEnqueueTest(t)
    PROVE  OpInv'
<1> USE DEF OpEnqueueTest, OpGoto, OpMisreads
<1>1. /\ OpTypeOK /\ OpItems /\ OpAmple
      /\ t \notin OpDequeuing /\ t \in OpEnqueuing
  BY DEF OpInv, OpDequeuing, OpEnqueuing
<1>2. /\ OpDequeuing' = OpDequeuing \ {t}
      /\ OpEnqueuing' = OpEnqueuing \ {t}
      /\ OpKeepers' = OpKeepers \ {t}
      /\ \A u \in OpKeepers' : opItem'[u] = opItem[u]
      /\ OpItems'
      /\ opPc' \in [OpThreads -> {"idle", "dequeue_store", "dequeue_test",
                              "enqueue_store", "enqueue_test"}]
      /\ opItem' \in [OpThreads -> OpObjects \cup {OpNull}]
  BY <1>1, OpReturns
<1>3. OpTypeOK'
  BY <1>1, <1>2 DEF OpTypeOK
<1>4. ASSUME ~opMisread' PROVE OpSole'
  <2>1. OpSole /\ opRet = opGot[t]
    BY <1>1, <1>4 DEF OpInv, OpTypeOK
  <2>2. CASE opRet = "fail"
    <3>1. t \in OpKeepers /\ opAlive' = opAlive \ {opItem[t]}
      BY <1>1, <2>1, <2>2 DEF OpKeepers
    <3>2. \A u \in OpKeepers' : opItem[u] # opItem[t]
      BY <1>2, <2>1, <3>1 DEF OpSole
    <3>3. OpNothingDangles' /\ OpExclusive'
      BY <2>1, <3>1 DEF OpSole, OpNothingDangles, OpExclusive, OpPooled
    <3>4. opAlive' \subseteq OpPooled' \cup opInUse'
                          \cup {opItem'[u] : u \in OpKeepers'}
      BY <1>2, <2>1, <3>1 DEF OpSole, OpPooled
    <3> QED BY <1>2, <2>1, <3>1, <3>2, <3>3, <3>4 DEF OpSole, OpPooled
  <2>3. CASE opRet # "fail"
    <3>1. t \notin OpKeepers /\ opAlive' = opAlive
      BY <1>1, <2>1, <2>3 DEF OpKeepers
    <3>2. OpKeepers' = OpKeepers
      BY <1>2, <3>1
    <3> QED BY <1>2, <2>1, <3>1, <3>2
            DEF OpSole, OpNothingDangles, OpExclusive, OpPooled
  <2> QED BY <2>2, <2>3
<1>5. OpAmple'
  <2>1. OpDequeuing' = OpDequeuing
    BY <1>1, <1>2
  <2> QED BY <1>1, <2>1 DEF OpAmple
<1> QED BY <1>2, <1>3, <1>4, <1>5 DEF OpInv

LEMMA OpStutterStep ==
    ASSUME OpInv, UNCHANGED opVars
    PROVE  OpInv'
<1> USE DEF opVars
<1>1. /\ OpDequeuing' = OpDequeuing
      /\ OpEnqueuing' = OpEnqueuing
      /\ OpKeepers' = OpKeepers
      /\ OpPooled' = OpPooled
  BY DEF OpDequeuing, OpEnqueuing, OpKeepers, OpPooled
<1>2. OpTypeOK'
  BY DEF OpInv, OpTypeOK
<1>3. OpItems' /\ OpAmple'
  BY <1>1 DEF OpInv, OpItems, OpAmple
<1>4. ~opMisread' => OpSole'
  BY <1>1 DEF OpInv, OpSole, OpNothingDangles, OpExclusive
<1> QED BY <1>2, <1>3, <1>4 DEF OpInv

LEMMA OpNextInv == OpInv /\ [OpNext]_opVars => OpInv'
BY OpDequeueCallStep, OpEnqueueCallStep, OpStoreStep, OpDequeueOkStep,
   OpDequeueNewStep, OpEnqueueTestStep, OpStutterStep DEF OpNext

LEMMA OpAlwaysInv == OpSpec => []OpInv
BY OpInitInv, OpNextInv, PTL DEF OpSpec

(* The variables of the pool have their types, and the pool never holds    *)
(* more objects than its queue was opened for.                             *)
THEOREM PoolTypeCorrect == OpSpec => []OpTypeOK
<1>1. OpInv => OpTypeOK
  BY DEF OpInv
<1> QED BY <1>1, OpAlwaysInv, PTL

(* As long as every thread has tested the result of its own call, no       *)
(* object is deleted while it is pooled or used, none is handed out twice  *)
(* and none is lost, for any number of threads and any size of the pool:   *)
(* what goes wrong in ACE_Object_Que goes wrong by the shared ret_.        *)
THEOREM PoolSoundUnlessMisread == OpSpec => []SoundUnlessMisread
<1>1. OpInv => SoundUnlessMisread
  <2> SUFFICES ASSUME OpInv, ~opMisread PROVE OpNothingLeaks /\ OpSole
    BY DEF SoundUnlessMisread, OpSole
  <2>1. OpSole /\ OpTypeOK /\ OpItems
    BY DEF OpInv
  <2>2. \A t \in OpKeepers : t \in OpThreads /\ opItem[t] # OpNull
    BY <2>1 DEF OpItems, OpKeepers, OpDequeuing, OpEnqueuing
  <2> QED BY <2>1, <2>2 DEF OpNothingLeaks, OpSole, OpInCall
<1> QED BY <1>1, OpAlwaysInv, PTL

(* A pool that was filled with as many objects as are ever wanted at a     *)
(* time never fails a call, so that no result is ever misread: the size    *)
(* given in OBJECT_QUEUE_SIZE is what keeps the shared ret_ harmless.      *)
THEOREM AmplePoolIsSound == OpSpec => []AmpleIsSound
<1>1. OpInv => AmpleIsSound
  BY DEF OpInv, OpAmple, AmpleIsSound
<1> QED BY <1>1, OpAlwaysInv, PTL
=============================================================================
