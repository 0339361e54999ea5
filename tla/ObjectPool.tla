----------------------------- MODULE ObjectPool -----------------------------
(***************************************************************************)
(* ACE_Object_Que, the pool PriProReq and PriProAck objects come from.     *)
(* Its queue, que_imp_, is a bounded queue with a lock of its own; the     *)
(* result of a call on it is stored in the member ret_, which all threads  *)
(* share, and tested by a later instruction, which reads the member again  *)
(* (the makefiles ask for no optimisation).                                *)
(*                                                                         *)
(* Objects in use are not followed through the system: whichever thread    *)
(* took an object, any thread may give it back.                            *)
(***************************************************************************)
EXTENDS Naturals, Sequences, FiniteSets

CONSTANTS
    OpThreads,   \* threads that use the pool
    OpObjects,   \* addresses an object can have
    OpNull,      \* NULL
    OpSize,      \* msg_counts: objects the pool is filled with and can hold
    OpMaxWanted  \* bound: objects wanted at a time

ASSUME ObjectPoolAssumption ==
    /\ IsFiniteSet(OpThreads)
    /\ IsFiniteSet(OpObjects)
    /\ OpNull \notin OpObjects
    /\ OpSize \in Nat \ {0}
    /\ OpMaxWanted \in Nat \ {0}

VARIABLES
    opQue,      \* que_imp_
    opRet,      \* ret_: "ok", or "fail" for -1
    opAlive,    \* objects allocated and not deleted
    opInUse,    \* objects handed out by dequeue and not given back
    opPc,       \* where each thread is
    opItem,     \* the object of the call a thread is in
    opGot,      \* what the call on que_imp_ returned
    opPeak,     \* history: the most objects wanted at a time
    opMisread,  \* history: a thread has tested another one's result
    opNulls     \* history: dequeue has handed out NULL with memory left

opVars == <<opQue, opRet, opAlive, opInUse, opPc, opItem, opGot,
            opPeak, opMisread, opNulls>>
opHist == <<opPeak, opMisread, opNulls>>

OpPooled == {opQue[i] : i \in DOMAIN opQue}
OpInCall == {opItem[t] : t \in OpThreads} \ {OpNull}

(* Objects in use, and those threads are about to get or have just given   *)
(* back.                                                                   *)
OpWanted ==
    Cardinality(opInUse) + Cardinality({t \in OpThreads : opPc[t] # "idle"})

(* init: the pool is filled before the threads start.                      *)
OpInitShort ==    \* mutant: one object short
    \E s \in [1 .. OpSize - 1 -> OpObjects] :
      /\ \A i, j \in DOMAIN s : s[i] = s[j] => i = j
      /\ opQue = s
      /\ opAlive = {s[i] : i \in DOMAIN s}

OpInitPool ==
    \E s \in [1 .. OpSize -> OpObjects] :
      /\ \A i, j \in DOMAIN s : s[i] = s[j] => i = j
      /\ opQue = s
      /\ opAlive = {s[i] : i \in DOMAIN s}

OpInit ==
    /\ OpInitPool
    /\ opRet = "ok"
    /\ opInUse = {}
    /\ opPc = [t \in OpThreads |-> "idle"]
    /\ opItem = [t \in OpThreads |-> OpNull]
    /\ opGot = [t \in OpThreads |-> "ok"]
    /\ opPeak = 0
    /\ opMisread = FALSE
    /\ opNulls = FALSE

OpGoto(t, place) == opPc' = [opPc EXCEPT ![t] = place]

(* dequeue calls que_imp_.dequeue, which takes the first object or, the    *)
(* timeout being in the past, fails at once.                               *)
OpDequeueCall(t) ==
    /\ opPc[t] = "idle"
    /\ OpWanted < OpMaxWanted
    /\ IF opQue # <<>>
         THEN /\ opQue' = Tail(opQue)
              /\ opItem' = [opItem EXCEPT ![t] = Head(opQue)]
              /\ opGot' = [opGot EXCEPT ![t] = "ok"]
         ELSE /\ opGot' = [opGot EXCEPT ![t] = "fail"]
              /\ UNCHANGED <<opQue, opItem>>
    /\ opPeak' = IF OpWanted + 1 > opPeak THEN OpWanted + 1 ELSE opPeak
    /\ OpGoto(t, "dequeue_store")
    /\ UNCHANGED <<opRet, opAlive, opInUse, opMisread, opNulls>>

(* The queue was opened with msg_counts*sizeof(object) as its high-water    *)
(* mark, and is full when it holds that many bytes.                        *)
OpHasRoom == Len(opQue) < OpSize

(* enqueue calls que_imp_.enqueue, which fails if the queue is full.       *)
OpEnqueueCall(t, o) ==
    /\ opPc[t] = "idle"
    /\ o \in opInUse
    /\ opInUse' = opInUse \ {o}
    /\ opItem' = [opItem EXCEPT ![t] = o]
    /\ IF OpHasRoom
         THEN /\ opQue' = Append(opQue, o)
              /\ opGot' = [opGot EXCEPT ![t] = "ok"]
         ELSE /\ opGot' = [opGot EXCEPT ![t] = "fail"]
              /\ UNCHANGED opQue
    /\ OpGoto(t, "enqueue_store")
    /\ UNCHANGED <<opRet, opAlive, opHist>>

(* The result is stored in ret_.                                           *)
OpStore(t) ==
    /\ \/ opPc[t] = "dequeue_store" /\ OpGoto(t, "dequeue_test")
       \/ opPc[t] = "enqueue_store" /\ OpGoto(t, "enqueue_test")
    /\ opRet' = opGot[t]
    /\ UNCHANGED <<opQue, opAlive, opInUse, opItem, opGot, opHist>>

OpMisreads(t) == opMisread' = (opMisread \/ opRet # opGot[t])

(* ret_ is tested; if it is not -1 dequeue hands out what it got ...       *)
OpDequeueOk(t) ==
    /\ opPc[t] = "dequeue_test"
    /\ opRet = "ok"
    /\ opInUse' = opInUse \cup ({opItem[t]} \ {OpNull})
    /\ opNulls' = (opNulls \/ opItem[t] = OpNull)
    /\ opItem' = [opItem EXCEPT ![t] = OpNull]
    /\ OpMisreads(t)
    /\ OpGoto(t, "idle")
    /\ UNCHANGED <<opQue, opRet, opAlive, opGot, opPeak>>

(* ... and if it is, a new object, or NULL if there is no memory.          *)
OpDequeueNew(t) ==
    /\ opPc[t] = "dequeue_test"
    /\ opRet = "fail"
    /\ \/ \E o \in OpObjects \ opAlive :
            /\ opAlive' = opAlive \cup {o}
            /\ opInUse' = opInUse \cup {o}
       \/ UNCHANGED <<opAlive, opInUse>>
    /\ opItem' = [opItem EXCEPT ![t] = OpNull]
    /\ OpMisreads(t)
    /\ OpGoto(t, "idle")
    /\ UNCHANGED <<opQue, opRet, opGot, opPeak, opNulls>>

(* ret_ is tested; if it is -1 enqueue deletes the object.                 *)
OpDeleteForgotten(t) ==    \* mutant: the object is forgotten, not deleted
    /\ opPc[t] = "enqueue_test"
    /\ opItem' = [opItem EXCEPT ![t] = OpNull]
    /\ OpMisreads(t)
    /\ OpGoto(t, "idle")
    /\ UNCHANGED <<opQue, opRet, opAlive, opInUse, opGot, opPeak, opNulls>>

OpEnqueueTest(t) ==
    /\ opPc[t] = "enqueue_test"
    /\ opAlive' = IF opRet = "fail" THEN opAlive \ {opItem[t]} ELSE opAlive
    /\ opItem' = [opItem EXCEPT ![t] = OpNull]
    /\ OpMisreads(t)
    /\ OpGoto(t, "idle")
    /\ UNCHANGED <<opQue, opRet, opInUse, opGot, opPeak, opNulls>>

OpNext ==
    \E t \in OpThreads :
      \/ OpDequeueCall(t)
      \/ \E o \in OpObjects : OpEnqueueCall(t, o)
      \/ OpStore(t)
      \/ OpDequeueOk(t)
      \/ OpDequeueNew(t)
      \/ OpEnqueueTest(t)

OpSpec == OpInit /\ [][OpNext]_opVars

-----------------------------------------------------------------------------
(* Properties.                                                             *)

OpTypeOK ==
    /\ opQue \in Seq(OpObjects)
    /\ Len(opQue) <= OpSize
    /\ opRet \in {"ok", "fail"}
    /\ opAlive \subseteq OpObjects
    /\ opInUse \subseteq OpObjects
    /\ opPc \in [OpThreads -> {"idle", "dequeue_store", "dequeue_test",
                           "enqueue_store", "enqueue_test"}]
    /\ opItem \in [OpThreads -> OpObjects \cup {OpNull}]
    /\ opGot \in [OpThreads -> {"ok", "fail"}]
    /\ opPeak \in 0 .. OpMaxWanted
    /\ opMisread \in BOOLEAN
    /\ opNulls \in BOOLEAN

(* What is in the pool or in use has not been deleted.                     *)
OpNothingDangles == OpPooled \cup opInUse \subseteq opAlive

(* No object is pooled twice, or pooled and in use.                        *)
OpExclusive ==
    /\ \A i, j \in DOMAIN opQue : opQue[i] = opQue[j] => i = j
    /\ OpPooled \cap opInUse = {}

(* An object that is not deleted is in the pool, in use or in a call.      *)
OpNothingLeaks == opAlive \subseteq OpPooled \cup opInUse \cup OpInCall

(* The pool keeps its objects, grows by new ones when it is empty and      *)
(* deletes those it has no room for, as long as every thread tests the     *)
(* result of its own call: whatever else goes wrong is due to the shared   *)
(* ret_.                                                                   *)
SoundUnlessMisread ==
    ~opMisread => OpNothingDangles /\ OpExclusive /\ OpNothingLeaks /\ ~opNulls

(* ret_ does no harm while no more objects are wanted than the pool was    *)
(* filled with (OBJECT_QUEUE_SIZE): no call then fails.                    *)
AmpleIsSound == opPeak <= OpSize => opRet = "ok" /\ ~opMisread

(* "If enqueuing fails this blank object is thrown away"                   *)
(* (ace_object_que.h:123): an object whose enqueuing did not fail is not.  *)
DeletesOnlyRejected == OpPooled \subseteq opAlive
=============================================================================
