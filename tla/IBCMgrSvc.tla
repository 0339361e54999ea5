----------------------------- MODULE IBCMgrSvc ------------------------------
(***************************************************************************)
(* Batch requests.  The operation of a batch request splits it into Total  *)
(* sub-requests and puts them on the queue of IBCMgrSvc, whose threads     *)
(* process them and merge their results, under a lock, into the record     *)
(* that a table of limited size keeps for each batch.  The thread that     *)
(* merges the last result takes the record out and answers the batch; when *)
(* there are too many records, the oldest is answered as it is.            *)
(*                                                                         *)
(* Batches are numbered in the order of their msg_seq, by which the table  *)
(* is sorted (IBCR_COMP, newest first).                                    *)
(***************************************************************************)
EXTENDS Naturals, Sequences, FiniteSets

CONSTANTS
    Threads,     \* threads of IBCMgrSvc
    MaxBatch,    \* bound: batch requests
    Total,       \* "total": sub-requests of a batch
    QueCap,      \* sub-requests the queue of IBCMgrSvc holds
    MaxRecords   \* max_ibcr_record_

ASSUME IBCMgrSvcAssumption ==
    /\ IsFiniteSet(Threads)
    /\ MaxBatch \in Nat \ {0}
    /\ Total \in Nat \ {0}
    /\ QueCap \in Nat \ {0}
    /\ MaxRecords \in Nat

VARIABLES
    left,     \* sub-requests of each batch still to be created
    queue,    \* queue_: the batches of the sub-requests in it
    pc,       \* where each thread is
    req,      \* batch of the sub-request a thread has, 0 if none
    ok,       \* ret == 0 for the sub-request a thread has processed
    table,    \* ibcr_map_: a record for some of the batches
    hist      \* history: what became of the sub-requests of each batch

vars == <<left, queue, pc, req, ok, table, hist>>
threadVars == <<pc, req, ok>>

Batches == 1 .. MaxBatch

(* lost: never counted; merged and good: results counted, and of these the *)
(* successful ones; told, toldGood: the same in answers; parts, full:      *)
(* answers to an evicted and to a finished batch; nomem: no object for the *)
(* answer.                                                                 *)
NoHistory == [lost |-> 0, merged |-> 0, good |-> 0, told |-> 0,
              toldGood |-> 0, parts |-> 0, full |-> 0, nomem |-> FALSE]

NewRecord == [cnum |-> 0, snum |-> 0]

Init ==
    /\ left = [b \in Batches |-> Total]
    /\ queue = <<>>
    /\ pc = [t \in Threads |-> "idle"]
    /\ req = [t \in Threads |-> 0]
    /\ ok = [t \in Threads |-> FALSE]
    /\ table = [b \in {} |-> NewRecord]
    /\ hist = [b \in Batches |-> NoHistory]

-----------------------------------------------------------------------------
(* The loop over the sub-requests of a batch is not at its end.            *)
LoopsOnceMore(b) == left[b] >= 0    \* mutant: off by one

Looping(b) == left[b] > 0

(* The loop of the batch operation creates the next sub-request.  If the   *)
(* queue does not take it, it is deleted and forgotten.                    *)
Create(b) ==
    /\ Looping(b)
    /\ left' = [left EXCEPT ![b] = @ - 1]
    /\ IF Len(queue) < QueCap
         THEN /\ queue' = Append(queue, b)
              /\ UNCHANGED hist
         ELSE /\ hist' = [hist EXCEPT ![b].lost = @ + 1]
              /\ UNCHANGED queue
    /\ UNCHANGED <<threadVars, table>>

(* Mutant: the sub-request is read but stays on the queue.                 *)
RecvPeeks(t) ==
    /\ pc[t] = "idle"
    /\ queue # <<>>
    /\ req' = [req EXCEPT ![t] = Head(queue)]
    /\ pc' = [pc EXCEPT ![t] = "process"]
    /\ UNCHANGED <<left, queue, ok, table, hist>>

(* ACESvc::recv.                                                           *)
Recv(t) ==
    /\ pc[t] = "idle"
    /\ queue # <<>>
    /\ req' = [req EXCEPT ![t] = Head(queue)]
    /\ queue' = Tail(queue)
    /\ pc' = [pc EXCEPT ![t] = "process"]
    /\ UNCHANGED <<left, ok, table, hist>>

(* The thread is done with its sub-request.                                *)
Return(t) ==
    /\ pc' = [pc EXCEPT ![t] = "idle"]
    /\ req' = [req EXCEPT ![t] = 0]
    /\ ok' = [ok EXCEPT ![t] = FALSE]

(* process returns early: there is no operation for the command, or the    *)
(* sub-request waited too long.                                            *)
GiveUp(t) ==
    /\ pc[t] = "process"
    /\ hist' = [hist EXCEPT ![req[t]].lost = @ + 1]
    /\ Return(t)
    /\ UNCHANGED <<left, queue, table>>

(* The operation is run, outside the lock, with its result.                *)
Process(t, result) ==
    /\ pc[t] = "process"
    /\ ok' = [ok EXCEPT ![t] = result]
    /\ pc' = [pc EXCEPT ![t] = "merge"]
    /\ UNCHANGED <<left, queue, req, table, hist>>

-----------------------------------------------------------------------------
(* The rest of process, under ibcr_map_lock_.                              *)

(* The record of a batch is erased.                                        *)
EraseForgotten(tab, b) == tab    \* mutant: it is answered but stays

Erase(tab, b) == [c \in DOMAIN tab \ {b} |-> tab[c]]

(* The last element of the table.                                          *)
Oldest == CHOOSE b \in DOMAIN table : \A c \in DOMAIN table : b <= c

(* There is no record of b yet, and there are more records than allowed.   *)
NeverTooMany(b) == FALSE    \* mutant: the table has no limit
AlwaysTooMany(b) ==         \* mutant: it has, for batches it has as well
    Cardinality(DOMAIN table) > MaxRecords

TooMany(b) == b \notin DOMAIN table /\ Cardinality(DOMAIN table) > MaxRecords

(* encode_ppack and putq: the client is told what the record of b says.    *)
Tell(h, b, r, kind) ==
    [h EXCEPT ![b].told = @ + r.cnum, ![b].toldGood = @ + r.snum,
              ![b].parts = @ + (IF kind = "part" THEN 1 ELSE 0),
              ![b].full = @ + (IF kind = "full" THEN 1 ELSE 0)]

(* The table and the history after an eviction, if there has to be one.    *)
Room(b) == IF TooMany(b) THEN Erase(table, Oldest) ELSE table
RoomHist(b) ==
    IF TooMany(b) THEN Tell(hist, Oldest, table[Oldest], "part") ELSE hist

(* The record of b with one more result.                                   *)
Merged(b, good) ==
    LET r == IF b \in DOMAIN table THEN table[b] ELSE NewRecord IN
    [cnum |-> r.cnum + 1, snum |-> r.snum + (IF good THEN 1 ELSE 0)]

MergedHist(h, b, good) ==
    [h EXCEPT ![b].merged = @ + 1, ![b].good = @ + (IF good THEN 1 ELSE 0)]

(* All the results of the batch are there.                                 *)
MoreThanTotal(r) == r.cnum > Total          \* mutant: one result too many
AllButOne(r)     == r.cnum >= Total - 1     \* mutant: one too few

Complete(r) == r.cnum >= Total

(* The table with record r for b.                                          *)
With(tab, b, r) == [c \in DOMAIN tab \cup {b} |-> IF c = b THEN r ELSE tab[c]]

(* The batch is not complete.                                              *)
Merge(t) ==
    /\ pc[t] = "merge"
    /\ LET b == req[t]
           r == Merged(b, ok[t])
       IN  /\ ~Complete(r)
           /\ table' = With(Room(b), b, r)
           /\ hist' = MergedHist(RoomHist(b), b, ok[t])
    /\ Return(t)
    /\ UNCHANGED <<left, queue>>

(* It is complete: it is erased and answered.  The answer is handed to     *)
(* ISGWAck by send after the lock is released, when nothing of the batch   *)
(* is left that another thread could see; it is part of this step.         *)
Finish(t) ==
    /\ pc[t] = "merge"
    /\ LET b == req[t]
           r == Merged(b, ok[t])
       IN  /\ Complete(r)
           /\ table' = Erase(With(Room(b), b, r), b)
           /\ hist' = Tell(MergedHist(RoomHist(b), b, ok[t]), b, r, "full")
    /\ Return(t)
    /\ UNCHANGED <<left, queue>>

(* No memory for the answer to the evicted batch: nothing is merged.       *)
NoMemoryToEvict(t) ==
    /\ pc[t] = "merge"
    /\ TooMany(req[t])
    /\ hist' = [hist EXCEPT ![req[t]].lost = @ + 1]
    /\ Return(t)
    /\ UNCHANGED <<left, queue, table>>

(* No memory for the answer to the complete batch: its record stays.       *)
NoMemoryToFinish(t) ==
    /\ pc[t] = "merge"
    /\ LET b == req[t]
           r == Merged(b, ok[t])
       IN  /\ Complete(r)
           /\ table' = With(Room(b), b, r)
           /\ hist' = [MergedHist(RoomHist(b), b, ok[t]) EXCEPT
                         ![b].nomem = TRUE]
    /\ Return(t)
    /\ UNCHANGED <<left, queue>>

-----------------------------------------------------------------------------
Thread(t) ==
    \/ Recv(t)
    \/ GiveUp(t)
    \/ \E result \in BOOLEAN : Process(t, result)
    \/ Merge(t) \/ Finish(t) \/ NoMemoryToEvict(t) \/ NoMemoryToFinish(t)

Next ==
    \/ \E b \in Batches : Create(b)
    \/ \E t \in Threads : Thread(t)

Spec == Init /\ [][Next]_vars

(* The loop that creates sub-requests and the threads of the service go    *)
(* on: nothing in them waits for ever.                                     *)
FairSpec ==
    /\ Spec
    /\ \A b \in Batches : WF_vars(Create(b))
    /\ \A t \in Threads : WF_vars(Thread(t))

-----------------------------------------------------------------------------
(* Properties.                                                             *)

Counts == 0 .. Total
Record == [cnum : Counts, snum : Counts]
History == [lost : Counts, merged : Counts, good : Counts, told : Counts,
            toldGood : Counts, parts : Counts, full : Counts,
            nomem : BOOLEAN]

(* The values the variables take.                                          *)
TypeOK ==
    /\ left \in [Batches -> Counts]
    /\ queue \in Seq(Batches)
    /\ Len(queue) <= QueCap
    /\ pc \in [Threads -> {"idle", "process", "merge"}]
    /\ req \in [Threads -> Batches \cup {0}]
    /\ ok \in [Threads -> BOOLEAN]
    /\ DOMAIN table \subseteq Batches
    /\ table \in [DOMAIN table -> Record]
    /\ hist \in [Batches -> History]

(* What the table has counted of a batch.                                  *)
Kept(b) == IF b \in DOMAIN table THEN table[b] ELSE NewRecord

(* Every result is counted once: it is in the record of its batch or has   *)
(* been told to the client, in one answer, whatever was evicted meanwhile. *)
CountedOnce ==
    \A b \in Batches :
        /\ hist[b].told + Kept(b).cnum = hist[b].merged
        /\ hist[b].toldGood + Kept(b).snum = hist[b].good

(* Threads that have a sub-request of a batch.                             *)
Having(b) == {t \in Threads : req[t] = b}
Queued(b) == {i \in DOMAIN queue : queue[i] = b}

(* Every sub-request is accounted for: not created yet, queued, with a     *)
(* thread, counted or lost.                                                *)
AllAccounted ==
    \A b \in Batches :
        left[b] + Cardinality(Queued(b)) + Cardinality(Having(b))
            + hist[b].merged + hist[b].lost = Total

(* A complete answer is the only one its batch gets: results that arrive   *)
(* after a partial answer open a new record, but never complete it.        *)
FullIsOnly ==
    \A b \in Batches :
        hist[b].full > 0 =>
            /\ hist[b].full = 1
            /\ hist[b].parts = 0
            /\ hist[b].told = Total
            /\ b \notin DOMAIN table

(* The table never has more than one record above its limit, which is      *)
(* tested before the insertion.                                            *)
TableBounded == Cardinality(DOMAIN table) <= MaxRecords + 1

(* A batch is answered early only when it has to be: at that moment more   *)
(* batches than the table may have, one more included, have results that   *)
(* no answer has told, the batch whose result makes the room necessary     *)
(* among them (ibc_mgr_svc.cpp:126-163).                                   *)
EvictsWhenCrowded ==
    [][(\E b \in Batches : hist'[b].parts # hist[b].parts) =>
         Cardinality({b \in Batches : hist'[b].merged > hist[b].told})
             > MaxRecords + 1]_vars

(* Every batch is answered, at least in part, unless one of its            *)
(* sub-requests was lost or there was no memory for the answer.            *)
EveryBatchAnswered ==
    \A b \in Batches :
        <>(hist[b].parts + hist[b].full + hist[b].lost > 0 \/ hist[b].nomem)
=============================================================================
