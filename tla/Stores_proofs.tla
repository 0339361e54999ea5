---------------------------- MODULE Stores_proofs ----------------------------
(***************************************************************************)
(* Proofs about components that keep something for others: CDBManager      *)
(* (names with Dm), PlatOraAccess (Or), PlatDbAccess (Db), the bitmap in   *)
(* shared memory (Bm), the processes of the application (App) and the      *)
(* cutting of a stream into messages (Fr).                                 *)
(*                                                                         *)
(* At the end, MCStores is shown to check what it is meant to: each of its *)
(* behaviours is one of each component.                                    *)
(***************************************************************************)
EXTENDS MCStores, ObjectPool_proofs

-----------------------------------------------------------------------------
(* DBManager: the invariant.                                               *)

(* As long as no query was late and the check has not been overtaken, a    *)
(* slot has one user, the check has judged it for that user as often as    *)
(* the slot's counter, or what the check has read of it, says, and the     *)
(* connections that exist are those in the slots.                          *)
DmPool ==
    /\ \A t \in DmThreads : DmUsing(t) =>
         dmStat[dmIdx[t]] = "busy" /\ dmCB[dmIdx[t]] <= dmRounds[t]
    /\ \A t, u \in DmThreads :
         DmUsing(t) /\ DmUsing(u) /\ t # u => dmIdx[t] # dmIdx[u]
    /\ \A t \in DmThreads : dmRounds[t] < DmQueryCount
    /\ \A t \in DmThreads : dmPc[t] = "exec" =>
         dmDb[t] = dmConn[dmIdx[t]] /\ dmDb[t] # DmNull
    /\ dmStep = "judge" => \A t \in DmThreads :
         DmUsing(t) /\ dmIdx[t] = dmAt => dmCount <= dmRounds[t]
    /\ \A i, j \in DmIdx : dmConn[i] = dmConn[j] /\ dmConn[i] # DmNull => i = j
    /\ \A o \in DmObjects : o \in dmAlive <=> \E i \in DmIdx : dmConn[i] = o

DmInv == DmTypeOK /\ (dmLate \/ dmRaced \/ DmPool)

LEMMA DmNumbers ==
    /\ DmConnCount \in Nat /\ DmConnCount > 0
    /\ DmQueryCount \in Nat /\ DmQueryCount > 0
    /\ 0 \in DmIdx /\ 0 \in 0 .. DmConnCount /\ 0 \in 0 .. DmQueryCount
    /\ DmNull \notin DmObjects
BY DBManagerAssumption DEF DmIdx

LEMMA DmInvInit == DmInit => DmInv
<1> SUFFICES ASSUME DmInit PROVE DmInv
  OBVIOUS
<1>1. DmTypeOK
  <2>1. {dmLate, dmRaced} \subseteq BOOLEAN
    BY Zenon DEF DmInit
  <2> QED BY <2>1, DmNumbers DEF DmInit, DmTypeOK
<1>2. DmPool
  BY DmNumbers DEF DmInit, DmPool, DmUsing
<1> QED BY <1>1, <1>2 DEF DmInv

LEMMA DmTypesNext ==
    ASSUME DmTypeOK, DmNext
    PROVE  DmTypeOK'
<1>1. /\ DmConnCount \in Nat /\ DmConnCount > 0
      /\ DmQueryCount \in Nat /\ DmQueryCount > 0
      /\ 0 \in DmIdx /\ 0 \in 0 .. DmConnCount /\ 0 \in 0 .. DmQueryCount
  BY DmNumbers
<1>2. ASSUME NEW t \in DmThreads, DmChoose(t) PROVE DmTypeOK'
  BY <1>2, <1>1 DEF DmTypeOK, DmChoose, DmGoto, dmCheck, dmHist
<1>3. ASSUME NEW t \in DmThreads, DmCreate(t) PROVE DmTypeOK'
  <2>1. dmRaced' \in BOOLEAN
    BY <1>3, Zenon DEF DmCreate, DmTypeOK
  <2> QED BY <1>3, <1>1, <2>1 DEF DmTypeOK, DmCreate, DmGoto, dmCheck
<1>4. ASSUME NEW t \in DmThreads, DmConnect(t) PROVE DmTypeOK'
  BY <1>4, <1>1 DEF DmTypeOK, DmConnect, DmDelete, DmGoto, dmCheck, dmHist
<1>5. ASSUME NEW t \in DmThreads, DmGet(t) PROVE DmTypeOK'
  BY <1>5, <1>1 DEF DmTypeOK, DmGet, DmGoto, dmSlots, dmCheck, dmHist
<1>6. ASSUME NEW t \in DmThreads, DmFail(t) PROVE DmTypeOK'
  BY <1>6, <1>1 DEF DmTypeOK, DmFail, DmReturn, DmGoto, dmCheck
<1>7. ASSUME NEW t \in DmThreads, DmExec(t) PROVE DmTypeOK'
  BY <1>7, <1>1 DEF DmTypeOK, DmExec, DmReturn, DmGoto, dmCheck
<1>8. ASSUME NEW t \in DmThreads, DmThrow(t) PROVE DmTypeOK'
  BY <1>8, <1>1 DEF DmTypeOK, DmThrow, DmDelete, DmReturn, DmGoto, dmCheck
<1>9. CASE DmRound
  BY <1>9 DEF DmTypeOK, DmRound, dmThread, dmSlots, dmHist
<1>10. DmNextSlot => /\ dmStep' \in {"sleep", "slot"} /\ dmAt' \in DmIdx
                    /\ dmCount' \in 0 .. DmConnCount + DmQueryCount
  BY <1>1 DEF DmNextSlot
<1>11. CASE DmSkip
  BY <1>11, <1>10 DEF DmTypeOK, DmSkip, dmThread, dmSlots, dmHist
<1>12. CASE DmReadAge
  <2>1. dmCount' \in 0 .. DmConnCount + DmQueryCount
    BY <1>12, <1>1 DEF DmTypeOK, DmReadAge
  <2> QED BY <1>12, <2>1 DEF DmTypeOK, DmReadAge, dmThread, dmSlots, dmHist
<1>13. DmCAPlus \in 0 .. DmConnCount
  BY <1>1 DEF DmCAPlus, DmTypeOK
<1>14. CASE DmSetAge
  BY <1>14, <1>13 DEF DmTypeOK, DmSetAge, dmThread, dmHist
<1>15. CASE DmReadQuery
  <2>1. dmCount' \in 0 .. DmConnCount + DmQueryCount
    BY <1>15, <1>1 DEF DmTypeOK, DmReadQuery
  <2> QED BY <1>15, <2>1 DEF DmTypeOK, DmReadQuery, dmThread, dmSlots, dmHist
<1>16. CASE DmJudge
  <2>1. ~DmExpired /\ dmStat[dmAt] = "busy" => dmCount + 1 \in 0 .. DmQueryCount
    BY <1>1 DEF DmExpired, DmTypeOK
  <2>2. /\ dmStat' \in [DmIdx -> {"free", "busy", "idle"}]
        /\ dmConn' \in [DmIdx -> DmObjects \cup {DmNull}]
        /\ dmCA' \in [DmIdx -> 0 .. DmConnCount]
        /\ dmCB' \in [DmIdx -> 0 .. DmQueryCount]
        /\ dmAlive' \subseteq DmObjects
    BY <1>16, <1>13, <2>1 DEF DmJudge, DmDelete, DmTypeOK
  <2>3. dmRounds' \in [DmThreads -> 0 .. DmQueryCount]
    <3>1. \A t \in DmThreads :
            dmRounds[t] < DmQueryCount => dmRounds[t] + 1 \in 0 .. DmQueryCount
      BY <1>1 DEF DmTypeOK
    <3> QED BY <1>16, <3>1 DEF DmJudge, DmTypeOK
  <2>4. dmLate' \in BOOLEAN
    BY <1>16, Zenon DEF DmJudge, DmTypeOK
  <2>5. /\ dmStep' \in {"sleep", "slot"} /\ dmAt' \in DmIdx
        /\ dmCount' \in 0 .. DmConnCount + DmQueryCount
    BY <1>16, <1>10 DEF DmJudge
  <2>6. UNCHANGED <<dmPc, dmIdx, dmDb, dmRaced>>
    BY <1>16 DEF DmJudge, dmThread
  <2> QED BY <2>2, <2>3, <2>4, <2>5, <2>6 DEF DmTypeOK
<1> QED BY <1>2, <1>3, <1>4, <1>5, <1>6, <1>7, <1>8, <1>9, <1>11, <1>12, <1>14, <1>15,
           <1>16 DEF DmNext

(* What a thread's leaving its slot does to the slots and threads.         *)
LEMMA DmLeaves ==
    ASSUME DmTypeOK, DmPool, NEW t \in DmThreads, DmUsing(t), DmReturn(t),
           UNCHANGED <<dmCB, dmCheck, dmLate, dmRaced>>,
           \A j \in DmIdx : j # dmIdx[t] =>
             dmStat'[j] = dmStat[j] /\ dmConn'[j] = dmConn[j],
           dmConn'[dmIdx[t]] \in {dmConn[dmIdx[t]], DmNull},
           \A o \in DmObjects : o \in dmAlive' <=> \E j \in DmIdx : dmConn'[j] = o
    PROVE  DmPool'
<1> USE DEF DmUsing
<1>1. DmQueryCount \in Nat /\ DmQueryCount > 0
  BY DmNumbers
<1>2. PICK i \in DmIdx : i = dmIdx[t]
  BY DEF DmTypeOK
<1>3. /\ \A u \in DmThreads : DmUsing(u) /\ u # t => dmIdx[u] # i
      /\ \A u \in DmThreads : dmIdx[u] \in DmIdx
  BY <1>2 DEF DmPool, DmTypeOK
<1>4. /\ dmPc'[t] = "idle" /\ dmRounds'[t] = 0
      /\ \A u \in DmThreads : u # t =>
           /\ dmPc'[u] = dmPc[u] /\ dmIdx'[u] = dmIdx[u] /\ dmDb'[u] = dmDb[u]
           /\ dmRounds'[u] = dmRounds[u]
  BY DEF DmReturn, DmGoto, DmTypeOK
<1>5. UNCHANGED <<dmCB, dmStep, dmAt, dmCount, dmLate, dmRaced>>
  BY DEF dmCheck
<1>6. \A j, k \in DmIdx : dmConn'[j] = dmConn'[k] /\ dmConn'[j] # DmNull => j = k
  BY <1>2 DEF DmPool
<1> QED BY <1>1, <1>2, <1>3, <1>4, <1>5, <1>6 DEF DmPool

LEMMA DmPoolNext ==
    ASSUME DmTypeOK, DmPool, DmNext, ~dmLate', ~dmRaced'
    PROVE  DmPool'
<1> USE DEF DmUsing
<1>1. /\ DmConnCount \in Nat /\ DmConnCount > 0
      /\ DmQueryCount \in Nat /\ DmQueryCount > 0
      /\ DmNull \notin DmObjects
  BY DmNumbers
<1>2. ASSUME NEW t \in DmThreads, DmChoose(t) PROVE DmPool'
  <2>1. PICK i \in DmIdx :
          /\ dmPc[t] = "idle" /\ dmStat[i] # "busy" /\ dmStep = "sleep"
          /\ dmStat' = [dmStat EXCEPT ![i] = "busy"]
          /\ dmCB' = [dmCB EXCEPT ![i] = 0]
          /\ dmIdx' = [dmIdx EXCEPT ![t] = i]
          /\ dmPc' = [dmPc EXCEPT ![t] = IF dmStat[i] = "free" THEN "create" ELSE "get"]
          /\ UNCHANGED <<dmDb, dmConn, dmCA, dmAlive, dmStep, dmRounds, dmLate>>
    BY <1>2 DEF DmChoose, DmGoto, DmManagerFree, dmCheck, dmHist
  <2>2. /\ dmIdx'[t] = i /\ dmPc'[t] \in {"create", "get"}
        /\ \A u \in DmThreads : u # t => dmIdx'[u] = dmIdx[u] /\ dmPc'[u] = dmPc[u]
        /\ dmStat'[i] = "busy" /\ dmCB'[i] = 0
        /\ \A j \in DmIdx : j # i => dmStat'[j] = dmStat[j] /\ dmCB'[j] = dmCB[j]
        /\ \A u \in DmThreads : dmIdx[u] \in DmIdx /\ dmRounds[u] \in Nat
    BY <2>1 DEF DmTypeOK
  <2>3. \A u \in DmThreads : DmUsing(u) => dmIdx[u] # i
    BY <2>1 DEF DmPool
  <2>4. dmStep' # "judge"
    BY <2>1
  <2> QED BY <2>1, <2>2, <2>3, <2>4 DEF DmPool
<1>3. ASSUME NEW t \in DmThreads, DmCreate(t) PROVE DmPool'
  <2>1. PICK i \in DmIdx, o \in DmObjects \cup {DmNull} :
          /\ i = dmIdx[t] /\ dmPc[t] = "create"
          /\ o \notin dmAlive \ {dmConn[i]}
          /\ dmAlive' = (dmAlive \ {dmConn[i]}) \cup ({o} \ {DmNull})
          /\ dmConn' = [dmConn EXCEPT ![i] = o]
          /\ dmCB' = [dmCB EXCEPT ![i] = 0]
          /\ dmPc' = [dmPc EXCEPT ![t] = "connect"]
          /\ dmRounds' = [dmRounds EXCEPT ![t] = 0]
          /\ UNCHANGED <<dmIdx, dmDb, dmStat, dmStep, dmAt, dmCount, dmLate>>
    BY <1>3, <1>1 DEF DmCreate, DmGoto, DmTypeOK, dmCheck
  <2>2. /\ dmPc'[t] = "connect" /\ dmRounds'[t] = 0
        /\ \A u \in DmThreads : u # t => dmPc'[u] = dmPc[u] /\ dmRounds'[u] = dmRounds[u]
        /\ dmConn'[i] = o /\ dmCB'[i] = 0
        /\ \A j \in DmIdx : j # i => dmConn'[j] = dmConn[j] /\ dmCB'[j] = dmCB[j]
        /\ \A u \in DmThreads : dmIdx[u] \in DmIdx
    BY <2>1 DEF DmTypeOK
  <2>3. \A u \in DmThreads : DmUsing(u) /\ u # t => dmIdx[u] # i
    BY <2>1 DEF DmPool
  <2>4. \A p \in DmObjects : p \in dmAlive' <=> \E j \in DmIdx : dmConn'[j] = p
    BY <1>1, <2>1, <2>2 DEF DmPool
  <2>5. \A j \in DmIdx : j # i /\ o # DmNull => dmConn[j] # o
    BY <2>1 DEF DmPool
  <2>6. \A j, k \in DmIdx : dmConn'[j] = dmConn'[k] /\ dmConn'[j] # DmNull => j = k
    BY <2>2, <2>5 DEF DmPool
  <2>7. dmStep = "judge" => dmAt # i
    BY <1>3, <2>1, Zenon DEF DmCreate
  <2> QED BY <1>1, <2>1, <2>2, <2>3, <2>4, <2>6, <2>7 DEF DmPool
<1>4. ASSUME NEW t \in DmThreads, DmConnect(t) PROVE DmPool'
  <2>1. PICK i \in DmIdx :
          /\ i = dmIdx[t]
          /\ dmPc[t] = "connect" /\ dmPc' = [dmPc EXCEPT ![t] = "get"]
          /\ UNCHANGED <<dmIdx, dmDb, dmStat, dmCB, dmStep, dmAt, dmCount, dmRounds, dmLate>>
    BY <1>4 DEF DmConnect, DmGoto, DmTypeOK, dmCheck, dmHist
  <2>2. /\ dmPc'[t] = "get"
        /\ \A u \in DmThreads : u # t => dmPc'[u] = dmPc[u]
        /\ \A u \in DmThreads : dmIdx[u] \in DmIdx
    BY <2>1 DEF DmTypeOK
  <2>3. CASE UNCHANGED <<dmConn, dmAlive>>
    BY <2>1, <2>2, <2>3 DEF DmPool
  <2>4. CASE DmDelete(dmIdx[t])
    <3>1. /\ dmAlive' = dmAlive \ {dmConn[i]}
          /\ dmConn'[i] = DmNull
          /\ \A j \in DmIdx : j # i => dmConn'[j] = dmConn[j]
      BY <2>1, <2>4 DEF DmDelete, DmTypeOK
    <3>2. \A u \in DmThreads : DmUsing(u) /\ u # t => dmIdx[u] # i
      BY <2>1 DEF DmPool
    <3>3. \A p \in DmObjects : p \in dmAlive' <=> \E j \in DmIdx : dmConn'[j] = p
      BY <1>1, <3>1 DEF DmPool
    <3> QED BY <2>1, <2>2, <3>1, <3>2, <3>3 DEF DmPool
  <2> QED BY <1>4, <2>3, <2>4 DEF DmConnect
<1>5. ASSUME NEW t \in DmThreads, DmGet(t) PROVE DmPool'
  <2>1. PICK i \in DmIdx : i = dmIdx[t] /\ dmPc[t] = "get"
    BY <1>5 DEF DmGet, DmTypeOK
  <2>2. /\ UNCHANGED <<dmIdx, dmStat, dmConn, dmCB, dmAlive, dmStep, dmAt, dmCount,
                       dmRounds, dmLate>>
        /\ dmDb' = [dmDb EXCEPT ![t] = dmConn[i]]
        /\ dmPc' = [dmPc EXCEPT ![t] = IF dmConn[i] = DmNull THEN "fail" ELSE "exec"]
    BY <1>5, <2>1 DEF DmGet, DmGoto, dmSlots, dmCheck, dmHist
  <2>3. /\ dmDb'[t] = dmConn[i]
        /\ dmPc'[t] = IF dmConn[i] = DmNull THEN "fail" ELSE "exec"
        /\ \A u \in DmThreads : u # t => dmPc'[u] = dmPc[u] /\ dmDb'[u] = dmDb[u]
    BY <2>2 DEF DmTypeOK
  <2>4. \A u \in DmThreads : DmUsing(u)' <=> DmUsing(u)
    BY <2>1, <2>3
  <2> QED BY <2>1, <2>2, <2>3, <2>4 DEF DmPool
<1>6. ASSUME NEW t \in DmThreads, DmFail(t) PROVE DmPool'
  <2>1. /\ DmUsing(t) /\ DmReturn(t)
        /\ UNCHANGED <<dmConn, dmCB, dmAlive, dmCheck, dmLate, dmRaced>>
        /\ dmStat' = [dmStat EXCEPT ![dmIdx[t]] = "free"]
    BY <1>6 DEF DmFail
  <2>2. \A j \in DmIdx : j # dmIdx[t] => dmStat'[j] = dmStat[j] /\ dmConn'[j] = dmConn[j]
    BY <2>1 DEF DmTypeOK
  <2>3. \A o \in DmObjects : o \in dmAlive' <=> \E j \in DmIdx : dmConn'[j] = o
    BY <2>1 DEF DmPool
  <2> QED BY <2>1, <2>2, <2>3, DmLeaves
<1>7. ASSUME NEW t \in DmThreads, DmExec(t) PROVE DmPool'
  <2>1. /\ DmUsing(t) /\ DmReturn(t)
        /\ UNCHANGED <<dmConn, dmCB, dmAlive, dmCheck, dmLate, dmRaced>>
        /\ dmStat' = [dmStat EXCEPT ![dmIdx[t]] = "idle"]
    BY <1>7 DEF DmExec
  <2>2. \A j \in DmIdx : j # dmIdx[t] => dmStat'[j] = dmStat[j] /\ dmConn'[j] = dmConn[j]
    BY <2>1 DEF DmTypeOK
  <2>3. \A o \in DmObjects : o \in dmAlive' <=> \E j \in DmIdx : dmConn'[j] = o
    BY <2>1 DEF DmPool
  <2> QED BY <2>1, <2>2, <2>3, DmLeaves
<1>8. ASSUME NEW t \in DmThreads, DmThrow(t) PROVE DmPool'
  <2>1. /\ DmUsing(t) /\ DmReturn(t)
        /\ UNCHANGED <<dmCB, dmCheck, dmLate, dmRaced>>
        /\ dmAlive' = dmAlive \ {dmConn[dmIdx[t]]}
        /\ dmConn' = [dmConn EXCEPT ![dmIdx[t]] = DmNull]
        /\ dmStat' = [dmStat EXCEPT ![dmIdx[t]] = "free"]
    BY <1>8 DEF DmThrow, DmDelete
  <2>2. /\ dmIdx[t] \in DmIdx /\ dmConn'[dmIdx[t]] = DmNull
        /\ \A j \in DmIdx : j # dmIdx[t] => dmStat'[j] = dmStat[j] /\ dmConn'[j] = dmConn[j]
    BY <2>1 DEF DmTypeOK
  <2>3. \A o \in DmObjects : o \in dmAlive' <=> \E j \in DmIdx : dmConn'[j] = o
    BY <1>1, <2>1, <2>2 DEF DmPool
  <2> QED BY <2>1, <2>2, <2>3, DmLeaves
<1>9. CASE DmRound
  BY <1>9 DEF DmRound, DmPool, dmThread, dmSlots, dmHist
<1>10. DmNextSlot => dmStep' # "judge"
  BY DEF DmNextSlot
<1>11. CASE DmSkip
  BY <1>11, <1>10 DEF DmSkip, DmPool, dmThread, dmSlots, dmHist
<1>12. CASE DmReadAge
  <2>1. dmStep' = "judge" => \A u \in DmThreads : DmUsing(u) => dmIdx[u] # dmAt
    BY <1>12 DEF DmReadAge, DmPool
  <2> QED BY <1>12, <2>1 DEF DmReadAge, DmPool, dmThread, dmSlots, dmHist
<1>13. CASE DmSetAge
  BY <1>13 DEF DmSetAge, DmPool, dmThread, dmHist
<1>14. CASE DmReadQuery
  BY <1>14 DEF DmReadQuery, DmPool, dmThread, dmSlots, dmHist
<1>15. CASE DmJudge
  <2>1. /\ UNCHANGED <<dmPc, dmIdx, dmDb>> /\ dmStep' # "judge" /\ dmAt \in DmIdx
        /\ \A t \in DmThreads : dmRounds'[t] =
             IF DmUsing(t) /\ dmIdx[t] = dmAt /\ dmRounds[t] < DmQueryCount
               THEN dmRounds[t] + 1 ELSE dmRounds[t]
    BY <1>15, <1>10 DEF DmJudge, dmThread, DmTypeOK
  <2>2. \A t \in DmThreads : dmRounds'[t] # DmQueryCount
    BY <1>15, Zenon DEF DmJudge
  <2>3. /\ \A t \in DmThreads : dmIdx[t] \in DmIdx /\ dmRounds[t] \in Nat
        /\ \A i \in DmIdx : dmCB[i] \in Nat
        /\ dmCount \in Nat
    BY <1>1 DEF DmTypeOK
  <2>4. \A t \in DmThreads : dmRounds[t] < DmQueryCount
    BY DEF DmPool
  <2>5. \A t \in DmThreads :
          /\ dmRounds'[t] \in Nat /\ dmRounds'[t] < DmQueryCount
          /\ dmRounds[t] <= dmRounds'[t]
          /\ DmUsing(t) /\ dmIdx[t] = dmAt => dmRounds'[t] = dmRounds[t] + 1
    BY <1>1, <2>1, <2>2, <2>3, <2>4
  <2>6. ASSUME NEW t \in DmThreads, DmUsing(t), dmIdx[t] = dmAt
        PROVE  dmStat[dmAt] = "busy" /\ ~DmExpired /\ dmCount + 1 <= dmRounds'[t]
    <3>1. dmStat[dmAt] = "busy" /\ dmCount <= dmRounds[t]
      BY <1>15, <2>6 DEF DmPool, DmJudge
    <3>2. dmCount + 1 <= dmRounds'[t] /\ dmCount + 1 < DmQueryCount
      BY <1>1, <2>3, <2>5, <2>6, <3>1
    <3> QED BY <1>1, <2>3, <3>1, <3>2 DEF DmExpired
  <2>7. /\ \A j \in DmIdx : j # dmAt =>
             dmStat'[j] = dmStat[j] /\ dmConn'[j] = dmConn[j] /\ dmCB'[j] = dmCB[j]
        /\ \A j \in DmIdx : dmConn'[j] \in {dmConn[j], DmNull}
        /\ ~DmExpired => /\ dmStat'[dmAt] = dmStat[dmAt] /\ dmConn'[dmAt] = dmConn[dmAt]
                         /\ dmStat[dmAt] = "busy" => dmCB'[dmAt] = dmCount + 1
    BY <1>15, <2>1 DEF DmJudge, DmDelete, DmTypeOK
  <2>8. \A o \in DmObjects : o \in dmAlive' <=> \E j \in DmIdx : dmConn'[j] = o
    <3>1. CASE DmDelete(dmAt)
      <4>1. /\ dmAlive' = dmAlive \ {dmConn[dmAt]} /\ dmConn'[dmAt] = DmNull
            /\ \A j \in DmIdx : j # dmAt => dmConn'[j] = dmConn[j]
        BY <2>1, <3>1 DEF DmDelete, DmTypeOK
      <4> QED BY <1>1, <2>1, <4>1 DEF DmPool
    <3>2. CASE UNCHANGED <<dmConn, dmAlive>>
      BY <3>2 DEF DmPool
    <3> QED BY <1>15, <3>1, <3>2 DEF DmJudge
  <2>9. ASSUME NEW t \in DmThreads, DmUsing(t)
        PROVE  /\ dmStat'[dmIdx[t]] = "busy" /\ dmConn'[dmIdx[t]] = dmConn[dmIdx[t]]
               /\ dmCB'[dmIdx[t]] <= dmRounds'[t]
    <3>1. CASE dmIdx[t] = dmAt
      <4>1. dmStat[dmAt] = "busy" /\ ~DmExpired /\ dmCount + 1 <= dmRounds'[t]
        BY <2>6, <2>9, <3>1
      <4> QED BY <2>7, <3>1, <4>1
    <3>2. CASE dmIdx[t] # dmAt
      <4>1. dmStat[dmIdx[t]] = "busy" /\ dmCB[dmIdx[t]] <= dmRounds[t]
        BY <2>9 DEF DmPool
      <4>2. /\ dmStat'[dmIdx[t]] = dmStat[dmIdx[t]] /\ dmConn'[dmIdx[t]] = dmConn[dmIdx[t]]
            /\ dmCB'[dmIdx[t]] = dmCB[dmIdx[t]]
        BY <2>3, <2>7, <3>2
      <4> QED BY <2>3, <2>5, <4>1, <4>2
    <3> QED BY <3>1, <3>2
  <2>10. \A i, j \in DmIdx : dmConn'[i] = dmConn'[j] /\ dmConn'[i] # DmNull => i = j
    BY <2>7 DEF DmPool
  <2>11. \A t \in DmThreads : DmUsing(t)' <=> DmUsing(t)
    BY <2>1
  <2> QED BY <2>1, <2>3, <2>5, <2>8, <2>9, <2>10, <2>11 DEF DmPool
<1> QED BY <1>2, <1>3, <1>4, <1>5, <1>6, <1>7, <1>8, <1>9, <1>11, <1>12, <1>13, <1>14,
           <1>15 DEF DmNext

(* Neither mark is ever taken back.                                        *)
LEMMA DmMarksStay ==
    ASSUME DmNext
    PROVE  (dmLate => dmLate') /\ (dmRaced => dmRaced')
<1>1. ASSUME NEW t \in DmThreads, DmCreate(t)
      PROVE  (dmLate => dmLate') /\ (dmRaced => dmRaced')
  BY <1>1, Zenon DEF DmCreate
<1>2. CASE DmJudge
  BY <1>2, Zenon DEF DmJudge
<1>3. ASSUME NEW t \in DmThreads,
             \/ DmChoose(t) \/ DmConnect(t) \/ DmGet(t)
             \/ DmFail(t) \/ DmExec(t) \/ DmThrow(t)
      PROVE  UNCHANGED <<dmLate, dmRaced>>
  BY <1>3 DEF DmChoose, DmConnect, DmGet, DmFail, DmExec, DmThrow, dmHist
<1>4. CASE DmRound \/ DmSkip \/ DmReadAge \/ DmSetAge \/ DmReadQuery
  BY <1>4 DEF DmRound, DmSkip, DmReadAge, DmSetAge, DmReadQuery, dmHist
<1> QED BY <1>1, <1>2, <1>3, <1>4 DEF DmNext

LEMMA DmAlwaysInv == DmSpec => []DmInv
<1>1. DmInv /\ [DmNext]_dmVars => DmInv'
  <2> SUFFICES ASSUME DmInv, [DmNext]_dmVars PROVE DmInv'
    OBVIOUS
  <2>1. CASE DmNext
    <3>1. DmTypeOK'
      BY <2>1, DmTypesNext DEF DmInv
    <3>2. CASE dmLate' \/ dmRaced'
      BY <3>1, <3>2, Zenon DEF DmInv
    <3>3. CASE ~dmLate' /\ ~dmRaced'
      <4>1. DmPool
        BY <2>1, <3>3, DmMarksStay, Zenon DEF DmInv
      <4>2. DmPool'
        BY <2>1, <3>3, <4>1, DmPoolNext DEF DmInv
      <4> QED BY <3>1, <4>2, Zenon DEF DmInv
    <3> QED BY <3>2, <3>3
  <2>2. CASE UNCHANGED dmVars
    BY <2>2 DEF DmInv, dmVars, dmThread, dmSlots, dmCheck, dmHist, DmTypeOK, DmPool, DmUsing
  <2> QED BY <2>1, <2>2
<1> QED BY <1>1, DmInvInit, PTL DEF DmSpec

(* Whatever the number of threads and slots: until MAX_QUERY_COUNT rounds  *)
(* of CheckLongDBConn have judged the slot of one call, or CreateHandle    *)
(* has made a connection between the check's reading a counter and acting  *)
(* on it, no thread uses a deleted connection or one another thread uses,  *)
(* and none is lost (dbmanager.cpp:138-186, :243-316).                     *)
THEOREM DmConnectionsSound == DmSpec => []DmSound
<1>1. DmInv => DmSound
  <2> SUFFICES ASSUME DmTypeOK, DmPool PROVE DmSound
    BY DEF DmInv, DmSound
  <2>1. \A t \in DmThreads : dmPc[t] = "exec" =>
          dmDb[t] \in dmAlive /\ dmStat[dmIdx[t]] = "busy"
    <3>1. \A t \in DmThreads : dmIdx[t] \in DmIdx /\ (dmPc[t] = "exec" => DmUsing(t))
      BY DEF DmTypeOK, DmUsing
    <3>2. \A t \in DmThreads : dmDb[t] # DmNull => dmDb[t] \in DmObjects
      BY DEF DmTypeOK
    <3> QED BY <3>1, <3>2 DEF DmPool
  <2>2. dmAlive = {dmConn[i] : i \in DmIdx} \ {DmNull}
    BY DmNumbers DEF DmPool, DmTypeOK
  <2>3. \A t, u \in DmThreads :
          DmUsing(t) /\ DmUsing(u) /\ t # u => dmIdx[t] # dmIdx[u]
    BY DEF DmPool
  <2> QED BY <2>1, <2>2, <2>3 DEF DmSound
<1> QED BY <1>1, DmAlwaysInv, PTL

-----------------------------------------------------------------------------
(* PlatOraAccess: the invariant.                                           *)

(* While it is tried, a call was committed in an earlier try only, and     *)
(* then its answer was lost; a procedure is in its first try.              *)
OrTried(run) ==
    /\ run.done <= run.try - 1
    /\ run.done > 0 => run.lost
    /\ run.kind = "proc" => run.try = 1

(* What OrSound says of a call that has ended.                             *)
OrEnded(run) ==
    /\ run.kind = "proc" => run.done <= 1
    /\ run.done = 2 => run.lost
    /\ run.kind # "query" =>
         IF run.ret = 0 THEN run.done >= 1 ELSE run.done > 0 => run.lost

OrCalls ==
    \A t \in OrThreads :
       /\ orPc[t] = "unflag" => OrEnded(orRun[t])
       /\ orPc[t] # "unflag" => OrTried(orRun[t])
       /\ orPc[t] = "stuck" => orAt[t] \in orMissing

(* No connection becomes NULL again.                                       *)
OrNulls == \A i \in OrIndex : orConn[i] = "null" => i \in orMissing

OrInv == OrTypeOK /\ OrCalls /\ OrNulls

OrRuns == [kind : OrKinds, try : {1, 2}, ret : {0, OrFailed}, done : 0 .. 2,
           lost : BOOLEAN]

LEMMA OrNumbers == OrConnNums \in Nat /\ OrConnNums > 0 /\ 0 \in OrIndex
BY PlatOraAccessAssumption DEF OrIndex

(* The step of one call: another place, another run, nothing else of it.   *)
LEMMA OrStep ==
    ASSUME OrInv, NEW t \in OrThreads, NEW run \in OrRuns,
           NEW place \in {"lock", "unflag"} \cup OrInCall,
           orPc' = [orPc EXCEPT ![t] = place],
           orRun' = [orRun EXCEPT ![t] = run],
           UNCHANGED <<orAt, orMissing>>,
           orConn' \in [OrIndex -> {"null", "down", "up"}],
           \A i \in OrIndex : orConn'[i] = "null" => orConn[i] = "null",
           orFlag' = orFlag,
           place = "unflag" => OrEnded(run),
           place # "unflag" => OrTried(run),
           place = "stuck" => orAt[t] \in orMissing
    PROVE  OrInv'
<1>1. OrTypeOK'
  BY DEF OrInv, OrTypeOK, OrRuns, OrInCall
<1>2. OrCalls'
  <2>1. /\ orPc'[t] = place /\ orRun'[t] = run
        /\ \A u \in OrThreads : u # t => orPc'[u] = orPc[u] /\ orRun'[u] = orRun[u]
    BY DEF OrInv, OrTypeOK
  <2> QED BY <2>1 DEF OrInv, OrCalls
<1>3. OrNulls'
  BY DEF OrInv, OrNulls
<1> QED BY <1>1, <1>2, <1>3 DEF OrInv

(* A try of a call that did, or did not, commit fails.                     *)
LEMMA OrFails ==
    ASSUME OrInv, NEW t \in OrThreads, orPc[t] = "run",
           NEW run \in OrRuns,
           run.kind = orRun[t].kind, run.try = orRun[t].try,
           run.done <= run.try, run.done > 0 => run.lost,
           OrTryFails(t, run), UNCHANGED <<orAt, orMissing>>,
           orConn' \in [OrIndex -> {"null", "down", "up"}],
           \A i \in OrIndex : orConn'[i] = "null" => orConn[i] = "null"
    PROVE  OrInv'
<1>1. run.kind = "proc" => run.try = 1
  BY DEF OrInv, OrCalls, OrTried
<1>2. CASE run.try = 1 /\ run.kind # "proc"
  <2>1. PICK next \in OrRuns :
          /\ next = [run EXCEPT !.try = 2]
          /\ next.kind = run.kind /\ next.try = 2 /\ next.done = run.done
          /\ next.lost = run.lost
    <3>1. [run EXCEPT !.try = 2] \in OrRuns
      BY DEF OrRuns
    <3> QED BY <3>1 DEF OrRuns
  <2>2. OrTried(next)
    BY <1>2, <2>1 DEF OrTried, OrRuns
  <2>3. /\ orRun' = [orRun EXCEPT ![t] = next]
        /\ orPc' = [orPc EXCEPT ![t] = "run"]
        /\ orFlag' = orFlag
    BY <1>2, <2>1 DEF OrTryFails, OrRunBecomes, OrInv, OrTypeOK
  <2> QED BY <2>2, <2>3, OrStep DEF OrInCall
<1>3. CASE ~(run.try = 1 /\ run.kind # "proc")
  <2>1. PICK next \in OrRuns :
          /\ next = [run EXCEPT !.ret = OrFailed]
          /\ next.kind = run.kind /\ next.try = run.try /\ next.done = run.done
          /\ next.lost = run.lost /\ next.ret = 1
    <3>1. [run EXCEPT !.ret = OrFailed] \in OrRuns
      BY DEF OrRuns, OrFailed
    <3> QED BY <3>1 DEF OrRuns, OrFailed
  <2>2. OrEnded(next)
    BY <1>1, <1>3, <2>1 DEF OrEnded, OrRuns
  <2>3. /\ orRun' = [orRun EXCEPT ![t] = next]
        /\ orPc' = [orPc EXCEPT ![t] = "unflag"]
        /\ orFlag' = orFlag
    BY <1>3, <2>1 DEF OrTryFails, OrReturn, OrRunBecomes, OrGoto
  <2> QED BY <2>2, <2>3, OrStep
<1> QED BY <1>2, <1>3

LEMMA OrBeginInv ==
    ASSUME OrInv, NEW t \in OrThreads, NEW kind \in OrKinds, OrBegin(t, kind)
    PROVE  OrInv'
<1>1. PICK run \in OrRuns :
        /\ run = [OrNoRun EXCEPT !.kind = kind]
        /\ run.try = 1 /\ run.done = 0 /\ run.lost = FALSE
  <2>1. PICK run \in OrRuns :
          run = OrNoRun /\ run.try = 1 /\ run.done = 0 /\ run.lost = FALSE
    <3>1. OrNoRun \in OrRuns
      BY DEF OrRuns, OrNoRun, OrFailed, OrKinds
    <3>2. OrNoRun.try = 1 /\ OrNoRun.done = 0 /\ OrNoRun.lost = FALSE
      BY DEF OrNoRun
    <3> QED BY <3>1, <3>2
  <2>2. [run EXCEPT !.kind = kind] \in OrRuns
    BY DEF OrRuns
  <2> QED BY <2>1, <2>2 DEF OrRuns
<1>2. OrTried(run)
  BY <1>1 DEF OrTried
<1>3. PICK place \in {"stuck", "run"} :
        place = IF orConn[orAt[t]] = "null" THEN "stuck" ELSE "run"
  OBVIOUS
<1>4. place = "stuck" => orAt[t] \in orMissing
  BY <1>3 DEF OrInv, OrNulls, OrTypeOK
<1>5. /\ orPc' = [orPc EXCEPT ![t] = place] /\ orRun' = [orRun EXCEPT ![t] = run]
      /\ UNCHANGED <<orAt, orConn, orFlag, orMissing>>
  BY <1>1, <1>3 DEF OrBegin, OrRunBecomes, OrGoto
<1>6. orConn \in [OrIndex -> {"null", "down", "up"}]
  BY DEF OrInv, OrTypeOK
<1> QED BY <1>2, <1>4, <1>5, <1>6, OrStep DEF OrInCall

(* The end of a statement and, for updates and procedures, the commit.     *)
LEMMA OrTryInv ==
    ASSUME OrInv, NEW t \in OrThreads, OrQuery(t) \/ OrUpdate(t) \/ OrProc(t)
    PROVE  OrInv'
<1>1. /\ orPc[t] = "run" /\ UNCHANGED <<orAt, orMissing>>
      /\ orRun[t] \in OrRuns /\ orAt[t] \in OrIndex
      /\ orConn \in [OrIndex -> {"null", "down", "up"}]
  BY DEF OrQuery, OrUpdate, OrProc, OrTrying, OrInv, OrTypeOK, OrRuns
<1>2. PICK run \in OrRuns : run = orRun[t]
  BY <1>1
<1>3. OrTried(run)
  BY <1>1, <1>2 DEF OrInv, OrCalls
<1>4. PICK more \in OrRuns :
        /\ more = OrCommitted(run)
        /\ more.kind = run.kind /\ more.try = run.try /\ more.ret = run.ret
        /\ more.lost = run.lost /\ more.done = run.done + 1
  <2>1. run.done + 1 \in 0 .. 2
    BY <1>2, <1>3 DEF OrTried, OrRuns
  <2>2. OrCommitted(run) \in OrRuns
    BY <2>1 DEF OrRuns, OrCommitted
  <2> QED BY <2>1, <2>2 DEF OrRuns, OrCommitted
<1>5. PICK unsure \in OrRuns :
        /\ unsure = [more EXCEPT !.lost = TRUE]
        /\ unsure.kind = run.kind /\ unsure.try = run.try
        /\ unsure.lost = TRUE /\ unsure.done = run.done + 1
  <2>1. [more EXCEPT !.lost = TRUE] \in OrRuns
    BY <1>4 DEF OrRuns
  <2> QED BY <2>1, <1>4 DEF OrRuns
<1>6. ASSUME OrConnBecomes(t, "down"),
             OrTryFails(t, run) \/ OrTryFails(t, unsure)
      PROVE  OrInv'
  <2>1. /\ orConn' \in [OrIndex -> {"null", "down", "up"}]
        /\ \A i \in OrIndex : orConn'[i] = "null" => orConn[i] = "null"
    BY <1>1, <1>6 DEF OrConnBecomes
  <2>2. run.done <= run.try /\ run.done + 1 <= run.try
    BY <1>3 DEF OrTried, OrRuns
  <2>3. CASE OrTryFails(t, run)
    BY <1>1, <1>2, <1>3, <2>1, <2>2, <2>3, OrFails DEF OrTried
  <2>4. CASE OrTryFails(t, unsure)
    BY <1>1, <1>2, <1>5, <2>1, <2>2, <2>4, OrFails
  <2> QED BY <1>6, <2>3, <2>4
<1>7. ASSUME OrReturn(t, run, 0), run.kind = "query", UNCHANGED orConn
      PROVE  OrInv'
  <2>1. PICK next \in OrRuns :
          /\ next = [run EXCEPT !.ret = 0]
          /\ next.kind = run.kind /\ next.try = run.try /\ next.done = run.done
          /\ next.lost = run.lost
    <3>1. [run EXCEPT !.ret = 0] \in OrRuns
      BY DEF OrRuns
    <3> QED BY <3>1 DEF OrRuns
  <2>2. OrEnded(next)
    BY <1>3, <1>7, <2>1 DEF OrEnded, OrTried, OrRuns
  <2> QED BY <1>1, <1>7, <2>1, <2>2, OrStep DEF OrReturn, OrRunBecomes, OrGoto
<1>8. ASSUME OrReturn(t, more, 0), UNCHANGED orConn
      PROVE  OrInv'
  <2>1. PICK next \in OrRuns :
          /\ next = [more EXCEPT !.ret = 0]
          /\ next.kind = run.kind /\ next.ret = 0 /\ next.done = run.done + 1
          /\ next.lost = run.lost
    <3>1. [more EXCEPT !.ret = 0] \in OrRuns
      BY <1>4 DEF OrRuns
    <3> QED BY <3>1, <1>4 DEF OrRuns
  <2>2. OrEnded(next)
    BY <1>3, <2>1 DEF OrEnded, OrTried, OrRuns
  <2> QED BY <1>1, <1>8, <2>1, <2>2, OrStep DEF OrReturn, OrRunBecomes, OrGoto
<1>9. ASSUME OrReturn(t, run, OrFailed), UNCHANGED orConn
      PROVE  OrInv'
  <2>1. PICK next \in OrRuns :
          /\ next = [run EXCEPT !.ret = OrFailed]
          /\ next.kind = run.kind /\ next.try = run.try /\ next.done = run.done
          /\ next.lost = run.lost /\ next.ret = 1
    <3>1. [run EXCEPT !.ret = OrFailed] \in OrRuns
      BY DEF OrRuns, OrFailed
    <3> QED BY <3>1 DEF OrRuns, OrFailed
  <2>2. OrEnded(next)
    BY <1>3, <2>1 DEF OrEnded, OrTried, OrRuns
  <2> QED BY <1>1, <1>9, <2>1, <2>2, OrStep DEF OrReturn, OrRunBecomes, OrGoto
<1>10. CASE OrQuery(t)
  <2>1. run.kind = "query"
    BY <1>2, <1>10 DEF OrQuery, OrTrying
  <2> QED BY <1>2, <1>6, <1>7, <1>10, <2>1 DEF OrQuery, OrException
<1>11. CASE OrUpdate(t) \/ OrProc(t)
  BY <1>2, <1>4, <1>5, <1>6, <1>8, <1>9, <1>11
     DEF OrUpdate, OrProc, OrCommit, OrException
<1> QED BY <1>10, <1>11

LEMMA OrInvNext == OrInv /\ OrNext => OrInv'
<1> SUFFICES ASSUME OrInv, OrNext PROVE OrInv'
  OBVIOUS
<1>1. OrConnNums \in Nat /\ OrConnNums > 0 /\ 0 \in OrIndex
  BY OrNumbers
<1>2. ASSUME NEW t \in OrThreads, OrGetIndex(t) PROVE OrInv'
  <2>1. OrTypeOK'
    BY <1>1, <1>2 DEF OrGetIndex, OrGoto, OrInv, OrTypeOK
  <2>2. /\ orPc'[t] = "flag" /\ orPc[t] = "idle"
        /\ \A u \in OrThreads : u # t => orPc'[u] = orPc[u] /\ orAt'[u] = orAt[u]
        /\ UNCHANGED <<orRun, orConn, orMissing>>
    BY <1>2 DEF OrGetIndex, OrGoto, OrInv, OrTypeOK
  <2> QED BY <2>1, <2>2 DEF OrInv, OrCalls, OrNulls
<1>3. ASSUME NEW t \in OrThreads, OrFlagConn(t) PROVE OrInv'
  <2>1. OrTypeOK'
    BY <1>3 DEF OrFlagConn, OrGoto, OrInv, OrTypeOK
  <2>2. /\ orPc'[t] = "lock" /\ orPc[t] = "flag"
        /\ \A u \in OrThreads : u # t => orPc'[u] = orPc[u]
        /\ UNCHANGED <<orAt, orRun, orConn, orMissing>>
    BY <1>3 DEF OrFlagConn, OrGoto, OrInv, OrTypeOK
  <2> QED BY <2>1, <2>2 DEF OrInv, OrCalls, OrNulls
<1>4. ASSUME NEW t \in OrThreads, OrExecQuery(t) \/ OrExecUpdate(t) \/ OrExecProc(t)
      PROVE  OrInv'
  BY <1>4, OrBeginInv DEF OrExecQuery, OrExecUpdate, OrExecProc, OrKinds
<1>5. ASSUME NEW t \in OrThreads, OrReconnect(t) PROVE OrInv'
  <2>1. /\ orPc[t] = "run" /\ orRun[t] \in OrRuns /\ UNCHANGED <<orAt, orMissing>>
        /\ orAt[t] \in OrIndex /\ orConn \in [OrIndex -> {"null", "down", "up"}]
    BY <1>5 DEF OrReconnect, OrInv, OrTypeOK, OrRuns
  <2>2. OrTried(orRun[t])
    BY <2>1 DEF OrInv, OrCalls
  <2>3. CASE OrConnBecomes(t, "up") /\ UNCHANGED <<orRun, orPc, orFlag>>
    <3>1. OrTypeOK'
      BY <2>1, <2>3 DEF OrConnBecomes, OrInv, OrTypeOK
    <3>2. \A i \in OrIndex : orConn'[i] = "null" => orConn[i] = "null"
      BY <2>1, <2>3 DEF OrConnBecomes
    <3> QED BY <2>1, <2>3, <3>1, <3>2 DEF OrInv, OrCalls, OrNulls
  <2>4. CASE OrTryFails(t, orRun[t]) /\ UNCHANGED orConn
    <3>1. PICK run \in OrRuns : run = orRun[t]
      BY <2>1
    <3>2. run.done <= run.try
      BY <2>2, <3>1 DEF OrTried, OrRuns
    <3> QED BY <2>1, <2>2, <2>4, <3>1, <3>2, OrFails DEF OrTried
  <2> QED BY <1>5, <2>3, <2>4 DEF OrReconnect
<1>6. ASSUME NEW t \in OrThreads, OrUnflag(t) PROVE OrInv'
  <2>1. OrTypeOK'
    BY <1>1, <1>6 DEF OrUnflag, OrGoto, OrRunBecomes, OrNoRun, OrKinds, OrInv, OrTypeOK
  <2>2. OrTried(OrNoRun)
    BY DEF OrTried, OrNoRun
  <2>3. /\ orPc'[t] = "idle" /\ orRun'[t] = OrNoRun
        /\ \A u \in OrThreads : u # t =>
             orPc'[u] = orPc[u] /\ orAt'[u] = orAt[u] /\ orRun'[u] = orRun[u]
        /\ UNCHANGED <<orConn, orMissing>>
    BY <1>6 DEF OrUnflag, OrGoto, OrRunBecomes, OrInv, OrTypeOK
  <2> QED BY <2>1, <2>2, <2>3 DEF OrInv, OrCalls, OrNulls
<1> QED BY <1>2, <1>3, <1>4, <1>5, <1>6, OrTryInv DEF OrNext

LEMMA OrAlwaysInv == OrSpec => []OrInv
<1>1. OrInit => OrInv
  <2> SUFFICES ASSUME OrInit PROVE OrInv
    OBVIOUS
  <2>1. OrTypeOK
    BY OrNumbers DEF OrInit, OrTypeOK, OrNoRun, OrKinds
  <2>2. OrTried(OrNoRun)
    BY DEF OrTried, OrNoRun
  <2> QED BY <2>1, <2>2 DEF OrInit, OrInv, OrCalls, OrNulls
<1>2. OrInv /\ [OrNext]_orVars => OrInv'
  <2> SUFFICES ASSUME OrInv, UNCHANGED orVars PROVE OrInv'
    BY OrInvNext
  <2> QED BY DEF orVars, OrInv, OrTypeOK, OrCalls, OrNulls
<1> QED BY <1>1, <1>2, PTL DEF OrSpec

(* Whatever the number of threads and connections: no procedure is         *)
(* committed twice, what a call returns agrees with the commits unless an  *)
(* answer was lost, and a thread waits for itself only on a connection     *)
(* init could not make (plat_ora_access.cpp:237, :266, :283).              *)
THEOREM OrCallsSound == OrSpec => []OrSound
<1>1. OrInv => OrSound
  <2> SUFFICES ASSUME OrInv, NEW t \in OrThreads,
                      NEW run, run = orRun[t]
               PROVE  /\ run.kind = "proc" => run.done <= 1
                      /\ run.done = 2 => run.lost
                      /\ orPc[t] = "unflag" /\ run.kind # "query" =>
                           IF run.ret = 0 THEN run.done >= 1
                                          ELSE run.done > 0 => run.lost
                      /\ orPc[t] = "stuck" => orAt[t] \in orMissing
    BY DEF OrSound
  <2>1. run \in OrRuns
    BY DEF OrInv, OrTypeOK, OrRuns
  <2>2. orPc[t] = "stuck" => orAt[t] \in orMissing
    BY DEF OrInv, OrCalls
  <2>3. CASE orPc[t] = "unflag"
    BY <2>1, <2>2, <2>3 DEF OrInv, OrCalls, OrEnded, OrRuns
  <2>4. CASE orPc[t] # "unflag"
    <3>1. OrTried(run)
      BY <2>4 DEF OrInv, OrCalls
    <3> QED BY <2>1, <2>2, <2>4, <3>1 DEF OrTried, OrRuns
  <2> QED BY <2>3, <2>4
<1> QED BY <1>1, OrAlwaysInv, PTL

-----------------------------------------------------------------------------
(* Shm_Bitmap_Manager: the invariant.                                      *)

(* A process about to store holds the byte of its uin, as it read it.      *)
BmStores ==
    \A p \in BmProcs : bmAt[p] = "store" =>
       bmUin[p] \in BmUins /\ bmRead[p] \subseteq BmShare(bmUin[p])

BmInv ==
    /\ bmAt \in [BmProcs -> BmPlaces]
    /\ bmUin \in [BmProcs -> {0} \cup BmUins]
    /\ bmFlag \in [BmProcs -> {"chk", "set", "clr"}]
    /\ bmRead \in [BmProcs -> SUBSET BmUins]
    /\ bmBits \subseteq BmUins
    /\ BmStores
    /\ BmKept

(* A store changes no byte but that of its uin, and there only its bit if  *)
(* the byte is what was read; else the byte is in bmClash.                 *)
LEMMA BmStoreKeeps ==
    ASSUME BmInv, NEW p \in BmProcs, BmStore(p)
    PROVE  BmKept'
<1>1. PICK u \in BmUins : u = bmUin[p]
  BY DEF BmInv, BmStores, BmStore
<1>2. PICK read \in SUBSET BmUins : read = bmRead[p]
  BY DEF BmInv
<1>3. read \subseteq BmShare(u)
  BY <1>1, <1>2 DEF BmInv, BmStores, BmStore
<1>4. SUFFICES ASSUME NEW v \in BmUins, BmByteOf(v) \notin bmClash'
               PROVE  v \in bmBits' <=> v \in bmWant'
  BY DEF BmKept
<1>5. BmByteOf(v) \notin bmClash /\ (v \in bmBits <=> v \in bmWant)
  BY <1>4 DEF BmStore, BmInv, BmKept
<1>6. BmShare(u) \subseteq BmUins /\ u \in BmShare(u)
      /\ (v \in BmShare(u) <=> BmByteOf(v) = BmByteOf(u))
  BY DEF BmShare
<1>7. /\ bmWant' = IF bmFlag[p] = "set" THEN bmWant \cup {u} ELSE bmWant \ {u}
      /\ bmBits' = (bmBits \ BmShare(u)) \cup
                   (IF bmFlag[p] = "set" THEN read \cup {u} ELSE read \ {u})
  BY <1>1, <1>2 DEF BmStore, BmChanged
<1>8. CASE v \in BmShare(u)
  <2>1. bmBits \cap BmShare(u) = read
    BY <1>1, <1>2, <1>4, <1>6, <1>8 DEF BmStore
  <2> QED BY <1>5, <1>6, <1>7, <1>8, <2>1
<1>9. CASE v \notin BmShare(u)
  BY <1>3, <1>5, <1>6, <1>7, <1>9
<1> QED BY <1>8, <1>9

LEMMA BmInvNext == BmInv /\ BmNext => BmInv'
<1> SUFFICES ASSUME BmInv, BmNext PROVE BmInv'
  OBVIOUS
<1>1. ASSUME NEW p \in BmProcs, BmOpen(p) \/ BmCreate(p) PROVE BmInv'
  <2>1. PICK place \in {"create", "failed", "idle", "clear"} :
          bmAt' = [bmAt EXCEPT ![p] = place]
    BY <1>1 DEF BmOpen, BmCreate, BmGoto
  <2>2. UNCHANGED <<bmUin, bmFlag, bmRead, bmWant, bmBits, bmClash>>
    BY <1>1 DEF BmOpen, BmCreate, BmNoChange
  <2>3. \A q \in BmProcs : bmAt'[q] = "store" => bmAt[q] = "store"
    BY <2>1 DEF BmInv
  <2>4. bmAt' \in [BmProcs -> BmPlaces]
    BY <2>1 DEF BmInv, BmPlaces
  <2> QED BY <2>2, <2>3, <2>4 DEF BmInv, BmStores, BmKept
<1>2. ASSUME NEW p \in BmProcs, BmClear(p) PROVE BmInv'
  <2>1. UNCHANGED <<bmUin, bmFlag, bmRead, bmWant>>
    BY <1>2 DEF BmClear, BmNoChange
  <2>2. \A q \in BmProcs : bmAt'[q] = "store" => bmAt[q] = "store"
    BY <1>2 DEF BmInv, BmClear, BmGoto
  <2>3. bmAt' \in [BmProcs -> BmPlaces]
    BY <1>2 DEF BmInv, BmPlaces, BmClear, BmGoto
  <2>4. /\ bmBits' \subseteq bmBits
        /\ \A u \in bmBits \ bmBits' : BmByteOf(u) \in bmClash'
        /\ bmClash \subseteq bmClash'
    BY <1>2 DEF BmClear
  <2>5. BmKept'
    BY <2>1, <2>4 DEF BmInv, BmKept
  <2> QED BY <2>1, <2>2, <2>3, <2>4, <2>5 DEF BmInv, BmStores
<1>3. ASSUME NEW p \in BmProcs, BmClose(p) \/ BmReread(p) PROVE BmInv'
  <2>1. PICK place \in {"closed", "idle"} :
          /\ bmAt' = [bmAt EXCEPT ![p] = place]
          /\ bmRead' = [bmRead EXCEPT ![p] = {}]
          /\ bmFlag' = [bmFlag EXCEPT ![p] = "chk"]
          /\ bmUin' = [bmUin EXCEPT ![p] = 0]
          /\ UNCHANGED <<bmBits, bmWant, bmClash>>
    BY <1>3 DEF BmClose, BmReread, BmGoto
  <2>2. /\ bmAt'[p] # "store"
        /\ \A q \in BmProcs : q # p =>
             bmAt'[q] = bmAt[q] /\ bmUin'[q] = bmUin[q] /\ bmRead'[q] = bmRead[q]
    BY <2>1 DEF BmInv
  <2>3. BmStores'
    BY <2>2 DEF BmInv, BmStores
  <2>4. /\ bmAt' \in [BmProcs -> BmPlaces]
        /\ bmUin' \in [BmProcs -> {0} \cup BmUins]
        /\ bmFlag' \in [BmProcs -> {"chk", "set", "clr"}]
        /\ bmRead' \in [BmProcs -> SUBSET BmUins]
    BY <2>1 DEF BmInv, BmPlaces
  <2> QED BY <2>1, <2>3, <2>4 DEF BmInv, BmKept
<1>4. ASSUME NEW p \in BmProcs, BmGetBit(p) \/ BmSetBit(p) \/ BmClrBit(p)
      PROVE  BmInv'
  <2>1. PICK u \in 0 .. BmMaxUin[p] - 1, flag \in {"chk", "set", "clr"},
             place \in {"reread", "store"} :
          /\ bmAt' = [bmAt EXCEPT ![p] = place]
          /\ bmUin' = [bmUin EXCEPT ![p] = u]
          /\ bmFlag' = [bmFlag EXCEPT ![p] = flag]
          /\ bmRead' = [bmRead EXCEPT ![p] = bmBits \cap BmShare(u)]
          /\ UNCHANGED <<bmBits, bmWant, bmClash>>
    BY <1>4 DEF BmGetBit, BmSetBit, BmClrBit, BmBegin, BmGoto
  <2>2. u \in BmUins
    BY DEF BmUins
  <2>3. PICK read \in SUBSET BmUins : read = bmBits \cap BmShare(u)
    BY DEF BmInv
  <2>4. /\ bmUin'[p] = u /\ bmRead'[p] = read /\ read \subseteq BmShare(u)
        /\ \A q \in BmProcs : q # p =>
             bmAt'[q] = bmAt[q] /\ bmUin'[q] = bmUin[q] /\ bmRead'[q] = bmRead[q]
    BY <2>1, <2>3 DEF BmInv
  <2>5. BmStores'
    BY <2>2, <2>4 DEF BmInv, BmStores
  <2>6. /\ bmAt' \in [BmProcs -> BmPlaces]
        /\ bmUin' \in [BmProcs -> {0} \cup BmUins]
        /\ bmFlag' \in [BmProcs -> {"chk", "set", "clr"}]
        /\ bmRead' \in [BmProcs -> SUBSET BmUins]
    BY <2>1, <2>2, <2>3 DEF BmInv, BmPlaces
  <2> QED BY <2>1, <2>5, <2>6 DEF BmInv, BmKept
<1>5. ASSUME NEW p \in BmProcs, BmStore(p) PROVE BmInv'
  <2>1. BmKept'
    BY <1>5, BmStoreKeeps
  <2>2. /\ UNCHANGED <<bmUin, bmFlag, bmRead>>
        /\ bmAt' = [bmAt EXCEPT ![p] = "reread"]
    BY <1>5 DEF BmStore, BmGoto
  <2>3. \A q \in BmProcs : bmAt'[q] = "store" => bmAt[q] = "store"
    BY <2>2 DEF BmInv
  <2>4. bmAt' \in [BmProcs -> BmPlaces]
    BY <2>2 DEF BmInv, BmPlaces
  <2>5. bmBits' \subseteq BmUins
    <3>1. bmUin[p] \in BmUins /\ bmRead[p] \subseteq BmUins
      BY <1>5 DEF BmInv, BmStores, BmStore
    <3> QED BY <1>5, <3>1 DEF BmInv, BmStore, BmChanged
  <2> QED BY <2>1, <2>2, <2>3, <2>4, <2>5 DEF BmInv, BmStores
<1> QED BY <1>1, <1>2, <1>3, <1>4, <1>5 DEF BmNext

LEMMA BmAlwaysInv == BmSpec => []BmInv
<1>1. BmInit => BmInv
  BY DEF BmInit, BmInv, BmPlaces, BmStores, BmKept
<1>2. BmInv /\ [BmNext]_bmVars => BmInv'
  <2> SUFFICES ASSUME BmInv, UNCHANGED bmVars PROVE BmInv'
    BY BmInvNext
  <2> QED BY DEF bmVars, BmInv, BmStores, BmKept
<1> QED BY <1>1, <1>2, PTL DEF BmSpec

(* Whatever the number of processes, the sizes they open the segment with  *)
(* and where they end: a bit is what the last set_bit or clr_bit for its   *)
(* uin made it, unless two writers of its byte overlapped or the segment   *)
(* was cleared late (shm_bitmap_manager.cpp:104-133, :225-242).            *)
THEOREM BitsKept == BmSpec => []BmKept
<1>1. BmInv => BmKept
  BY DEF BmInv
<1> QED BY <1>1, BmAlwaysInv, PTL

(* The sizes, and the bits, are those the processes can want.              *)
BmSizes ==
    /\ bmSize \in {0} \cup {BmMaxUin[p] : p \in BmProcs}
    /\ bmWant \subseteq BmUins
    /\ bmClash \subseteq {BmByteOf(u) : u \in BmUins}

LEMMA BmSizesNext ==
    ASSUME BmInv, BmSizes, BmNext
    PROVE  BmSizes'
<1> PICK p \in BmProcs :
      \/ BmOpen(p) \/ BmCreate(p) \/ BmClear(p) \/ BmClose(p) \/ BmGetBit(p)
      \/ BmSetBit(p) \/ BmClrBit(p) \/ BmStore(p) \/ BmReread(p)
  BY Zenon DEF BmNext
<1>1. CASE BmOpen(p)
  BY <1>1 DEF BmOpen, BmNoChange, BmSizes
<1>2. CASE BmCreate(p)
  BY <1>2 DEF BmCreate, BmNoChange, BmSizes
<1>3. CASE BmClear(p)
  <2>1. bmBits \subseteq BmUins
    BY DEF BmInv
  <2> QED BY <1>3, <2>1 DEF BmClear, BmNoChange, BmSizes
<1>4. CASE BmClose(p) \/ BmGetBit(p) \/ BmSetBit(p) \/ BmClrBit(p) \/ BmReread(p)
  BY <1>4 DEF BmClose, BmGetBit, BmSetBit, BmClrBit, BmReread, BmBegin, BmSizes
<1>5. CASE BmStore(p)
  <2>1. PICK u : u = bmUin[p]
    OBVIOUS
  <2>2. u \in BmUins
    BY <1>5, <2>1 DEF BmInv, BmStores, BmStore
  <2>3. /\ bmSize' = bmSize
        /\ bmWant' \subseteq bmWant \cup {u}
        /\ bmClash' \subseteq bmClash \cup {BmByteOf(u)}
    BY <1>5, <2>1 DEF BmStore
  <2> QED BY <2>2, <2>3 DEF BmSizes
<1> QED BY <1>1, <1>2, <1>3, <1>4, <1>5

LEMMA BmAlwaysTypeOK == BmSpec => []BmTypeOK
<1>1. BmInit => BmSizes
  BY DEF BmInit, BmSizes
<1>2. BmInv /\ BmSizes /\ [BmNext]_bmVars => BmSizes'
  BY BmSizesNext DEF bmVars, BmSizes
<1>3. BmInv /\ BmSizes => BmTypeOK
  BY DEF BmInv, BmSizes, BmTypeOK
<1> QED BY <1>1, <1>2, <1>3, BmAlwaysInv, PTL DEF BmSpec

-----------------------------------------------------------------------------
(* The application: the invariant.                                         *)

AppTypes ==
    /\ appNum \in Nat /\ appNum <= AppMaxChildren
    /\ appAt \in [AppProc -> AppPlaces]
    /\ appPids \subseteq AppChild
    /\ appIdx \in Nat /\ appIdx > 0
    /\ appConf \in [AppProc -> SUBSET AppFiles]
    /\ appFile \in [AppProc -> AppFiles]
    /\ appReloaded \in [AppProc -> BOOLEAN]

(* The children that were forked are those in child_pids, and none is      *)
(* before the loop of parent_hatch.                                        *)
AppForked ==
    /\ \A i \in AppChild :
         /\ i \notin appPids <=> appAt[i] = "none"
         /\ appAt[i] \in AppAlive \cup {"none", "zombie", "gone"}
    /\ \A i \in appPids : i <= appNum
    /\ appAt[0] \in {"main", "svr"} => appPids = {}

(* parent_quit has seen the end of the children it is past, and process 0  *)
(* ends after that.                                                        *)
AppWaitedFor ==
    /\ appAt[0] = "wait" => \A i \in appPids : i < appIdx => appAt[i] = "gone"
    /\ appAt[0] \in {"quit", "gone"} => \A i \in appPids : appAt[i] = "gone"
    /\ appAt[0] \in {"main", "svr", "check", "hatch", "reset", "run", "wait", "quit",
                    "gone"}

(* A process has a configuration as soon as <program>.ini is loaded.       *)
AppLoaded ==
    \A p \in AppProc :
       appAt[p] \in AppAlive \cup {"svr", "check", "hatch", "reset", "wait"} =>
          /\ appConf[p] # {}
          /\ "main" \in appConf[p] \/ appReloaded[p]

AppInv == AppTypes /\ AppForked /\ AppWaitedFor /\ AppLoaded

LEMMA AppNumbers == AppMaxChildren \in Nat /\ 0 \in AppProc /\ AppChild \subseteq AppProc
                    /\ 0 \notin AppChild /\ AppNums \subseteq 0 .. AppMaxChildren
BY AppAssumption DEF AppProc, AppChild

LEMMA AppInvInit == AppInit => AppInv
<1> SUFFICES ASSUME AppInit PROVE AppInv
  OBVIOUS
<1>1. AppTypes
  <2>1. appAt \in [AppProc -> AppPlaces]
    BY DEF AppInit, AppPlaces, AppAlive
  <2>2. /\ appConf \in [AppProc -> SUBSET AppFiles]
        /\ appFile \in [AppProc -> AppFiles]
    BY DEF AppInit, AppFiles
  <2>3. appReloaded \in [AppProc -> BOOLEAN]
    BY DEF AppInit
  <2>4. appNum \in Nat /\ appNum <= AppMaxChildren /\ appIdx = 1 /\ appPids = {}
    BY AppNumbers DEF AppInit
  <2> QED BY <2>1, <2>2, <2>3, <2>4 DEF AppTypes
<1>2. AppForked
  BY AppNumbers DEF AppInit, AppForked, AppAlive
<1>3. AppWaitedFor
  BY AppNumbers DEF AppInit, AppWaitedFor
<1>4. AppLoaded
  BY DEF AppInit, AppLoaded, AppAlive
<1> QED BY <1>1, <1>2, <1>3, <1>4 DEF AppInv

(* Process 0 goes to another place and nothing else that counts changes.   *)
LEMMA AppFirstMoves ==
    ASSUME AppInv,
           NEW place \in {"check", "hatch", "reset", "run", "wait", "quit", "gone"},
           AppGoto(0, place), UNCHANGED <<appNum, appPids, AppConfVars>>,
           appIdx' \in Nat, appIdx' > 0,
           appAt[0] \in {"check", "hatch", "reset", "run", "wait", "quit"},
           place = "wait" => appIdx' = 1,
           place \in {"quit", "gone"} => \A i \in appPids : appAt[i] = "gone"
    PROVE  AppInv'
<1>1. /\ appAt'[0] = place
      /\ \A p \in AppProc : p # 0 => appAt'[p] = appAt[p]
      /\ 0 \in AppProc /\ \A i \in AppChild : i \in AppProc /\ i # 0
  BY AppNumbers DEF AppGoto, AppInv, AppTypes
<1>2. AppTypes'
  BY DEF AppGoto, AppInv, AppTypes, AppPlaces, AppConfVars, AppAlive
<1>3. AppForked'
  BY <1>1 DEF AppInv, AppForked, AppTypes
<1>4. AppWaitedFor'
  <2>1. \A i \in appPids : appAt'[i] = appAt[i] /\ i >= 1
    BY <1>1 DEF AppInv, AppTypes, AppChild
  <2> QED BY <1>1, <2>1 DEF AppInv, AppWaitedFor, AppTypes, AppChild
<1>5. AppLoaded'
  BY <1>1 DEF AppInv, AppLoaded, AppAlive, AppConfVars
<1> QED BY <1>2, <1>3, <1>4, <1>5 DEF AppInv

(* A child that was forked goes to another place, alive only if it was.    *)
LEMMA AppChildMoves ==
    ASSUME AppInv, NEW i \in appPids,
           NEW place \in AppAlive \cup {"zombie", "gone"},
           AppGoto(i, place), UNCHANGED <<appNum, appPids, AppConfVars>>,
           appIdx' = appIdx,
           place \in AppAlive => appAt[i] \in AppAlive,
           place # "gone" => appAt[i] # "gone"
    PROVE  AppInv'
<1>1. /\ appAt'[i] = place /\ i \in AppChild /\ i # 0
      /\ \A p \in AppProc : p # i => appAt'[p] = appAt[p]
      /\ 0 \in AppProc /\ \A j \in AppChild : j \in AppProc /\ j # 0
  BY AppNumbers DEF AppGoto, AppInv, AppTypes
<1>2. AppTypes'
  BY DEF AppGoto, AppInv, AppTypes, AppPlaces, AppConfVars
<1>3. AppForked'
  BY <1>1 DEF AppInv, AppForked, AppTypes, AppAlive
<1>4. AppWaitedFor'
  <2>1. \A j \in appPids : appAt[j] = "gone" => appAt'[j] = "gone"
    BY <1>1 DEF AppInv, AppTypes
  <2>2. appAt'[0] = appAt[0]
    BY <1>1
  <2> QED BY <2>1, <2>2 DEF AppInv, AppWaitedFor
<1>5. AppLoaded'
  BY <1>1 DEF AppInv, AppLoaded, AppAlive, AppConfVars
<1> QED BY <1>2, <1>3, <1>4, <1>5 DEF AppInv

LEMMA AppForkInv ==
    ASSUME AppInv, AppFork
    PROVE  AppInv'
<1>1. PICK i \in AppChild :
        /\ i = appIdx /\ i \notin appPids /\ i <= appNum /\ appAt[0] = "hatch"
        /\ appAt' = [appAt EXCEPT ![i] = "born"]
        /\ appPids' = appPids \cup {i}
        /\ appIdx' = i + 1
        /\ appConf' = [appConf EXCEPT ![i] = appConf[0]]
        /\ appFile' = [appFile EXCEPT ![i] = appFile[0]]
        /\ appReloaded' = [appReloaded EXCEPT ![i] = appReloaded[0]]
        /\ UNCHANGED appNum
  <2>1. appIdx \in AppChild
    BY AppNumbers DEF AppFork, AppMore, AppInv, AppTypes, AppChild
  <2> QED BY <2>1 DEF AppFork, AppMore
<1>2. /\ appAt'[i] = "born" /\ i \in AppProc /\ i # 0
      /\ \A p \in AppProc : p # i => appAt'[p] = appAt[p]
      /\ 0 \in AppProc /\ \A j \in AppChild : j \in AppProc /\ j # 0
  BY <1>1, AppNumbers DEF AppInv, AppTypes
<1>3. AppTypes'
  BY <1>1, <1>2 DEF AppInv, AppTypes, AppPlaces, AppAlive, AppChild
<1>4. AppForked'
  BY <1>1, <1>2 DEF AppInv, AppForked, AppTypes, AppAlive
<1>5. AppWaitedFor'
  BY <1>1, <1>2 DEF AppInv, AppWaitedFor
<1>6. AppLoaded'
  <2>1. appConf[0] # {} /\ ("main" \in appConf[0] \/ appReloaded[0])
    BY <1>1, <1>2, Zenon DEF AppInv, AppLoaded
  <2>2. /\ appConf'[i] = appConf[0]
        /\ \A p \in AppProc : p # i => appConf'[p] = appConf[p]
    BY <1>1, <1>2 DEF AppInv, AppTypes
  <2>3. /\ appReloaded'[i] <=> appReloaded[0]
        /\ \A p \in AppProc : p # i => (appReloaded'[p] <=> appReloaded[p])
    BY <1>1, <1>2, Zenon DEF AppInv, AppTypes
  <2>4. ASSUME NEW p \in AppProc, p # i,
               appAt'[p] \in AppAlive \cup {"svr", "check", "hatch", "reset", "wait"}
        PROVE  appConf'[p] # {} /\ ("main" \in appConf'[p] \/ appReloaded'[p])
    BY <1>2, <2>2, <2>3, <2>4, Zenon DEF AppInv, AppLoaded
  <2>5. appConf'[i] # {} /\ ("main" \in appConf'[i] \/ appReloaded'[i])
    BY <2>1, <2>2, <2>3, Zenon
  <2> QED BY <2>4, <2>5, Zenon DEF AppLoaded
<1> QED BY <1>3, <1>4, <1>5, <1>6 DEF AppInv

LEMMA AppReloadInv ==
    ASSUME AppInv, NEW p \in AppProc, AppReload(p)
    PROVE  AppInv'
<1>1. PICK ok \in BOOLEAN :
        /\ appAt[p] \in AppAlive \cup {"check", "hatch", "reset", "wait"}
        /\ AppLoad(p, appFile[p], ok, FALSE)
        /\ appReloaded' = [appReloaded EXCEPT ![p] = @ \/ ok]
        /\ appIdx' = appIdx
        /\ UNCHANGED <<appNum, appAt, appPids, appFile>>
  BY DEF AppReload, AppInterrupted
<1>2. /\ appConf' = [appConf EXCEPT ![p] = appConf'[p]]
      /\ appConf'[p] = IF ok THEN {appFile[p]} ELSE appConf[p]
  <2>1. appConf \in [AppProc -> SUBSET AppFiles]
    BY DEF AppInv, AppTypes
  <2>2. CASE ok
    BY <1>1, <2>1, <2>2 DEF AppLoad
  <2>3. CASE ~ok
    BY <1>1, <2>1, <2>3 DEF AppLoad
  <2> QED BY <2>2, <2>3
<1>3. /\ appReloaded'[p] <=> (appReloaded[p] \/ ok)
      /\ \A q \in AppProc : q # p =>
           (appReloaded'[q] <=> appReloaded[q]) /\ appConf'[q] = appConf[q]
  <2>1. \A q \in AppProc : q # p => appConf'[q] = appConf[q]
    BY <1>2 DEF AppInv, AppTypes
  <2>2. /\ appReloaded'[p] <=> (appReloaded[p] \/ ok)
        /\ \A q \in AppProc : q # p => (appReloaded'[q] <=> appReloaded[q])
    BY <1>1, Zenon DEF AppInv, AppTypes
  <2> QED BY <2>1, <2>2
<1>4. AppTypes'
  <2>1. appReloaded' \in [AppProc -> BOOLEAN]
    BY <1>1, Zenon DEF AppInv, AppTypes
  <2>2. appConf' \in [AppProc -> SUBSET AppFiles]
    BY <1>2 DEF AppInv, AppTypes
  <2> QED BY <1>1, <2>1, <2>2 DEF AppInv, AppTypes
<1>5. AppForked' /\ AppWaitedFor'
  BY <1>1 DEF AppInv, AppForked, AppWaitedFor
<1>6. AppLoaded'
  <2>1. appConf[p] # {} /\ ("main" \in appConf[p] \/ appReloaded[p])
    BY <1>1 DEF AppInv, AppLoaded
  <2>2. appConf'[p] # {} /\ ("main" \in appConf'[p] \/ appReloaded'[p])
    BY <1>2, <1>3, <2>1
  <2>3. ASSUME NEW q \in AppProc, q # p,
               appAt'[q] \in AppAlive \cup {"svr", "check", "hatch", "reset", "wait"}
        PROVE  appConf'[q] # {} /\ ("main" \in appConf'[q] \/ appReloaded'[q])
    BY <1>1, <1>3, <2>3, Zenon DEF AppInv, AppLoaded
  <2> QED BY <2>2, <2>3, Zenon DEF AppLoaded
<1> QED BY <1>4, <1>5, <1>6 DEF AppInv

LEMMA AppStartInv ==
    ASSUME AppInv, AppInitMain \/ AppInitSvr
    PROVE  AppInv'
<1>1. PICK ok \in BOOLEAN, file \in AppFiles, add \in BOOLEAN,
           place \in {"svr", "check", "run", "gone"} :
        /\ appAt[0] \in {"main", "svr"} /\ appAt' = [appAt EXCEPT ![0] = place]
        /\ AppLoad(0, file, ok, add)
        /\ appAt[0] = "main" => file = "main" /\ ~add /\ (ok <=> place = "svr")
        /\ appAt[0] = "main" => place \in {"svr", "gone"}
        /\ appAt[0] = "svr" => add /\ place \in {"check", "run"}
        /\ appFile' \in [AppProc -> AppFiles]
        /\ UNCHANGED <<appNum, appPids, appIdx, appReloaded>>
  <2>1. CASE AppInitMain
    <3>1. PICK ok \in BOOLEAN :
            /\ appAt[0] = "main" /\ AppLoad(0, "main", ok, FALSE)
            /\ appAt' = [appAt EXCEPT ![0] = IF ok THEN "svr" ELSE "gone"]
            /\ UNCHANGED <<appNum, appPids, appIdx, appReloaded, appFile>>
      BY <2>1, Zenon DEF AppInitMain, AppGoto
    <3>2. CASE ok
      BY <3>1, <3>2 DEF AppInv, AppTypes, AppFiles
    <3>3. CASE ~ok
      BY <3>1, <3>3 DEF AppInv, AppTypes, AppFiles
    <3> QED BY <3>2, <3>3
  <2>2. CASE AppInitSvr
    <3>1. PICK ok \in BOOLEAN :
            /\ appAt[0] = "svr" /\ AppLoad(0, "svr", ok, TRUE)
            /\ appFile' = [appFile EXCEPT ![0] = "svr"]
            /\ appAt' = [appAt EXCEPT ![0] = IF appNum > 0 THEN "check" ELSE "run"]
            /\ UNCHANGED <<appNum, appPids, appIdx, appReloaded>>
      BY <2>2, Zenon DEF AppInitSvr, AppGoto
    <3> QED BY <3>1 DEF AppInv, AppTypes, AppFiles
  <2> QED BY <2>1, <2>2
<1>2. /\ appAt'[0] = place /\ 0 \in AppProc /\ place # "wait"
      /\ \A q \in AppProc : q # 0 => appAt'[q] = appAt[q]
      /\ \A j \in AppChild : j \in AppProc /\ j # 0
      /\ appPids = {}
  BY <1>1, AppNumbers DEF AppInv, AppTypes, AppForked
<1>3. /\ appConf' \in [AppProc -> SUBSET AppFiles]
      /\ appConf'[0] = IF ok THEN (IF add THEN appConf[0] \cup {file} ELSE {file})
                             ELSE appConf[0]
      /\ \A q \in AppProc : q # 0 => appConf'[q] = appConf[q]
  <2>1. appConf \in [AppProc -> SUBSET AppFiles] /\ appConf[0] \in SUBSET AppFiles
    BY <1>2 DEF AppInv, AppTypes
  <2>2. CASE ~ok
    BY <1>1, <1>2, <2>1, <2>2 DEF AppLoad
  <2>3. CASE ok /\ add
    BY <1>1, <1>2, <2>1, <2>3 DEF AppLoad
  <2>4. CASE ok /\ ~add
    BY <1>1, <1>2, <2>1, <2>4 DEF AppLoad
  <2> QED BY <2>2, <2>3, <2>4
<1>4. AppTypes'
  BY <1>1, <1>3 DEF AppInv, AppTypes, AppPlaces, AppAlive
<1>5. AppForked'
  BY <1>1, <1>2 DEF AppInv, AppForked
<1>6. AppWaitedFor'
  BY <1>1, <1>2 DEF AppInv, AppWaitedFor
<1>7. AppLoaded'
  <2>1. ASSUME place # "gone"
        PROVE  appConf'[0] # {} /\ ("main" \in appConf'[0] \/ appReloaded'[0])
    <3>1. CASE appAt[0] = "main"
      BY <1>1, <1>3, <2>1, <3>1
    <3>2. CASE appAt[0] = "svr"
      <4>1. appConf[0] # {} /\ ("main" \in appConf[0] \/ appReloaded[0])
        BY <1>2, <3>2 DEF AppInv, AppLoaded
      <4>2. appConf[0] \subseteq appConf'[0]
        BY <1>1, <1>3, <3>2
      <4> QED BY <1>1, <4>1, <4>2
    <3> QED BY <1>1, <3>1, <3>2
  <2>2. ASSUME NEW q \in AppProc, q # 0,
               appAt'[q] \in AppAlive \cup {"svr", "check", "hatch", "reset", "wait"}
        PROVE  appConf'[q] # {} /\ ("main" \in appConf'[q] \/ appReloaded'[q])
    BY <1>1, <1>2, <1>3, <2>2, Zenon DEF AppInv, AppLoaded
  <2>3. place = "gone" => appAt'[0] \notin
          AppAlive \cup {"svr", "check", "hatch", "reset", "wait"}
    BY <1>2 DEF AppAlive
  <2> QED BY <2>1, <2>2, <2>3, Zenon DEF AppLoaded
<1> QED BY <1>4, <1>5, <1>6, <1>7 DEF AppInv

(* parent_quit goes on to the next child only when this one has ended.     *)
LEMMA AppWaitInv ==
    ASSUME AppInv, AppWait
    PROVE  AppInv'
<1>1. /\ appAt[0] = "wait" /\ appIdx' = appIdx + 1 /\ appIdx \in Nat
      /\ UNCHANGED <<appNum, appPids, AppConfVars>>
  BY DEF AppWait, AppInv, AppTypes
<1>2. PICK which \in SUBSET AppChild :
        /\ which = IF appIdx \in appPids THEN {appIdx} ELSE AppChild
        /\ \/ \E i \in which : appAt[i] = "zombie" /\ AppGoto(i, "gone")
           \/ /\ \A i \in which : appAt[i] \in {"none", "gone"}
              /\ UNCHANGED appAt
  <2>1. PICK which \in SUBSET AppChild :
          which = IF appIdx \in appPids THEN {appIdx} ELSE AppChild
    <3>1. (IF appIdx \in appPids THEN {appIdx} ELSE AppChild) \in SUBSET AppChild
      BY DEF AppInv, AppTypes
    <3> QED BY <3>1
  <2>2. \/ \E i \in which : appAt[i] = "zombie" /\ AppGoto(i, "gone")
        \/ /\ \A i \in which : appAt[i] \in {"none", "gone"}
           /\ UNCHANGED appAt
    BY <2>1 DEF AppWait
  <2> QED BY <2>1, <2>2
<1>3. /\ \A i \in appPids : appAt'[i] = appAt[i] \/ appAt'[i] = "gone"
      /\ \A i \in AppChild \ appPids : appAt'[i] = appAt[i]
      /\ appAt'[0] = "wait"
      /\ appAt' \in [AppProc -> AppPlaces]
      /\ appIdx \in appPids => appAt'[appIdx] \in {"none", "gone"}
  <2>1. ASSUME NEW i \in which, appAt[i] = "zombie", AppGoto(i, "gone")
        PROVE  /\ \A j \in appPids : appAt'[j] = appAt[j] \/ appAt'[j] = "gone"
               /\ \A j \in AppChild \ appPids : appAt'[j] = appAt[j]
               /\ appAt'[0] = "wait"
               /\ appAt' \in [AppProc -> AppPlaces]
               /\ appIdx \in appPids => appAt'[appIdx] \in {"none", "gone"}
    <3>1. i \in appPids /\ i \in AppProc /\ i # 0 /\ 0 \in AppProc
      BY <2>1, AppNumbers DEF AppInv, AppForked
    <3>2. /\ appAt'[i] = "gone" /\ appAt' \in [AppProc -> AppPlaces]
          /\ \A q \in AppProc : q # i => appAt'[q] = appAt[q]
      BY <2>1, <3>1 DEF AppGoto, AppInv, AppTypes, AppPlaces
    <3> QED BY <1>1, <1>2, <3>1, <3>2, AppNumbers DEF AppInv, AppTypes
  <2>2. CASE (\A i \in which : appAt[i] \in {"none", "gone"}) /\ UNCHANGED appAt
    BY <1>1, <1>2, <2>2 DEF AppInv, AppTypes
  <2> QED BY <1>2, <2>1, <2>2
<1>4. AppTypes'
  BY <1>1, <1>3 DEF AppInv, AppTypes, AppConfVars
<1>5. AppForked'
  BY <1>1, <1>3 DEF AppInv, AppForked, AppTypes
<1>6. AppWaitedFor'
  <2>1. ASSUME NEW i \in appPids, i < appIdx + 1 PROVE appAt'[i] = "gone"
    <3>1. i \in Nat
      BY DEF AppInv, AppTypes, AppChild
    <3>2. CASE i = appIdx
      <4>1. appAt[i] # "none"
        BY DEF AppInv, AppForked, AppTypes
      <4> QED BY <1>3, <3>2, <4>1
    <3>3. CASE i < appIdx
      BY <1>1, <1>3, <3>3 DEF AppInv, AppWaitedFor
    <3> QED BY <1>1, <2>1, <3>1, <3>2, <3>3
  <2> QED BY <1>1, <1>3, <2>1 DEF AppWaitedFor
<1>7. AppLoaded'
  <2>1. ASSUME NEW p \in AppProc,
               appAt'[p] \in AppAlive \cup {"svr", "check", "hatch", "reset", "wait"}
        PROVE  appAt[p] = appAt'[p]
    <3>1. p = 0 \/ p \in AppChild
      BY DEF AppProc, AppChild
    <3> QED BY <1>1, <1>3, <2>1, <3>1 DEF AppAlive
  <2> QED BY <1>1, <2>1 DEF AppInv, AppLoaded, AppConfVars
<1> QED BY <1>4, <1>5, <1>6, <1>7 DEF AppInv

LEMMA AppInvNext == AppInv /\ AppNext => AppInv'
<1> SUFFICES ASSUME AppInv, AppNext PROVE AppInv'
  OBVIOUS
<1>1. /\ appIdx \in Nat /\ appIdx > 0 /\ appNum \in Nat
      /\ \A i \in appPids : i \in AppChild /\ i <= appNum /\ i \in Nat
      /\ appNum = 0 => appPids = {}
  BY DEF AppInv, AppTypes, AppForked, AppChild
<1>2. CASE AppInitMain \/ AppInitSvr
  BY <1>2, AppStartInv
<1>3. CASE AppInterrupt \/ AppRequest \/ AppServe
  <2>1. UNCHANGED <<appNum, appAt, appPids, appIdx, AppConfVars>>
    BY <1>3, Zenon DEF AppInterrupt, AppRequest, AppServe
  <2> QED BY <2>1 DEF AppInv, AppTypes, AppForked, AppWaitedFor, AppLoaded, AppConfVars
<1>4. CASE AppCheck
  <2>1. PICK place \in {"wait", "hatch"} : AppGoto(0, place)
    BY <1>4 DEF AppCheck
  <2>2. /\ appAt[0] = "check" /\ appIdx' = 1
        /\ UNCHANGED <<appNum, appPids, AppConfVars>>
    BY <1>4 DEF AppCheck
  <2> QED BY <2>1, <2>2, AppFirstMoves
<1>5. CASE AppFork
  BY <1>5, AppForkInv
<1>6. CASE AppNoFork
  <2>1. /\ appAt[0] = "hatch" /\ appIdx' = appIdx + 1
        /\ UNCHANGED <<appNum, appAt, appPids, AppConfVars>>
    BY <1>6 DEF AppNoFork
  <2> QED BY <1>1, <2>1
          DEF AppInv, AppTypes, AppForked, AppWaitedFor, AppLoaded, AppConfVars
<1>7. CASE AppHatched \/ AppReset
  <2>1. PICK place \in {"reset", "run"} : AppGoto(0, place)
    BY <1>7 DEF AppHatched, AppReset
  <2>2. /\ appAt[0] \in {"hatch", "reset"}
        /\ UNCHANGED <<appNum, appPids, appIdx, AppConfVars>>
    BY <1>7 DEF AppHatched, AppReset
  <2> QED BY <1>1, <2>1, <2>2, AppFirstMoves
<1>8. CASE AppLoopEnds
  <2>1. PICK place \in {"check", "quit"} :
          AppGoto(0, place) /\ (place = "quit" => appNum = 0)
    BY <1>1, <1>8 DEF AppLoopEnds
  <2>2. appAt[0] = "run" /\ UNCHANGED <<appNum, appPids, appIdx, AppConfVars>>
    BY <1>8 DEF AppLoopEnds
  <2> QED BY <1>1, <2>1, <2>2, AppFirstMoves
<1>9. CASE AppWait
  BY <1>9, AppWaitInv
<1>10. CASE AppWaited
  <2>1. /\ appAt[0] = "wait" /\ AppGoto(0, "quit") /\ appIdx > appNum
        /\ UNCHANGED <<appNum, appPids, appIdx, AppConfVars>>
    BY <1>1, <1>10 DEF AppWaited, AppMore
  <2>2. \A i \in appPids : i < appIdx
    BY <1>1, <2>1
  <2>3. \A i \in appPids : appAt[i] = "gone"
    BY <2>1, <2>2 DEF AppInv, AppWaitedFor
  <2> QED BY <1>1, <2>1, <2>3, AppFirstMoves
<1>11. CASE AppQuitApp
  <2>1. /\ appAt[0] = "quit" /\ AppGoto(0, "gone")
        /\ UNCHANGED <<appNum, appPids, appIdx, AppConfVars>>
    BY <1>11 DEF AppQuitApp
  <2>2. \A i \in appPids : appAt[i] = "gone"
    BY <2>1 DEF AppInv, AppWaitedFor
  <2> QED BY <1>1, <2>1, <2>2, AppFirstMoves
<1>12. ASSUME NEW p \in AppProc, AppReload(p) PROVE AppInv'
  BY <1>12, AppReloadInv
<1>13. ASSUME NEW i \in AppChild, AppInterruptChild(i) PROVE AppInv'
  <2>1. UNCHANGED <<appNum, appAt, appPids, appIdx, AppConfVars>>
    BY <1>13, Zenon DEF AppInterruptChild
  <2> QED BY <2>1 DEF AppInv, AppTypes, AppForked, AppWaitedFor, AppLoaded, AppConfVars
<1>14. ASSUME NEW i \in AppChild,
              \/ AppChildReset(i) \/ AppChildMain(i) \/ AppChildLoopEnds(i)
              \/ AppChildEnds(i)
       PROVE  AppInv'
  <2>1. PICK place \in AppAlive \cup {"zombie", "gone"} : AppGoto(i, place)
    BY <1>14 DEF AppChildReset, AppChildMain, AppChildLoopEnds, AppChildEnds, AppAlive
  <2>2. /\ appAt[i] \in AppAlive
        /\ UNCHANGED <<appNum, appPids, appIdx, AppConfVars>>
    BY <1>14, Zenon
       DEF AppChildReset, AppChildMain, AppChildLoopEnds, AppChildEnds, AppAlive
  <2>3. appAt[i] \notin {"none", "gone"}
    BY <2>2 DEF AppAlive
  <2>4. i \in appPids
    BY <2>3 DEF AppInv, AppForked
  <2> QED BY <2>1, <2>2, <2>3, <2>4, AppChildMoves
<1> QED BY <1>2, <1>3, <1>4, <1>5, <1>6, <1>7, <1>8, <1>9, <1>10, <1>11, <1>12, <1>13,
           <1>14 DEF AppNext

LEMMA AppAlwaysInv == AppSpec => []AppInv
<1>1. AppInv /\ [AppNext]_appVars => AppInv'
  <2> SUFFICES ASSUME AppInv, UNCHANGED appVars PROVE AppInv'
    BY AppInvNext
  <2> QED BY DEF appVars, AppInv, AppTypes, AppForked, AppWaitedFor, AppLoaded
<1> QED BY <1>1, AppInvInit, PTL DEF AppSpec

(* The index of the loops goes one past the children there may be.         *)
AppFlags ==
    /\ appNum \in AppNums
    /\ appIdx \in 1 .. AppMaxChildren + 1
    /\ {appQuit, appReap, appQueued} \subseteq BOOLEAN
    /\ appDone \in [AppProc -> BOOLEAN]

LEMMA AppFlagsNext ==
    ASSUME AppInv, AppFlags, AppNext
    PROVE  AppFlags'
<1>1. /\ AppMaxChildren \in Nat /\ appNum \in Nat /\ appNum <= AppMaxChildren
      /\ appIdx \in 1 .. AppMaxChildren + 1
      /\ 0 \in AppProc /\ AppChild \subseteq AppProc
  BY AppNumbers DEF AppInv, AppTypes, AppFlags
<1>2. AppMore => appIdx + 1 \in 1 .. AppMaxChildren + 1 /\ appIdx \in AppProc
  BY <1>1 DEF AppMore, AppProc
<1>3. 1 \in 1 .. AppMaxChildren + 1
  BY <1>1
<1>4. appNum' = appNum
  BY Zenon DEF AppNext, AppInitMain, AppInitSvr, AppInterrupt, AppCheck, AppFork, AppNoFork,
     AppHatched, AppReset, AppRequest, AppServe, AppLoopEnds, AppWait, AppWaited,
     AppQuitApp, AppReload, AppInterruptChild, AppChildReset, AppChildMain,
     AppChildLoopEnds, AppChildEnds
<1>5. appIdx' \in {appIdx, 1} \/ (AppMore /\ appIdx' = appIdx + 1)
  BY Zenon DEF AppNext, AppInitMain, AppInitSvr, AppInterrupt, AppCheck, AppFork, AppNoFork,
     AppHatched, AppReset, AppRequest, AppServe, AppLoopEnds, AppWait, AppWaited,
     AppQuitApp, AppReload, AppInterrupted, AppInterruptChild, AppChildReset, AppChildMain,
     AppChildLoopEnds, AppChildEnds
<1>6. {appQuit', appReap', appQueued'} \subseteq BOOLEAN
  BY DEF AppFlags, AppNext, AppInitMain, AppInitSvr, AppInterrupt, AppCheck,
     AppFork, AppNoFork, AppHatched, AppReset, AppRequest, AppServe, AppLoopEnds, AppWait, AppWaited,
     AppQuitApp, AppReload, AppInterruptChild, AppChildReset, AppChildMain,
     AppChildLoopEnds, AppChildEnds
<1>7. \/ appDone' = appDone
      \/ \E p \in AppProc, b \in BOOLEAN : appDone' = [appDone EXCEPT ![p] = b]
  BY <1>1, <1>2 DEF AppFlags, AppNext, AppInitMain, AppInitSvr, AppInterrupt,
     AppCheck, AppFork, AppNoFork, AppHatched, AppReset, AppRequest, AppServe, AppLoopEnds, AppWait, AppWaited,
     AppQuitApp, AppReload, AppInterruptChild, AppChildReset, AppChildMain,
     AppChildLoopEnds, AppChildEnds
<1>8. appDone' \in [AppProc -> BOOLEAN]
  BY <1>7 DEF AppFlags
<1> QED BY <1>1, <1>2, <1>3, <1>4, <1>5, <1>6, <1>8 DEF AppFlags

LEMMA AppAlwaysTypeOK == AppSpec => []AppTypeOK
<1>1. AppInit => AppFlags
  <2>1. 1 \in 1 .. AppMaxChildren + 1
    BY AppNumbers
  <2> QED BY <2>1 DEF AppInit, AppFlags
<1>2. AppInv /\ AppFlags /\ [AppNext]_appVars => AppFlags'
  BY AppFlagsNext DEF appVars, AppFlags
<1>3. AppInv /\ AppFlags => AppTypeOK
  BY DEF AppInv, AppTypes, AppFlags, AppTypeOK
<1> QED BY <1>1, <1>2, <1>3, AppAlwaysInv, PTL DEF AppSpec

(* Whatever the number of children: process 0 does not end before all of   *)
(* them have, whichever could not be forked and whichever signals          *)
(* interrupt it (ace_app.cpp:533-552).                                     *)
THEOREM NoChildOutlives == AppSpec => []AppNoOrphan
<1>1. AppInv => AppNoOrphan
  BY Zenon DEF AppInv, AppForked, AppWaitedFor, AppNoOrphan
<1> QED BY <1>1, AppAlwaysInv, PTL

(* Every process keeps a configuration, that of <program>.ini until a      *)
(* reload succeeds, whichever files fail to load (ace_conf.cpp:39, :119;   *)
(* isgw_sighdl.cpp:68).                                                    *)
THEOREM ProcessesConfigured == AppSpec => []AppConfigured
<1>1. AppInv => AppConfigured
  BY DEF AppInv, AppLoaded, AppConfigured
<1> QED BY <1>1, AppAlwaysInv, PTL

-----------------------------------------------------------------------------
(* PlatDbAccess: the invariant.                                            *)

DbRets == {0, DbErrno, DbLost}
DbRuns ==
    [kind : DbKinds, try : {1, 2}, at : 0 .. DbStatements, ret : DbRets,
     rows : 0 .. 2 * DbStatements, done : 0 .. 2, lost : BOOLEAN,
     hidden : BOOLEAN]

(* A call in its tries.  The rows of a second try come on top of those of  *)
(* the first; a transaction, or a multiple query, has not been executed as *)
(* a whole before its end, another call only if that answer was lost.      *)
DbTried(run) ==
    /\ run.try = 1 => run.rows = run.at
    /\ run.try = 2 => run.at <= run.rows /\ run.rows <= run.at + DbStatements
    /\ run.done <= run.try - 1
    /\ run.done > 0 => run.lost
    /\ run.kind \in {"trans", "multi"} => run.done = 0
    /\ ~run.hidden

(* A call about to delete its connection.                                  *)
DbGivenUp(run) ==
    /\ run.ret = DbLost
    /\ run.done > 0 => run.lost
    /\ run.kind \in {"trans", "multi"} => run.done = 0

(* What DbOutcome says of a call that returns ret.                         *)
DbEnded(run, ret) ==
    /\ run.kind = "trans" =>
         /\ run.done <= 1
         /\ ret = 0 => (run.done = 1 <=> run.rows > 0)
    /\ run.kind = "update" =>
         /\ ret = 0 => run.done >= 1
         /\ run.done = 2 => run.lost
    /\ ret # 0 /\ run.done > 0 => run.lost
    /\ run.kind = "multi" /\ ret = 0 /\ ~run.hidden =>
         /\ run.rows >= DbStatements
         /\ run.rows > DbStatements => run.try = 2

DbCallOK(run, place) ==
    /\ place \in {"get", "run", "statement", "results"} => DbTried(run)
    /\ place \in {"get", "run"} => run.at = 0
    /\ place = "get" => run.try = 1 /\ run.done = 0
    /\ place = "results" => run.kind = "multi" /\ run.at < DbStatements
    /\ place = "fini" => DbGivenUp(run)
    /\ place = "done" => DbEnded(run, run.ret)

DbCalls == \A t \in DbThreads : DbCallOK(dbRun[t], dbPc[t])

DbInv == DbTypeOK /\ DbCalls /\ DbPoolSound

LEMMA DbNumbers ==
    /\ DbConnNums \in Nat /\ DbConnNums > 0 /\ 0 \in DbIndex
    /\ DbMaxFails \in Nat /\ DbStatements \in Nat /\ DbStatements > 0
BY PlatDbAccessAssumption DEF DbIndex

(* What is the same after a step as before, or may have changed: the       *)
(* connections, of which none has results left unless dbMixed says so.     *)
DbConnsGo ==
    /\ dbConn' \in [DbIndex -> DbStates]
    /\ \A i \in DbIndex : dbConn'[i] = "unread" => dbMixed'
    /\ dbMixed' \in BOOLEAN
    /\ dbFails' \in 0 .. DbMaxFails + 1
    /\ dbRecent' \in BOOLEAN
    /\ dbAt' = dbAt

(* The step of one call that holds its connection afterwards, or has given *)
(* it back and cleared its flag.                                           *)
LEMMA DbStep ==
    ASSUME DbInv, NEW t \in DbThreads, NEW run \in DbRuns,
           NEW place \in {"done"} \cup DbInCall,
           dbPc' = [dbPc EXCEPT ![t] = place],
           dbRun' = [dbRun EXCEPT ![t] = run],
           DbConnsGo,
           IF place = "done" THEN dbFlag' = [dbFlag EXCEPT ![dbAt[t]] = 0]
           ELSE dbFlag' = dbFlag \/ dbFlag' = [dbFlag EXCEPT ![dbAt[t]] = 1],
           DbCallOK(run, place)
    PROVE  DbInv'
<1>1. DbTypeOK'
  <2>1. /\ dbPc' \in [DbThreads -> {"idle", "lock", "done"} \cup DbInCall]
        /\ dbRun' \in [DbThreads -> DbRuns]
    BY DEF DbInv, DbTypeOK, DbInCall, DbRuns, DbRets
  <2>2. dbFlag' \in [DbIndex -> {0, 1}]
    BY DEF DbInv, DbTypeOK
  <2> QED BY <2>1, <2>2 DEF DbInv, DbTypeOK, DbConnsGo, DbRuns, DbRets
<1>2. /\ dbPc'[t] = place /\ dbRun'[t] = run
      /\ \A u \in DbThreads : u # t => dbPc'[u] = dbPc[u] /\ dbRun'[u] = dbRun[u]
      /\ dbAt' = dbAt /\ dbAt[t] \in DbIndex
  BY DEF DbInv, DbTypeOK, DbConnsGo
<1>3. DbCalls'
  <2>1. \A u \in DbThreads : DbCallOK(dbRun'[u], dbPc'[u])
    BY <1>2 DEF DbInv, DbCalls
  <2> QED BY <2>1 DEF DbCalls
<1>4. DbPoolSound'
  <2>1. ASSUME NEW i \in DbIndex, dbFlag'[i] = 1
        PROVE  \E u \in DbThreads : dbAt'[u] = i /\ dbPc'[u] \in DbInCall
    <3>1. CASE i = dbAt[t]
      <4>1. place # "done"
        BY <2>1, <3>1, <1>2 DEF DbInv, DbTypeOK
      <4> QED BY <1>2, <3>1, <4>1
    <3>2. CASE i # dbAt[t]
      <4>1. dbFlag[i] = 1
        BY <2>1, <3>2, <1>2 DEF DbInv, DbTypeOK
      <4> QED BY <1>2, <3>2, <4>1 DEF DbInv, DbPoolSound, DbHolds
    <3> QED BY <3>1, <3>2
  <2>2. \A i \in DbIndex : dbConn'[i] = "unread" => dbMixed'
    BY DEF DbConnsGo
  <2> QED BY <2>1, <2>2, Zenon DEF DbPoolSound, DbHolds
<1> QED BY <1>1, <1>3, <1>4 DEF DbInv

LEMMA DbReturnsInv ==
    ASSUME DbInv, NEW t \in DbThreads, NEW run \in DbRuns, NEW ret \in DbRets,
           DbReturns(t, run, ret), DbConnsGo, DbEnded(run, ret)
    PROVE  DbInv'
<1>1. [run EXCEPT !.ret = ret] \in DbRuns
  BY DEF DbRuns
<1>2. PICK next \in DbRuns :
        /\ next = [run EXCEPT !.ret = ret] /\ next.ret = ret /\ next.kind = run.kind
        /\ next.done = run.done /\ next.rows = run.rows /\ next.lost = run.lost
        /\ next.hidden = run.hidden /\ next.try = run.try
  BY <1>1 DEF DbRuns
<1>3. DbEnded(next, next.ret)
  BY <1>2 DEF DbEnded
<1>4. DbCallOK(next, "done")
  BY <1>3 DEF DbCallOK
<1>5. /\ dbPc' = [dbPc EXCEPT ![t] = "done"] /\ dbRun' = [dbRun EXCEPT ![t] = next]
      /\ dbFlag' = [dbFlag EXCEPT ![dbAt[t]] = 0]
  BY <1>2 DEF DbReturns, DbGoto, DbRunBecomes
<1> QED BY <1>4, <1>5, DbStep

(* A try that lost the connection.                                         *)
LEMMA DbFails ==
    ASSUME DbInv, NEW t \in DbThreads, NEW old \in DbRuns, NEW run \in DbRuns,
           DbTried(old), run.kind = old.kind, run.try = old.try,
           run.at = old.at, run.rows = old.rows, run.hidden = old.hidden,
           run.done <= run.try, run.done > 0 => run.lost,
           run.kind \in {"trans", "multi"} => run.done = 0,
           DbTryFails(t, run), DbConnsGo
    PROVE  DbInv'
<1>1. DbStatements \in Nat
  BY DbNumbers
<1>2. CASE run.try = 1
  <2>1. [run EXCEPT !.try = 2, !.at = 0] \in DbRuns
    <3>1. 0 \in 0 .. DbStatements
      BY <1>1
    <3> QED BY <3>1 DEF DbRuns
  <2>2. PICK next \in DbRuns :
          /\ next = [run EXCEPT !.try = 2, !.at = 0]
          /\ next.try = 2 /\ next.at = 0 /\ next.kind = run.kind
          /\ next.done = run.done /\ next.rows = run.rows
          /\ next.lost = run.lost /\ next.hidden = run.hidden
    BY <2>1 DEF DbRuns
  <2>3. DbTried(next)
    <3>1. run.rows <= DbStatements /\ run.rows >= 0
      BY <1>1, <1>2 DEF DbTried, DbRuns
    <3> QED BY <1>1, <1>2, <2>2, <3>1 DEF DbTried, DbRuns
  <2>4. DbCallOK(next, "run")
    BY <2>2, <2>3 DEF DbCallOK
  <2>5. /\ dbPc' = [dbPc EXCEPT ![t] = "run"] /\ dbRun' = [dbRun EXCEPT ![t] = next]
        /\ dbFlag' = dbFlag
    BY <1>2, <2>2 DEF DbTryFails, DbGoto, DbRunBecomes
  <2> QED BY <2>4, <2>5, DbStep DEF DbInCall
<1>3. CASE run.try # 1
  <2>1. [run EXCEPT !.ret = DbLost] \in DbRuns
    BY DEF DbRuns, DbRets
  <2>2. PICK next \in DbRuns :
          /\ next = [run EXCEPT !.ret = DbLost]
          /\ next.ret = DbLost /\ next.kind = run.kind
          /\ next.done = run.done /\ next.lost = run.lost
    BY <2>1 DEF DbRuns
  <2>3. DbGivenUp(next)
    BY <2>2 DEF DbGivenUp
  <2>4. DbCallOK(next, "fini")
    BY <2>3 DEF DbCallOK
  <2>5. /\ dbPc' = [dbPc EXCEPT ![t] = "fini"] /\ dbRun' = [dbRun EXCEPT ![t] = next]
        /\ dbFlag' = dbFlag
    BY <1>3, <2>2 DEF DbTryFails, DbGoto, DbRunBecomes
  <2> QED BY <2>4, <2>5, DbStep DEF DbInCall
<1> QED BY <1>2, <1>3

(* What a command comes to: it is executed if it is answered without an    *)
(* error, and has unread results only on a connection that has.            *)
LEMMA DbOutcomeFacts ==
    ASSUME NEW state \in DbStates, NEW o \in DbOutcomes(state)
    PROVE  /\ o.executed \in BOOLEAN /\ o.error \in BOOLEAN
           /\ o.state \in {"up", "dead", "unread"}
           /\ ~(o.executed /\ o.error)
           /\ o.state # "dead" /\ ~o.error => o.executed /\ o.state = "up"
           /\ o.executed /\ o.state # "dead" => o.state = "up"
           /\ o.state = "unread" => state = "unread"
<1>1. CASE state = "up"
  <2>1. \/ o \in [executed : {TRUE}, error : {FALSE}, state : {"up", "dead"}]
        \/ o \in [executed : {FALSE}, error : {TRUE}, state : {"up"}]
        \/ o \in [executed : {FALSE}, error : {FALSE}, state : {"dead"}]
    BY <1>1 DEF DbOutcomes
  <2>2. \/ o.executed = TRUE /\ o.error = FALSE /\ o.state \in {"up", "dead"}
        \/ o.executed = FALSE /\ o.error = TRUE /\ o.state = "up"
        \/ o.executed = FALSE /\ o.error = FALSE /\ o.state = "dead"
    BY <2>1
  <2> QED BY <2>2
<1>2. CASE state = "unread"
  <2>1. o = [executed |-> FALSE, error |-> TRUE, state |-> "unread"]
    BY <1>2 DEF DbOutcomes
  <2>2. o.executed = FALSE /\ o.error = TRUE /\ o.state = "unread"
    BY <2>1
  <2> QED BY <1>2, <2>2
<1>3. CASE state # "up" /\ state # "unread"
  <2>1. o = [executed |-> FALSE, error |-> FALSE, state |-> "dead"]
    BY <1>3 DEF DbOutcomes
  <2>2. o.executed = FALSE /\ o.error = FALSE /\ o.state = "dead"
    BY <2>1
  <2> QED BY <2>2
<1> QED BY <1>1, <1>2, <1>3

LEMMA DbExecutedFacts ==
    ASSUME NEW run \in DbRuns, run.done <= 1, NEW o,
           o.executed \in BOOLEAN
    PROVE  /\ DbExecuted(run, o) \in DbRuns
           /\ \E next \in DbRuns :
                /\ next = DbExecuted(run, o)
                /\ next.kind = run.kind /\ next.try = run.try /\ next.at = run.at
                /\ next.rows = run.rows /\ next.hidden = run.hidden
                /\ next.done = IF o.executed THEN run.done + 1 ELSE run.done
                /\ next.lost <=> (run.lost \/ (o.executed /\ o.state = "dead"))
<1>1. CASE o.executed
  <2>1. run.done + 1 \in 0 .. 2
    BY DEF DbRuns
  <2>2. PICK lost \in BOOLEAN : lost = (run.lost \/ o.state = "dead")
    OBVIOUS
  <2>3. DbExecuted(run, o) = [run EXCEPT !.done = run.done + 1, !.lost = lost]
    BY <1>1, <2>2, Zenon DEF DbExecuted
  <2>4. [run EXCEPT !.done = run.done + 1, !.lost = lost] \in DbRuns
    BY <2>1 DEF DbRuns
  <2>5. PICK next \in DbRuns :
          /\ next = [run EXCEPT !.done = run.done + 1, !.lost = lost]
          /\ next.kind = run.kind /\ next.try = run.try /\ next.at = run.at
          /\ next.rows = run.rows /\ next.hidden = run.hidden
          /\ next.done = run.done + 1 /\ next.lost = lost
    BY <2>4 DEF DbRuns
  <2>6. next.lost <=> (run.lost \/ (o.executed /\ o.state = "dead"))
    BY <1>1, <2>2, <2>5, Zenon
  <2> QED BY <1>1, <2>3, <2>5, <2>6
<1>2. CASE ~o.executed
  <2>1. DbExecuted(run, o) = run
    BY <1>2 DEF DbExecuted
  <2> QED BY <1>2, <2>1
<1> QED BY <1>1, <1>2

(* DbConnBecomes and the rest of DbConnsGo, for a connection that has no   *)
(* results left unless it had them or dbMixed' says so.                    *)
LEMMA DbConnBecomesGo ==
    ASSUME DbInv, NEW t \in DbThreads, NEW state \in DbStates,
           DbConnBecomes(t, state),
           state = "unread" => dbConn[dbAt[t]] = "unread" \/ dbMixed',
           UNCHANGED <<dbAt, dbMixed>> \/ (dbMixed' /\ dbMixed' \in BOOLEAN
                                             /\ UNCHANGED dbAt),
           dbFails' \in 0 .. DbMaxFails + 1, dbRecent' \in BOOLEAN
    PROVE  DbConnsGo
<1>1. dbAt[t] \in DbIndex /\ dbConn \in [DbIndex -> DbStates] /\ dbMixed \in BOOLEAN
  BY DEF DbInv, DbTypeOK
<1>2. dbMixed => dbMixed'
  OBVIOUS
<1>3. dbMixed' \in BOOLEAN
  BY <1>1, Zenon
<1>4. dbConn' \in [DbIndex -> DbStates]
  BY <1>1 DEF DbConnBecomes
<1>5. ASSUME NEW i \in DbIndex, dbConn'[i] = "unread"
      PROVE  dbConn[i] = "unread" \/ dbMixed'
  BY <1>1, <1>5 DEF DbConnBecomes
<1>6. \A i \in DbIndex : dbConn[i] = "unread" => dbMixed
  BY DEF DbInv, DbPoolSound
<1>7. \A i \in DbIndex : dbConn'[i] = "unread" => dbMixed'
  BY <1>2, <1>5, <1>6, Zenon
<1>8. dbAt' = dbAt
  OBVIOUS
<1> QED BY <1>3, <1>4, <1>7, <1>8, Zenon DEF DbConnsGo

LEMMA DbConnsStay ==
    ASSUME DbInv, UNCHANGED <<dbAt, dbConn, dbFails, dbRecent>>,
           UNCHANGED dbMixed \/ dbMixed' = TRUE
    PROVE  DbConnsGo
<1>1. /\ dbConn \in [DbIndex -> DbStates] /\ dbMixed \in BOOLEAN
      /\ dbFails \in 0 .. DbMaxFails + 1 /\ dbRecent \in BOOLEAN
  BY DEF DbInv, DbTypeOK
<1>2. \A i \in DbIndex : dbConn[i] = "unread" => dbMixed
  BY DEF DbInv, DbPoolSound
<1>3. dbMixed' \in BOOLEAN /\ (dbMixed => dbMixed')
  BY <1>1, Zenon
<1> QED BY <1>1, <1>2, <1>3, Zenon DEF DbConnsGo

(* A call in one of its tries: its connection, its run.                    *)
LEMMA DbTrying ==
    ASSUME DbInv, NEW t \in DbThreads,
           dbPc[t] \in {"get", "run", "statement", "results"}
    PROVE  /\ dbRun[t] \in DbRuns /\ dbAt[t] \in DbIndex
           /\ dbConn[dbAt[t]] \in DbStates
           /\ DbTried(dbRun[t]) /\ dbRun[t].done <= 1
           /\ DbCallOK(dbRun[t], dbPc[t])
<1>1. dbRun[t] \in DbRuns /\ dbAt[t] \in DbIndex /\ dbConn[dbAt[t]] \in DbStates
  BY DEF DbInv, DbTypeOK, DbRuns, DbRets
<1>2. DbCallOK(dbRun[t], dbPc[t])
  BY DEF DbInv, DbCalls
<1>3. DbTried(dbRun[t])
  BY <1>2 DEF DbCallOK
<1>4. dbRun[t].done <= 1
  BY <1>1, <1>3 DEF DbTried, DbRuns
<1> QED BY <1>1, <1>2, <1>3, <1>4

LEMMA DbBeginInv ==
    ASSUME DbInv, NEW t \in DbThreads, NEW kind \in DbKinds, DbBeginCall(t, kind)
    PROVE  DbInv'
<1>1. DbStatements \in Nat
  BY DbNumbers
<1>2. NoRun \in DbRuns
  <2>1. 0 \in 0 .. DbStatements /\ 0 \in 0 .. 2 * DbStatements
    BY <1>1
  <2> QED BY <2>1 DEF NoRun, DbRuns, DbKinds, DbRets
<1>3. PICK none \in DbRuns :
        /\ none = NoRun /\ none.try = 1 /\ none.at = 0 /\ none.rows = 0
        /\ none.done = 0 /\ none.hidden = FALSE
  <2>1. /\ NoRun.try = 1 /\ NoRun.at = 0 /\ NoRun.rows = 0
        /\ NoRun.done = 0 /\ NoRun.hidden = FALSE
    BY DEF NoRun
  <2> QED BY <1>2, <2>1
<1>4. [none EXCEPT !.kind = kind] \in DbRuns
  BY DEF DbRuns
<1>5. PICK run \in DbRuns :
        /\ run = [none EXCEPT !.kind = kind] /\ run.try = 1 /\ run.at = 0
        /\ run.rows = 0 /\ run.done = 0 /\ run.hidden = FALSE
  BY <1>3, <1>4 DEF DbRuns
<1>6. DbCallOK(run, "get")
  BY <1>5 DEF DbCallOK, DbTried
<1>7. /\ dbPc' = [dbPc EXCEPT ![t] = "get"] /\ dbRun' = [dbRun EXCEPT ![t] = run]
      /\ dbFlag' = [dbFlag EXCEPT ![dbAt[t]] = 1]
      /\ UNCHANGED <<dbAt, dbConn, dbFails, dbRecent, dbMixed>>
  BY <1>3, <1>5 DEF DbBeginCall, DbGoto, DbRunBecomes
<1>8. DbConnsGo
  BY <1>7, DbConnsStay
<1> QED BY <1>6, <1>7, <1>8, DbStep DEF DbInCall

LEMMA DbGetInv ==
    ASSUME DbInv, NEW t \in DbThreads,
           DbGetNone(t) \/ DbGetConn(t) \/ DbNotConnected(t)
    PROVE  DbInv'
<1>1. dbPc[t] = "get"
  BY DEF DbGetNone, DbGetConn, DbNotConnected
<1>2. PICK run \in DbRuns :
        /\ run = dbRun[t] /\ DbTried(run) /\ run.at = 0 /\ run.done = 0
        /\ dbAt[t] \in DbIndex /\ dbConn[dbAt[t]] \in DbStates
  BY <1>1, DbTrying DEF DbCallOK
<1>3. dbFails \in 0 .. DbMaxFails + 1 /\ 0 \in 0 .. DbMaxFails + 1
      /\ dbRecent \in BOOLEAN
  BY DbNumbers DEF DbInv, DbTypeOK
<1>4. CASE DbGetNone(t)
  <2>1. DbReturns(t, run, DbLost) /\ DbConnsGo
    BY <1>2, <1>4, DbConnsStay DEF DbGetNone
  <2>2. DbEnded(run, DbLost)
    BY <1>2 DEF DbEnded, DbLost
  <2> QED BY <2>1, <2>2, DbReturnsInv DEF DbRets
<1>5. CASE DbGetConn(t)
  <2>1. PICK state \in DbStates :
          state = IF dbConn[dbAt[t]] = "null" THEN "up" ELSE dbConn[dbAt[t]]
    BY <1>2 DEF DbStates
  <2>2. /\ DbConnBecomes(t, state) /\ dbFails' = 0
        /\ dbPc' = [dbPc EXCEPT ![t] = "run"]
        /\ UNCHANGED <<dbAt, dbRun, dbFlag, dbRecent, dbMixed>>
    BY <1>5, <2>1 DEF DbGetConn, DbGoto
  <2>3. DbConnsGo
    BY <1>3, <2>1, <2>2, DbConnBecomesGo
  <2>4. dbRun' = [dbRun EXCEPT ![t] = run]
    BY <1>2, <2>2 DEF DbInv, DbTypeOK
  <2>5. DbCallOK(run, "run")
    BY <1>2 DEF DbCallOK
  <2> QED BY <2>2, <2>3, <2>4, <2>5, DbStep DEF DbInCall
<1>6. CASE DbNotConnected(t)
  <2>1. [run EXCEPT !.ret = DbLost] \in DbRuns
    BY DEF DbRuns, DbRets
  <2>2. PICK next \in DbRuns :
          /\ next = [run EXCEPT !.ret = DbLost] /\ next.ret = DbLost /\ next.done = 0
    BY <1>2, <2>1 DEF DbRuns
  <2>3. /\ DbConnBecomes(t, "down") /\ dbRun' = [dbRun EXCEPT ![t] = next]
        /\ dbPc' = [dbPc EXCEPT ![t] = "fini"]
        /\ UNCHANGED <<dbAt, dbFlag, dbFails, dbRecent, dbMixed>>
    BY <1>2, <1>6, <2>2 DEF DbNotConnected, DbGoto, DbRunBecomes
  <2>4. DbConnsGo
    BY <1>3, <2>3, DbConnBecomesGo DEF DbStates
  <2>5. DbCallOK(next, "fini")
    BY <2>2 DEF DbCallOK, DbGivenUp
  <2> QED BY <2>3, <2>4, <2>5, DbStep DEF DbInCall
<1> QED BY <1>4, <1>5, <1>6

LEMMA DbReconnectInv ==
    ASSUME DbInv, NEW t \in DbThreads, DbReconnect(t)
    PROVE  DbInv'
<1>1. /\ dbPc[t] = "run" /\ UNCHANGED <<dbAt, dbFails, dbRecent, dbMixed>>
      /\ dbFails \in 0 .. DbMaxFails + 1 /\ dbRecent \in BOOLEAN
  BY DEF DbReconnect, DbInv, DbTypeOK
<1>2. PICK run \in DbRuns : run = dbRun[t] /\ DbTried(run) /\ DbCallOK(run, "run")
  BY <1>1, DbTrying
<1>3. CASE DbConnBecomes(t, "up") /\ UNCHANGED <<dbRun, dbPc, dbFlag>>
  <2>1. DbConnsGo
    BY <1>1, <1>3, DbConnBecomesGo DEF DbStates
  <2>2. dbPc' = [dbPc EXCEPT ![t] = "run"] /\ dbRun' = [dbRun EXCEPT ![t] = run]
    BY <1>1, <1>2, <1>3 DEF DbInv, DbTypeOK
  <2> QED BY <1>2, <1>3, <2>1, <2>2, DbStep DEF DbInCall
<1>4. CASE DbTryFails(t, dbRun[t]) /\ UNCHANGED dbConn
  <2>1. DbConnsGo
    BY <1>1, <1>4, DbConnsStay
  <2>2. run.done <= run.try
    BY <1>2 DEF DbTried, DbRuns
  <2> QED BY <1>2, <1>4, <2>1, <2>2, DbFails DEF DbTried
<1> QED BY <1>3, <1>4 DEF DbReconnect

(* A command of a call: what it comes to, the run afterwards.              *)
LEMMA DbCommandFacts ==
    ASSUME DbInv, NEW t \in DbThreads, NEW place \in {"run", "statement"},
           NEW kinds, NEW o, DbCommand(t, place, kinds, o)
    PROVE  /\ dbPc[t] = place /\ dbRun[t] \in DbRuns /\ dbRun[t].kind \in kinds
           /\ DbTried(dbRun[t]) /\ dbRun[t].done <= 1
           /\ DbCallOK(dbRun[t], place)
           /\ dbAt[t] \in DbIndex /\ UNCHANGED <<dbAt, dbFails, dbRecent>>
           /\ o.executed \in BOOLEAN /\ o.error \in BOOLEAN
           /\ o.state \in {"up", "dead", "unread"}
           /\ ~(o.executed /\ o.error)
           /\ o.state # "dead" /\ ~o.error => o.executed /\ o.state = "up"
           /\ o.executed /\ o.state # "dead" => o.state = "up"
           /\ o.state = "unread" => dbConn[dbAt[t]] = "unread"
           /\ dbFails \in 0 .. DbMaxFails + 1 /\ dbRecent \in BOOLEAN
<1>1. /\ dbPc[t] = place /\ dbRun[t].kind \in kinds
      /\ o \in DbOutcomes(dbConn[dbAt[t]])
      /\ UNCHANGED <<dbAt, dbFails, dbRecent>>
  BY DEF DbCommand
<1>2. /\ dbRun[t] \in DbRuns /\ dbAt[t] \in DbIndex /\ dbConn[dbAt[t]] \in DbStates
      /\ DbTried(dbRun[t]) /\ dbRun[t].done <= 1 /\ DbCallOK(dbRun[t], place)
  BY <1>1, DbTrying
<1>3. PICK state \in DbStates : state = dbConn[dbAt[t]]
  BY <1>2
<1>4. o \in DbOutcomes(state)
  BY <1>1, <1>3
<1>5. dbFails \in 0 .. DbMaxFails + 1 /\ dbRecent \in BOOLEAN
  BY DEF DbInv, DbTypeOK
<1> QED BY <1>1, <1>2, <1>3, <1>4, <1>5, DbOutcomeFacts

(* The run after a command that did, or did not, execute.                  *)
LEMMA DbAfter ==
    ASSUME NEW old \in DbRuns, DbTried(old), NEW o, o.executed \in BOOLEAN
    PROVE  \E run \in DbRuns :
             /\ run = DbExecuted(old, o)
             /\ run.kind = old.kind /\ run.try = old.try /\ run.at = old.at
             /\ run.rows = old.rows /\ run.hidden = old.hidden
             /\ run.done = IF o.executed THEN old.done + 1 ELSE old.done
             /\ run.lost <=> (old.lost \/ (o.executed /\ o.state = "dead"))
             /\ old.done <= 1 /\ run.done <= run.try
<1>1. old.done <= 1 /\ old.done <= old.try - 1
  BY DEF DbTried, DbRuns
<1>2. PICK run \in DbRuns :
        /\ run = DbExecuted(old, o)
        /\ run.kind = old.kind /\ run.try = old.try /\ run.at = old.at
        /\ run.rows = old.rows /\ run.hidden = old.hidden
        /\ run.done = IF o.executed THEN old.done + 1 ELSE old.done
        /\ run.lost <=> (old.lost \/ (o.executed /\ o.state = "dead"))
  BY <1>1, DbExecutedFacts
<1>3. run.done <= run.try
  BY <1>1, <1>2 DEF DbRuns
<1> QED BY <1>1, <1>2, <1>3, Zenon

LEMMA DbOneCommandInv ==
    ASSUME DbInv, NEW t \in DbThreads, NEW kind \in {"query", "update"},
           DbOneCommand(t, kind)
    PROVE  DbInv'
<1>1. PICK o :
        /\ DbCommand(t, "run", {kind}, o)
        /\ IF o.state = "dead"
             THEN DbConnBecomes(t, "down") /\ DbTryFails(t, DbExecuted(dbRun[t], o))
             ELSE /\ DbReturns(t, DbExecuted(dbRun[t], o),
                               IF o.error THEN DbErrno ELSE 0)
                  /\ UNCHANGED dbConn
        /\ UNCHANGED dbMixed
  BY Zenon DEF DbOneCommand
<1>2. /\ dbRun[t] \in DbRuns /\ dbRun[t].kind = kind /\ DbTried(dbRun[t])
      /\ UNCHANGED <<dbAt, dbFails, dbRecent>>
      /\ o.executed \in BOOLEAN /\ o.error \in BOOLEAN
      /\ ~(o.executed /\ o.error)
      /\ o.state # "dead" /\ ~o.error => o.executed
      /\ dbFails \in 0 .. DbMaxFails + 1 /\ dbRecent \in BOOLEAN
  BY <1>1, DbCommandFacts
<1>3. PICK old \in DbRuns : old = dbRun[t]
  BY <1>2
<1>4. PICK run \in DbRuns :
        /\ run = DbExecuted(old, o)
        /\ run.kind = old.kind /\ run.try = old.try /\ run.at = old.at
        /\ run.rows = old.rows /\ run.hidden = old.hidden
        /\ run.done = IF o.executed THEN old.done + 1 ELSE old.done
        /\ run.lost <=> (old.lost \/ (o.executed /\ o.state = "dead"))
        /\ old.done <= 1 /\ run.done <= run.try
  BY <1>2, <1>3, DbAfter
<1>5. old.done > 0 => old.lost
  BY <1>2, <1>3 DEF DbTried
<1>6. run.kind \notin {"trans", "multi"}
  BY <1>2, <1>3, <1>4
<1>7. CASE o.state = "dead"
  <2>1. run.done > 0 => run.lost
    BY <1>2, <1>4, <1>5, <1>7
  <2>2. DbConnBecomes(t, "down") /\ DbTryFails(t, run)
    BY <1>1, <1>3, <1>4, <1>7
  <2>3. DbConnsGo
    BY <1>1, <1>2, <2>2, DbConnBecomesGo DEF DbStates
  <2> QED BY <1>2, <1>3, <1>4, <1>6, <2>1, <2>2, <2>3, DbFails
<1>8. CASE o.state # "dead"
  <2>1. PICK ret \in DbRets : ret = IF o.error THEN DbErrno ELSE 0
    BY DEF DbRets
  <2>2. DbReturns(t, run, ret) /\ UNCHANGED dbConn
    BY <1>1, <1>3, <1>4, <1>8, <2>1
  <2>3. DbConnsGo
    BY <1>1, <1>2, <2>2, DbConnsStay
  <2>4. old.done \in Nat
    BY DEF DbRuns
  <2>5. o.error => ret # 0 /\ run.done = old.done
    BY <1>2, <1>4, <2>1 DEF DbErrno
  <2>6. ~o.error => ret = 0 /\ run.done = old.done + 1
    BY <1>2, <1>4, <1>8, <2>1
  <2>7. run.done = 2 => run.lost
    BY <1>4, <1>5, <2>4
  <2>8. ret = 0 => run.done >= 1
    BY <2>4, <2>5, <2>6
  <2>9. ret # 0 /\ run.done > 0 => run.lost
    BY <1>4, <1>5, <2>5, <2>6
  <2>10. DbEnded(run, ret)
    BY <1>6, <2>7, <2>8, <2>9 DEF DbEnded
  <2> QED BY <2>2, <2>3, <2>10, DbReturnsInv
<1> QED BY <1>7, <1>8

LEMMA DbMultiInv ==
    ASSUME DbInv, NEW t \in DbThreads, DbMulti(t)
    PROVE  DbInv'
<1>1. PICK o :
        /\ DbCommand(t, "run", {"multi"}, o)
        /\ IF o.state = "dead"
             THEN DbConnBecomes(t, "down") /\ DbTryFails(t, dbRun[t])
             ELSE /\ IF o.error
                       THEN DbReturns(t, dbRun[t], DbErrno)
                       ELSE DbGoto(t, "results") /\ UNCHANGED <<dbRun, dbFlag>>
                  /\ UNCHANGED dbConn
        /\ UNCHANGED dbMixed
  BY Zenon DEF DbMulti
<1>2. /\ dbRun[t] \in DbRuns /\ dbRun[t].kind = "multi" /\ DbTried(dbRun[t])
      /\ DbCallOK(dbRun[t], "run") /\ UNCHANGED <<dbAt, dbFails, dbRecent>>
      /\ dbFails \in 0 .. DbMaxFails + 1 /\ dbRecent \in BOOLEAN
  BY <1>1, DbCommandFacts
<1>3. PICK run \in DbRuns :
        /\ run = dbRun[t] /\ run.kind = "multi" /\ DbTried(run) /\ run.at = 0
        /\ run.done = 0 /\ run.done <= run.try
  BY <1>2 DEF DbCallOK, DbTried, DbRuns
<1>4. CASE o.state = "dead"
  <2>1. DbConnBecomes(t, "down") /\ DbTryFails(t, run)
    BY <1>1, <1>3, <1>4
  <2>2. DbConnsGo
    BY <1>1, <1>2, <2>1, DbConnBecomesGo DEF DbStates
  <2> QED BY <1>3, <2>1, <2>2, DbFails
<1>5. CASE o.state # "dead" /\ o.error
  <2>1. DbReturns(t, run, DbErrno) /\ DbConnsGo
    BY <1>1, <1>2, <1>3, <1>5, DbConnsStay
  <2>2. DbEnded(run, DbErrno)
    BY <1>3 DEF DbEnded, DbErrno
  <2> QED BY <2>1, <2>2, DbReturnsInv DEF DbRets
<1>6. CASE o.state # "dead" /\ ~o.error
  <2>1. /\ dbPc' = [dbPc EXCEPT ![t] = "results"]
        /\ UNCHANGED <<dbRun, dbFlag, dbConn>>
    BY <1>1, <1>6 DEF DbGoto
  <2>2. DbConnsGo
    BY <1>1, <1>2, <2>1, DbConnsStay
  <2>3. dbRun' = [dbRun EXCEPT ![t] = run]
    BY <1>3, <2>1 DEF DbInv, DbTypeOK
  <2>4. DbCallOK(run, "results")
    BY <1>3, DbNumbers DEF DbCallOK
  <2> QED BY <2>1, <2>2, <2>3, <2>4, DbStep DEF DbInCall
<1> QED BY <1>4, <1>5, <1>6

(* A multiple query that has read one more result: its rows.               *)
LEMMA DbRead ==
    ASSUME DbInv, NEW t \in DbThreads, dbPc[t] = "results"
    PROVE  /\ dbRun[t] \in DbRuns /\ dbRun[t].kind = "multi"
           /\ DbTried(dbRun[t]) /\ dbRun[t].done = 0
           /\ dbRun[t].at < DbStatements
           /\ dbRun[t].at + 1 \in 0 .. DbStatements
           /\ dbRun[t].rows + 1 \in 0 .. 2 * DbStatements
<1>1. /\ dbRun[t] \in DbRuns /\ DbTried(dbRun[t]) /\ DbCallOK(dbRun[t], dbPc[t])
      /\ DbStatements \in Nat
  BY DbTrying, DbNumbers
<1>2. dbRun[t].kind = "multi" /\ dbRun[t].at < DbStatements
  BY <1>1 DEF DbCallOK
<1>3. PICK at \in Nat, rows \in Nat : at = dbRun[t].at /\ rows = dbRun[t].rows
  BY <1>1 DEF DbRuns
<1>4. rows <= at + DbStatements
  BY <1>1, <1>3 DEF DbTried, DbRuns
<1>5. at + 1 \in 0 .. DbStatements /\ rows + 1 \in 0 .. 2 * DbStatements
  BY <1>1, <1>2, <1>3, <1>4
<1> QED BY <1>1, <1>2, <1>3, <1>5 DEF DbTried

LEMMA DbResultInv ==
    ASSUME DbInv, NEW t \in DbThreads, DbResult(t)
    PROVE  DbInv'
<1>1. /\ dbPc[t] = "results" /\ UNCHANGED <<dbAt, dbFails, dbRecent>>
      /\ dbFails \in 0 .. DbMaxFails + 1 /\ dbRecent \in BOOLEAN
      /\ DbStatements \in Nat /\ DbStatements > 0
  BY DbNumbers DEF DbResult, DbInv, DbTypeOK
<1>2. PICK run \in DbRuns :
        /\ run = dbRun[t] /\ run.kind = "multi" /\ DbTried(run) /\ run.done = 0
        /\ run.at < DbStatements /\ run.at + 1 \in 0 .. DbStatements
        /\ run.rows + 1 \in 0 .. 2 * DbStatements
  BY <1>1, DbRead
<1>3. PICK at \in 0 .. DbStatements, rows \in 0 .. 2 * DbStatements :
        at = run.at + 1 /\ rows = run.rows + 1
  BY <1>2
<1>4. PICK got \in DbRuns :
        /\ got = [run EXCEPT !.at = @ + 1, !.rows = @ + 1]
        /\ got.at = run.at + 1 /\ got.rows = run.rows + 1 /\ got.kind = "multi"
        /\ got.try = run.try /\ got.done = 0 /\ got.lost = run.lost
        /\ got.hidden = run.hidden
  <2>1. PICK got : got = [run EXCEPT !.at = at, !.rows = rows]
    OBVIOUS
  <2>2. PICK AtNums, RowNums : AtNums = 0 .. DbStatements /\ RowNums = 0 .. 2 * DbStatements
    OBVIOUS
  <2>3. at \in AtNums /\ rows \in RowNums /\ run \in DbRuns
    BY <2>2
  <2>4. DbRuns = [kind : DbKinds, try : {1, 2}, at : AtNums, ret : DbRets,
                  rows : RowNums, done : 0 .. 2, lost : BOOLEAN, hidden : BOOLEAN]
    BY <2>2 DEF DbRuns
  <2>5. got \in DbRuns
    BY <2>1, <2>3, <2>4
  <2>6. got.at = at
    BY <2>1, <2>3, <2>4
  <2>7. got.rows = rows
    BY <2>1, <2>3, <2>4
  <2>8. /\ got.kind = run.kind /\ got.try = run.try /\ got.done = run.done
        /\ got.lost = run.lost /\ got.hidden = run.hidden
    BY <2>1, <2>3, <2>4
  <2>9. got = [run EXCEPT !.at = @ + 1, !.rows = @ + 1]
    BY <1>3, <2>1
  <2> QED BY <1>2, <1>3, <2>5, <2>6, <2>7, <2>8, <2>9
<1>5. CASE /\ IF run.at + 1 < DbStatements
                THEN DbRunBecomes(t, got) /\ UNCHANGED <<dbFlag, dbPc>>
                ELSE DbReturns(t, got, 0)
           /\ UNCHANGED <<dbConn, dbMixed>>
  <2>1. DbConnsGo
    BY <1>1, <1>5, DbConnsStay
  <2>2. DbTried(got)
    BY <1>1, <1>2, <1>4 DEF DbTried, DbRuns
  <2>3. CASE run.at + 1 < DbStatements
    <3>1. /\ dbRun' = [dbRun EXCEPT ![t] = got] /\ dbFlag' = dbFlag
          /\ dbPc' = [dbPc EXCEPT ![t] = "results"]
      BY <1>1, <1>5, <2>3 DEF DbRunBecomes, DbInv, DbTypeOK
    <3>2. DbCallOK(got, "results")
      BY <1>4, <2>2, <2>3 DEF DbCallOK
    <3> QED BY <2>1, <3>1, <3>2, DbStep DEF DbInCall
  <2>4. CASE ~(run.at + 1 < DbStatements)
    <3>1. DbReturns(t, got, 0)
      BY <1>5, <2>4
    <3>2. got.at = DbStatements
      BY <1>1, <1>2, <1>4, <2>4 DEF DbRuns
    <3>3. got.rows >= DbStatements /\ (got.rows > DbStatements => got.try = 2)
      BY <1>1, <2>2, <3>2 DEF DbTried, DbRuns
    <3>4. DbEnded(got, 0)
      BY <1>4, <3>3 DEF DbEnded
    <3> QED BY <2>1, <3>1, <3>4, DbReturnsInv DEF DbRets
  <2> QED BY <2>3, <2>4
<1>6. CASE /\ DbReturns(t, [run EXCEPT !.hidden = TRUE], 0)
           /\ DbConnBecomes(t, IF run.at + 1 < DbStatements THEN "unread" ELSE "up")
           /\ dbMixed' = TRUE
  <2>1. [run EXCEPT !.hidden = TRUE] \in DbRuns
    BY DEF DbRuns
  <2>2. PICK next \in DbRuns :
          next = [run EXCEPT !.hidden = TRUE] /\ next.hidden = TRUE
          /\ next.kind = "multi" /\ next.done = 0
    BY <1>2, <2>1 DEF DbRuns
  <2>3. PICK state \in DbStates :
          state = IF run.at + 1 < DbStatements THEN "unread" ELSE "up"
    BY DEF DbStates
  <2>4. DbConnsGo
    BY <1>1, <1>6, <2>3, DbConnBecomesGo
  <2>5. DbReturns(t, next, 0)
    BY <1>6, <2>2
  <2>6. DbEnded(next, 0)
    BY <2>2 DEF DbEnded
  <2> QED BY <2>4, <2>5, <2>6, DbReturnsInv DEF DbRets
<1>7. CASE DbConnBecomes(t, "down") /\ DbTryFails(t, run) /\ UNCHANGED dbMixed
  <2>1. DbConnsGo
    BY <1>1, <1>7, DbConnBecomesGo DEF DbStates
  <2>2. run.done <= run.try
    BY <1>2 DEF DbRuns
  <2> QED BY <1>2, <1>7, <2>1, <2>2, DbFails
<1>8. CASE DbReturns(t, run, DbErrno) /\ UNCHANGED <<dbConn, dbMixed>>
  <2>1. DbConnsGo
    BY <1>1, <1>8, DbConnsStay
  <2>2. DbEnded(run, DbErrno)
    BY <1>2 DEF DbEnded, DbErrno
  <2> QED BY <1>8, <2>1, <2>2, DbReturnsInv DEF DbRets
<1> QED BY <1>2, <1>4, <1>5, <1>6, <1>7, <1>8 DEF DbResult

LEMMA DbNextResultInv ==
    ASSUME DbInv, NEW t \in DbThreads, DbNextResultFails(t)
    PROVE  DbInv'
<1>1. /\ dbPc[t] = "results" /\ UNCHANGED <<dbAt, dbFails, dbRecent, dbMixed>>
      /\ dbFails \in 0 .. DbMaxFails + 1 /\ dbRecent \in BOOLEAN
  BY DEF DbNextResultFails, DbInv, DbTypeOK
<1>2. PICK run \in DbRuns :
        /\ run = dbRun[t] /\ run.kind = "multi" /\ run.done = 0
        /\ run.rows + 1 \in 0 .. 2 * DbStatements
  BY <1>1, DbRead
<1>3. [run EXCEPT !.rows = run.rows + 1, !.hidden = TRUE] \in DbRuns
  BY <1>2 DEF DbRuns
<1>4. PICK next \in DbRuns :
        /\ next = [run EXCEPT !.rows = @ + 1, !.hidden = TRUE]
        /\ next.hidden = TRUE /\ next.kind = "multi" /\ next.done = 0
  BY <1>2, <1>3 DEF DbRuns
<1>5. PICK state \in {"up", "dead"} : DbConnBecomes(t, state)
  BY DEF DbNextResultFails
<1>6. DbConnsGo
  BY <1>1, <1>5, DbConnBecomesGo DEF DbStates
<1>7. DbReturns(t, next, 0)
  BY <1>2, <1>4 DEF DbNextResultFails
<1>8. DbEnded(next, 0)
  BY <1>4 DEF DbEnded
<1> QED BY <1>6, <1>7, <1>8, DbReturnsInv DEF DbRets

(* Transactions.                                                           *)
LEMMA DbBeginTransInv ==
    ASSUME DbInv, NEW t \in DbThreads, DbBegin(t)
    PROVE  DbInv'
<1>1. PICK o :
        /\ DbCommand(t, "run", {"trans"}, o)
        /\ DbConnBecomes(t, o.state)
        /\ IF o.executed /\ o.state = "up"
             THEN DbGoto(t, "statement") /\ UNCHANGED <<dbRun, dbFlag>>
             ELSE DbReturns(t, dbRun[t], DbErrno)
        /\ UNCHANGED dbMixed
  BY Zenon DEF DbBegin
<1>2. /\ dbRun[t] \in DbRuns /\ dbRun[t].kind = "trans" /\ DbTried(dbRun[t])
      /\ UNCHANGED <<dbAt, dbFails, dbRecent>>
      /\ o.state \in {"up", "dead", "unread"}
      /\ o.state = "unread" => dbConn[dbAt[t]] = "unread"
      /\ dbFails \in 0 .. DbMaxFails + 1 /\ dbRecent \in BOOLEAN
  BY <1>1, DbCommandFacts
<1>3. PICK run \in DbRuns :
        run = dbRun[t] /\ run.kind = "trans" /\ DbTried(run) /\ run.done = 0
  BY <1>2 DEF DbTried
<1>4. PICK state \in DbStates : state = o.state
  BY <1>2 DEF DbStates
<1>5. DbConnsGo
  BY <1>1, <1>2, <1>4, DbConnBecomesGo
<1>6. CASE o.executed /\ o.state = "up"
  <2>1. /\ dbPc' = [dbPc EXCEPT ![t] = "statement"] /\ dbFlag' = dbFlag
        /\ dbRun' = [dbRun EXCEPT ![t] = run]
    BY <1>1, <1>3, <1>6 DEF DbGoto, DbInv, DbTypeOK
  <2>2. DbCallOK(run, "statement")
    BY <1>3 DEF DbCallOK
  <2> QED BY <1>5, <2>1, <2>2, DbStep DEF DbInCall
<1>7. CASE ~(o.executed /\ o.state = "up")
  <2>1. DbReturns(t, run, DbErrno)
    BY <1>1, <1>3, <1>7
  <2>2. DbEnded(run, DbErrno)
    BY <1>3 DEF DbEnded, DbErrno
  <2> QED BY <1>5, <2>1, <2>2, DbReturnsInv DEF DbRets
<1> QED BY <1>6, <1>7

LEMMA DbStatementInv ==
    ASSUME DbInv, NEW t \in DbThreads, DbStatement(t)
    PROVE  DbInv'
<1>1. PICK o :
        /\ dbRun[t].at < DbStatements
        /\ DbCommand(t, "statement", {"trans"}, o)
        /\ \/ o.state = "dead" /\ DbConnBecomes(t, "down") /\ DbTryFails(t, dbRun[t])
           \/ /\ \E s \in {"up", "dead"} : DbConnBecomes(t, s)
              /\ DbReturns(t, dbRun[t], DbErrno)
           \/ /\ \E s \in {"up", "dead"} : DbConnBecomes(t, s)
              /\ DbReturns(t, [dbRun[t] EXCEPT !.rows = 0], 0)
           \/ /\ DbRunBecomes(t, [dbRun[t] EXCEPT !.at = @ + 1, !.rows = @ + 1])
              /\ UNCHANGED <<dbConn, dbFlag, dbPc>>
        /\ UNCHANGED dbMixed
  BY Zenon DEF DbStatement
<1>2. /\ dbRun[t] \in DbRuns /\ dbRun[t].kind = "trans" /\ DbTried(dbRun[t])
      /\ dbPc[t] = "statement" /\ UNCHANGED <<dbAt, dbFails, dbRecent>>
      /\ dbFails \in 0 .. DbMaxFails + 1 /\ dbRecent \in BOOLEAN
  BY <1>1, DbCommandFacts
<1>3. PICK run \in DbRuns :
        /\ run = dbRun[t] /\ run.kind = "trans" /\ DbTried(run) /\ run.done = 0
        /\ run.done <= run.try
  BY <1>2 DEF DbTried, DbRuns
<1>4. ASSUME NEW s \in {"up", "dead", "down"}, DbConnBecomes(t, s) PROVE DbConnsGo
  BY <1>1, <1>2, <1>4, DbConnBecomesGo DEF DbStates
<1>5. CASE DbConnBecomes(t, "down") /\ DbTryFails(t, run)
  BY <1>3, <1>4, <1>5, DbFails
<1>6. CASE (\E s \in {"up", "dead"} : DbConnBecomes(t, s)) /\ DbReturns(t, run, DbErrno)
  <2>1. DbEnded(run, DbErrno)
    BY <1>3 DEF DbEnded, DbErrno
  <2> QED BY <1>4, <1>6, <2>1, DbReturnsInv DEF DbRets
<1>7. CASE /\ \E s \in {"up", "dead"} : DbConnBecomes(t, s)
           /\ DbReturns(t, [run EXCEPT !.rows = 0], 0)
  <2>1. [run EXCEPT !.rows = 0] \in DbRuns
    <3>1. 0 \in 0 .. 2 * DbStatements
      BY DbNumbers
    <3> QED BY <3>1 DEF DbRuns
  <2>2. PICK next \in DbRuns :
          /\ next = [run EXCEPT !.rows = 0]
          /\ next.rows = 0 /\ next.kind = "trans" /\ next.done = 0
    BY <1>3, <2>1 DEF DbRuns
  <2>3. DbEnded(next, 0)
    BY <2>2 DEF DbEnded
  <2> QED BY <1>4, <1>7, <2>2, <2>3, DbReturnsInv DEF DbRets
<1>8. CASE /\ DbRunBecomes(t, [run EXCEPT !.at = @ + 1, !.rows = @ + 1])
           /\ UNCHANGED <<dbConn, dbFlag, dbPc>>
  <2>1. /\ run.at < DbStatements /\ DbStatements \in Nat
        /\ run.at \in Nat /\ run.rows \in Nat /\ run.rows <= run.at + DbStatements
    BY <1>1, <1>3, DbNumbers DEF DbTried, DbRuns
  <2>2. run.at + 1 \in 0 .. DbStatements /\ run.rows + 1 \in 0 .. 2 * DbStatements
    BY <2>1
  <2>3. [run EXCEPT !.at = run.at + 1, !.rows = run.rows + 1] \in DbRuns
    BY <2>2 DEF DbRuns
  <2>4. PICK next \in DbRuns :
          /\ next = [run EXCEPT !.at = @ + 1, !.rows = @ + 1]
          /\ next.at = run.at + 1 /\ next.rows = run.rows + 1
          /\ next.kind = "trans" /\ next.try = run.try /\ next.done = 0
          /\ next.hidden = run.hidden
    BY <1>3, <2>3 DEF DbRuns
  <2>5. DbTried(next)
    BY <1>3, <2>1, <2>4 DEF DbTried, DbRuns
  <2>6. DbCallOK(next, "statement")
    BY <2>5 DEF DbCallOK
  <2>7. /\ dbRun' = [dbRun EXCEPT ![t] = next] /\ dbFlag' = dbFlag
        /\ dbPc' = [dbPc EXCEPT ![t] = "statement"]
    BY <1>2, <1>8, <2>4 DEF DbRunBecomes, DbInv, DbTypeOK
  <2>8. DbConnsGo
    BY <1>1, <1>2, <1>8, DbConnsStay
  <2> QED BY <2>6, <2>7, <2>8, DbStep DEF DbInCall
<1> QED BY <1>1, <1>3, <1>5, <1>6, <1>7, <1>8

(* A commit is the only command of a transaction that counts as done, and  *)
(* no try comes after it.                                                  *)
LEMMA DbCommitInv ==
    ASSUME DbInv, NEW t \in DbThreads, DbCommit(t)
    PROVE  DbInv'
<1>1. PICK o :
        /\ DbExecuted(dbRun[t], o).at = DbStatements
        /\ DbCommand(t, "statement", {"trans"}, o)
        /\ DbConnBecomes(t, o.state)
        /\ DbReturns(t, DbExecuted(dbRun[t], o),
                     IF o.executed /\ o.state = "up" THEN 0 ELSE DbErrno)
        /\ UNCHANGED dbMixed
  BY Zenon DEF DbCommit
<1>2. /\ dbRun[t] \in DbRuns /\ dbRun[t].kind = "trans" /\ DbTried(dbRun[t])
      /\ UNCHANGED <<dbAt, dbFails, dbRecent>>
      /\ o.executed \in BOOLEAN
      /\ o.state \in {"up", "dead", "unread"}
      /\ o.executed /\ o.state # "dead" => o.state = "up"
      /\ o.state = "unread" => dbConn[dbAt[t]] = "unread"
      /\ dbFails \in 0 .. DbMaxFails + 1 /\ dbRecent \in BOOLEAN
  BY <1>1, DbCommandFacts
<1>3. PICK old \in DbRuns :
        old = dbRun[t] /\ old.kind = "trans" /\ DbTried(old) /\ old.done = 0
  BY <1>2 DEF DbTried
<1>4. PICK run \in DbRuns :
        /\ run = DbExecuted(old, o)
        /\ run.kind = old.kind /\ run.try = old.try /\ run.at = old.at
        /\ run.rows = old.rows /\ run.hidden = old.hidden
        /\ run.done = IF o.executed THEN old.done + 1 ELSE old.done
        /\ run.lost <=> (old.lost \/ (o.executed /\ o.state = "dead"))
        /\ old.done <= 1 /\ run.done <= run.try
  BY <1>2, <1>3, DbAfter
<1>5. PICK ret \in DbRets :
        ret = IF o.executed /\ o.state = "up" THEN 0 ELSE DbErrno
  BY DEF DbRets
<1>6. PICK state \in DbStates : state = o.state
  BY <1>2 DEF DbStates
<1>7. DbConnsGo
  BY <1>1, <1>2, <1>6, DbConnBecomesGo
<1>8. DbReturns(t, run, ret)
  BY <1>1, <1>3, <1>4, <1>5
<1>9. run.rows > 0
  <2>1. old.rows >= old.at /\ old.at = DbStatements
    BY <1>1, <1>3, <1>4 DEF DbTried, DbRuns
  <2> QED BY <1>4, <2>1, DbNumbers DEF DbRuns
<1>10. DbEnded(run, ret)
  <2>1. ret = 0 <=> o.executed /\ o.state = "up"
    BY <1>5 DEF DbErrno
  <2>2. run.done <= 1 /\ (run.done > 0 <=> o.executed) /\ (run.done = 1 <=> o.executed)
    BY <1>3, <1>4
  <2>3. ret # 0 /\ run.done > 0 => run.lost
    BY <1>2, <1>4, <2>1, <2>2
  <2>4. run.kind = "trans"
    BY <1>3, <1>4
  <2> QED BY <1>9, <2>1, <2>2, <2>3, <2>4 DEF DbEnded
<1> QED BY <1>7, <1>8, <1>10, DbReturnsInv

LEMMA DbFiniInv ==
    ASSUME DbInv, NEW t \in DbThreads, DbFini(t)
    PROVE  DbInv'
<1>1. PICK fails \in 1 .. DbMaxFails + 1 :
        /\ dbPc[t] = "fini" /\ dbFails' = fails /\ dbRecent' = TRUE
        /\ DbConnBecomes(t, "null") /\ DbReturns(t, dbRun[t], dbRun[t].ret)
        /\ UNCHANGED <<dbAt, dbMixed>>
  BY DEF DbFini
<1>2. dbRun[t] \in DbRuns /\ DbGivenUp(dbRun[t])
  BY <1>1 DEF DbInv, DbTypeOK, DbCalls, DbCallOK, DbRuns, DbRets
<1>3. PICK run \in DbRuns : run = dbRun[t] /\ DbGivenUp(run) /\ run.ret = DbLost
  BY <1>2 DEF DbGivenUp
<1>4. fails \in 0 .. DbMaxFails + 1
  BY DbNumbers
<1>5. DbConnsGo
  BY <1>1, <1>4, DbConnBecomesGo DEF DbStates
<1>6. DbEnded(run, DbLost)
  <2>1. run.done \in 0 .. 2
    BY DEF DbRuns
  <2> QED BY <1>3, <2>1 DEF DbEnded, DbGivenUp, DbLost
<1> QED BY <1>1, <1>3, <1>5, <1>6, DbReturnsInv DEF DbRets

(* A call chooses its connection, or has ended: it holds none.             *)
LEMMA DbFreeInv ==
    ASSUME DbInv, NEW t \in DbThreads, DbCall(t) \/ DbDone(t)
    PROVE  DbInv'
<1>1. 0 \in DbIndex /\ DbStatements \in Nat
  BY DbNumbers
<1>2. /\ dbPc[t] \in {"idle", "done"} /\ dbPc'[t] \in {"idle", "lock"}
      /\ \A u \in DbThreads : u # t =>
           dbPc'[u] = dbPc[u] /\ dbAt'[u] = dbAt[u] /\ dbRun'[u] = dbRun[u]
      /\ UNCHANGED <<dbConn, dbFlag, dbFails, dbRecent, dbMixed>>
  BY DEF DbCall, DbDone, DbGoto, DbRunBecomes, dbPool, DbInv, DbTypeOK
<1>3. DbTypeOK'
  <2>1. NoRun \in DbRuns
    <3>1. 0 \in 0 .. DbStatements /\ 0 \in 0 .. 2 * DbStatements
      BY <1>1
    <3> QED BY <3>1 DEF NoRun, DbRuns, DbKinds, DbRets
  <2>2. dbRun' \in [DbThreads -> DbRuns]
    BY <2>1 DEF DbCall, DbDone, DbRunBecomes, DbInv, DbTypeOK, DbRuns, DbRets
  <2>3. dbAt' \in [DbThreads -> DbIndex]
    BY <1>1 DEF DbCall, DbDone, DbInv, DbTypeOK
  <2>4. dbPc' \in [DbThreads -> {"idle", "lock", "done"} \cup DbInCall]
    BY DEF DbCall, DbDone, DbGoto, DbInv, DbTypeOK
  <2> QED BY <1>2, <2>2, <2>3, <2>4 DEF DbInv, DbTypeOK, DbRuns, DbRets
<1>4. DbCalls'
  <2>1. DbCallOK(dbRun'[t], dbPc'[t])
    BY <1>2 DEF DbCallOK
  <2>2. \A u \in DbThreads : DbCallOK(dbRun'[u], dbPc'[u])
    BY <1>2, <2>1 DEF DbInv, DbCalls
  <2> QED BY <2>2 DEF DbCalls
<1>5. DbPoolSound'
  <2>1. \A i \in DbIndex : \A u \in DbThreads : DbHolds(u, i) => DbHolds(u, i)'
    BY <1>2 DEF DbHolds, DbInCall
  <2> QED BY <1>2, <2>1 DEF DbInv, DbPoolSound
<1> QED BY <1>3, <1>4, <1>5 DEF DbInv

LEMMA DbInvNext == DbInv /\ DbNext => DbInv'
<1> SUFFICES ASSUME DbInv, DbNext PROVE DbInv'
  OBVIOUS
<1>1. ASSUME NEW t \in DbThreads, DbCall(t) \/ DbDone(t) PROVE DbInv'
  BY <1>1, DbFreeInv
<1>2. ASSUME NEW t \in DbThreads,
             DbExecQuery(t) \/ DbExecMultiQuery(t) \/ DbExecUpdate(t) \/ DbExecTrans(t)
      PROVE  DbInv'
  BY <1>2, DbBeginInv DEF DbExecQuery, DbExecMultiQuery, DbExecUpdate, DbExecTrans,
                          DbKinds
<1>3. ASSUME NEW t \in DbThreads, DbGetNone(t) \/ DbGetConn(t) \/ DbNotConnected(t)
      PROVE  DbInv'
  BY <1>3, DbGetInv
<1>4. ASSUME NEW t \in DbThreads, DbReconnect(t) PROVE DbInv'
  BY <1>4, DbReconnectInv
<1>5. ASSUME NEW t \in DbThreads, DbQuery(t) \/ DbUpdate(t) PROVE DbInv'
  BY <1>5, DbOneCommandInv DEF DbQuery, DbUpdate
<1>6. ASSUME NEW t \in DbThreads, DbMulti(t) PROVE DbInv'
  BY <1>6, DbMultiInv
<1>7. ASSUME NEW t \in DbThreads, DbResult(t) PROVE DbInv'
  BY <1>7, DbResultInv
<1>8. ASSUME NEW t \in DbThreads, DbNextResultFails(t) PROVE DbInv'
  BY <1>8, DbNextResultInv
<1>9. ASSUME NEW t \in DbThreads, DbBegin(t) PROVE DbInv'
  BY <1>9, DbBeginTransInv
<1>10. ASSUME NEW t \in DbThreads, DbStatement(t) PROVE DbInv'
  BY <1>10, DbStatementInv
<1>11. ASSUME NEW t \in DbThreads, DbCommit(t) PROVE DbInv'
  BY <1>11, DbCommitInv
<1>12. ASSUME NEW t \in DbThreads, DbFini(t) PROVE DbInv'
  BY <1>12, DbFiniInv
<1>13. ASSUME NEW i \in DbIndex, DbServerDrops(i) PROVE DbInv'
  <2>1. DbTypeOK'
    BY <1>13 DEF DbServerDrops, DbInv, DbTypeOK, DbStates
  <2>2. DbCalls'
    BY <1>13 DEF DbServerDrops, DbInv, DbCalls, DbCallOK, DbTried, DbGivenUp, DbEnded
  <2>3. \A j \in DbIndex : dbConn'[j] = "unread" => dbConn[j] = "unread"
    BY <1>13 DEF DbServerDrops, DbInv, DbTypeOK
  <2>4. UNCHANGED <<dbFlag, dbPc, dbAt, dbMixed>>
    BY <1>13, Zenon DEF DbServerDrops
  <2>5. DbPoolSound'
    BY <2>3, <2>4 DEF DbInv, DbPoolSound, DbHolds
  <2> QED BY <2>1, <2>2, <2>5 DEF DbInv
<1>14. ASSUME DbElapse PROVE DbInv'
  <2>1. UNCHANGED <<dbPc, dbAt, dbRun, dbConn, dbFlag, dbFails, dbMixed>>
        /\ dbRecent' = FALSE
    BY <1>14 DEF DbElapse
  <2> QED BY <2>1 DEF DbInv, DbTypeOK, DbCalls, DbPoolSound, DbHolds
<1> QED BY <1>1, <1>2, <1>3, <1>4, <1>5, <1>6, <1>7, <1>8, <1>9, <1>10, <1>11, <1>12,
           <1>13, <1>14 DEF DbNext

LEMMA DbAlwaysInv == DbSpec => []DbInv
<1>1. DbInit => DbInv
  <2> SUFFICES ASSUME DbInit PROVE DbInv
    OBVIOUS
  <2>1. NoRun \in DbRuns
    <3>1. 0 \in 0 .. DbStatements /\ 0 \in 0 .. 2 * DbStatements
      BY DbNumbers
    <3> QED BY <3>1 DEF NoRun, DbRuns, DbKinds, DbRets
  <2>2. PICK n \in 0 .. DbConnNums :
          /\ dbConn = [i \in DbIndex |-> IF i < n THEN "up" ELSE "null"]
          /\ dbFails = IF n = DbConnNums THEN 0 ELSE 1
          /\ dbRecent = (n < DbConnNums)
    BY DEF DbInit
  <2>3. dbConn \in [DbIndex -> {"up", "null"}]
    BY <2>2
  <2>4. dbFails \in 0 .. DbMaxFails + 1
    BY <2>2, DbNumbers
  <2>5. dbRecent \in BOOLEAN
    BY <2>2
  <2>6. dbRun \in [DbThreads -> DbRuns]
    BY <2>1 DEF DbInit
  <2>7. DbTypeOK
    BY <2>3, <2>4, <2>5, <2>6, DbNumbers DEF DbInit, DbTypeOK, DbStates, DbRuns, DbRets
  <2>8. DbCalls /\ DbPoolSound
    BY <2>3 DEF DbInit, DbCalls, DbCallOK, DbPoolSound
  <2> QED BY <2>7, <2>8 DEF DbInv
<1>2. DbInv /\ [DbNext]_dbVars => DbInv'
  <2> SUFFICES ASSUME DbInv, UNCHANGED dbVars PROVE DbInv'
    BY DbInvNext
  <2> QED BY DEF dbVars, dbPool, DbInv, DbTypeOK, DbCalls, DbPoolSound, DbHolds
<1> QED BY <1>1, <1>2, PTL DEF DbSpec

(* Whatever the number of threads, connections and statements: what a call *)
(* returns agrees with what the server has done; a transaction is          *)
(* committed at most once (plat_db_access.cpp:333, :369).                  *)
THEOREM DbCallsTruthful == DbSpec => []DbOutcome
<1>1. DbInv => DbOutcome
  <2> SUFFICES ASSUME DbInv, NEW t \in DbThreads, dbPc[t] = "done"
               PROVE  DbEnded(dbRun[t], dbRun[t].ret)
    BY DEF DbOutcome, DbEnded
  <2> QED BY DEF DbInv, DbCalls, DbCallOK
<1> QED BY <1>1, DbAlwaysInv, PTL

(* And a connection is flagged only while a call uses it, and fails every  *)
(* later call only after a multiple query with a statement without result. *)
THEOREM DbConnectionsSound == DbSpec => []DbPoolSound
<1>1. DbInv => DbPoolSound
  BY DEF DbInv
<1> QED BY <1>1, DbAlwaysInv, PTL

-----------------------------------------------------------------------------
(* Framing: FlattenSeq, by prefixes.                                          *)
FlatSteps(s, n, f) ==
    f = [i \in 1 .. n |-> IF i = 1 THEN s[i] ELSE f[i - 1] \o s[i]]

LEMMA FlatStepsExist ==
    ASSUME NEW s
    PROVE  \A n \in Nat : \E f : FlatSteps(s, n, f)
<1> DEFINE S == {n \in Nat : \E f : FlatSteps(s, n, f)}
<1>1. 0 \in S
  <2> DEFINE f == [i \in 1 .. 0 |-> s[1]]
  <2>1. FlatSteps(s, 0, f)
    BY DEF FlatSteps
  <2> QED BY <2>1
<1>2. ASSUME NEW n \in Nat, n \in S PROVE n + 1 \in S
  <2>1. PICK f : FlatSteps(s, n, f)
    BY <1>2
  <2> DEFINE last == IF n = 0 THEN s[n + 1] ELSE f[n] \o s[n + 1]
             g == [i \in 1 .. n + 1 |-> IF i <= n THEN f[i] ELSE last]
             h == [i \in 1 .. n + 1 |-> IF i = 1 THEN s[i] ELSE g[i - 1] \o s[i]]
  <2>2. ASSUME NEW i \in 1 .. n + 1 PROVE g[i] = h[i]
    <3>1. /\ i <= n => g[i] = f[i]
          /\ ~ (i <= n) => g[i] = last /\ i = n + 1
          /\ i # 1 => g[i - 1] = f[i - 1]
      OBVIOUS
    <3>2. h[i] = IF i = 1 THEN s[i] ELSE g[i - 1] \o s[i]
      <4> HIDE DEF g
      <4> QED OBVIOUS
    <3>3. i <= n => f[i] = IF i = 1 THEN s[i] ELSE f[i - 1] \o s[i]
      <4>1. i <= n => i \in 1 .. n
        OBVIOUS
      <4> QED BY <2>1, <4>1 DEF FlatSteps
    <3>4. ~ (i <= n) => last = IF i = 1 THEN s[i] ELSE f[i - 1] \o s[i]
      OBVIOUS
    <3> HIDE DEF g, h, last
    <3>5. CASE i <= n
      BY <3>1, <3>2, <3>3, <3>5
    <3>6. CASE ~ (i <= n)
      BY <3>1, <3>2, <3>4, <3>6
    <3> QED BY <3>5, <3>6
  <2>3. /\ g = [i \in 1 .. n + 1 |-> g[i]]
        /\ h = [i \in 1 .. n + 1 |-> h[i]]
    OBVIOUS
  <2>4. h = [i \in 1 .. n + 1 |-> IF i = 1 THEN s[i] ELSE g[i - 1] \o s[i]]
    OBVIOUS
  <2> HIDE DEF g, h
  <2>5. FlatSteps(s, n + 1, g)
    BY <2>2, <2>3, <2>4 DEF FlatSteps
  <2> QED BY <2>5
<1>3. \A n \in Nat : n \in S
  <2> HIDE DEF S
  <2> QED BY <1>1, <1>2, NaturalInduction
<1> QED BY <1>3

(* The concatenation of sequences over a set is one over that set.         *)
LEMMA FlattenSeqType ==
    ASSUME NEW T, NEW s \in Seq(Seq(T))
    PROVE  FlattenSeq(s) \in Seq(T)
<1>1. CASE Len(s) = 0
  <2>1. s = <<>>
    BY <1>1
  <2> QED BY <1>1, <2>1 DEF FlattenSeq
<1>2. CASE Len(s) # 0
  <2> DEFINE f == CHOOSE g : FlatSteps(s, Len(s), g)
  <2>1. FlattenSeq(s) = f[Len(s)]
    BY <1>2 DEF FlattenSeq, FlatSteps
  <2>2. FlatSteps(s, Len(s), f)
    <3>1. Len(s) \in Nat
      OBVIOUS
    <3>2. \E g : FlatSteps(s, Len(s), g)
      BY <3>1, FlatStepsExist
    <3> QED BY <3>2
  <2> HIDE DEF f
  <2>3. \A i \in 1 .. Len(s) : f[i] = IF i = 1 THEN s[i] ELSE f[i - 1] \o s[i]
    BY <2>2 DEF FlatSteps
  <2> DEFINE S == {n \in Nat : n \in 1 .. Len(s) => f[n] \in Seq(T)}
  <2>4. 0 \in S
    OBVIOUS
  <2>5. ASSUME NEW n \in Nat, n \in S PROVE n + 1 \in S
    <3> SUFFICES ASSUME n + 1 \in 1 .. Len(s) PROVE f[n + 1] \in Seq(T)
      OBVIOUS
    <3>1. s[n + 1] \in Seq(T)
      OBVIOUS
    <3>2. CASE n = 0
      BY <2>3, <3>1, <3>2
    <3>3. CASE n # 0
      <4>1. n \in 1 .. Len(s) /\ f[n] \in Seq(T)
        BY <2>5, <3>3
      <4>2. f[n + 1] = f[n] \o s[n + 1]
        <5>1. f[n + 1] = IF n + 1 = 1 THEN s[n + 1] ELSE f[(n + 1) - 1] \o s[n + 1]
          BY <2>3
        <5>2. n + 1 # 1 /\ (n + 1) - 1 = n
          BY <3>3
        <5> QED BY <5>1, <5>2
      <4> QED BY <3>1, <4>1, <4>2
    <3> QED BY <3>2, <3>3
  <2>6. Len(s) \in S
    <3> HIDE DEF S
    <3>1. Len(s) \in Nat
      OBVIOUS
    <3> QED BY <2>4, <2>5, <3>1, NaturalInduction
  <2>7. Len(s) \in 1 .. Len(s)
    BY <1>2
  <2> QED BY <2>1, <2>6, <2>7
<1> QED BY <1>1, <1>2

-----------------------------------------------------------------------------
(* Framing: the invariant.                                                 *)

(* The bytes of a stream, and those that have come.                        *)
FrPlaces == {<<k, o>> : k \in DOMAIN frStream, o \in Nat}
FrCame   == {FrAll[j] : j \in 1 .. frSent}

(* What the buffer holds up to recv_len_ was received; behind it, that of  *)
(* ISGWCIntf is zero.  The loop is not past the bytes received.            *)
FrBuffer ==
    /\ frBuf \in [1 .. FrMax -> FrFresh \cup FrPlaces]
    /\ \A i \in 1 .. frRecvLen : frBuf[i] \in FrCame
    /\ frMode = "ctext" =>
         \A i \in 1 .. FrMax : i > frRecvLen => frBuf[i] = FrZero
    /\ frDone <= frRecvLen
    /\ frAt = "idle" => frDone = 0

FrInv == FrTypeOK /\ FrBuffer

LEMMA FrNumbers ==
    /\ FrMax \in Nat /\ FrField \in Nat /\ 0 < FrField /\ FrField < FrMax
BY FrAssumption

(* Messages have sizes.                                                    *)
LEMMA FrSizes ==
    ASSUME NEW stream \in FrStreams
    PROVE  /\ DOMAIN stream = 1 .. Len(stream) /\ Len(stream) \in Nat
           /\ \A k \in DOMAIN stream : stream[k].size \in Nat
<1>1. PICK M : M = [size : Nat, cmd : Nat]
  OBVIOUS
<1>2. stream \in Seq(M)
  BY <1>1, FrAssumption
<1>3. DOMAIN stream = 1 .. Len(stream) /\ Len(stream) \in Nat
  BY <1>2
<1>4. \A k \in DOMAIN stream : stream[k] \in M
  BY <1>2
<1>5. \A m \in M : m.size \in Nat
  BY <1>1
<1> QED BY <1>3, <1>4, <1>5

(* The bytes of a message have places in the stream.                       *)
LEMMA FrAllPlaces ==
    ASSUME frStream \in FrStreams
    PROVE  FrAll \in Seq(FrPlaces)
<1>1. PICK stream : stream = frStream
  OBVIOUS
<1>2. /\ DOMAIN stream = 1 .. Len(stream) /\ Len(stream) \in Nat
      /\ \A k \in DOMAIN stream : stream[k].size \in Nat
  BY <1>1, FrSizes
<1>3. ASSUME NEW k \in DOMAIN stream PROVE FrBytes(k) \in Seq(FrPlaces)
  <2>1. stream[k].size \in Nat
    BY <1>2, <1>3
  <2>2. FrCount(k) \in Nat
    BY <1>1, <2>1, FrNumbers DEF FrCount, FrExtra
  <2>3. PICK n \in Nat : n = FrCount(k)
    BY <2>2
  <2>4. \A o \in 1 .. n : <<k, o>> \in FrPlaces
    BY <1>1, <1>3 DEF FrPlaces
  <2>5. [o \in 1 .. n |-> <<k, o>>] \in Seq(FrPlaces)
    BY <2>4
  <2> QED BY <2>3, <2>5 DEF FrBytes
<1>4. DOMAIN stream = 1 .. Len(stream) /\ Len(stream) \in Nat
  BY <1>2
<1>5. [k \in DOMAIN stream |-> FrBytes(k)] \in Seq(Seq(FrPlaces))
  BY <1>3, <1>4
<1> QED BY <1>1, <1>5, FlattenSeqType DEF FrAll

LEMMA FrCamePlaces ==
    ASSUME FrTypeOK
    PROVE  /\ FrCame \subseteq FrPlaces
           /\ Len(FrAll) \in Nat
           /\ \A n \in Nat : frSent + n <= Len(FrAll) =>
                \A i \in 1 .. n : FrAll[frSent + i] \in FrPlaces
<1>1. FrAll \in Seq(FrPlaces)
  BY FrAllPlaces DEF FrTypeOK
<1>2. PICK all \in Seq(FrPlaces) : all = FrAll
  BY <1>1
<1>3. frSent \in 0 .. Len(all)
  BY <1>2 DEF FrTypeOK
<1>4. {all[j] : j \in 1 .. frSent} \subseteq FrPlaces
  BY <1>3
<1> QED BY <1>2, <1>3, <1>4 DEF FrCame

(* strstr finds a byte that is sought, and none behind a zero.             *)
LEMMA FrFindFacts ==
    ASSUME NEW buf, NEW i \in Nat, i >= 1, NEW found
    PROVE  LET at == FrFind(buf, i, found)
           IN  at # 0 => /\ at \in i .. FrMax /\ at \in Nat
                         /\ buf[at] \in found
                         /\ \A z \in i .. at : buf[z] # FrZero
<1> DEFINE here == {j \in i .. FrMax :
                      buf[j] \in found /\ \A z \in i .. j : buf[z] # FrZero}
<1>1. CASE here = {}
  BY <1>1 DEF FrFind
<1>2. CASE here # {}
  <2>1. here \subseteq Nat
    BY FrNumbers
  <2>2. PICK n \in here : \A m \in here : n <= m
    <3> HIDE DEF here
    <3> QED BY <1>2, <2>1, LeastNatural
  <2>3. (CHOOSE j \in here : \A m \in here : j <= m) \in here
    BY <2>2
  <2>4. FrFind(buf, i, found) = CHOOSE j \in here : \A m \in here : j <= m
    BY <1>2 DEF FrFind
  <2>5. FrFind(buf, i, found) \in here
    BY <2>3, <2>4, Zenon
  <2> QED BY <2>1, <2>5
<1> QED BY <1>1, <1>2

(* A length field tells a length, wherever its bytes are from.             *)
LEMMA FrLengthsNat ==
    ASSUME FrTypeOK, NEW buf, NEW p \in Nat, buf \in [1 .. FrMax -> FrFresh \cup FrPlaces],
           p + FrField <= FrMax
    PROVE  FrLengths(buf, p) \subseteq Nat
<1>1. PICK stream : stream = frStream
  OBVIOUS
<1>2. \A k \in DOMAIN stream : stream[k].size \in Nat
  BY <1>1, FrSizes DEF FrTypeOK
<1> DEFINE field == SubSeq(buf, p + 1, p + FrField)
<1>3. field[1] = buf[p + 1] /\ p + 1 \in 1 .. FrMax
  <2>1. buf \in Seq(FrFresh \cup FrPlaces) /\ Len(buf) = FrMax
    BY FrNumbers
  <2> QED BY <2>1, FrNumbers
<1>4. field[1] \in FrFresh \cup FrPlaces
  BY <1>3
<1>5. field[1][1] > 0 => field[1][1] \in DOMAIN stream
  <2>1. CASE field[1] \in FrFresh
    <3> HIDE DEF field
    <3>1. field[1][1] = 0
      BY <2>1 DEF FrFresh, FrZero
    <3> QED BY <3>1
  <2>2. CASE field[1] \in FrPlaces
    <3> HIDE DEF field
    <3> QED BY <2>2, <1>1 DEF FrPlaces
  <2> QED BY <1>4, <2>1, <2>2
<1>6. field[1][1] > 0 => stream[field[1][1]].size \in Nat
  <2> HIDE DEF field
  <2> QED BY <1>2, <1>5
<1>7. \/ field[1][1] > 0 /\ FrLengths(buf, p) = {stream[field[1][1]].size}
      \/ FrLengths(buf, p) = 0 .. FrMax + 1
  BY <1>1 DEF FrLengths
<1> HIDE DEF field
<1> QED BY <1>6, <1>7, FrNumbers

LEMMA FrSame ==
    ASSUME UNCHANGED <<frMode, frStream>>
    PROVE  FrAll' = FrAll /\ FrPlaces' = FrPlaces
BY DEF FrAll, FrPlaces, FrBytes, FrCount, FrText, FrLegal, FrServes, FrExtra

LEMMA FrInvInit == FrInit => FrInv
<1> SUFFICES ASSUME FrInit PROVE FrInv
  OBVIOUS
<1>1. FrAll \in Seq(FrPlaces)
  BY FrAllPlaces DEF FrInit
<1>2. PICK b \in FrFresh : /\ frBuf = [i \in 1 .. FrMax |-> b]
                           /\ frMode # "text" => b = FrZero
  BY DEF FrInit, FrFresh
<1>3. /\ frBuf \in [1 .. FrMax -> FrFresh \cup FrPlaces]
      /\ \A i \in 1 .. FrMax : frBuf[i] \in FrFresh
  BY <1>2
<1>4. Len(FrAll) \in Nat /\ frSent = 0
  BY <1>1 DEF FrInit
<1>5. FrTypeOK
  <2>1. frSent \in 0 .. Len(FrAll)
    BY <1>4
  <2>2. frRecvLen \in 0 .. FrMax /\ frDone \in 0 .. FrMax /\ frMsgLen \in Nat
    BY FrNumbers DEF FrInit
  <2> QED BY <1>3, <2>1, <2>2 DEF FrInit, FrTypeOK
<1>6. FrBuffer
  BY <1>2, <1>3, FrNumbers DEF FrInit, FrBuffer
<1> QED BY <1>5, <1>6 DEF FrInv

(* A read: the buffer it leaves.                                           *)
FrArrival(n, len, got) ==
    /\ len \in 1 .. FrMax
    /\ got \in [1 .. FrMax -> FrFresh \cup FrPlaces]
    /\ \A i \in 1 .. len : got[i] \in {FrAll[j] : j \in 1 .. frSent + n}
    /\ \A i \in 1 .. FrMax : \/ got[i] \in FrFresh
                             \/ got[i] \in {FrAll[j] : j \in 1 .. frSent + n}
    /\ frMode = "ctext" => \A i \in 1 .. FrMax : i > len => got[i] = FrZero
    /\ frSent + n \in 0 .. Len(FrAll)

LEMMA FrArrives ==
    ASSUME FrInv, NEW n \in 1 .. FrMax - frRecvLen, frSent + n <= Len(FrAll)
    PROVE  FrArrival(n, frRecvLen + n,
                     [i \in 1 .. FrMax |->
                        IF i \in frRecvLen + 1 .. frRecvLen + n
                        THEN FrAll[frSent + i - frRecvLen] ELSE frBuf[i]])
<1> DEFINE len == frRecvLen + n
           got == [i \in 1 .. FrMax |->
                     IF i \in frRecvLen + 1 .. len
                     THEN FrAll[frSent + i - frRecvLen] ELSE frBuf[i]]
           come == {FrAll[j] : j \in 1 .. frSent + n}
<1>1. /\ FrMax \in Nat /\ frRecvLen \in 0 .. FrMax /\ frSent \in 0 .. Len(FrAll)
      /\ n \in Nat /\ n >= 1 /\ len \in 1 .. FrMax
  BY FrNumbers DEF FrInv, FrTypeOK
<1>2. Len(FrAll) \in Nat /\ frSent + n \in 0 .. Len(FrAll)
  BY <1>1, FrCamePlaces DEF FrInv
<1>3. FrCame \subseteq come
  <2>1. \A j \in 1 .. frSent : j \in 1 .. frSent + n
    BY <1>1, <1>2
  <2> QED BY <2>1 DEF FrCame
<1>4. ASSUME NEW i \in frRecvLen + 1 .. len
      PROVE  FrAll[frSent + i - frRecvLen] \in come \cap FrPlaces
  <2>1. i - frRecvLen \in 1 .. n /\ frSent + i - frRecvLen = frSent + (i - frRecvLen)
        /\ frSent + (i - frRecvLen) \in 1 .. frSent + n
    BY <1>1, <1>2
  <2>2. FrAll[frSent + (i - frRecvLen)] \in FrPlaces
    BY <1>1, <2>1, FrCamePlaces DEF FrInv
  <2>3. FrAll[frSent + (i - frRecvLen)] \in come
    BY <2>1
  <2> QED BY <2>1, <2>2, <2>3
<1>5. ASSUME NEW i \in 1 .. FrMax
      PROVE  /\ i \in frRecvLen + 1 .. len => got[i] \in come \cap FrPlaces
             /\ i \notin frRecvLen + 1 .. len => got[i] = frBuf[i]
  <2> HIDE DEF come
  <2>1. i \in frRecvLen + 1 .. len => got[i] = FrAll[frSent + i - frRecvLen]
    OBVIOUS
  <2>2. i \notin frRecvLen + 1 .. len => got[i] = frBuf[i]
    OBVIOUS
  <2> HIDE DEF got, len
  <2> QED BY <1>4, <2>1, <2>2
<1>6. \A i \in 1 .. FrMax : got[i] \in FrFresh \cup FrPlaces
  <2> HIDE DEF got, come
  <2> QED BY <1>5 DEF FrInv, FrBuffer
<1>7. got \in [1 .. FrMax -> FrFresh \cup FrPlaces]
  <2>1. got = [i \in 1 .. FrMax |-> got[i]]
    OBVIOUS
  <2> HIDE DEF got
  <2> QED BY <1>6, <2>1
<1>8. \A i \in 1 .. len : got[i] \in come
  <2> SUFFICES ASSUME NEW i \in 1 .. len PROVE got[i] \in come
    OBVIOUS
  <2>1. i \in 1 .. FrMax /\ (i \in frRecvLen + 1 .. len \/ i \in 1 .. frRecvLen)
    BY <1>1
  <2>2. i \in 1 .. frRecvLen => i \notin frRecvLen + 1 .. len
    BY <1>1
  <2> HIDE DEF got, come, len
  <2>3. i \in 1 .. frRecvLen => frBuf[i] \in FrCame
    BY DEF FrInv, FrBuffer
  <2> QED BY <2>1, <2>2, <2>3, <1>3, <1>5
<1>9. \A i \in 1 .. FrMax : got[i] \in FrFresh \/ got[i] \in come
  <2> SUFFICES ASSUME NEW i \in 1 .. FrMax PROVE got[i] \in FrFresh \/ got[i] \in come
    OBVIOUS
  <2> HIDE DEF got, come, len
  <2>1. frBuf[i] \in FrFresh \/ frBuf[i] \in FrCame
    BY DEF FrInv, FrTypeOK, FrCame
  <2> QED BY <2>1, <1>3, <1>5
<1>10. ASSUME frMode = "ctext", NEW i \in 1 .. FrMax, i > len PROVE got[i] = FrZero
  <2>1. i \notin frRecvLen + 1 .. len /\ i > frRecvLen
    BY <1>1, <1>10
  <2> HIDE DEF got
  <2> QED BY <2>1, <1>5, <1>10 DEF FrInv, FrBuffer
<1> HIDE DEF got, come
<1>11. FrArrival(n, len, got)
  BY <1>1, <1>2, <1>7, <1>8, <1>9, <1>10 DEF FrArrival, come
<1> QED BY <1>11 DEF len, got
(* The bytes with which a message ends, among those received, say which.   *)
LEMMA FrEndsOf ==
    ASSUME FrInv, NEW n, NEW len, NEW got, FrArrival(n, len, got), n \in Nat
    PROVE  {got[i][1] : i \in {j \in 1 .. len : got[j] \in FrSep}} \subseteq DOMAIN frStream
<1> SUFFICES ASSUME NEW i \in 1 .. len PROVE got[i][1] \in DOMAIN frStream
  OBVIOUS
<1>1. PICK j \in 1 .. frSent + n : got[i] = FrAll[j]
  BY DEF FrArrival
<1>2. FrAll \in Seq(FrPlaces)
  BY FrAllPlaces DEF FrInv, FrTypeOK
<1>3. frSent + n \in 0 .. Len(FrAll)
  BY DEF FrArrival
<1>4. got[i] \in FrPlaces
  <2>1. PICK all \in Seq(FrPlaces) : all = FrAll
    BY <1>2
  <2>2. j \in 1 .. Len(all)
    BY <1>3, <2>1
  <2> QED BY <1>1, <2>1, <2>2
<1> QED BY <1>4 DEF FrPlaces

(* What a step has to keep, with the buffer it leaves.                     *)
LEMMA FrKept ==
    ASSUME FrInv, UNCHANGED <<frMode, frStream>>,
           frSent' \in 0 .. Len(FrAll),
           frBuf' \in [1 .. FrMax -> FrFresh \cup FrPlaces],
           \A i \in 1 .. FrMax : \/ frBuf'[i] \in FrFresh
                                 \/ frBuf'[i] \in {FrAll[j] : j \in 1 .. frSent'},
           \A i \in 1 .. frRecvLen' : frBuf'[i] \in {FrAll[j] : j \in 1 .. frSent'},
           frMode = "ctext" =>
             \A i \in 1 .. FrMax : i > frRecvLen' => frBuf'[i] = FrZero,
           frRecvLen' \in 0 .. FrMax, frMsgLen' \in Nat,
           frAt' \in {"idle", "loop", "closed"},
           frDone' \in 0 .. FrMax, frDone' <= frRecvLen',
           frAt' = "idle" => frDone' = 0,
           frDropped' \subseteq DOMAIN frStream, frAstray' \in BOOLEAN
    PROVE  FrInv'
<1>1. FrAll' = FrAll /\ FrPlaces' = FrPlaces
  BY FrSame
<1>2. FrTypeOK'
  BY <1>1 DEF FrInv, FrTypeOK
<1>3. FrBuffer'
  BY <1>1 DEF FrBuffer, FrCame
<1> QED BY <1>2, <1>3 DEF FrInv

LEMMA FrRecvInv ==
    ASSUME FrInv, FrRecv
    PROVE  FrInv'
<1>1. PICK n \in 1 .. FrMax - frRecvLen :
        \E len, got :
          /\ len = frRecvLen + n
          /\ got = [i \in 1 .. FrMax |->
                      IF i \in frRecvLen + 1 .. len
                      THEN FrAll[frSent + i - frRecvLen] ELSE frBuf[i]]
          /\ frSent + n <= Len(FrAll)
          /\ frSent' = frSent + n
          /\ FrTextArrives(got, len) \/ FrLengthArrives(got, len)
  BY DEF FrRecv
<1>2. PICK len, got :
          /\ len = frRecvLen + n
          /\ got = [i \in 1 .. FrMax |->
                      IF i \in frRecvLen + 1 .. len
                      THEN FrAll[frSent + i - frRecvLen] ELSE frBuf[i]]
          /\ frSent + n <= Len(FrAll)
          /\ frSent' = frSent + n
          /\ FrTextArrives(got, len) \/ FrLengthArrives(got, len)
  BY <1>1
<1>3. FrArrival(n, len, got)
  BY <1>2, FrArrives
<1>4. /\ UNCHANGED <<frMode, frStream, frDone>> /\ frAt = "idle" /\ frDone = 0
  BY DEF FrRecv, FrStays, FrInv, FrBuffer
<1>5. n \in Nat /\ FrMax \in Nat /\ len \in 1 .. FrMax
  BY <1>3, FrNumbers DEF FrArrival, FrInv, FrTypeOK
<1>6. CASE FrRefused(got, len) /\ UNCHANGED frMsgLen
  <2>1. /\ frRecvLen' = 0 /\ frAt' = "idle"
        /\ frBuf' = IF frMode = "ctext" THEN [i \in 1 .. FrMax |-> FrZero] ELSE got
        /\ frDropped' = frDropped \cup
                {got[i][1] : i \in {j \in 1 .. len : got[j] \in FrSep}}
        /\ frAstray' \in BOOLEAN
    BY <1>6 DEF FrRefused, FrGoOn, FrInv, FrTypeOK
  <2>2. frDropped' \subseteq DOMAIN frStream
    <3>1. {got[i][1] : i \in {j \in 1 .. len : got[j] \in FrSep}} \subseteq DOMAIN frStream
      BY <1>3, <1>5, FrEndsOf
    <3>2. PICK refused : refused = {got[i][1] : i \in {j \in 1 .. len : got[j] \in FrSep}}
      OBVIOUS
    <3>3. frDropped' = frDropped \cup refused /\ refused \subseteq DOMAIN frStream
      BY <2>1, <3>1, <3>2, Zenon
    <3> QED BY <3>3 DEF FrInv, FrTypeOK
  <2>3. /\ frBuf' \in [1 .. FrMax -> FrFresh \cup FrPlaces]
        /\ \A i \in 1 .. FrMax : \/ frBuf'[i] \in FrFresh
                                 \/ frBuf'[i] \in {FrAll[j] : j \in 1 .. frSent'}
        /\ frMode = "ctext" => \A i \in 1 .. FrMax : frBuf'[i] = FrZero
    <3>1. CASE frMode = "ctext"
      BY <2>1, <3>1 DEF FrFresh
    <3>2. CASE frMode # "ctext"
      BY <1>2, <1>3, <2>1, <3>2 DEF FrArrival
    <3> QED BY <3>1, <3>2
  <2>4. frSent' \in 0 .. Len(FrAll) /\ frMsgLen' \in Nat
    BY <1>2, <1>3, <1>6 DEF FrArrival, FrInv, FrTypeOK
  <2>5. 0 \in 0 .. FrMax /\ 0 <= 0 /\ \A i \in 1 .. 0 : FALSE
    BY <1>5
  <2> QED BY <1>4, <2>1, <2>2, <2>3, <2>4, <2>5, FrKept
<1>7. CASE /\ frBuf' = got /\ frRecvLen' = len /\ frMsgLen' \in Nat
           /\ frAt' \in {"idle", "loop", "closed"}
           /\ UNCHANGED <<frDropped, frAstray>>
  <2>1. /\ frSent' \in 0 .. Len(FrAll)
        /\ frBuf' \in [1 .. FrMax -> FrFresh \cup FrPlaces]
        /\ \A i \in 1 .. FrMax : \/ frBuf'[i] \in FrFresh
                                 \/ frBuf'[i] \in {FrAll[j] : j \in 1 .. frSent'}
        /\ \A i \in 1 .. frRecvLen' : frBuf'[i] \in {FrAll[j] : j \in 1 .. frSent'}
        /\ frMode = "ctext" =>
             \A i \in 1 .. FrMax : i > frRecvLen' => frBuf'[i] = FrZero
    BY <1>2, <1>3, <1>7 DEF FrArrival
  <2>2. frRecvLen' \in 0 .. FrMax /\ frDone' \in 0 .. FrMax /\ frDone' <= frRecvLen'
    BY <1>4, <1>5, <1>7
  <2>3. frDropped' \subseteq DOMAIN frStream /\ frAstray' \in BOOLEAN
    BY <1>7 DEF FrInv, FrTypeOK
  <2> QED BY <1>4, <1>7, <2>1, <2>2, <2>3, FrKept
<1>8. FrTextArrives(got, len) =>
        \/ FrRefused(got, len) /\ UNCHANGED frMsgLen
        \/ /\ frBuf' = got /\ frRecvLen' = len /\ frMsgLen' \in Nat
           /\ frAt' \in {"idle", "loop", "closed"}
           /\ UNCHANGED <<frDropped, frAstray>>
  BY DEF FrTextArrives, FrNoEnd, FrEnded, FrGoOn, FrInv, FrTypeOK
<1>9. ASSUME FrLengthArrives(got, len)
      PROVE  /\ frBuf' = got /\ frRecvLen' = len /\ frMsgLen' \in Nat
             /\ frAt' \in {"idle", "loop", "closed"}
             /\ UNCHANGED <<frDropped, frAstray>>
  <2>1. frMsgLen' \in FrFirstLengths(got, len)
    BY <1>9 DEF FrLengthArrives
  <2>2. FrLengths(got, 0) \subseteq Nat
    <3>1. FrTypeOK /\ 0 \in Nat /\ 0 + FrField <= FrMax
      BY FrNumbers DEF FrInv
    <3> QED BY <1>3, <3>1, FrLengthsNat DEF FrArrival
  <2>3. frMsgLen' \in Nat
    BY <2>1, <2>2 DEF FrFirstLengths, FrInv, FrTypeOK
  <2> QED BY <1>9, <2>3 DEF FrLengthArrives, FrGoOn
<1> QED BY <1>2, <1>6, <1>7, <1>8, <1>9

(* The loop goes no further than what was received.                        *)
LEMMA FrEndReceived ==
    ASSUME FrInv, FrEnd # 0
    PROVE  FrEnd \in 0 .. FrMax /\ FrEnd \in Nat /\ FrEnd <= frRecvLen /\ frDone <= FrEnd
<1>1. /\ FrMax \in Nat /\ frRecvLen \in 0 .. FrMax /\ frDone \in 0 .. FrMax
      /\ frMsgLen \in Nat /\ FrExtra \in Nat /\ frDone <= frRecvLen
  BY FrNumbers DEF FrInv, FrTypeOK, FrBuffer, FrExtra
<1>2. CASE FrText
  <2>1. PICK end : end = FrFind(frBuf, frDone + 1, FrSep)
    OBVIOUS
  <2>2. FrEnd = end /\ end # 0 /\ (frMode = "text" => ~ (end > frRecvLen))
    BY <1>2, <2>1 DEF FrEnd, FrTextEnd
  <2>3. /\ end \in frDone + 1 .. FrMax /\ end \in Nat
        /\ \A z \in frDone + 1 .. end : frBuf[z] # FrZero
    <3>1. frDone + 1 \in Nat /\ frDone + 1 >= 1
      BY <1>1
    <3> QED BY <2>1, <2>2, <3>1, FrFindFacts
  <2>4. frMode = "ctext" => ~ (end > frRecvLen)
    <3> SUFFICES ASSUME frMode = "ctext", end > frRecvLen PROVE FALSE
      OBVIOUS
    <3>1. end \in 1 .. FrMax /\ end \in frDone + 1 .. end
      BY <1>1, <2>3
    <3>2. frBuf[end] = FrZero
      BY <3>1 DEF FrInv, FrBuffer
    <3> QED BY <2>3, <3>1, <3>2
  <2>5. ~ (end > frRecvLen)
    BY <1>2, <2>2, <2>4 DEF FrText
  <2> QED BY <1>1, <2>2, <2>3, <2>5
<1>3. CASE ~FrText
  <2>1. FrEnd = frDone + FrExtra + frMsgLen /\ frDone + FrExtra + frMsgLen <= frRecvLen
    BY <1>3 DEF FrEnd
  <2> QED BY <1>1, <2>1
<1> QED BY <1>2, <1>3

LEMMA FrProcessInv ==
    ASSUME FrInv, FrProcess
    PROVE  FrInv'
<1>1. PICK end : end = FrEnd
  OBVIOUS
<1>2. end \in 0 .. FrMax /\ end \in Nat /\ end <= frRecvLen
  BY <1>1, FrEndReceived DEF FrProcess
<1>3. /\ frDone' = end /\ FrNextLength(end)
      /\ UNCHANGED <<frMode, frStream, frSent, frBuf, frRecvLen, frDropped, frAstray>>
  BY <1>1 DEF FrProcess
<1>4. /\ FrMax \in Nat /\ frRecvLen \in 0 .. FrMax /\ FrField \in Nat /\ frMsgLen \in Nat
  BY FrNumbers DEF FrInv, FrTypeOK
<1>5. frAt' \in {"loop", "closed"}
  BY <1>3 DEF FrNextLength
<1>6. frMsgLen' \in Nat
  <2>1. CASE FrText \/ frRecvLen - end < FrField
    BY <1>3, <1>4, <2>1 DEF FrNextLength
  <2>2. CASE ~ (FrText \/ frRecvLen - end < FrField)
    <3>1. frMsgLen' \in FrLengths(frBuf, end)
      BY <1>3, <2>2 DEF FrNextLength
    <3>2. end + FrField <= FrMax
      BY <1>2, <1>4, <2>2
    <3>3. FrLengths(frBuf, end) \subseteq Nat
      BY <1>2, <3>2, FrLengthsNat DEF FrInv, FrBuffer
    <3> QED BY <3>1, <3>3
  <2> QED BY <2>1, <2>2
<1>7. /\ frSent' \in 0 .. Len(FrAll)
      /\ frBuf' \in [1 .. FrMax -> FrFresh \cup FrPlaces]
      /\ \A i \in 1 .. FrMax : \/ frBuf'[i] \in FrFresh
                               \/ frBuf'[i] \in {FrAll[j] : j \in 1 .. frSent'}
      /\ \A i \in 1 .. frRecvLen' : frBuf'[i] \in {FrAll[j] : j \in 1 .. frSent'}
      /\ frMode = "ctext" =>
           \A i \in 1 .. FrMax : i > frRecvLen' => frBuf'[i] = FrZero
      /\ frDropped' \subseteq DOMAIN frStream /\ frAstray' \in BOOLEAN
  BY <1>3 DEF FrInv, FrTypeOK, FrBuffer, FrCame
<1>8. frAt' \in {"idle", "loop", "closed"} /\ (frAt' = "idle" => frDone' = 0)
  BY <1>5
<1>9. frRecvLen' \in 0 .. FrMax /\ frDone' \in 0 .. FrMax /\ frDone' <= frRecvLen'
  BY <1>2, <1>3, <1>4
<1> QED BY <1>3, <1>6, <1>7, <1>8, <1>9, FrKept

LEMMA FrCloseInv ==
    ASSUME FrInv, FrClose
    PROVE  FrInv'
<1>1. FrAll' = FrAll /\ FrPlaces' = FrPlaces
  BY FrSame DEF FrClose
<1>2. FrTypeOK'
  BY <1>1 DEF FrClose, FrInv, FrTypeOK
<1>3. FrBuffer'
  BY <1>1 DEF FrClose, FrInv, FrBuffer, FrCame
<1> QED BY <1>2, <1>3 DEF FrInv

LEMMA FrLeaveInv ==
    ASSUME FrInv, FrLeave
    PROVE  FrInv'
<1>1. PICK left, moved : /\ left = frRecvLen - frDone
                         /\ moved = SubSeq(frBuf, frDone + 1, frRecvLen)
  OBVIOUS
<1>2. /\ FrMax \in Nat /\ frRecvLen \in 0 .. FrMax /\ frDone \in 0 .. FrMax
      /\ frMsgLen \in Nat /\ frDone <= frRecvLen
  BY FrNumbers DEF FrInv, FrTypeOK, FrBuffer
<1>3. left \in 0 .. FrMax /\ left <= frRecvLen /\ left \in Nat
  BY <1>1, <1>2
<1>4. /\ frBuf' = [i \in 1 .. FrMax |->
                     IF i <= left THEN moved[i]
                     ELSE IF frMode = "ctext" THEN FrZero ELSE frBuf[i]]
      /\ frRecvLen' = left
      /\ frMsgLen' = IF left = 0 THEN 0 ELSE frMsgLen
      /\ frAt' = "idle" /\ frDone' = 0
      /\ UNCHANGED <<frMode, frStream, frSent, frDropped>>
  BY <1>1, Zenon DEF FrLeave
<1>5. frAstray' \in BOOLEAN
  BY DEF FrLeave, FrInv, FrTypeOK
<1>6. ASSUME NEW i \in 1 .. left
      PROVE  moved[i] = frBuf[i + frDone] /\ i + frDone \in 1 .. frRecvLen
  <2>1. frBuf \in Seq(FrFresh \cup FrPlaces) /\ Len(frBuf) = FrMax
    BY <1>2 DEF FrInv, FrBuffer
  <2> QED BY <1>1, <1>2, <2>1
<1>7. \A i \in 1 .. left : moved[i] \in FrCame
  BY <1>6 DEF FrInv, FrBuffer
<1>8. ASSUME NEW i \in 1 .. FrMax
      PROVE  /\ i <= left => i \in 1 .. left /\ frBuf'[i] = moved[i]
             /\ ~ (i <= left) => frBuf'[i] = IF frMode = "ctext" THEN FrZero ELSE frBuf[i]
  BY <1>3, <1>4
<1>9. FrCame \subseteq FrPlaces
  BY FrCamePlaces DEF FrInv
<1>10. ASSUME NEW i \in 1 .. FrMax
       PROVE  /\ frBuf'[i] \in FrFresh \cup FrPlaces
              /\ frBuf'[i] \in FrFresh \/ frBuf'[i] \in FrCame
  <2>1. /\ frBuf[i] \in FrFresh \cup FrPlaces
        /\ frBuf[i] \in FrFresh \/ frBuf[i] \in FrCame
    BY DEF FrInv, FrTypeOK, FrBuffer, FrCame
  <2>2. CASE i <= left
    BY <1>7, <1>8, <1>9, <2>2
  <2>3. CASE ~ (i <= left)
    <3>1. FrZero \in FrFresh
      BY DEF FrFresh
    <3> QED BY <1>8, <2>1, <2>3, <3>1
  <2> QED BY <2>2, <2>3
<1>11. frBuf' \in [1 .. FrMax -> FrFresh \cup FrPlaces]
  <2>1. PICK buf : buf = frBuf'
    OBVIOUS
  <2>2. buf = [i \in 1 .. FrMax |-> buf[i]]
    BY <1>4, <2>1
  <2> QED BY <1>10, <2>1, <2>2
<1>12. FrCame = {FrAll[j] : j \in 1 .. frSent'}
  BY <1>4 DEF FrCame
<1>13. \A i \in 1 .. frRecvLen' : frBuf'[i] \in FrCame
  <2> SUFFICES ASSUME NEW i \in 1 .. left PROVE frBuf'[i] \in FrCame
    BY <1>4
  <2>1. i \in 1 .. FrMax /\ i <= left
    BY <1>2, <1>3
  <2> QED BY <1>7, <1>8, <2>1
<1>14. ASSUME frMode = "ctext", NEW i \in 1 .. FrMax, i > frRecvLen'
       PROVE  frBuf'[i] = FrZero
  <2>1. ~ (i <= left)
    BY <1>3, <1>4, <1>14
  <2> QED BY <1>8, <1>14, <2>1
<1>15. /\ frRecvLen' \in 0 .. FrMax /\ frDone' \in 0 .. FrMax /\ frDone' <= frRecvLen'
       /\ frMsgLen' \in Nat
  BY <1>2, <1>3, <1>4
<1>16. frSent' \in 0 .. Len(FrAll) /\ frDropped' \subseteq DOMAIN frStream
  BY <1>4 DEF FrInv, FrTypeOK
<1> QED BY <1>4, <1>5, <1>10, <1>11, <1>12, <1>13, <1>14, <1>15, <1>16, FrKept

LEMMA FrAlwaysInv == FrSpec => []FrInv
<1>1. FrInv /\ [FrNext]_frVars => FrInv'
  <2> SUFFICES ASSUME FrInv, [FrNext]_frVars PROVE FrInv'
    OBVIOUS
  <2>1. CASE FrNothing \/ FrTimeout \/ FrProcessFails
    BY <2>1, FrCloseInv DEF FrNothing, FrTimeout, FrProcessFails
  <2>2. CASE UNCHANGED frVars
    <3>1. FrAll' = FrAll /\ FrPlaces' = FrPlaces
      BY <2>2, FrSame DEF frVars
    <3> QED BY <2>2, <3>1 DEF frVars, FrInv, FrTypeOK, FrBuffer, FrCame
  <2> QED BY <2>1, <2>2, FrRecvInv, FrProcessInv, FrLeaveInv DEF FrNext
<1> QED BY <1>1, FrInvInit, PTL DEF FrSpec

-----------------------------------------------------------------------------
(* Framing: the elements of a sequence with some of its numbers.           *)
TakenSteps(s, taken, n, f) ==
    f = [i \in 0 .. n |->
           IF i = 0 THEN <<>>
           ELSE IF i \in taken THEN Append(f[i - 1], s[i]) ELSE f[i - 1]]

LEMMA TakenStepsExist ==
    ASSUME NEW s, NEW taken
    PROVE  \A n \in Nat : \E f : TakenSteps(s, taken, n, f)
<1> DEFINE S == {n \in Nat : \E f : TakenSteps(s, taken, n, f)}
<1>1. 0 \in S
  <2> DEFINE f == [i \in 0 .. 0 |-> <<>>]
  <2>1. TakenSteps(s, taken, 0, f)
    BY DEF TakenSteps
  <2> QED BY <2>1
<1>2. ASSUME NEW n \in Nat, n \in S PROVE n + 1 \in S
  <2>1. PICK f : TakenSteps(s, taken, n, f)
    BY <1>2
  <2> DEFINE last == IF n + 1 \in taken THEN Append(f[n], s[n + 1]) ELSE f[n]
             g == [i \in 0 .. n + 1 |-> IF i <= n THEN f[i] ELSE last]
             h == [i \in 0 .. n + 1 |->
                     IF i = 0 THEN <<>>
                     ELSE IF i \in taken THEN Append(g[i - 1], s[i]) ELSE g[i - 1]]
  <2>2. ASSUME NEW i \in 0 .. n + 1 PROVE g[i] = h[i]
    <3>1. /\ i <= n => g[i] = f[i] /\ i \in 0 .. n
          /\ ~ (i <= n) => g[i] = last /\ i = n + 1 /\ i # 0 /\ i - 1 = n
          /\ i # 0 => g[i - 1] = f[i - 1]
      OBVIOUS
    <3>2. h[i] = IF i = 0 THEN <<>>
                 ELSE IF i \in taken THEN Append(g[i - 1], s[i]) ELSE g[i - 1]
      <4> HIDE DEF g
      <4> QED OBVIOUS
    <3>3. i <= n => f[i] = IF i = 0 THEN <<>>
                 ELSE IF i \in taken THEN Append(f[i - 1], s[i]) ELSE f[i - 1]
      BY <2>1, <3>1 DEF TakenSteps
    <3> HIDE DEF g, h
    <3>4. CASE i <= n
      BY <3>1, <3>2, <3>3, <3>4
    <3>5. CASE ~ (i <= n)
      BY <3>1, <3>2, <3>5
    <3> QED BY <3>4, <3>5
  <2>3. /\ g = [i \in 0 .. n + 1 |-> g[i]]
        /\ h = [i \in 0 .. n + 1 |-> h[i]]
    OBVIOUS
  <2>4. h = [i \in 0 .. n + 1 |->
                     IF i = 0 THEN <<>>
                     ELSE IF i \in taken THEN Append(g[i - 1], s[i]) ELSE g[i - 1]]
    OBVIOUS
  <2> HIDE DEF g, h
  <2>5. TakenSteps(s, taken, n + 1, g)
    BY <2>2, <2>3, <2>4 DEF TakenSteps
  <2> QED BY <2>5
<1>3. \A n \in Nat : n \in S
  <2> HIDE DEF S
  <2> QED BY <1>1, <1>2, NaturalInduction
<1> QED BY <1>3

(* Those of the first i elements.                                          *)
TakenOf(s, taken) == CHOOSE f : TakenSteps(s, taken, Len(s), f)

LEMMA TakenOfSteps ==
    ASSUME NEW T, NEW s \in Seq(T), NEW taken
    PROVE  /\ FrTaken(s, taken) = TakenOf(s, taken)[Len(s)]
           /\ TakenOf(s, taken)[0] = <<>>
           /\ \A i \in 1 .. Len(s) :
                TakenOf(s, taken)[i] =
                  IF i \in taken THEN Append(TakenOf(s, taken)[i - 1], s[i])
                  ELSE TakenOf(s, taken)[i - 1]
<1> DEFINE f == CHOOSE g : TakenSteps(s, taken, Len(s), g)
<1>1. FrTaken(s, taken) = f[Len(s)]
  BY DEF FrTaken, TakenSteps
<1>2. Len(s) \in Nat
  OBVIOUS
<1>3. TakenSteps(s, taken, Len(s), f)
  BY <1>2, TakenStepsExist
<1>4. f = TakenOf(s, taken)
  BY DEF TakenOf
<1> HIDE DEF f
<1>5. 0 \in 0 .. Len(s) /\ \A i \in 1 .. Len(s) : i \in 0 .. Len(s) /\ i # 0
  BY <1>2
<1>6. \A i \in 0 .. Len(s) :
        f[i] = IF i = 0 THEN <<>>
               ELSE IF i \in taken THEN Append(f[i - 1], s[i]) ELSE f[i - 1]
  BY <1>3 DEF TakenSteps
<1> QED BY <1>1, <1>4, <1>5, <1>6

LEMMA TakenOfType ==
    ASSUME NEW T, NEW s \in Seq(T), NEW taken
    PROVE  \A i \in 0 .. Len(s) : TakenOf(s, taken)[i] \in Seq(T)
<1> DEFINE f == TakenOf(s, taken)
           S == {i \in Nat : i \in 0 .. Len(s) => f[i] \in Seq(T)}
<1>1. Len(s) \in Nat
  OBVIOUS
<1>2. /\ f[0] = <<>>
      /\ \A i \in 1 .. Len(s) :
           f[i] = IF i \in taken THEN Append(f[i - 1], s[i]) ELSE f[i - 1]
  BY TakenOfSteps
<1> HIDE DEF f
<1>3. 0 \in S
  <2>1. <<>> \in Seq(T)
    OBVIOUS
  <2> QED BY <1>2, <2>1
<1>4. ASSUME NEW i \in Nat, i \in S PROVE i + 1 \in S
  <2> SUFFICES ASSUME i + 1 \in 0 .. Len(s) PROVE f[i + 1] \in Seq(T)
    OBVIOUS
  <2>1. f[i] \in Seq(T) /\ i + 1 \in 1 .. Len(s) /\ (i + 1) - 1 = i
    BY <1>1, <1>4
  <2>2. s[i + 1] \in T
    BY <2>1
  <2>3. Append(f[i], s[i + 1]) \in Seq(T)
    BY <2>1, <2>2
  <2>4. f[i + 1] = IF i + 1 \in taken THEN Append(f[i], s[i + 1]) ELSE f[i]
    BY <1>2, <2>1
  <2> QED BY <2>1, <2>3, <2>4
<1>5. \A i \in Nat : i \in S
  <2> HIDE DEF S
  <2> QED BY <1>3, <1>4, NaturalInduction
<1> QED BY <1>1, <1>5 DEF f

(* The first i elements are taken alike if their numbers are.              *)
LEMMA TakenOfSame ==
    ASSUME NEW T, NEW s \in Seq(T), NEW taken, NEW others, NEW m \in 0 .. Len(s),
           \A i \in 1 .. m : i \in taken <=> i \in others
    PROVE  TakenOf(s, taken)[m] = TakenOf(s, others)[m]
<1> DEFINE f == TakenOf(s, taken)
           g == TakenOf(s, others)
           S == {i \in Nat : i \in 0 .. m => f[i] = g[i]}
<1>1. Len(s) \in Nat
  OBVIOUS
<1>2. /\ f[0] = <<>>
      /\ \A i \in 1 .. Len(s) :
           f[i] = IF i \in taken THEN Append(f[i - 1], s[i]) ELSE f[i - 1]
  BY TakenOfSteps
<1>3. /\ g[0] = <<>>
      /\ \A i \in 1 .. Len(s) :
           g[i] = IF i \in others THEN Append(g[i - 1], s[i]) ELSE g[i - 1]
  BY TakenOfSteps
<1> HIDE DEF f, g
<1>4. 0 \in S
  BY <1>2, <1>3
<1>5. ASSUME NEW i \in Nat, i \in S PROVE i + 1 \in S
  <2> SUFFICES ASSUME i + 1 \in 0 .. m PROVE f[i + 1] = g[i + 1]
    OBVIOUS
  <2>1. /\ f[i] = g[i] /\ i + 1 \in 1 .. Len(s) /\ (i + 1) - 1 = i
        /\ (i + 1 \in taken <=> i + 1 \in others)
    BY <1>1, <1>5
  <2> QED BY <1>2, <1>3, <2>1
<1>6. \A i \in Nat : i \in S
  <2> HIDE DEF S
  <2> QED BY <1>4, <1>5, NaturalInduction
<1> QED BY <1>1, <1>6 DEF f, g

(* What is taken of more elements begins with what is taken of fewer, and  *)
(* is the same if none of the others is taken.                             *)
LEMMA TakenOfMore ==
    ASSUME NEW T, NEW s \in Seq(T), NEW taken, NEW m \in 0 .. Len(s)
    PROVE  /\ \A n \in m .. Len(s) :
                IsPrefix(TakenOf(s, taken)[m], TakenOf(s, taken)[n])
           /\ \A n \in m .. Len(s) : taken \cap (m + 1 .. n) = {} =>
                TakenOf(s, taken)[n] = TakenOf(s, taken)[m]
<1> DEFINE f == TakenOf(s, taken)
           S == {i \in Nat : m + i \in m .. Len(s) =>
                   /\ IsPrefix(f[m], f[m + i])
                   /\ taken \cap (m + 1 .. m + i) = {} => f[m + i] = f[m]}
<1>1. Len(s) \in Nat /\ m \in Nat
  OBVIOUS
<1>2. \A i \in 1 .. Len(s) :
        f[i] = IF i \in taken THEN Append(f[i - 1], s[i]) ELSE f[i - 1]
  BY TakenOfSteps
<1>3. \A i \in 0 .. Len(s) : f[i] \in Seq(T)
  BY TakenOfType
<1> HIDE DEF f
<1>4. 0 \in S
  <2>1. m + 0 = m /\ f[m] \in Seq(T)
    BY <1>1, <1>3
  <2> QED BY <2>1 DEF IsPrefix
<1>5. ASSUME NEW i \in Nat, i \in S PROVE i + 1 \in S
  <2> SUFFICES ASSUME m + (i + 1) \in m .. Len(s)
               PROVE  /\ IsPrefix(f[m], f[m + (i + 1)])
                      /\ taken \cap (m + 1 .. m + (i + 1)) = {}
                           => f[m + (i + 1)] = f[m]
    OBVIOUS
  <2>1. PICK j \in 0 .. Len(s) : j = m + i
    BY <1>1
  <2>2. /\ j + 1 = m + (i + 1) /\ j \in m .. Len(s) /\ (j + 1) - 1 = j
        /\ j + 1 \in 1 .. Len(s) /\ j + 1 \in m + 1 .. j + 1
        /\ \A k \in m + 1 .. j : k \in m + 1 .. j + 1
    BY <1>1, <2>1
  <2>3. IsPrefix(f[m], f[j]) /\ (taken \cap (m + 1 .. j) = {} => f[j] = f[m])
    BY <1>5, <2>1, <2>2
  <2>4. f[j + 1] = IF j + 1 \in taken THEN Append(f[j], s[j + 1]) ELSE f[j]
    BY <1>2, <2>2
  <2>5. f[m] \in Seq(T) /\ f[j] \in Seq(T) /\ s[j + 1] \in T
    BY <1>3, <2>2
  <2>6. IsPrefix(f[m], f[j + 1])
    BY <2>3, <2>4, <2>5 DEF IsPrefix
  <2>7. taken \cap (m + 1 .. j + 1) = {} => f[j + 1] = f[m]
    BY <2>2, <2>3, <2>4
  <2> QED BY <2>2, <2>6, <2>7
<1>6. \A i \in Nat : i \in S
  <2> HIDE DEF S
  <2> QED BY <1>4, <1>5, NaturalInduction
<1>7. ASSUME NEW n \in m .. Len(s)
      PROVE /\ IsPrefix(f[m], f[n])
            /\ taken \cap (m + 1 .. n) = {} => f[n] = f[m]
  <2>1. n - m \in Nat /\ m + (n - m) = n
    BY <1>1
  <2>2. n - m \in S
    BY <1>6, <2>1
  <2> QED BY <2>1, <2>2
<1> QED BY <1>7 DEF f

(* More elements taken behind those that were: nothing before changes.     *)
LEMMA TakenPrefix ==
    ASSUME NEW T, NEW s \in Seq(T), NEW m \in 0 .. Len(s),
           NEW fewer \in SUBSET (1 .. m), NEW more \in SUBSET (1 .. Len(s)),
           \A i \in 1 .. m : i \in fewer <=> i \in more
    PROVE  IsPrefix(FrTaken(s, fewer), FrTaken(s, more))
<1>1. Len(s) \in m .. Len(s) /\ m \in m .. Len(s)
  OBVIOUS
<1>2. TakenOf(s, fewer)[Len(s)] = TakenOf(s, fewer)[m]
  <2>1. fewer \cap (m + 1 .. Len(s)) = {}
    OBVIOUS
  <2> QED BY <1>1, <2>1, TakenOfMore
<1>3. TakenOf(s, fewer)[m] = TakenOf(s, more)[m]
  BY TakenOfSame
<1>4. IsPrefix(TakenOf(s, more)[m], TakenOf(s, more)[Len(s)])
  BY <1>1, TakenOfMore
<1> QED BY <1>2, <1>3, <1>4, TakenOfSteps

(* The next one comes last.                                                *)
LEMMA TakenNext ==
    ASSUME NEW T, NEW s \in Seq(T), NEW k \in 1 .. Len(s),
           NEW taken \in SUBSET (1 .. k - 1)
    PROVE  FrTaken(s, taken \cup {k}) = Append(FrTaken(s, taken), s[k])
<1>0. PICK more : more = taken \cup {k}
  OBVIOUS
<1>1. /\ Len(s) \in k - 1 .. Len(s) /\ Len(s) \in k .. Len(s)
      /\ k - 1 \in 0 .. Len(s) /\ k \in 0 .. Len(s)
  OBVIOUS
<1>2. TakenOf(s, taken)[Len(s)] = TakenOf(s, taken)[k - 1]
  <2>1. taken \cap ((k - 1) + 1 .. Len(s)) = {}
    OBVIOUS
  <2> QED BY <1>1, <2>1, TakenOfMore
<1>3. TakenOf(s, taken)[k - 1] = TakenOf(s, more)[k - 1]
  <2>1. PICK m \in 0 .. Len(s) : m = k - 1
    BY <1>1
  <2>2. \A i \in 1 .. m : i \in taken <=> i \in more
    BY <1>0, <2>1
  <2>3. TakenOf(s, taken)[m] = TakenOf(s, more)[m]
    BY <2>2, TakenOfSame
  <2> QED BY <2>1, <2>3
<1>4. TakenOf(s, more)[Len(s)] = TakenOf(s, more)[k]
  <2>1. more \cap (k + 1 .. Len(s)) = {}
    BY <1>0
  <2> QED BY <1>1, <2>1, TakenOfMore
<1>5. TakenOf(s, more)[k] = Append(TakenOf(s, more)[k - 1], s[k])
  <2>1. k \in more
    BY <1>0
  <2>2. \A i \in 1 .. Len(s) :
          TakenOf(s, more)[i] =
            IF i \in more THEN Append(TakenOf(s, more)[i - 1], s[i])
            ELSE TakenOf(s, more)[i - 1]
    BY TakenOfSteps
  <2> QED BY <2>1, <2>2
<1>6. /\ FrTaken(s, taken) = TakenOf(s, taken)[Len(s)]
      /\ FrTaken(s, more) = TakenOf(s, more)[Len(s)]
  BY TakenOfSteps
<1>7. FrTaken(s, more) = Append(FrTaken(s, taken), s[k])
  BY <1>2, <1>3, <1>4, <1>5, <1>6
<1> QED BY <1>0, <1>7

(* The first n of the sequences that are joined, and where each ends.      *)
FlatOf(s) ==
    LET f == CHOOSE g : FlatSteps(s, Len(s), g)
    IN  [n \in 0 .. Len(s) |-> IF n = 0 THEN <<>> ELSE f[n]]
EndOf(s) == [n \in 0 .. Len(s) |-> Len(FlatOf(s)[n])]

LEMMA FlatOfSteps ==
    ASSUME NEW T, NEW s \in Seq(Seq(T))
    PROVE  /\ Len(s) \in Nat
           /\ FlatOf(s)[0] = <<>>
           /\ FlatOf(s)[Len(s)] = FlattenSeq(s)
           /\ \A n \in 0 .. Len(s) : FlatOf(s)[n] \in Seq(T)
           /\ \A n \in 1 .. Len(s) : FlatOf(s)[n] = FlatOf(s)[n - 1] \o s[n]
<1> DEFINE f == CHOOSE g : FlatSteps(s, Len(s), g)
<1>1. PICK h : h = FlatOf(s)
  OBVIOUS
<1>2. Len(s) \in Nat
  OBVIOUS
<1>3. FlatSteps(s, Len(s), f)
  <2>1. \E g : FlatSteps(s, Len(s), g)
    BY <1>2, FlatStepsExist
  <2> QED BY <2>1
<1>4. h = [n \in 0 .. Len(s) |-> IF n = 0 THEN <<>> ELSE f[n]]
  BY <1>1 DEF FlatOf
<1>5. Len(s) # 0 => FlattenSeq(s) = f[Len(s)]
  BY <1>2 DEF FlattenSeq, FlatSteps
<1>6. Len(s) = 0 => FlattenSeq(s) = <<>>
  <2>1. Len(s) = 0 => s = <<>>
    OBVIOUS
  <2> HIDE DEF f
  <2> QED BY <2>1 DEF FlattenSeq
<1> HIDE DEF f
<1>7. \A n \in 1 .. Len(s) : f[n] = IF n = 1 THEN s[n] ELSE f[n - 1] \o s[n]
  BY <1>3 DEF FlatSteps
<1>8. /\ h[0] = <<>> /\ h[Len(s)] = FlattenSeq(s)
      /\ \A n \in 1 .. Len(s) : h[n] = f[n] /\ n - 1 \in 0 .. Len(s)
                                /\ (n # 1 => h[n - 1] = f[n - 1])
  BY <1>2, <1>4, <1>5, <1>6
<1>9. ASSUME NEW n \in 1 .. Len(s) PROVE h[n] = h[n - 1] \o s[n]
  <2>1. CASE n = 1
    <3>1. h[n - 1] = <<>> /\ s[n] \in Seq(T)
      BY <1>8, <2>1
    <3>2. <<>> \o s[n] = s[n]
      BY <3>1
    <3> QED BY <1>7, <1>8, <2>1, <3>1, <3>2
  <2>2. CASE n # 1
    BY <1>7, <1>8, <2>2
  <2> QED BY <2>1, <2>2
<1> DEFINE S == {n \in Nat : n \in 0 .. Len(s) => h[n] \in Seq(T)}
<1>10. 0 \in S
  <2>1. <<>> \in Seq(T)
    OBVIOUS
  <2> QED BY <1>8, <2>1
<1>11. ASSUME NEW n \in Nat, n \in S PROVE n + 1 \in S
  <2> SUFFICES ASSUME n + 1 \in 0 .. Len(s) PROVE h[n + 1] \in Seq(T)
    OBVIOUS
  <2>1. h[n] \in Seq(T) /\ n + 1 \in 1 .. Len(s) /\ (n + 1) - 1 = n
    BY <1>2, <1>11
  <2>2. s[n + 1] \in Seq(T)
    BY <2>1
  <2>3. h[n + 1] = h[n] \o s[n + 1]
    BY <1>9, <2>1
  <2> QED BY <2>1, <2>2, <2>3
<1>12. \A n \in Nat : n \in S
  <2> HIDE DEF S
  <2> QED BY <1>10, <1>11, NaturalInduction
<1>13. \A n \in 0 .. Len(s) : h[n] \in Seq(T)
  BY <1>2, <1>12
<1> HIDE DEF S
<1> QED BY <1>1, <1>2, <1>8, <1>9, <1>13

LEMMA EndOfSteps ==
    ASSUME NEW T, NEW s \in Seq(Seq(T))
    PROVE  /\ EndOf(s) \in [0 .. Len(s) -> Nat]
           /\ EndOf(s)[0] = 0
           /\ EndOf(s)[Len(s)] = Len(FlattenSeq(s))
           /\ \A n \in 1 .. Len(s) :
                EndOf(s)[n] = EndOf(s)[n - 1] + Len(s[n]) /\ Len(s[n]) \in Nat
<1>1. PICK h : h = FlatOf(s)
  OBVIOUS
<1>2. PICK e : e = EndOf(s)
  OBVIOUS
<1>3. e = [n \in 0 .. Len(s) |-> Len(h[n])]
  BY <1>1, <1>2 DEF EndOf
<1>4. /\ Len(s) \in Nat /\ h[0] = <<>> /\ h[Len(s)] = FlattenSeq(s)
      /\ \A n \in 0 .. Len(s) : h[n] \in Seq(T)
      /\ \A n \in 1 .. Len(s) : h[n] = h[n - 1] \o s[n]
  BY <1>1, FlatOfSteps
<1>5. \A n \in 0 .. Len(s) : Len(h[n]) \in Nat
  BY <1>4
<1>6. ASSUME NEW n \in 1 .. Len(s)
      PROVE  Len(h[n]) = Len(h[n - 1]) + Len(s[n]) /\ n - 1 \in 0 .. Len(s)
             /\ n \in 0 .. Len(s) /\ Len(s[n]) \in Nat
  <2>1. n - 1 \in 0 .. Len(s) /\ n \in 0 .. Len(s)
    BY <1>4
  <2>2. h[n - 1] \in Seq(T) /\ s[n] \in Seq(T)
    BY <1>4, <2>1
  <2>3. h[n] = h[n - 1] \o s[n]
    BY <1>4
  <2> QED BY <2>1, <2>2, <2>3
<1>7. 0 \in 0 .. Len(s) /\ Len(s) \in 0 .. Len(s) /\ Len(<<>>) = 0
  BY <1>4
<1>8. e \in [0 .. Len(s) -> Nat] /\ \A n \in 0 .. Len(s) : e[n] = Len(h[n])
  BY <1>3, <1>5
<1>9. e[0] = 0 /\ e[Len(s)] = Len(FlattenSeq(s))
  BY <1>4, <1>7, <1>8
<1>10. ASSUME NEW n \in 1 .. Len(s)
       PROVE  e[n] = e[n - 1] + Len(s[n]) /\ Len(s[n]) \in Nat
  <2>1. e[n] = Len(h[n]) /\ e[n - 1] = Len(h[n - 1])
    BY <1>6, <1>8
  <2> QED BY <1>6, <2>1
<1> QED BY <1>2, <1>8, <1>9, <1>10

LEMMA EndOfGrows ==
    ASSUME NEW T, NEW s \in Seq(Seq(T)), NEW m \in 0 .. Len(s), NEW n \in m .. Len(s)
    PROVE  EndOf(s)[m] <= EndOf(s)[n]
<1>1. PICK e : e = EndOf(s)
  OBVIOUS
<1>2. /\ Len(s) \in Nat /\ e \in [0 .. Len(s) -> Nat]
      /\ \A k \in 1 .. Len(s) : e[k] = e[k - 1] + Len(s[k]) /\ Len(s[k]) \in Nat
  BY <1>1, EndOfSteps
<1> DEFINE S == {i \in Nat : m + i \in m .. Len(s) => e[m] <= e[m + i]}
<1>3. 0 \in S
  <2>1. m \in Nat
    BY <1>2
  <2>2. e[m] \in Nat
    BY <1>2
  <2>3. m + 0 = m /\ e[m] <= e[m]
    BY <2>1, <2>2
  <2> QED BY <2>3
<1>4. ASSUME NEW i \in Nat, i \in S PROVE i + 1 \in S
  <2> SUFFICES ASSUME m + (i + 1) \in m .. Len(s) PROVE e[m] <= e[m + (i + 1)]
    OBVIOUS
  <2>1. PICK j \in 0 .. Len(s) : j = m + i
    BY <1>2
  <2>2. /\ j + 1 = m + (i + 1) /\ j \in m .. Len(s) /\ (j + 1) - 1 = j
        /\ j + 1 \in 1 .. Len(s)
    BY <1>2, <2>1
  <2>3. e[m] <= e[j]
    BY <1>4, <2>1, <2>2
  <2>4. e[j + 1] = e[j] + Len(s[j + 1]) /\ Len(s[j + 1]) \in Nat
    BY <1>2, <2>2
  <2>5. e[m] \in Nat /\ e[j] \in Nat
    BY <1>2
  <2>6. e[m] <= e[j + 1]
    BY <2>3, <2>4, <2>5
  <2> QED BY <2>2, <2>6
<1>5. \A i \in Nat : i \in S
  <2> HIDE DEF S
  <2> QED BY <1>3, <1>4, NaturalInduction
<1>6. n - m \in Nat /\ m + (n - m) = n
  OBVIOUS
<1>7. n - m \in S
  BY <1>5, <1>6
<1> QED BY <1>1, <1>6, <1>7

(* Where the elements of the sequences are in what they join to.           *)
LEMMA FlatElements ==
    ASSUME NEW T, NEW s \in Seq(Seq(T)), NEW k \in 1 .. Len(s), NEW o \in 1 .. Len(s[k])
    PROVE  FlattenSeq(s)[EndOf(s)[k - 1] + o] = s[k][o]
<1>1. PICK e : e = EndOf(s)
  OBVIOUS
<1>2. PICK h : h = FlatOf(s)
  OBVIOUS
<1>3. /\ Len(s) \in Nat /\ e \in [0 .. Len(s) -> Nat]
      /\ \A n \in 1 .. Len(s) : e[n] = e[n - 1] + Len(s[n]) /\ Len(s[n]) \in Nat
  BY <1>1, EndOfSteps
<1>4. /\ h[Len(s)] = FlattenSeq(s)
      /\ \A n \in 0 .. Len(s) : h[n] \in Seq(T) /\ Len(h[n]) = e[n]
      /\ \A n \in 1 .. Len(s) : h[n] = h[n - 1] \o s[n]
  BY <1>1, <1>2, FlatOfSteps DEF EndOf
<1> DEFINE at == e[k - 1] + o
           S == {i \in Nat : k + i \in k .. Len(s) => h[k + i][at] = s[k][o]}
<1>5. /\ k - 1 \in 0 .. Len(s) /\ e[k - 1] \in Nat /\ Len(s[k]) \in Nat
      /\ at \in 1 .. e[k] /\ s[k] \in Seq(T)
  <2>1. k - 1 \in 0 .. Len(s) /\ s[k] \in Seq(T)
    BY <1>3
  <2>2. e[k - 1] \in Nat /\ e[k] = e[k - 1] + Len(s[k]) /\ Len(s[k]) \in Nat
    BY <1>3, <2>1
  <2>3. o \in 1 .. Len(s[k])
    OBVIOUS
  <2> QED BY <2>1, <2>2, <2>3
<1>6. 0 \in S
  <2>1. h[k] = h[k - 1] \o s[k] /\ h[k - 1] \in Seq(T) /\ Len(h[k - 1]) = e[k - 1]
    BY <1>4, <1>5
  <2>2. h[k][at] = s[k][o]
    <3>1. PICK a, b : a = h[k - 1] /\ b = s[k]
      OBVIOUS
    <3>2. a \in Seq(T) /\ b \in Seq(T) /\ o \in 1 .. Len(b)
      BY <1>5, <2>1, <3>1
    <3>3. (a \o b)[Len(a) + o] = b[o]
      BY <3>2
    <3> QED BY <2>1, <3>1, <3>3
  <2>3. k + 0 = k
    OBVIOUS
  <2> QED BY <2>2, <2>3
<1>7. ASSUME NEW i \in Nat, i \in S PROVE i + 1 \in S
  <2> SUFFICES ASSUME k + (i + 1) \in k .. Len(s) PROVE h[k + (i + 1)][at] = s[k][o]
    OBVIOUS
  <2>1. PICK j \in 1 .. Len(s) : j = k + i
    BY <1>3
  <2>2. /\ j + 1 = k + (i + 1) /\ j \in k .. Len(s) /\ (j + 1) - 1 = j
        /\ j + 1 \in 1 .. Len(s) /\ j \in 0 .. Len(s) /\ k \in 0 .. Len(s)
    BY <1>3, <2>1
  <2>3. h[j][at] = s[k][o]
    BY <1>7, <2>1, <2>2
  <2>4. h[j + 1] = h[j] \o s[j + 1] /\ h[j] \in Seq(T) /\ Len(h[j]) = e[j]
        /\ s[j + 1] \in Seq(T)
    <3>1. h[j] \in Seq(T) /\ Len(h[j]) = e[j]
      BY <1>4, <2>2
    <3>2. h[j + 1] = h[(j + 1) - 1] \o s[j + 1]
      BY <1>4, <2>2
    <3>3. s[j + 1] \in Seq(T)
      BY <2>2
    <3> QED BY <2>2, <3>1, <3>2, <3>3
  <2>5. e[k] <= e[j]
    BY <1>1, <2>2, EndOfGrows
  <2>6. e[k] \in Nat /\ e[j] \in Nat
    BY <1>3, <2>2
  <2>7. at \in 1 .. Len(h[j])
    <3>1. at \in 1 .. e[k]
      BY <1>5
    <3> HIDE DEF at
    <3> QED BY <2>4, <2>5, <2>6, <3>1
  <2> HIDE DEF at
  <2>8. (h[j] \o s[j + 1])[at] = h[j][at]
    <3>1. PICK a, b : a = h[j] /\ b = s[j + 1]
      OBVIOUS
    <3>2. a \in Seq(T) /\ b \in Seq(T) /\ at \in 1 .. Len(a)
      BY <2>4, <2>7, <3>1
    <3>3. (a \o b)[at] = a[at]
      BY <3>2
    <3> QED BY <3>1, <3>3
  <2> QED BY <2>2, <2>3, <2>4, <2>8
<1>8. \A i \in Nat : i \in S
  <2> HIDE DEF S
  <2> QED BY <1>6, <1>7, NaturalInduction
<1>9. Len(s) - k \in Nat /\ k + (Len(s) - k) = Len(s)
  BY <1>3
<1>10. Len(s) - k \in S
  BY <1>8, <1>9
<1> QED BY <1>1, <1>3, <1>4, <1>9, <1>10

(* Each element of what they join to is one of theirs.                     *)
LEMMA FlatFrom ==
    ASSUME NEW T, NEW s \in Seq(Seq(T)), NEW i \in 1 .. Len(FlattenSeq(s))
    PROVE  \E k \in 1 .. Len(s) : \E o \in 1 .. Len(s[k]) : i = EndOf(s)[k - 1] + o
<1>1. PICK e : e = EndOf(s)
  OBVIOUS
<1>2. /\ Len(s) \in Nat /\ e \in [0 .. Len(s) -> Nat] /\ e[0] = 0
      /\ e[Len(s)] = Len(FlattenSeq(s))
      /\ \A n \in 1 .. Len(s) : e[n] = e[n - 1] + Len(s[n]) /\ Len(s[n]) \in Nat
  BY <1>1, EndOfSteps
<1> DEFINE S == {k \in 0 .. Len(s) : i <= e[k]}
<1>3. S # {} /\ S \subseteq Nat
  <2>1. Len(s) \in 0 .. Len(s)
    BY <1>2
  <2>2. i <= e[Len(s)]
    <3>1. e[Len(s)] \in Nat
      BY <1>2, <2>1
    <3>2. i \in 1 .. e[Len(s)]
      BY <1>2
    <3> QED BY <3>1, <3>2
  <2>3. Len(s) \in S
    BY <2>1, <2>2
  <2>4. 0 .. Len(s) \subseteq Nat
    BY <1>2
  <2> QED BY <2>3, <2>4
<1>4. PICK k \in S : \A n \in S : k <= n
  <2> HIDE DEF S
  <2> QED BY <1>3, LeastNatural
<1>5. k # 0 /\ k \in 1 .. Len(s) /\ k - 1 \in 0 .. Len(s)
  BY <1>2, <1>4
<1>6. ~ (i <= e[k - 1])
  BY <1>4, <1>5
<1>7. e[k] = e[k - 1] + Len(s[k]) /\ Len(s[k]) \in Nat /\ e[k - 1] \in Nat /\ i <= e[k]
  BY <1>2, <1>4, <1>5
<1>8. PICK o : o = i - e[k - 1]
  OBVIOUS
<1>9. o \in 1 .. Len(s[k]) /\ i = e[k - 1] + o
  BY <1>2, <1>6, <1>7, <1>8
<1> QED BY <1>1, <1>5, <1>9

-----------------------------------------------------------------------------
(* Framing: messages and the places of their ends in the stream.           *)
FrParts == [k \in DOMAIN frStream |-> FrBytes(k)]
FrPos   == EndOf(FrParts)

(* Messages follow each other, and a byte is where its message says.       *)
FrPlaced ==
    /\ Len(frStream) \in Nat /\ DOMAIN frStream = 1 .. Len(frStream)
    /\ \A k \in DOMAIN frStream : frStream[k].size \in Nat /\ FrCount(k) \in Nat
    /\ FrPos \in [0 .. Len(frStream) -> Nat]
    /\ FrPos[0] = 0 /\ FrPos[Len(frStream)] = Len(FrAll)
    /\ \A k \in DOMAIN frStream : FrPos[k] = FrPos[k - 1] + FrCount(k)
    /\ \A m \in 0 .. Len(frStream) : \A n \in m .. Len(frStream) : FrPos[m] <= FrPos[n]
    /\ \A k \in DOMAIN frStream : \A o \in 1 .. FrCount(k) :
          FrAll[FrPos[k - 1] + o] = <<k, o>>
    /\ \A i \in 1 .. Len(FrAll) :
          \E k \in DOMAIN frStream : \E o \in 1 .. FrCount(k) :
             i = FrPos[k - 1] + o /\ FrAll[i] = <<k, o>>

LEMMA FrPartsType ==
    ASSUME frStream \in FrStreams
    PROVE  /\ Len(frStream) \in Nat /\ DOMAIN frStream = 1 .. Len(frStream)
           /\ \A k \in DOMAIN frStream : frStream[k].size \in Nat /\ FrCount(k) \in Nat
           /\ FrParts \in Seq(Seq(FrPlaces)) /\ Len(FrParts) = Len(frStream)
           /\ \A k \in DOMAIN frStream : /\ FrParts[k] = FrBytes(k)
                                         /\ Len(FrBytes(k)) = FrCount(k)
                                         /\ FrBytes(k) \in Seq(FrPlaces)
<1>1. PICK stream : stream = frStream
  OBVIOUS
<1>2. /\ DOMAIN stream = 1 .. Len(stream) /\ Len(stream) \in Nat
      /\ \A k \in DOMAIN stream : stream[k].size \in Nat
  BY <1>1, FrSizes
<1>3. ASSUME NEW k \in DOMAIN stream
      PROVE  FrCount(k) \in Nat /\ FrBytes(k) \in Seq(FrPlaces)
             /\ Len(FrBytes(k)) = FrCount(k)
  <2>1. stream[k].size \in Nat
    BY <1>2, <1>3
  <2>2. FrCount(k) \in Nat
    BY <1>1, <2>1, FrNumbers DEF FrCount, FrExtra
  <2>3. PICK n \in Nat : n = FrCount(k)
    BY <2>2
  <2>4. \A o \in 1 .. n : <<k, o>> \in FrPlaces
    BY <1>1, <1>3 DEF FrPlaces
  <2>5. PICK bytes : bytes = [o \in 1 .. n |-> <<k, o>>]
    OBVIOUS
  <2>6. bytes \in Seq(FrPlaces) /\ Len(bytes) = n
    BY <2>4, <2>5
  <2>7. FrBytes(k) = bytes
    BY <2>3, <2>5 DEF FrBytes
  <2> QED BY <2>2, <2>3, <2>6, <2>7
<1>4. PICK parts : parts = [k \in DOMAIN stream |-> FrBytes(k)]
  OBVIOUS
<1>5. /\ parts \in Seq(Seq(FrPlaces)) /\ Len(parts) = Len(stream)
      /\ \A k \in DOMAIN stream : parts[k] = FrBytes(k)
  BY <1>2, <1>3, <1>4
<1>6. parts = FrParts
  BY <1>1, <1>4 DEF FrParts
<1> QED BY <1>1, <1>2, <1>3, <1>5, <1>6

LEMMA FrPlacedAlways == frStream \in FrStreams => FrPlaced
<1> SUFFICES ASSUME frStream \in FrStreams PROVE FrPlaced
  OBVIOUS
<1>1. PICK parts : parts = FrParts
  OBVIOUS
<1>2. PICK e : e = FrPos
  OBVIOUS
<1>3. /\ Len(frStream) \in Nat /\ DOMAIN frStream = 1 .. Len(frStream)
      /\ \A k \in DOMAIN frStream : frStream[k].size \in Nat /\ FrCount(k) \in Nat
      /\ parts \in Seq(Seq(FrPlaces)) /\ Len(parts) = Len(frStream)
      /\ \A k \in DOMAIN frStream : Len(parts[k]) = FrCount(k) /\ parts[k] = FrBytes(k)
  BY <1>1, FrPartsType
<1>4. FrAll = FlattenSeq(parts) /\ e = EndOf(parts)
  BY <1>1, <1>2 DEF FrAll, FrParts, FrPos
<1>5. /\ e \in [0 .. Len(frStream) -> Nat] /\ e[0] = 0
      /\ e[Len(frStream)] = Len(FrAll)
      /\ \A k \in DOMAIN frStream : e[k] = e[k - 1] + FrCount(k)
  <2>1. /\ e \in [0 .. Len(parts) -> Nat] /\ e[0] = 0
        /\ e[Len(parts)] = Len(FlattenSeq(parts))
        /\ \A k \in 1 .. Len(parts) : e[k] = e[k - 1] + Len(parts[k])
    BY <1>3, <1>4, EndOfSteps
  <2> QED BY <1>3, <1>4, <2>1
<1>6. \A m \in 0 .. Len(frStream) : \A n \in m .. Len(frStream) : e[m] <= e[n]
  BY <1>3, <1>4, EndOfGrows
<1>7. ASSUME NEW k \in DOMAIN frStream, NEW o \in 1 .. FrCount(k)
      PROVE  FrAll[e[k - 1] + o] = <<k, o>>
  <2>1. FrAll[e[k - 1] + o] = parts[k][o]
    BY <1>3, <1>4, FlatElements
  <2>2. parts[k][o] = <<k, o>>
    BY <1>3 DEF FrBytes
  <2> QED BY <2>1, <2>2
<1>8. ASSUME NEW i \in 1 .. Len(FrAll)
      PROVE  \E k \in DOMAIN frStream : \E o \in 1 .. FrCount(k) :
                i = e[k - 1] + o /\ FrAll[i] = <<k, o>>
  <2>1. \E k \in 1 .. Len(parts) : \E o \in 1 .. Len(parts[k]) : i = e[k - 1] + o
    BY <1>3, <1>4, FlatFrom
  <2>2. PICK k \in 1 .. Len(parts) : \E o \in 1 .. Len(parts[k]) : i = e[k - 1] + o
    BY <2>1
  <2>3. k \in DOMAIN frStream /\ Len(parts[k]) = FrCount(k)
    BY <1>3
  <2>4. PICK o \in 1 .. FrCount(k) : i = e[k - 1] + o
    BY <2>2, <2>3
  <2>5. FrAll[i] = <<k, o>>
    BY <1>7, <2>3, <2>4
  <2> QED BY <2>3, <2>4, <2>5
<1> QED BY <1>2, <1>3, <1>5, <1>6, <1>7, <1>8 DEF FrPlaced

(* A byte that ends a message is where the message ends.                   *)
LEMMA FrEndsAt ==
    ASSUME FrPlaced, NEW k \in DOMAIN frStream
    PROVE  /\ \A i \in 1 .. Len(FrAll) :
                FrAll[i] = <<k, FrCount(k)>> <=> (i = FrPos[k] /\ FrCount(k) > 0)
           /\ FrCount(k) > 0 => FrPos[k] \in 1 .. Len(FrAll)
<1>1. PICK e : e = FrPos
  OBVIOUS
<1>2. /\ k \in 1 .. Len(frStream) /\ Len(frStream) \in Nat /\ FrCount(k) \in Nat
      /\ e[k] \in Nat /\ e[k - 1] \in Nat /\ e[k] = e[k - 1] + FrCount(k)
  <2>1. k \in 0 .. Len(frStream) /\ k - 1 \in 0 .. Len(frStream)
    BY DEF FrPlaced
  <2> QED BY <1>1, <2>1 DEF FrPlaced
<1>3. FrCount(k) > 0 => FrAll[e[k]] = <<k, FrCount(k)>>
  <2>1. FrCount(k) > 0 => FrCount(k) \in 1 .. FrCount(k)
    BY <1>2
  <2>2. \A o \in 1 .. FrCount(k) : FrAll[e[k - 1] + o] = <<k, o>>
    BY <1>1 DEF FrPlaced
  <2> QED BY <1>2, <2>1, <2>2
<1>4. e[k] <= Len(FrAll) /\ Len(FrAll) \in Nat
  <2>1. k \in 0 .. Len(frStream) /\ Len(frStream) \in k .. Len(frStream)
        /\ Len(frStream) \in 0 .. Len(frStream)
    BY <1>2
  <2> QED BY <1>1, <2>1 DEF FrPlaced
<1>5. ASSUME NEW i \in 1 .. Len(FrAll), FrAll[i] = <<k, FrCount(k)>>
      PROVE  i = e[k] /\ FrCount(k) > 0
  <2>0. PICK m \in DOMAIN frStream : \E o \in 1 .. FrCount(m) :
           i = e[m - 1] + o /\ FrAll[i] = <<m, o>>
    BY <1>1 DEF FrPlaced
  <2>1. PICK o \in 1 .. FrCount(m) : i = e[m - 1] + o /\ FrAll[i] = <<m, o>>
    BY <2>0
  <2>2. m = k /\ o = FrCount(k) /\ FrCount(m) \in Nat
    BY <1>5, <2>1 DEF FrPlaced
  <2> QED BY <1>2, <2>1, <2>2
<1> QED BY <1>1, <1>2, <1>3, <1>4, <1>5

(* The separators received are the ends of messages.                       *)
LEMMA FrSepAt ==
    ASSUME FrPlaced, FrText, NEW i \in 1 .. Len(FrAll)
    PROVE  /\ FrAll[i] \in FrSep =>
                /\ FrAll[i][1] \in DOMAIN frStream
                /\ FrCount(FrAll[i][1]) > 0 /\ FrPos[FrAll[i][1]] = i
           /\ \A k \in DOMAIN frStream : FrCount(k) > 0 /\ FrPos[k] = i =>
                FrAll[i] \in FrSep /\ FrAll[i][1] = k
<1>0. PICK m \in DOMAIN frStream : \E o \in 1 .. FrCount(m) : FrAll[i] = <<m, o>>
  BY DEF FrPlaced
<1>1. PICK o \in 1 .. FrCount(m) : FrAll[i] = <<m, o>>
  BY <1>0
<1>2. m # 0
  BY DEF FrPlaced
<1>3. \A k \in DOMAIN frStream : FrCount(k) = frStream[k].size
  BY DEF FrCount
<1>4. ASSUME FrAll[i] \in FrSep PROVE FrAll[i] = <<m, FrCount(m)>>
  <2>1. FrAll[i] # <<0, 1>>
    BY <1>1, <1>2
  <2>2. PICK k \in DOMAIN frStream : FrAll[i] = <<k, frStream[k].size>>
    BY <1>4, <2>1 DEF FrSep
  <2>3. k = m
    BY <1>1, <2>2
  <2> QED BY <1>3, <2>2, <2>3
<1>5. FrAll[i][1] = m
  BY <1>1
<1>6. ASSUME NEW k \in DOMAIN frStream, FrCount(k) > 0, FrPos[k] = i
      PROVE  FrAll[i] \in FrSep /\ FrAll[i][1] = k
  <2>1. FrAll[i] = <<k, FrCount(k)>>
    BY <1>6, FrEndsAt
  <2>2. FrAll[i] = <<k, frStream[k].size>>
    BY <1>3, <2>1
  <2> QED BY <2>2 DEF FrSep
<1>7. FrAll[i] \in FrSep => FrPos[m] = i /\ FrCount(m) > 0
  BY <1>4, FrEndsAt
<1> QED BY <1>5, <1>6, <1>7

(* The messages that end by a place in the stream.                         *)
FrWholeTill(x) ==
    {k \in DOMAIN frStream :
       /\ FrCount(k) > 0 /\ FrPos[k] <= x
       /\ FrText \/ \A j \in 1 .. k : FrLegal(frStream[j].size)}

LEMMA FrWholeIs ==
    ASSUME FrPlaced, frSent \in 0 .. Len(FrAll)
    PROVE  FrWhole = FrWholeTill(frSent)
<1>1. ASSUME NEW k \in DOMAIN frStream
      PROVE  <<k, FrCount(k)>> \in {FrAll[i] : i \in 1 .. frSent}
               <=> (FrCount(k) > 0 /\ FrPos[k] <= frSent)
  <2>1. Len(FrAll) \in Nat /\ FrPos[k] \in Nat
    <3>1. Len(frStream) \in 0 .. Len(frStream) /\ k \in 0 .. Len(frStream)
      BY DEF FrPlaced
    <3> QED BY <3>1 DEF FrPlaced
  <2>2. \A i \in 1 .. frSent : i \in 1 .. Len(FrAll)
    BY <2>1
  <2>3. /\ \A i \in 1 .. Len(FrAll) :
             FrAll[i] = <<k, FrCount(k)>> <=> (i = FrPos[k] /\ FrCount(k) > 0)
        /\ FrCount(k) > 0 => FrPos[k] \in 1 .. Len(FrAll)
    BY FrEndsAt
  <2> QED BY <2>1, <2>2, <2>3
<1> QED BY <1>1 DEF FrWhole, FrWholeTill

-----------------------------------------------------------------------------
(* Framing: what process has been given.                                   *)

(* The message that begins behind the first place bytes of the stream has  *)
(* length n.                                                               *)
FrNextIs(place, n) ==
    \E k \in DOMAIN frStream : FrPos[k - 1] = place /\ frStream[k].size = n

(* What the handler knows of the length of that message, with rest bytes of*)
(* it and of those behind it in the buffer.                                *)
FrLengthKnown(place, rest, at, n) ==
    /\ FrServes /\ at # "closed" => FrLegal(n) \/ (n = 0 /\ at = "idle")
    /\ at = "idle" => IF n = 0 THEN rest < FrField ELSE rest > 0 /\ FrNextIs(place, n)
    /\ at = "loop" => IF rest < FrField THEN FrServes \/ n = 0 ELSE FrNextIs(place, n)

(* A handler that is done with place bytes of the stream, where a message  *)
(* ends, has passed on those that end by it and were not dropped; in the   *)
(* rest it has no whole one when it waits.                                 *)
FrInStep(place, rest, at, n, given, dropped) ==
    /\ \E m \in 0 .. Len(frStream) : FrPos[m] = place
    /\ ~FrText => \A k \in DOMAIN frStream :
                     FrPos[k] <= place => FrLegal(frStream[k].size)
    /\ \A k \in dropped : FrPos[k] <= place
    /\ given = FrTaken(FrBodies, FrWholeTill(place) \ dropped)
    /\ at = "idle" => FrWholeTill(place + rest) \subseteq FrWholeTill(place)
    /\ ~FrText => FrLengthKnown(place, rest, at, n)

(* The buffer holds the last bytes received, in their order.               *)
FrSynced ==
    /\ frRecvLen <= frSent
    /\ \A i \in 1 .. frRecvLen : frBuf[i] = FrAll[frSent - frRecvLen + i]
    /\ frAstray \/ FrInStep(frSent - frRecvLen + frDone, frRecvLen - frDone,
                            frAt, frMsgLen, frGiven, frDropped)

LEMMA FrBodiesType ==
    ASSUME frStream \in FrStreams
    PROVE  /\ FrBodies \in Seq(Seq(FrPlaces)) /\ Len(FrBodies) = Len(frStream)
           /\ \A k \in DOMAIN frStream : FrBodies[k] = FrBody(k)
<1>1. /\ Len(frStream) \in Nat /\ DOMAIN frStream = 1 .. Len(frStream)
      /\ \A k \in DOMAIN frStream : /\ FrCount(k) \in Nat
                                    /\ Len(FrBytes(k)) = FrCount(k)
                                    /\ FrBytes(k) \in Seq(FrPlaces)
  BY FrPartsType
<1>2. PICK dom : dom = DOMAIN frStream
  OBVIOUS
<1>3. ASSUME NEW k \in dom PROVE FrBody(k) \in Seq(FrPlaces)
  <2>1. PICK bytes, a, n : bytes = FrBytes(k) /\ a = FrExtra + 1 /\ n = FrCount(k)
    OBVIOUS
  <2>2. a \in Nat /\ a >= 1 /\ n \in Nat /\ bytes \in Seq(FrPlaces) /\ Len(bytes) = n
    BY <1>1, <1>2, <2>1, FrNumbers DEF FrExtra
  <2>3. SubSeq(bytes, a, n) \in Seq(FrPlaces)
    BY <2>2
  <2> QED BY <2>1, <2>3 DEF FrBody
<1>4. dom = 1 .. Len(frStream)
  BY <1>1, <1>2
<1>5. PICK bodies : bodies = [k \in dom |-> FrBody(k)]
  OBVIOUS
<1>6. /\ bodies \in Seq(Seq(FrPlaces)) /\ Len(bodies) = Len(frStream)
      /\ \A k \in dom : bodies[k] = FrBody(k)
  BY <1>1, <1>3, <1>4, <1>5
<1>7. bodies = FrBodies
  BY <1>2, <1>5 DEF FrBodies
<1> QED BY <1>2, <1>6, <1>7

(* Places grow with the messages.                                          *)
LEMMA FrPosGrows ==
    ASSUME FrPlaced, NEW m \in 0 .. Len(frStream), NEW n \in 0 .. Len(frStream)
    PROVE  /\ FrPos[m] \in Nat /\ FrPos[m] <= Len(FrAll) /\ Len(FrAll) \in Nat
           /\ m <= n => FrPos[m] <= FrPos[n]
           /\ m < n /\ FrCount(n) > 0 => FrPos[m] < FrPos[n]
<1>1. PICK e : e = FrPos
  OBVIOUS
<1>2. PICK last \in Nat : last = Len(frStream)
  BY DEF FrPlaced
<1>3. /\ e \in [0 .. last -> Nat] /\ e[last] = Len(FrAll)
      /\ \A i \in 0 .. last : \A j \in i .. last : e[i] <= e[j]
      /\ \A k \in 1 .. last : e[k] = e[k - 1] + FrCount(k) /\ FrCount(k) \in Nat
  BY <1>1, <1>2 DEF FrPlaced
<1>4. e[m] \in Nat /\ e[n] \in Nat /\ e[last] \in Nat /\ e[m] <= e[last]
  <2>1. m \in 0 .. last /\ n \in 0 .. last /\ last \in 0 .. last /\ last \in m .. last
    BY <1>2
  <2> QED BY <1>3, <2>1
<1>5. m <= n => e[m] <= e[n]
  <2>1. m <= n => n \in m .. last
    BY <1>2
  <2> QED BY <1>2, <1>3, <2>1
<1>6. ASSUME m < n, FrCount(n) > 0 PROVE e[m] < e[n]
  <2>1. n \in 1 .. last /\ n - 1 \in m .. last /\ n - 1 \in 0 .. last /\ m \in 0 .. last
    BY <1>2, <1>6
  <2>2. e[m] <= e[n - 1] /\ e[n - 1] \in Nat
    BY <1>3, <2>1
  <2>3. e[n] = e[n - 1] + FrCount(n) /\ FrCount(n) \in Nat
    BY <1>3, <2>1
  <2> QED BY <1>4, <1>6, <2>2, <2>3
<1> QED BY <1>1, <1>2, <1>3, <1>4, <1>5, <1>6

(* A handler in step has passed on the messages it should have.            *)
LEMMA FrInStepFramed ==
    ASSUME FrInv, FrSynced
    PROVE  FrFramed
<1> SUFFICES ASSUME ~frAstray
             PROVE  IsPrefix(frGiven, FrComplete) /\ (frAt = "idle" => frGiven = FrComplete)
  BY DEF FrFramed
<1>1. PICK place, rest : place = frSent - frRecvLen + frDone /\ rest = frRecvLen - frDone
  OBVIOUS
<1>2. FrPlaced /\ frStream \in FrStreams /\ frSent \in 0 .. Len(FrAll)
  BY FrPlacedAlways DEF FrInv, FrTypeOK
<1>3. /\ frRecvLen <= frSent /\ FrInStep(place, rest, frAt, frMsgLen, frGiven, frDropped)
  BY <1>1, Zenon DEF FrSynced
<1>4. /\ frSent \in Nat /\ place \in Nat /\ place <= frSent /\ place + rest = frSent
  <2>1. /\ frRecvLen \in Nat /\ frDone \in Nat /\ frDone <= frRecvLen /\ Len(FrAll) \in Nat
    <3>1. 0 \in 0 .. Len(frStream)
      BY <1>2 DEF FrPlaced
    <3> QED BY <1>2, <3>1, FrNumbers, FrPosGrows DEF FrInv, FrTypeOK, FrBuffer
  <2> QED BY <1>1, <1>2, <1>3, <2>1
<1>5. FrComplete = FrTaken(FrBodies, FrWholeTill(frSent) \ frDropped)
  BY <1>2, FrWholeIs DEF FrComplete
<1>6. frGiven = FrTaken(FrBodies, FrWholeTill(place) \ frDropped)
  BY <1>3 DEF FrInStep
<1>7. PICK m \in 0 .. Len(frStream) : FrPos[m] = place
  BY <1>3 DEF FrInStep
<1>8. PICK fewer, more : /\ fewer = FrWholeTill(place) \ frDropped
                         /\ more = FrWholeTill(frSent) \ frDropped
  OBVIOUS
<1>9. DOMAIN frStream = 1 .. Len(frStream) /\ Len(frStream) \in Nat
  BY <1>2 DEF FrPlaced
<1>10. fewer \in SUBSET (1 .. m)
  <2> SUFFICES ASSUME NEW k \in fewer PROVE k \in 1 .. m
    OBVIOUS
  <2>1. k \in 1 .. Len(frStream) /\ FrCount(k) > 0 /\ FrPos[k] <= place
    BY <1>8, <1>9 DEF FrWholeTill
  <2>2. m < k => FrPos[m] < FrPos[k]
    BY <1>2, <2>1, FrPosGrows
  <2>3. FrPos[k] \in Nat
    BY <1>2, <2>1, FrPosGrows
  <2> QED BY <1>4, <1>7, <2>1, <2>2, <2>3
<1>11. more \in SUBSET (1 .. Len(frStream))
  BY <1>8, <1>9 DEF FrWholeTill
<1>12. ASSUME NEW k \in 1 .. m PROVE k \in fewer <=> k \in more
  <2>1. FrPos[k] <= FrPos[m] /\ FrPos[k] \in Nat
    BY <1>2, <1>9, <1>12, FrPosGrows
  <2>2. FrPos[k] <= place /\ FrPos[k] <= frSent
    BY <1>4, <1>7, <2>1
  <2> QED BY <1>8, <2>2 DEF FrWholeTill
<1>13. IsPrefix(FrTaken(FrBodies, fewer), FrTaken(FrBodies, more))
  <2>1. PICK T, s, n : T = Seq(FrPlaces) /\ s = FrBodies /\ n = Len(frStream)
    OBVIOUS
  <2>2. s \in Seq(T) /\ n = Len(s)
    BY <1>2, <2>1, FrBodiesType
  <2>3. IsPrefix(FrTaken(s, fewer), FrTaken(s, more))
    BY <1>10, <1>11, <1>12, <2>1, <2>2, TakenPrefix
  <2> QED BY <2>1, <2>3
<1>14. ASSUME frAt = "idle" PROVE fewer = more
  <2>1. FrWholeTill(frSent) \subseteq FrWholeTill(place)
    BY <1>3, <1>4, <1>14 DEF FrInStep
  <2>2. FrWholeTill(place) \subseteq FrWholeTill(frSent)
    <3> SUFFICES ASSUME NEW k \in FrWholeTill(place) PROVE FrPos[k] <= frSent
      BY DEF FrWholeTill
    <3>1. k \in 0 .. Len(frStream) /\ FrPos[k] <= place
      BY <1>9 DEF FrWholeTill
    <3>2. FrPos[k] \in Nat
      BY <1>2, <3>1, FrPosGrows
    <3> QED BY <1>4, <3>1, <3>2
  <2> QED BY <1>8, <2>1, <2>2
<1> QED BY <1>5, <1>6, <1>8, <1>13, <1>14

(* Text, and no separator in the rest: no message, whatever comes next.    *)
LEMMA FrInStepNone ==
    ASSUME FrPlaced, FrText, NEW place \in Nat, NEW rest \in Nat, NEW at, NEW n,
           NEW given, NEW dropped, FrInStep(place, rest, at, n, given, dropped),
           NEW more \in Nat, NEW next, NEW len,
           \A k \in DOMAIN frStream : FrCount(k) > 0 =>
              ~ (place < FrPos[k] /\ FrPos[k] <= place + more)
    PROVE  FrInStep(place, more, next, len, given, dropped)
<1>1. ASSUME NEW k \in FrWholeTill(place + more) PROVE k \in FrWholeTill(place)
  <2>1. k \in DOMAIN frStream /\ FrCount(k) > 0 /\ FrPos[k] <= place + more
    BY DEF FrWholeTill
  <2>2. FrPos[k] \in Nat
    <3>1. k \in 0 .. Len(frStream)
      BY <2>1 DEF FrPlaced
    <3> QED BY <3>1, FrPosGrows
  <2> QED BY <2>1, <2>2 DEF FrWholeTill
<1> QED BY <1>1 DEF FrInStep

(* Text refused up to the end of a message: it is dropped, and no other.   *)
LEMMA FrInStepRefused ==
    ASSUME FrPlaced, FrText, NEW place \in Nat, NEW rest \in Nat, NEW at, NEW n,
           NEW given, NEW dropped \in SUBSET DOMAIN frStream,
           FrInStep(place, rest, at, n, given, dropped),
           NEW more \in Nat, NEW len,
           NEW end \in 0 .. Len(frStream), FrPos[end] = place + more,
           NEW refused,
           refused = {k \in DOMAIN frStream : FrCount(k) > 0 /\ place < FrPos[k]
                                              /\ FrPos[k] <= place + more}
    PROVE  FrInStep(place + more, 0, "idle", len, given, dropped \cup refused)
<1>1. ASSUME NEW k \in DOMAIN frStream PROVE FrPos[k] \in Nat
  <2>1. k \in 0 .. Len(frStream)
    BY DEF FrPlaced
  <2> QED BY <2>1, FrPosGrows
<1>2. FrWholeTill(place + more) \ (dropped \cup refused) = FrWholeTill(place) \ dropped
  <2>1. ASSUME NEW k \in DOMAIN frStream
        PROVE  k \in FrWholeTill(place + more) \ (dropped \cup refused)
               <=> k \in FrWholeTill(place) \ dropped
    BY <1>1 DEF FrWholeTill
  <2> QED BY <2>1 DEF FrWholeTill
<1>3. ASSUME NEW k \in dropped \cup refused PROVE FrPos[k] <= place + more
  BY <1>1 DEF FrInStep
<1>4. place + more + 0 = place + more
  OBVIOUS
<1> QED BY <1>2, <1>3, <1>4 DEF FrInStep

(* With lengths, a message has at least its length field.                  *)
LEMMA FrCountField ==
    ASSUME FrPlaced, frMode \in FrModes, ~FrText, NEW k \in DOMAIN frStream
    PROVE  FrCount(k) >= FrField /\ FrCount(k) > 0 /\ FrCount(k) \in Nat
<1>1. frStream[k].size \in Nat
  BY DEF FrPlaced
<1>2. frMode \in {"len", "bin", "clen"}
  BY FrAssumption DEF FrText
<1>3. PICK size \in Nat : size = frStream[k].size
  BY <1>1
<1>4. FrCount(k) = IF FrLegal(size) THEN FrExtra + size ELSE FrField
  BY <1>3 DEF FrCount
<1>5. CASE frMode = "bin"
  <2>1. FrExtra = 0 /\ (FrLegal(size) => size > FrField)
    BY <1>5 DEF FrExtra, FrLegal, FrServes
  <2> QED BY <1>4, <2>1, FrNumbers
<1>6. CASE frMode \in {"len", "clen"}
  <2>1. FrExtra = FrField
    BY <1>6 DEF FrExtra
  <2> QED BY <1>4, <2>1, FrNumbers
<1> QED BY <1>2, <1>5, <1>6

(* The next message is passed on.                                          *)
LEMMA FrInStepNext ==
    ASSUME FrPlaced, frStream \in FrStreams, frMode \in FrModes,
           NEW place \in Nat, NEW rest \in Nat, NEW at, NEW n,
           NEW given, NEW dropped \in SUBSET DOMAIN frStream,
           FrInStep(place, rest, at, n, given, dropped),
           NEW k \in DOMAIN frStream, FrPos[k - 1] = place, FrCount(k) > 0,
           ~FrText => FrLegal(frStream[k].size),
           NEW left, NEW next, NEW len, next # "idle",
           ~FrText => FrLengthKnown(FrPos[k], left, next, len)
    PROVE  FrInStep(FrPos[k], left, next, len, Append(given, FrBody(k)), dropped)
<1>1. /\ DOMAIN frStream = 1 .. Len(frStream) /\ Len(frStream) \in Nat
      /\ k \in 1 .. Len(frStream) /\ k - 1 \in 0 .. Len(frStream)
      /\ k \in 0 .. Len(frStream)
  BY DEF FrPlaced
<1>2. FrPos[k] \in Nat /\ place < FrPos[k]
  <2>1. k - 1 < k
    BY <1>1
  <2> QED BY <1>1, <2>1, FrPosGrows
<1>3. ASSUME NEW j \in DOMAIN frStream
      PROVE  /\ FrPos[j] \in Nat
             /\ j < k => FrPos[j] <= place
             /\ j > k /\ FrCount(j) > 0 => FrPos[k] < FrPos[j]
             /\ FrCount(j) > 0 /\ FrPos[j] <= FrPos[k] => j = k \/ j < k
             /\ FrPos[j] <= place => j < k
  <2>1. j \in 0 .. Len(frStream)
    BY <1>1
  <2>2. /\ FrPos[j] \in Nat
        /\ j <= k - 1 => FrPos[j] <= FrPos[k - 1]
        /\ k < j /\ FrCount(j) > 0 => FrPos[k] < FrPos[j]
        /\ k <= j => FrPos[k] <= FrPos[j]
    BY <1>1, <2>1, FrPosGrows
  <2> QED BY <1>1, <1>2, <2>1, <2>2
<1>4. ASSUME ~FrText, NEW j \in DOMAIN frStream, FrPos[j] <= FrPos[k]
      PROVE  FrLegal(frStream[j].size)
  <2>1. FrCount(j) > 0
    BY <1>4, FrCountField
  <2>2. j = k \/ j < k
    BY <1>3, <1>4, <2>1
  <2>3. j < k => FrPos[j] <= place
    BY <1>3
  <2> QED BY <1>4, <2>2, <2>3 DEF FrInStep
<1>5. ~FrText => \A j \in 1 .. k : FrLegal(frStream[j].size)
  <2> SUFFICES ASSUME ~FrText, NEW j \in 1 .. k PROVE FrLegal(frStream[j].size)
    OBVIOUS
  <2>1. j \in DOMAIN frStream /\ (j = k \/ j < k)
    BY <1>1
  <2>2. j < k => FrPos[j] <= place
    BY <1>3, <2>1
  <2> QED BY <2>1, <2>2 DEF FrInStep
<1>6. PICK now, then : /\ now = FrWholeTill(place) \ dropped
                       /\ then = FrWholeTill(FrPos[k]) \ dropped
  OBVIOUS
<1>7. k \notin dropped
  BY <1>2 DEF FrInStep
<1>8. then = now \cup {k}
  <2>1. ASSUME NEW j \in DOMAIN frStream
        PROVE  j \in FrWholeTill(FrPos[k]) <=> j \in FrWholeTill(place) \/ j = k
    <3>1. CASE j = k
      BY <1>2, <1>5, <3>1 DEF FrWholeTill
    <3>2. CASE j # k
      <4>1. FrCount(j) > 0 => (FrPos[j] <= FrPos[k] <=> FrPos[j] <= place)
        BY <1>2, <1>3, <3>2
      <4> QED BY <3>2, <4>1 DEF FrWholeTill
    <3> QED BY <3>1, <3>2
  <2> QED BY <1>6, <1>7, <2>1 DEF FrWholeTill
<1>9. now \in SUBSET (1 .. k - 1)
  <2> SUFFICES ASSUME NEW j \in now PROVE j \in 1 .. k - 1
    OBVIOUS
  <2>1. j \in DOMAIN frStream /\ FrPos[j] <= place
    BY <1>6 DEF FrWholeTill
  <2> QED BY <1>1, <1>3, <2>1
<1>10. FrTaken(FrBodies, then) = Append(FrTaken(FrBodies, now), FrBody(k))
  <2>1. PICK T, s : T = Seq(FrPlaces) /\ s = FrBodies
    OBVIOUS
  <2>2. s \in Seq(T) /\ k \in 1 .. Len(s) /\ s[k] = FrBody(k)
    BY <1>1, <2>1, FrBodiesType
  <2>3. FrTaken(s, now \cup {k}) = Append(FrTaken(s, now), s[k])
    BY <1>9, <2>2, TakenNext
  <2> QED BY <1>8, <2>1, <2>2, <2>3
<1>11. Append(given, FrBody(k)) = FrTaken(FrBodies, FrWholeTill(FrPos[k]) \ dropped)
  BY <1>6, <1>10 DEF FrInStep
<1>12. \A j \in dropped : FrPos[j] <= FrPos[k]
  <2> SUFFICES ASSUME NEW j \in dropped PROVE FrPos[j] <= FrPos[k]
    OBVIOUS
  <2>1. FrPos[j] <= place /\ FrPos[j] \in Nat
    BY <1>3 DEF FrInStep
  <2> QED BY <1>2, <2>1
<1>13. \E m \in 0 .. Len(frStream) : FrPos[m] = FrPos[k]
  BY <1>1
<1>14. next = "idle" => FrWholeTill(FrPos[k] + left) \subseteq FrWholeTill(FrPos[k])
  OBVIOUS
<1> QED BY <1>4, <1>11, <1>12, <1>13, <1>14 DEF FrInStep

(* With lengths: a length field in the buffer tells the length of the      *)
(* message that begins there.                                              *)
LEMMA FrFieldTells ==
    ASSUME FrPlaced, frStream \in FrStreams, frMode \in FrModes, ~FrText,
           NEW m \in 0 .. Len(frStream), NEW place, place = FrPos[m],
           NEW buf \in [1 .. FrMax -> FrFresh \cup FrPlaces], NEW a \in Nat,
           a + FrField <= FrMax, place + FrField <= Len(FrAll),
           \A o \in 1 .. FrField : buf[a + o] = FrAll[place + o]
    PROVE  \A n \in FrLengths(buf, a) : FrNextIs(place, n)
<1>1. /\ DOMAIN frStream = 1 .. Len(frStream) /\ Len(frStream) \in Nat
      /\ FrPos[Len(frStream)] = Len(FrAll) /\ FrPos[m] \in Nat
  <2>1. Len(frStream) \in Nat /\ FrPos \in [0 .. Len(frStream) -> Nat]
    BY DEF FrPlaced
  <2> QED BY <2>1 DEF FrPlaced
<1>2. m # Len(frStream)
  <2> SUFFICES ASSUME m = Len(frStream) PROVE FALSE
    OBVIOUS
  <2>1. place = Len(FrAll) /\ place \in Nat
    BY <1>1
  <2> QED BY <2>1, FrNumbers
<1>3. PICK k \in DOMAIN frStream : k = m + 1 /\ k - 1 = m
  <2>1. PICK last \in Nat : last = Len(frStream)
    BY <1>1
  <2>2. m \in 0 .. last /\ m # last
    BY <1>2, <2>1
  <2>3. m + 1 \in 1 .. last /\ (m + 1) - 1 = m
    BY <2>2
  <2> QED BY <1>1, <2>1, <2>3
<1>4. FrCount(k) >= FrField /\ FrCount(k) \in Nat
  BY FrCountField
<1>5. PICK field : field = SubSeq(buf, a + 1, a + FrField)
  OBVIOUS
<1>6. PICK bytes : bytes = FrBytes(k)
  OBVIOUS
<1>7. PICK head : head = SubSeq(bytes, 1, FrField)
  OBVIOUS
<1>8. /\ field \in Seq(FrFresh \cup FrPlaces) /\ Len(field) = FrField
      /\ \A o \in 1 .. FrField : field[o] = buf[a + o]
  <2>1. buf \in Seq(FrFresh \cup FrPlaces) /\ Len(buf) = FrMax
    BY FrNumbers
  <2> QED BY <1>5, <2>1, FrNumbers
<1>9. /\ head \in Seq(FrPlaces) /\ Len(head) = FrField
      /\ \A o \in 1 .. FrField : head[o] = <<k, o>>
  <2>1. bytes \in Seq(FrPlaces) /\ Len(bytes) = FrCount(k)
    BY <1>6, FrPartsType
  <2>2. \A o \in 1 .. FrCount(k) : bytes[o] = <<k, o>>
    BY <1>6 DEF FrBytes
  <2>3. \A o \in 1 .. FrField : o \in 1 .. FrCount(k)
    BY <1>4, FrNumbers
  <2>4. head \in Seq(FrPlaces) /\ Len(head) = FrField
        /\ \A o \in 1 .. FrField : head[o] = bytes[o]
    BY <1>4, <1>7, <2>1, FrNumbers
  <2> QED BY <2>2, <2>3, <2>4
<1>10. \A o \in 1 .. FrField : field[o] = <<k, o>>
  <2> SUFFICES ASSUME NEW o \in 1 .. FrField PROVE field[o] = <<k, o>>
    OBVIOUS
  <2>1. o \in 1 .. FrCount(k)
    BY <1>4, FrNumbers
  <2>2. FrAll[FrPos[k - 1] + o] = <<k, o>>
    BY <2>1 DEF FrPlaced
  <2> QED BY <1>3, <1>8, <2>2
<1>11. field = head
  <2>1. field = [o \in 1 .. FrField |-> field[o]]
    BY <1>8
  <2>2. head = [o \in 1 .. FrField |-> head[o]]
    BY <1>9
  <2>3. [o \in 1 .. FrField |-> field[o]] = [o \in 1 .. FrField |-> head[o]]
    BY <1>9, <1>10
  <2> QED BY <2>1, <2>2, <2>3
<1>12. field[1][1] = k /\ k > 0
  BY <1>1, <1>10, FrNumbers
<1>13. FrLengths(buf, a) = {frStream[k].size}
  BY <1>5, <1>6, <1>7, <1>11, <1>12 DEF FrLengths
<1> QED BY <1>3, <1>13 DEF FrNextIs

-----------------------------------------------------------------------------
(* Framing: each step keeps the handler in step.                           *)

(* FrInStep depends on the state only by what is sent.                     *)
LEMMA FrInStepSame ==
    ASSUME UNCHANGED <<frMode, frStream>>,
           NEW place, NEW rest, NEW at, NEW n, NEW given, NEW dropped,
           FrInStep(place, rest, at, n, given, dropped)
    PROVE  FrInStep(place, rest, at, n, given, dropped)'
<1>1. \A k : FrCount(k)' = FrCount(k)
  BY DEF FrCount, FrText, FrLegal, FrServes, FrExtra
<1>2. \A k : FrBytes(k)' = FrBytes(k) /\ FrBody(k)' = FrBody(k)
  BY DEF FrBytes, FrBody, FrCount, FrText, FrLegal, FrServes, FrExtra
<1>3. FrPos' = FrPos
  BY <1>2 DEF FrPos, FrParts
<1>4. FrBodies' = FrBodies
  BY <1>2 DEF FrBodies
<1>5. \A x : FrWholeTill(x)' = FrWholeTill(x)
  BY <1>1, <1>3 DEF FrWholeTill, FrText, FrLegal, FrServes
<1>6. FrLengthKnown(place, rest, at, n)' = FrLengthKnown(place, rest, at, n)
  BY <1>3 DEF FrLengthKnown, FrNextIs, FrLegal, FrServes
<1> QED BY <1>3, <1>4, <1>5, <1>6 DEF FrInStep, FrText, FrLegal, FrServes

(* FrSynced of the next state, from what the step leaves.                  *)
LEMMA FrSyncedNext ==
    ASSUME UNCHANGED <<frMode, frStream>>, frRecvLen' <= frSent',
           \A i \in 1 .. frRecvLen' : frBuf'[i] = FrAll[frSent' - frRecvLen' + i],
           NEW place, NEW rest, NEW at, NEW n, NEW given, NEW dropped,
           place = frSent' - frRecvLen' + frDone', rest = frRecvLen' - frDone',
           at = frAt', n = frMsgLen', given = frGiven', dropped = frDropped',
           frAstray' \/ FrInStep(place, rest, at, n, given, dropped)
    PROVE  FrSynced'
<1>1. FrAll' = FrAll
  BY FrSame
<1>2. ASSUME FrInStep(place, rest, at, n, given, dropped)
      PROVE  FrInStep(frSent - frRecvLen + frDone, frRecvLen - frDone,
                      frAt, frMsgLen, frGiven, frDropped)'
  <2>1. FrInStep(place, rest, at, n, given, dropped)'
    BY <1>2, FrInStepSame
  <2> QED BY <2>1 DEF FrInStep, FrLengthKnown, FrNextIs, FrWholeTill
<1> QED BY <1>1, <1>2 DEF FrSynced

(* What every state has: places are numbers, and what is in the buffer are *)
(* bytes of messages.                                                      *)
LEMMA FrSyncedFacts ==
    ASSUME FrInv, FrSynced
    PROVE  /\ FrPlaced /\ frStream \in FrStreams /\ frMode \in FrModes
           /\ FrMax \in Nat /\ FrField \in Nat /\ 0 < FrField /\ FrField < FrMax
           /\ FrExtra \in Nat /\ FrExtra <= FrField
           /\ frSent \in Nat /\ Len(FrAll) \in Nat /\ frSent <= Len(FrAll)
           /\ frRecvLen \in Nat /\ frRecvLen <= FrMax /\ frRecvLen <= frSent
           /\ frDone \in Nat /\ frDone <= frRecvLen /\ frMsgLen \in Nat
           /\ frBuf \in [1 .. FrMax -> FrFresh \cup FrPlaces]
           /\ frDropped \in SUBSET DOMAIN frStream
           /\ \A i \in 1 .. frRecvLen : frBuf[i] = FrAll[frSent - frRecvLen + i]
           /\ (frAt = "idle" => frDone = 0)
<1>1. FrPlaced /\ frStream \in FrStreams /\ frMode \in FrModes
  BY FrPlacedAlways DEF FrInv, FrTypeOK
<1>2. Len(FrAll) \in Nat
  <2>1. 0 \in 0 .. Len(frStream)
    BY <1>1 DEF FrPlaced
  <2> QED BY <1>1, <2>1, FrPosGrows
<1>3. FrExtra \in Nat /\ FrExtra <= FrField
  BY FrNumbers DEF FrExtra
<1>4. /\ frSent \in 0 .. Len(FrAll) /\ frRecvLen \in 0 .. FrMax /\ frDone \in 0 .. FrMax
      /\ frMsgLen \in Nat /\ frDropped \subseteq DOMAIN frStream
  BY DEF FrInv, FrTypeOK
<1>5. /\ frBuf \in [1 .. FrMax -> FrFresh \cup FrPlaces] /\ frDone <= frRecvLen
      /\ (frAt = "idle" => frDone = 0)
  BY DEF FrInv, FrBuffer
<1>6. /\ frRecvLen <= frSent
      /\ \A i \in 1 .. frRecvLen : frBuf[i] = FrAll[frSent - frRecvLen + i]
  BY DEF FrSynced
<1> QED BY <1>1, <1>2, <1>3, <1>4, <1>5, <1>6, FrNumbers

(* A byte that was received is not zero.                                   *)
LEMMA FrNotZero ==
    ASSUME FrPlaced, NEW i \in 1 .. Len(FrAll)
    PROVE  FrAll[i] # FrZero
<1>1. PICK k \in DOMAIN frStream : \E o \in 1 .. FrCount(k) : FrAll[i] = <<k, o>>
  BY DEF FrPlaced
<1>2. k # 0
  BY DEF FrPlaced
<1> QED BY <1>1, <1>2 DEF FrZero

(* strstr does not pass by what is sought.                                 *)
LEMMA FrFindLeast ==
    ASSUME NEW buf, NEW i \in Nat, i >= 1, NEW found,
           NEW j \in i .. FrMax, buf[j] \in found, \A z \in i .. j : buf[z] # FrZero
    PROVE  /\ FrFind(buf, i, found) # 0 /\ FrFind(buf, i, found) \in Nat
           /\ FrFind(buf, i, found) <= j
<1> DEFINE here == {m \in i .. FrMax :
                      buf[m] \in found /\ \A z \in i .. m : buf[z] # FrZero}
<1>1. j \in here /\ here # {}
  OBVIOUS
<1>2. here \subseteq Nat /\ \A m \in here : m # 0
  BY FrNumbers
<1>3. FrFind(buf, i, found) = CHOOSE n \in here : \A m \in here : n <= m
  BY <1>1 DEF FrFind
<1> HIDE DEF here
<1>4. \E n \in here : \A m \in here : n <= m
  BY <1>1, <1>2, LeastNatural
<1>5. PICK n : n = CHOOSE p \in here : \A m \in here : p <= m
  OBVIOUS
<1>6. n \in here /\ \A m \in here : n <= m
  BY <1>4, <1>5
<1> QED BY <1>1, <1>2, <1>3, <1>5, <1>6

(* A separator sought in received bytes and not found there: no message    *)
(* ends in them.                                                           *)
LEMMA FrNoSep ==
    ASSUME FrPlaced, FrText, NEW buf, NEW base \in Nat, NEW a \in Nat, NEW len \in Nat,
           a <= len, len <= FrMax, base + len <= Len(FrAll),
           \A i \in 1 .. len : buf[i] = FrAll[base + i],
           \/ FrFind(buf, a + 1, FrSep) = 0
           \/ FrFind(buf, a + 1, FrSep) > len
    PROVE  \A k \in DOMAIN frStream : FrCount(k) > 0 =>
              ~ (base + a < FrPos[k] /\ FrPos[k] <= base + len)
<1> SUFFICES ASSUME NEW k \in DOMAIN frStream, FrCount(k) > 0,
                    base + a < FrPos[k], FrPos[k] <= base + len
             PROVE  FALSE
  OBVIOUS
<1>1. FrPos[k] \in Nat /\ Len(FrAll) \in Nat
  <2>1. k \in 0 .. Len(frStream)
    BY DEF FrPlaced
  <2> QED BY <2>1, FrPosGrows
<1>2. PICK i : i = FrPos[k] - base
  OBVIOUS
<1>3. /\ i \in a + 1 .. len /\ i \in 1 .. len /\ i \in a + 1 .. FrMax
      /\ base + i = FrPos[k] /\ FrPos[k] \in 1 .. Len(FrAll)
  BY <1>1, <1>2, FrNumbers
<1>4. buf[i] \in FrSep
  BY <1>3, FrSepAt
<1>5. ASSUME NEW z \in a + 1 .. i PROVE buf[z] # FrZero
  <2>1. z \in 1 .. len /\ base + z \in 1 .. Len(FrAll)
    BY <1>1, <1>3
  <2> QED BY <2>1, FrNotZero
<1>6. FrFind(buf, a + 1, FrSep) # 0 /\ FrFind(buf, a + 1, FrSep) <= i
      /\ FrFind(buf, a + 1, FrSep) \in Nat
  BY <1>3, <1>4, <1>5, FrFindLeast
<1> QED BY <1>3, <1>6

(* Where a message begins, one ends, if anything came before.              *)
LEMMA FrLastEnd ==
    ASSUME FrPlaced, NEW k \in DOMAIN frStream, FrPos[k - 1] > 0
    PROVE  \E j \in DOMAIN frStream : FrCount(j) > 0 /\ FrPos[j] = FrPos[k - 1]
<1>1. DOMAIN frStream = 1 .. Len(frStream) /\ Len(frStream) \in Nat
      /\ k - 1 \in 0 .. Len(frStream)
  BY DEF FrPlaced
<1>2. FrPos[k - 1] \in Nat /\ FrPos[k - 1] <= Len(FrAll) /\ Len(FrAll) \in Nat
  BY <1>1, FrPosGrows
<1>3. FrPos[k - 1] \in 1 .. Len(FrAll)
  BY <1>2
<1>4. PICK j \in DOMAIN frStream : \E o \in 1 .. FrCount(j) : FrPos[k - 1] = FrPos[j - 1] + o
  BY <1>3 DEF FrPlaced
<1>5. PICK o \in 1 .. FrCount(j) : FrPos[k - 1] = FrPos[j - 1] + o
  BY <1>4
<1>6. j \in 0 .. Len(frStream) /\ j - 1 \in 0 .. Len(frStream) /\ FrCount(j) \in Nat
      /\ FrPos[j] = FrPos[j - 1] + FrCount(j)
  BY <1>1 DEF FrPlaced
<1>7. FrPos[j] \in Nat /\ FrPos[j - 1] \in Nat
  BY <1>6, FrPosGrows
<1>8. FrPos[j - 1] < FrPos[k - 1]
  BY <1>5, <1>6, <1>7
<1>9. ~ (k - 1 <= j - 1)
  <2>1. k - 1 <= j - 1 => FrPos[k - 1] <= FrPos[j - 1]
    BY <1>1, <1>6, FrPosGrows
  <2> QED BY <1>2, <1>7, <1>8, <2>1
<1>10. j <= k - 1
  BY <1>1, <1>9
<1>11. FrPos[j] <= FrPos[k - 1]
  BY <1>1, <1>6, <1>10, FrPosGrows
<1> QED BY <1>2, <1>5, <1>6, <1>7, <1>11

(* The bytes of a message in the buffer are its body.                      *)
LEMMA FrBodyIs ==
    ASSUME FrPlaced, frStream \in FrStreams, NEW k \in DOMAIN frStream,
           FrCount(k) >= FrExtra,
           NEW buf \in [1 .. FrMax -> FrFresh \cup FrPlaces],
           NEW a \in Nat, a + FrCount(k) <= FrMax,
           \A o \in 1 .. FrCount(k) : buf[a + o] = FrAll[FrPos[k - 1] + o]
    PROVE  SubSeq(buf, a + FrExtra + 1, a + FrCount(k)) = FrBody(k)
<1>1. PICK extra, n : extra = FrExtra /\ n = FrCount(k)
  OBVIOUS
<1>2. extra \in Nat /\ n \in Nat /\ extra <= n /\ a + n <= FrMax
  BY <1>1, FrNumbers DEF FrExtra, FrPlaced
<1>3. PICK body : body = SubSeq(buf, a + extra + 1, a + n)
  OBVIOUS
<1>4. PICK bytes : bytes = FrBytes(k)
  OBVIOUS
<1>5. PICK want : want = SubSeq(bytes, extra + 1, n)
  OBVIOUS
<1>6. /\ body \in Seq(FrFresh \cup FrPlaces) /\ Len(body) = n - extra
      /\ \A o \in 1 .. n - extra : body[o] = buf[a + (extra + o)]
  <2>1. buf \in Seq(FrFresh \cup FrPlaces) /\ Len(buf) = FrMax
    BY FrNumbers
  <2> QED BY <1>2, <1>3, <2>1, FrNumbers
<1>7. /\ want \in Seq(FrPlaces) /\ Len(want) = n - extra
      /\ \A o \in 1 .. n - extra : want[o] = <<k, extra + o>>
  <2>1. bytes \in Seq(FrPlaces) /\ Len(bytes) = n
    BY <1>1, <1>4, FrPartsType
  <2>2. \A o \in 1 .. n : bytes[o] = <<k, o>>
    BY <1>1, <1>4 DEF FrBytes
  <2>3. /\ want \in Seq(FrPlaces) /\ Len(want) = n - extra
        /\ \A o \in 1 .. n - extra : want[o] = bytes[extra + o] /\ extra + o \in 1 .. n
    BY <1>2, <1>5, <2>1
  <2> QED BY <2>2, <2>3
<1>8. ASSUME NEW o \in 1 .. n - extra PROVE body[o] = want[o]
  <2>1. extra + o \in 1 .. n
    BY <1>2
  <2>2. FrAll[FrPos[k - 1] + (extra + o)] = <<k, extra + o>>
    BY <1>1, <2>1 DEF FrPlaced
  <2>3. buf[a + (extra + o)] = <<k, extra + o>>
    BY <1>1, <2>1, <2>2
  <2> QED BY <1>6, <1>7, <2>3
<1>9. body = want
  <2>1. PICK size : size = n - extra
    OBVIOUS
  <2>2. body = [o \in 1 .. size |-> body[o]]
    BY <1>2, <1>6, <2>1
  <2>3. want = [o \in 1 .. size |-> want[o]]
    BY <1>2, <1>7, <2>1
  <2>4. [o \in 1 .. size |-> body[o]] = [o \in 1 .. size |-> want[o]]
    BY <1>8, <2>1
  <2> QED BY <2>2, <2>3, <2>4
<1> QED BY <1>1, <1>3, <1>4, <1>5, <1>9 DEF FrBody

(* With lengths: no whole message in less than the next one.               *)
LEMMA FrNoneWhole ==
    ASSUME FrPlaced, frMode \in FrModes, ~FrText,
           NEW m \in 0 .. Len(frStream), NEW more \in Nat,
           \/ more < FrField
           \/ \E k \in DOMAIN frStream :
                 /\ FrPos[k - 1] = FrPos[m]
                 /\ ~FrLegal(frStream[k].size) \/ more < FrCount(k)
    PROVE  FrWholeTill(FrPos[m] + more) \subseteq FrWholeTill(FrPos[m])
<1> SUFFICES ASSUME NEW j \in FrWholeTill(FrPos[m] + more) PROVE j \in FrWholeTill(FrPos[m])
  OBVIOUS
<1>1. /\ j \in DOMAIN frStream /\ FrCount(j) > 0 /\ FrPos[j] <= FrPos[m] + more
      /\ \A i \in 1 .. j : FrLegal(frStream[i].size)
  BY DEF FrWholeTill
<1>2. DOMAIN frStream = 1 .. Len(frStream) /\ Len(frStream) \in Nat
  BY DEF FrPlaced
<1>3. SUFFICES ASSUME FrPos[j] > FrPos[m] PROVE FALSE
  <2>1. FrPos[j] \in Nat /\ FrPos[m] \in Nat
    <3>1. j \in 0 .. Len(frStream)
      BY <1>1, <1>2
    <3> QED BY <3>1, FrPosGrows
  <2> QED BY <1>1, <1>3, <2>1 DEF FrWholeTill
<1>4. j \in 0 .. Len(frStream) /\ FrPos[m] \in Nat /\ FrPos[j] \in Nat
  <2>1. j \in 0 .. Len(frStream)
    BY <1>1, <1>2
  <2> QED BY <2>1, FrPosGrows
(* j is behind each message that begins no later than the m-th one ends.   *)
<1>5. ASSUME NEW k \in DOMAIN frStream, FrPos[k - 1] = FrPos[m]
      PROVE  k <= j /\ FrPos[m] + FrCount(k) <= FrPos[m] + more
  <2>1. /\ k - 1 \in 0 .. Len(frStream) /\ k \in 0 .. Len(frStream) /\ FrCount(k) \in Nat
        /\ FrPos[k] = FrPos[k - 1] + FrCount(k)
    BY <1>2 DEF FrPlaced
  <2>2. j <= k - 1 => FrPos[j] <= FrPos[k - 1]
    BY <1>4, <2>1, FrPosGrows
  <2>3. k <= j
    BY <1>2, <1>3, <1>4, <1>5, <2>1, <2>2
  <2>4. FrPos[k] <= FrPos[j]
    BY <1>4, <2>1, <2>3, FrPosGrows
  <2> QED BY <1>1, <1>4, <1>5, <2>1, <2>3, <2>4
<1>6. m < Len(frStream)
  <2>1. j <= m => FrPos[j] <= FrPos[m]
    BY <1>4, FrPosGrows
  <2> QED BY <1>2, <1>3, <1>4, <2>1
<1>7. m + 1 \in DOMAIN frStream /\ (m + 1) - 1 = m
  BY <1>2, <1>6
<1>8. FrCount(m + 1) >= FrField /\ FrCount(m + 1) \in Nat
  BY <1>7, FrCountField
<1>9. FrPos[m] + FrCount(m + 1) <= FrPos[m] + more
  BY <1>5, <1>7
<1>10. ~ (more < FrField)
  BY <1>4, <1>8, <1>9, FrNumbers
<1>11. PICK k \in DOMAIN frStream :
          /\ FrPos[k - 1] = FrPos[m]
          /\ ~FrLegal(frStream[k].size) \/ more < FrCount(k)
  BY <1>10
<1>12. FrCount(k) \in Nat
  BY DEF FrPlaced
<1>13. k <= j /\ FrPos[m] + FrCount(k) <= FrPos[m] + more
  BY <1>5, <1>11
<1>14. FrLegal(frStream[k].size)
  <2>1. k \in 1 .. j
    BY <1>2, <1>4, <1>13
  <2> QED BY <1>1, <2>1
<1> QED BY <1>4, <1>11, <1>12, <1>13, <1>14

LEMMA FrSyncedInit == FrInit => FrSynced
<1> SUFFICES ASSUME FrInit PROVE FrSynced
  OBVIOUS
<1>1. FrPlaced /\ frSent = 0 /\ frRecvLen = 0 /\ frDone = 0 /\ frAt = "idle"
      /\ frMsgLen = 0 /\ frGiven = <<>> /\ frDropped = {} /\ frStream \in FrStreams
  BY FrPlacedAlways DEF FrInit
<1>2. FrWholeTill(0) = {}
  <2> SUFFICES ASSUME NEW k \in FrWholeTill(0) PROVE FALSE
    OBVIOUS
  <2>1. k \in 0 .. Len(frStream) /\ 0 \in 0 .. Len(frStream) /\ 0 < k
        /\ FrCount(k) > 0 /\ FrPos[k] <= 0 /\ FrPos[0] = 0
    BY <1>1 DEF FrWholeTill, FrPlaced
  <2> QED BY <1>1, <2>1, FrPosGrows
<1>3. FrTaken(FrBodies, {}) = <<>>
  <2>1. PICK T, s : T = Seq(FrPlaces) /\ s = FrBodies
    OBVIOUS
  <2>2. s \in Seq(T)
    BY <1>1, <2>1, FrBodiesType
  <2>3. Len(s) \in 0 .. Len(s) /\ 0 \in 0 .. Len(s) /\ Len(s) \in Nat
    BY <2>2
  <2>4. {} \cap (0 + 1 .. Len(s)) = {}
    OBVIOUS
  <2>5. TakenOf(s, {})[Len(s)] = TakenOf(s, {})[0]
    BY <2>2, <2>3, <2>4, TakenOfMore
  <2> QED BY <2>1, <2>2, <2>5, TakenOfSteps
<1>4. FrPos[0] = 0 /\ 0 \in 0 .. Len(frStream)
  BY <1>1 DEF FrPlaced
<1>5. ASSUME ~FrText, NEW k \in DOMAIN frStream PROVE ~ (FrPos[k] <= 0)
  <2>1. frMode \in FrModes
    BY DEF FrInit
  <2>2. FrCount(k) > 0
    BY <1>1, <1>5, <2>1, FrCountField
  <2>3. k \in 0 .. Len(frStream) /\ 0 \in 0 .. Len(frStream) /\ 0 < k
    BY <1>1 DEF FrPlaced
  <2>4. FrPos[0] < FrPos[k] /\ FrPos[k] \in Nat
    BY <1>1, <2>2, <2>3, FrPosGrows
  <2> QED BY <1>4, <2>4
<1>6. FrLengthKnown(0, 0, "idle", 0)
  BY FrNumbers DEF FrLengthKnown
<1>7. FrInStep(0, 0, "idle", 0, <<>>, {})
  <2>1. 0 + 0 = 0
    OBVIOUS
  <2>2. <<>> = FrTaken(FrBodies, FrWholeTill(0) \ {})
    BY <1>2, <1>3
  <2> QED BY <1>2, <1>4, <1>5, <1>6, <2>1, <2>2 DEF FrInStep
<1>8. 0 - 0 + 0 = 0 /\ 0 - 0 = 0 /\ 0 <= 0 /\ \A i \in 1 .. 0 : FALSE
  OBVIOUS
<1> QED BY <1>1, <1>7, <1>8 DEF FrSynced

(* A read: what the buffer holds is again the last that was received.      *)
LEMMA FrArrivesSynced ==
    ASSUME FrInv, FrSynced, NEW n \in 1 .. FrMax - frRecvLen, NEW len, NEW got,
           len = frRecvLen + n,
           \A i \in 1 .. FrMax :
              got[i] = IF i \in frRecvLen + 1 .. len
                       THEN FrAll[frSent + i - frRecvLen] ELSE frBuf[i]
    PROVE  \A i \in 1 .. len : got[i] = FrAll[(frSent - frRecvLen) + i]
<1>1. /\ FrMax \in Nat /\ frRecvLen \in Nat /\ frRecvLen <= FrMax /\ frSent \in Nat
      /\ n \in Nat /\ len \in Nat /\ len <= FrMax
      /\ \A i \in 1 .. frRecvLen : frBuf[i] = FrAll[frSent - frRecvLen + i]
  BY FrSyncedFacts
<1> SUFFICES ASSUME NEW i \in 1 .. len PROVE got[i] = FrAll[(frSent - frRecvLen) + i]
  OBVIOUS
<1>2. i \in 1 .. FrMax /\ frSent + i - frRecvLen = (frSent - frRecvLen) + i
  BY <1>1
<1>3. CASE i \in frRecvLen + 1 .. len
  BY <1>2, <1>3
<1>4. CASE i \notin frRecvLen + 1 .. len
  <2>1. i \in 1 .. frRecvLen
    BY <1>1, <1>4
  <2>2. got[i] = frBuf[i]
    BY <1>2, <1>4
  <2> QED BY <1>1, <2>1, <2>2
<1> QED BY <1>3, <1>4

(* A step that leaves what was received and where the handler is.          *)
LEMMA FrCloseSynced ==
    ASSUME FrInv, FrSynced, FrClose
    PROVE  FrSynced'
<1>1. PICK place, rest : place = frSent - frRecvLen + frDone /\ rest = frRecvLen - frDone
  OBVIOUS
<1>2. frAstray \/ FrInStep(place, rest, frAt, frMsgLen, frGiven, frDropped)
  BY <1>1, Zenon DEF FrSynced
<1>3. ASSUME FrInStep(place, rest, frAt, frMsgLen, frGiven, frDropped)
      PROVE  FrInStep(place, rest, "closed", frMsgLen, frGiven, frDropped)
  BY <1>3 DEF FrInStep, FrLengthKnown
<1>4. /\ UNCHANGED <<frMode, frStream, frSent, frBuf, frRecvLen, frMsgLen, frDone,
                     frGiven, frDropped, frAstray>>
      /\ frAt' = "closed"
  BY DEF FrClose
<1>5. /\ frRecvLen' <= frSent'
      /\ \A i \in 1 .. frRecvLen' : frBuf'[i] = FrAll[frSent' - frRecvLen' + i]
  BY <1>4 DEF FrSynced
<1>6. /\ place = frSent' - frRecvLen' + frDone' /\ rest = frRecvLen' - frDone'
      /\ "closed" = frAt' /\ frMsgLen = frMsgLen' /\ frGiven = frGiven'
      /\ frDropped = frDropped'
  BY <1>1, <1>4
<1>7. PICK n, given, dropped : n = frMsgLen /\ given = frGiven /\ dropped = frDropped
  OBVIOUS
<1>8. frAstray' \/ FrInStep(place, rest, "closed", n, given, dropped)
  BY <1>2, <1>3, <1>4, <1>7
<1> QED BY <1>4, <1>5, <1>6, <1>7, <1>8, FrSyncedNext

(* A read of text.                                                         *)
LEMMA FrTextSynced ==
    ASSUME FrInv, FrSynced, frAt = "idle", NEW n \in 1 .. FrMax - frRecvLen,
           NEW len, NEW got, len = frRecvLen + n,
           \A i \in 1 .. len : got[i] = FrAll[(frSent - frRecvLen) + i],
           frSent + n <= Len(FrAll), frSent' = frSent + n,
           FrTextArrives(got, len), FrStays
    PROVE  FrSynced'
<1>1. /\ FrPlaced /\ frStream \in FrStreams /\ FrMax \in Nat
      /\ frSent \in Nat /\ Len(FrAll) \in Nat
      /\ frRecvLen \in Nat /\ frRecvLen <= frSent /\ frRecvLen <= FrMax
      /\ frDone = 0 /\ frDropped \in SUBSET DOMAIN frStream
  BY FrSyncedFacts
<1>2. PICK place \in Nat : place = frSent - frRecvLen
  BY <1>1
<1>3. /\ n \in Nat /\ n >= 1 /\ len \in Nat /\ len >= 1 /\ len <= FrMax
      /\ place + len = frSent' /\ place + len <= Len(FrAll) /\ len <= frSent'
      /\ frSent' - len = place
  BY <1>1, <1>2
<1>4. FrText /\ UNCHANGED <<frMode, frStream, frDone, frGiven, frMsgLen>>
  BY DEF FrTextArrives, FrStays
<1>5. PICK rest, msgLen, given, dropped :
        rest = frRecvLen /\ msgLen = frMsgLen /\ given = frGiven /\ dropped = frDropped
  OBVIOUS
<1>6. frAstray \/ FrInStep(place, rest, "idle", msgLen, given, dropped)
  <2>1. frSent - frRecvLen + 0 = place /\ frRecvLen - 0 = rest
    BY <1>1, <1>2, <1>5
  <2> QED BY <1>1, <1>5, <2>1 DEF FrSynced
<1>7. \A i \in 1 .. len : got[i] = FrAll[place + i]
  BY <1>2
<1>8. CASE FrNoEnd(got, len) \/ FrEnded(got, len)
  <2>1. /\ frBuf' = got /\ frRecvLen' = len /\ UNCHANGED <<frDropped, frAstray>>
    BY <1>8 DEF FrNoEnd, FrEnded, FrGoOn
  <2>2. PICK at : at = frAt'
    OBVIOUS
  <2>3. ASSUME ~frAstray PROVE FrInStep(place, len, at, msgLen, given, dropped)
    <3>1. FrInStep(place, rest, "idle", msgLen, given, dropped)
      BY <1>6, <2>3
    <3>2. CASE FrNoEnd(got, len)
      <4>1. PICK zero \in Nat : zero = 0
        OBVIOUS
      <4>2. FrFind(got, zero + 1, FrSep) = 0
        <5>1. zero + 1 = 1
          BY <4>1
        <5> QED BY <3>2, <5>1 DEF FrNoEnd
      <4>3. zero <= len /\ place + zero = place
        BY <1>3, <4>1
      <4>4. \A k \in DOMAIN frStream : FrCount(k) > 0 =>
              ~ (place + zero < FrPos[k] /\ FrPos[k] <= place + len)
        <5>1. FrPlaced /\ FrText /\ len \in Nat /\ len <= FrMax
              /\ place + len <= Len(FrAll)
          BY <1>1, <1>3, <1>4
        <5>2. FrFind(got, zero + 1, FrSep) = 0 \/ FrFind(got, zero + 1, FrSep) > len
          BY <4>2
        <5> HIDE DEF FrPlaced
        <5> QED BY <1>7, <4>3, <5>1, <5>2, FrNoSep
      <4>5. \A k \in DOMAIN frStream : FrCount(k) > 0 =>
              ~ (place < FrPos[k] /\ FrPos[k] <= place + len)
        BY <4>3, <4>4
      <4> QED BY <1>1, <1>3, <1>4, <1>5, <3>1, <4>5, FrInStepNone
    <3>3. CASE FrEnded(got, len)
      <4>1. at = "loop"
        BY <2>2, <3>3 DEF FrEnded, FrGoOn
      <4> QED BY <1>4, <3>1, <4>1 DEF FrInStep
    <3> QED BY <1>8, <3>2, <3>3
  <2>4. place = frSent' - frRecvLen' + frDone' /\ len = frRecvLen' - frDone'
    <3>1. frDone' = 0 /\ frRecvLen' = len
      BY <1>1, <1>4, <2>1
    <3>2. place = place + 0 /\ len = len - 0
      BY <1>3
    <3> QED BY <1>3, <3>1, <3>2
  <2>5. \A i \in 1 .. frRecvLen' : frBuf'[i] = FrAll[frSent' - frRecvLen' + i]
    BY <1>3, <1>7, <2>1
  <2> QED BY <1>3, <1>4, <1>5, <2>1, <2>2, <2>3, <2>4, <2>5, FrSyncedNext
<1>9. CASE FrRefused(got, len)
  <2>1. PICK refused : refused = {got[i][1] : i \in {j \in 1 .. len : got[j] \in FrSep}}
    OBVIOUS
  <2>2. /\ frRecvLen' = 0 /\ frAt' = "idle"
        /\ frDropped' = frDropped \cup refused
        /\ frAstray' = (frAstray \/ got[len] \notin FrSep)
    BY <1>9, <2>1, Zenon DEF FrRefused, FrGoOn
  <2>3. PICK sent, both : sent = frSent' /\ both = dropped \cup refused
    OBVIOUS
  <2>4. ASSUME NEW i \in 1 .. len
        PROVE  /\ got[i] = FrAll[place + i] /\ place + i \in 1 .. Len(FrAll)
               /\ got[i] \in FrSep =>
                    /\ got[i][1] \in DOMAIN frStream /\ FrCount(got[i][1]) > 0
                    /\ FrPos[got[i][1]] = place + i
               /\ \A k \in DOMAIN frStream : FrCount(k) > 0 /\ FrPos[k] = place + i =>
                    got[i] \in FrSep /\ got[i][1] = k
    <3>1. place + i \in 1 .. Len(FrAll)
      BY <1>3
    <3>2. got[i] = FrAll[place + i]
      BY <1>7
    <3> QED BY <1>1, <1>4, <3>1, <3>2, FrSepAt
  <2>5. ASSUME ~frAstray' PROVE FrInStep(sent, 0, "idle", msgLen, given, both)
    <3>1. FrInStep(place, rest, "idle", msgLen, given, dropped)
      BY <1>6, <2>2, <2>5
    <3>2. got[len] \in FrSep /\ len \in 1 .. len
      <4>1. got[len] \in FrSep
        BY <2>2, <2>5, Zenon
      <4> QED BY <1>3, <4>1
    <3>3. PICK end : end = got[len][1]
      OBVIOUS
    <3>4. end \in 0 .. Len(frStream) /\ FrPos[end] = place + len
      <4>1. end \in DOMAIN frStream /\ FrPos[end] = place + len
        BY <2>4, <3>2, <3>3
      <4> QED BY <1>1, <4>1 DEF FrPlaced
    <3>5. refused = {k \in DOMAIN frStream : FrCount(k) > 0 /\ place < FrPos[k]
                                             /\ FrPos[k] <= place + len}
      <4>1. ASSUME NEW k \in refused
            PROVE  k \in DOMAIN frStream /\ FrCount(k) > 0 /\ place < FrPos[k]
                   /\ FrPos[k] <= place + len
        <5>1. PICK i \in 1 .. len : got[i] \in FrSep /\ k = got[i][1]
          BY <2>1
        <5>2. k \in DOMAIN frStream /\ FrCount(k) > 0 /\ FrPos[k] = place + i
          BY <2>4, <5>1
        <5> QED BY <1>3, <5>2
      <4>2. ASSUME NEW k \in DOMAIN frStream, FrCount(k) > 0, place < FrPos[k],
                   FrPos[k] <= place + len
            PROVE  k \in refused
        <5>1. FrPos[k] \in Nat
          <6>1. k \in 0 .. Len(frStream)
            BY <1>1 DEF FrPlaced
          <6> QED BY <1>1, <6>1, FrPosGrows
        <5>2. PICK i : i = FrPos[k] - place
          OBVIOUS
        <5>3. i \in 1 .. len /\ FrPos[k] = place + i
          <6>1. PICK pos \in Nat : pos = FrPos[k]
            BY <5>1
          <6>2. place < pos /\ pos <= place + len /\ i = pos - place
            BY <4>2, <5>2, <6>1
          <6>3. i \in 1 .. len /\ pos = place + i
            BY <1>3, <6>2
          <6> QED BY <6>1, <6>3
        <5>4. got[i] \in FrSep /\ got[i][1] = k
          BY <2>4, <4>2, <5>3
        <5> QED BY <2>1, <5>3, <5>4
      <4> QED BY <4>1, <4>2
    <3>6. rest \in Nat /\ dropped \in SUBSET DOMAIN frStream
      BY <1>1, <1>5
    <3>7. FrInStep(place + len, 0, "idle", msgLen, given, dropped \cup refused)
      BY <1>1, <1>3, <1>4, <3>1, <3>4, <3>5, <3>6, FrInStepRefused
    <3> QED BY <1>3, <2>3, <3>7
  <2>6. sent = frSent' - frRecvLen' + frDone' /\ 0 = frRecvLen' - frDone'
        /\ frRecvLen' <= frSent'
    <3>1. frDone' = 0 /\ frRecvLen' = 0 /\ frSent' \in Nat
      <4>1. frDone' = 0 /\ frRecvLen' = 0
        BY <1>1, <1>4, <2>2
      <4>2. place + len \in Nat
        BY <1>3
      <4> QED BY <1>3, <4>1, <4>2
    <3>2. sent = frSent' - 0 + 0 /\ 0 = 0 - 0 /\ 0 <= frSent'
      BY <2>3, <3>1
    <3> QED BY <3>1, <3>2
  <2>7. \A i \in 1 .. frRecvLen' : frBuf'[i] = FrAll[frSent' - frRecvLen' + i]
    BY <2>2
  <2>8. both = frDropped'
    BY <1>5, <2>2, <2>3
  <2> QED BY <1>4, <1>5, <2>2, <2>5, <2>6, <2>7, <2>8, FrSyncedNext
<1> QED BY <1>8, <1>9 DEF FrTextArrives

(* With lengths: the next message is not whole in less than its length, or *)
(* when its length is illegal.                                             *)
LEMMA FrWaits ==
    ASSUME FrPlaced, frMode \in FrModes, ~FrText,
           NEW m \in 0 .. Len(frStream), NEW more \in Nat, NEW n,
           FrNextIs(FrPos[m], n), ~FrLegal(n) \/ more < FrExtra + n
    PROVE  FrWholeTill(FrPos[m] + more) \subseteq FrWholeTill(FrPos[m])
<1>1. PICK k \in DOMAIN frStream : FrPos[k - 1] = FrPos[m] /\ frStream[k].size = n
  BY DEF FrNextIs
<1>2. ~FrLegal(frStream[k].size) \/ more < FrCount(k)
  BY <1>1 DEF FrCount
<1> HIDE DEF FrPlaced
<1> QED BY <1>1, <1>2, FrNoneWhole

LEMMA FrInStepLength ==
    ASSUME ~FrText, NEW place, NEW rest, NEW at, NEW n, NEW given, NEW dropped,
           FrInStep(place, rest, at, n, given, dropped),
           NEW more, NEW next, NEW len, FrLengthKnown(place, more, next, len),
           next = "idle" => FrWholeTill(place + more) \subseteq FrWholeTill(place)
    PROVE  FrInStep(place, more, next, len, given, dropped)
BY DEF FrInStep

(* A read of messages with lengths.                                        *)
LEMMA FrFirstKnown ==
    ASSUME FrPlaced, frStream \in FrStreams, frMode \in FrModes, ~FrText,
           NEW m \in 0 .. Len(frStream), NEW place \in Nat, place = FrPos[m],
           NEW rest \in Nat, frMsgLen \in Nat,
           FrLengthKnown(place, rest, "idle", frMsgLen),
           NEW len \in Nat, len >= 1, len <= FrMax, place + len <= Len(FrAll),
           NEW got \in [1 .. FrMax -> FrFresh \cup FrPlaces],
           \A i \in 1 .. len : got[i] = FrAll[place + i],
           NEW n \in FrFirstLengths(got, len), NEW at,
           at = IF frMsgLen = 0 /\ len >= FrField /\ ~FrLegal(n) THEN "closed"
                ELSE IF len < FrField \/ len < FrExtra + n THEN "idle" ELSE "loop"
    PROVE  /\ FrLengthKnown(place, len, at, n)
           /\ at = "idle" => FrWholeTill(place + len) \subseteq FrWholeTill(place)
<1>1. /\ FrMax \in Nat /\ FrField \in Nat /\ 0 < FrField
      /\ FrExtra \in Nat /\ FrExtra <= FrField /\ Len(FrAll) \in Nat
  <2>1. 0 \in 0 .. Len(frStream)
    BY DEF FrPlaced
  <2> QED BY <2>1, FrNumbers, FrPosGrows DEF FrExtra
<1>2. CASE frMsgLen # 0
  <2>1. n = frMsgLen
    BY <1>2 DEF FrFirstLengths
  <2>2. FrNextIs(place, n) /\ (FrServes => FrLegal(n))
    BY <1>2, <2>1 DEF FrLengthKnown
  <2>3. at = IF len < FrField \/ len < FrExtra + n THEN "idle" ELSE "loop"
    BY <1>2
  <2>4. FrLengthKnown(place, len, at, n)
    BY <1>2, <2>1, <2>2, <2>3 DEF FrLengthKnown
  <2>5. ASSUME at = "idle" PROVE FrWholeTill(place + len) \subseteq FrWholeTill(place)
    <3>1. CASE len < FrField
      BY <3>1, FrNoneWhole
    <3>2. CASE ~ (len < FrField)
      <4>1. len < FrExtra + n
        BY <2>3, <2>5, <3>2
      <4> QED BY <2>2, <4>1, FrWaits
    <3> QED BY <3>1, <3>2
  <2> QED BY <2>4, <2>5
<1>3. CASE frMsgLen = 0 /\ len >= FrField
  <2>1. PICK zero \in Nat : zero = 0
    OBVIOUS
  <2>2. n \in FrLengths(got, zero)
    BY <1>3, <2>1 DEF FrFirstLengths
  <2>3. /\ zero + FrField <= FrMax /\ place + FrField <= Len(FrAll)
        /\ \A o \in 1 .. FrField : got[zero + o] = FrAll[place + o]
    <3>1. zero + FrField <= FrMax /\ place + FrField <= Len(FrAll)
      BY <1>1, <1>3, <2>1
    <3>2. ASSUME NEW o \in 1 .. FrField PROVE o \in 1 .. len /\ zero + o = o
      BY <1>1, <1>3, <2>1
    <3> QED BY <3>1, <3>2
  <2>4. FrNextIs(place, n)
    BY <2>2, <2>3, FrFieldTells
  <2>5. at = IF ~FrLegal(n) THEN "closed"
             ELSE IF len < FrExtra + n THEN "idle" ELSE "loop"
    <3>1. ~ (len < FrField)
      BY <1>1, <1>3
    <3> QED BY <1>3, <3>1
  <2>6. FrLegal(n) /\ len < FrExtra + n => n # 0
    BY <1>1, <1>3
  <2>7. FrLengthKnown(place, len, at, n)
    <3>1. ~ (len < FrField) /\ len > 0
      BY <1>1, <1>3
    <3> QED BY <2>4, <2>5, <2>6, <3>1 DEF FrLengthKnown
  <2>8. ASSUME at = "idle" PROVE FrWholeTill(place + len) \subseteq FrWholeTill(place)
    <3>1. len < FrExtra + n
      BY <2>5, <2>8
    <3> QED BY <2>4, <3>1, FrWaits
  <2> QED BY <2>7, <2>8
<1>4. CASE frMsgLen = 0 /\ len < FrField
  <2>1. ~ (len >= FrField)
    BY <1>1, <1>4
  <2>2. n = 0 /\ at = "idle"
    BY <1>4, <2>1 DEF FrFirstLengths
  <2>3. FrLengthKnown(place, len, at, n)
    BY <1>4, <2>2 DEF FrLengthKnown
  <2>4. FrWholeTill(place + len) \subseteq FrWholeTill(place)
    BY <1>4, FrNoneWhole
  <2> QED BY <2>3, <2>4
<1>5. len >= FrField \/ len < FrField
  BY <1>1
<1> QED BY <1>2, <1>3, <1>4, <1>5

LEMMA FrLengthSynced ==
    ASSUME FrInv, FrSynced, frAt = "idle", NEW n \in 1 .. FrMax - frRecvLen,
           NEW len, NEW got, len = frRecvLen + n,
           got \in [1 .. FrMax -> FrFresh \cup FrPlaces],
           \A i \in 1 .. len : got[i] = FrAll[(frSent - frRecvLen) + i],
           frSent + n <= Len(FrAll), frSent' = frSent + n,
           FrLengthArrives(got, len), FrStays
    PROVE  FrSynced'
<1>1. /\ FrPlaced /\ frStream \in FrStreams /\ frMode \in FrModes /\ FrMax \in Nat
      /\ frSent \in Nat /\ Len(FrAll) \in Nat /\ frMsgLen \in Nat
      /\ frRecvLen \in Nat /\ frRecvLen <= frSent /\ frRecvLen <= FrMax
      /\ frDone = 0
  BY FrSyncedFacts
<1>2. PICK place \in Nat : place = frSent - frRecvLen
  BY <1>1
<1>3. /\ n \in Nat /\ n >= 1 /\ len \in Nat /\ len >= 1 /\ len <= FrMax
      /\ place + len = frSent' /\ place + len <= Len(FrAll) /\ len <= frSent'
      /\ frSent' - len = place
  BY <1>1, <1>2
<1>4. /\ ~FrText /\ UNCHANGED <<frMode, frStream, frDone, frGiven>>
      /\ frBuf' = got /\ frRecvLen' = len /\ UNCHANGED <<frDropped, frAstray>>
  BY DEF FrLengthArrives, FrGoOn, FrStays
<1>5. PICK rest, given, dropped, at, msgLen :
        /\ rest = frRecvLen /\ given = frGiven /\ dropped = frDropped
        /\ at = frAt' /\ msgLen = frMsgLen'
  OBVIOUS
<1>6. frAstray \/ FrInStep(place, rest, "idle", frMsgLen, given, dropped)
  <2>1. frSent - frRecvLen + 0 = place /\ frRecvLen - 0 = rest
    BY <1>1, <1>2, <1>5
  <2> QED BY <1>1, <1>5, <2>1 DEF FrSynced
<1>7. \A i \in 1 .. len : got[i] = FrAll[place + i]
  BY <1>2
<1>8. /\ msgLen \in FrFirstLengths(got, len)
      /\ at = IF frMsgLen = 0 /\ len >= FrField /\ ~FrLegal(msgLen) THEN "closed"
              ELSE IF len < FrField \/ len < FrExtra + msgLen THEN "idle" ELSE "loop"
  BY <1>5 DEF FrLengthArrives, FrGoOn
<1>9. ASSUME ~frAstray PROVE FrInStep(place, len, at, msgLen, given, dropped)
  <2>1. FrInStep(place, rest, "idle", frMsgLen, given, dropped)
    BY <1>6, <1>9
  <2>2. PICK m \in 0 .. Len(frStream) : place = FrPos[m]
    BY <2>1 DEF FrInStep
  <2>3. FrLengthKnown(place, rest, "idle", frMsgLen)
    BY <1>4, <2>1 DEF FrInStep
  <2>4. rest \in Nat
    BY <1>1, <1>5
  <2>5. /\ FrLengthKnown(place, len, at, msgLen)
        /\ at = "idle" => FrWholeTill(place + len) \subseteq FrWholeTill(place)
    BY <1>1, <1>3, <1>4, <1>7, <1>8, <2>2, <2>3, <2>4, FrFirstKnown
  <2> QED BY <1>4, <2>1, <2>5, FrInStepLength
<1>10. place = frSent' - frRecvLen' + frDone' /\ len = frRecvLen' - frDone'
  <2>1. frDone' = 0 /\ frRecvLen' = len
    BY <1>1, <1>4
  <2>2. place = place + 0 /\ len = len - 0
    BY <1>3
  <2> QED BY <1>3, <2>1, <2>2
<1>11. \A i \in 1 .. frRecvLen' : frBuf'[i] = FrAll[frSent' - frRecvLen' + i]
  BY <1>3, <1>4, <1>7
<1>12. given = frGiven' /\ dropped = frDropped' /\ frRecvLen' <= frSent'
  BY <1>3, <1>4, <1>5
<1>13. frAstray' \/ FrInStep(place, len, at, msgLen, given, dropped)
  BY <1>4, <1>9
<1> QED BY <1>4, <1>5, <1>10, <1>11, <1>12, <1>13, FrSyncedNext

LEMMA FrRecvSynced ==
    ASSUME FrInv, FrSynced, FrRecv
    PROVE  FrSynced'
<1>1. PICK n \in 1 .. FrMax - frRecvLen :
        LET len == frRecvLen + n
            got == [i \in 1 .. FrMax |->
                      IF i \in frRecvLen + 1 .. len
                      THEN FrAll[frSent + i - frRecvLen] ELSE frBuf[i]]
        IN  /\ frSent + n <= Len(FrAll)
            /\ frSent' = frSent + n
            /\ FrTextArrives(got, len) \/ FrLengthArrives(got, len)
  BY DEF FrRecv
<1>2. PICK len : len = frRecvLen + n
  OBVIOUS
<1>3. PICK got : got = [i \in 1 .. FrMax |->
                          IF i \in frRecvLen + 1 .. len
                          THEN FrAll[frSent + i - frRecvLen] ELSE frBuf[i]]
  OBVIOUS
<1>4. /\ frSent + n <= Len(FrAll) /\ frSent' = frSent + n
      /\ FrTextArrives(got, len) \/ FrLengthArrives(got, len)
  BY <1>1, <1>2, <1>3, Zenon
<1>5. frAt = "idle" /\ FrStays
  BY DEF FrRecv
<1>6. \A i \in 1 .. len : got[i] = FrAll[(frSent - frRecvLen) + i]
  <2>1. \A i \in 1 .. FrMax :
          got[i] = IF i \in frRecvLen + 1 .. len
                   THEN FrAll[frSent + i - frRecvLen] ELSE frBuf[i]
    BY <1>3
  <2> QED BY <1>2, <2>1, FrArrivesSynced
<1>7. got \in [1 .. FrMax -> FrFresh \cup FrPlaces]
  <2>1. FrArrival(n, len, got)
    BY <1>2, <1>3, <1>4, FrArrives
  <2> QED BY <2>1 DEF FrArrival
<1>8. CASE FrTextArrives(got, len)
  BY <1>2, <1>4, <1>5, <1>6, <1>8, FrTextSynced
<1>9. CASE FrLengthArrives(got, len)
  BY <1>2, <1>4, <1>5, <1>6, <1>7, <1>9, FrLengthSynced
<1> QED BY <1>4, <1>8, <1>9

(* The end the loop finds is that of the message behind what it has done.  *)
LEMMA FrTextEndIs ==
    ASSUME FrInv, FrSynced, frAt = "loop", FrText, FrEnd # 0,
           NEW base \in Nat, base = frSent - frRecvLen,
           NEW m \in 0 .. Len(frStream), FrPos[m] = base + frDone
    PROVE  \E k \in DOMAIN frStream :
              /\ FrPos[k - 1] = base + frDone /\ FrPos[k] = base + FrEnd
              /\ FrCount(k) > 0
<1>1. /\ FrPlaced /\ FrMax \in Nat /\ frSent \in Nat /\ Len(FrAll) \in Nat
      /\ frSent <= Len(FrAll) /\ frRecvLen \in Nat /\ frRecvLen <= FrMax
      /\ frRecvLen <= frSent /\ frDone \in Nat /\ frDone <= frRecvLen
      /\ \A i \in 1 .. frRecvLen : frBuf[i] = FrAll[base + i]
  BY FrSyncedFacts
<1>2. PICK end : end = FrEnd
  OBVIOUS
<1>3. end = FrFind(frBuf, frDone + 1, FrSep) /\ end # 0
  BY <1>2 DEF FrEnd, FrTextEnd
<1>4. end \in frDone + 1 .. FrMax /\ end \in Nat /\ frBuf[end] \in FrSep
      /\ end <= frRecvLen
  <2>1. frDone + 1 \in Nat /\ frDone + 1 >= 1
    BY <1>1
  <2>2. end \in frDone + 1 .. FrMax /\ end \in Nat /\ frBuf[end] \in FrSep
    BY <1>3, <2>1, FrFindFacts
  <2>3. end <= frRecvLen
    BY <1>2, FrEndReceived
  <2> QED BY <2>2, <2>3
<1>5. base + end \in 1 .. Len(FrAll) /\ frBuf[end] = FrAll[base + end]
  BY <1>1, <1>4
<1>6. PICK k \in DOMAIN frStream : FrCount(k) > 0 /\ FrPos[k] = base + end
  BY <1>1, <1>4, <1>5, FrSepAt
<1>7. /\ DOMAIN frStream = 1 .. Len(frStream) /\ Len(frStream) \in Nat
      /\ k \in 0 .. Len(frStream) /\ k - 1 \in 0 .. Len(frStream)
  BY <1>1 DEF FrPlaced
<1>8. FrPos[k - 1] \in Nat /\ FrPos[k] \in Nat /\ FrPos[m] \in Nat
  BY <1>1, <1>7, FrPosGrows
<1>9. base + frDone <= FrPos[k - 1]
  <2>1. k <= m => FrPos[k] <= FrPos[m]
    BY <1>1, <1>7, FrPosGrows
  <2>2. ~ (k <= m)
    BY <1>1, <1>4, <1>6, <1>8, <2>1
  <2>3. m <= k - 1
    BY <1>7, <2>2
  <2> QED BY <1>1, <1>7, <2>3, FrPosGrows
<1>10. SUFFICES ASSUME base + frDone < FrPos[k - 1] PROVE FALSE
  BY <1>1, <1>2, <1>6, <1>8, <1>9
<1>11. PICK j \in DOMAIN frStream : FrCount(j) > 0 /\ FrPos[j] = FrPos[k - 1]
  <2>1. FrPos[k - 1] > 0
    BY <1>1, <1>8, <1>10
  <2> QED BY <1>1, <2>1, FrLastEnd
<1>12. FrPos[k - 1] < FrPos[k]
  <2>1. k - 1 < k
    BY <1>7
  <2> QED BY <1>1, <1>6, <1>7, <2>1, FrPosGrows
<1>13. PICK i \in Nat : FrPos[j] = base + i
  <2>1. PICK pos \in Nat : pos = FrPos[k - 1]
    BY <1>8
  <2>2. base + frDone < pos
    BY <1>10, <2>1
  <2>3. PICK done \in Nat : done = frDone
    BY <1>1
  <2>4. pos - base \in Nat /\ pos = base + (pos - base)
    BY <2>2, <2>3
  <2> QED BY <1>11, <2>1, <2>4
<1>14. i \in frDone + 1 .. FrMax /\ i < end /\ i \in 1 .. frRecvLen
  BY <1>1, <1>4, <1>6, <1>8, <1>10, <1>11, <1>12, <1>13
<1>15. base + i \in 1 .. Len(FrAll)
  <2>1. base + frRecvLen = frSent
    BY <1>1
  <2>2. base + i \in 1 .. base + frRecvLen
    BY <1>1, <1>14
  <2> QED BY <1>1, <2>1, <2>2
<1>16. frBuf[i] \in FrSep
  <2>1. FrAll[base + i] \in FrSep
    BY <1>1, <1>11, <1>13, <1>15, FrSepAt
  <2> QED BY <1>1, <1>14, <2>1
<1>17. ASSUME NEW z \in frDone + 1 .. i PROVE frBuf[z] # FrZero
  <2>1. z \in 1 .. frRecvLen /\ base + z \in 1 .. Len(FrAll)
    BY <1>1, <1>14
  <2> QED BY <1>1, <2>1, FrNotZero
<1>18. FrFind(frBuf, frDone + 1, FrSep) <= i
  <2>1. frDone + 1 \in Nat /\ frDone + 1 >= 1
    BY <1>1
  <2> QED BY <1>14, <1>16, <1>17, <2>1, FrFindLeast
<1> QED BY <1>3, <1>4, <1>14, <1>18

LEMMA FrLengthEndIs ==
    ASSUME FrInv, FrSynced, frAt = "loop", ~FrText, FrEnd # 0,
           NEW base \in Nat, base = frSent - frRecvLen,
           FrLengthKnown(base + frDone, frRecvLen - frDone, "loop", frMsgLen)
    PROVE  \E k \in DOMAIN frStream :
              /\ FrPos[k - 1] = base + frDone /\ FrPos[k] = base + FrEnd
              /\ FrCount(k) > 0 /\ FrLegal(frStream[k].size)
              /\ FrCount(k) >= FrExtra
<1>1. /\ FrPlaced /\ frMode \in FrModes /\ FrMax \in Nat /\ FrField \in Nat /\ 0 < FrField
      /\ FrExtra \in Nat /\ FrExtra <= FrField /\ frMsgLen \in Nat
      /\ frRecvLen \in Nat /\ frRecvLen <= FrMax
      /\ frDone \in Nat /\ frDone <= frRecvLen
  BY FrSyncedFacts
<1>2. PICK end : end = FrEnd
  OBVIOUS
<1>3. end = frDone + FrExtra + frMsgLen /\ end <= frRecvLen
  BY <1>2 DEF FrEnd
<1>4. FrServes => FrLegal(frMsgLen)
  BY DEF FrLengthKnown
<1>5. ~ (frRecvLen - frDone < FrField)
  <2> SUFFICES ASSUME frRecvLen - frDone < FrField PROVE FALSE
    OBVIOUS
  <2>1. CASE FrServes
    <3>1. frMsgLen > FrField
      BY <1>4, <2>1 DEF FrLegal
    <3> QED BY <1>1, <1>3, <3>1
  <2>2. CASE ~FrServes
    <3>1. frMode = "clen"
      BY <1>1, <2>2, FrAssumption DEF FrServes, FrText
    <3>2. FrExtra = FrField
      BY <3>1 DEF FrExtra
    <3> QED BY <1>1, <1>3, <3>2
  <2> QED BY <2>1, <2>2
<1>6. PICK k \in DOMAIN frStream :
        FrPos[k - 1] = base + frDone /\ frStream[k].size = frMsgLen
  BY <1>5 DEF FrLengthKnown, FrNextIs
<1>7. FrLegal(frMsgLen)
  <2>1. frMsgLen <= FrMax
    BY <1>1, <1>3
  <2> QED BY <1>4, <2>1 DEF FrLegal
<1>8. FrCount(k) = FrExtra + frMsgLen
  BY <1>6, <1>7 DEF FrCount
<1>9. FrCount(k) > 0
  BY <1>1, FrCountField
<1>10. FrPos[k] = FrPos[k - 1] + FrCount(k)
  BY <1>1 DEF FrPlaced
<1>11. FrPos[k] = base + end
  BY <1>1, <1>3, <1>6, <1>8, <1>10
<1>12. FrCount(k) >= FrExtra
  BY <1>1, <1>8
<1> QED BY <1>2, <1>6, <1>7, <1>9, <1>11, <1>12

(* What the loop then knows of the message behind the one passed on.       *)
LEMMA FrNextKnown ==
    ASSUME FrInv, FrSynced, ~FrText, NEW base \in Nat, base = frSent - frRecvLen,
           NEW place, NEW rest, FrLengthKnown(place, rest, "loop", frMsgLen),
           NEW end \in Nat, end <= frRecvLen, FrNextLength(end),
           NEW k \in DOMAIN frStream, FrPos[k] = base + end
    PROVE  FrLengthKnown(FrPos[k], frRecvLen - end, frAt', frMsgLen')
<1>1. /\ FrPlaced /\ frStream \in FrStreams /\ frMode \in FrModes
      /\ FrMax \in Nat /\ FrField \in Nat /\ 0 < FrField
      /\ frSent \in Nat /\ Len(FrAll) \in Nat /\ frSent <= Len(FrAll)
      /\ frRecvLen \in Nat /\ frRecvLen <= FrMax
      /\ frBuf \in [1 .. FrMax -> FrFresh \cup FrPlaces]
      /\ \A i \in 1 .. frRecvLen : frBuf[i] = FrAll[base + i]
  BY FrSyncedFacts
<1>2. CASE frRecvLen - end < FrField
  <2>1. /\ frMsgLen' = (IF FrServes THEN frMsgLen ELSE 0)
        /\ frAt' = "loop"
    BY <1>2 DEF FrNextLength
  <2>2. FrServes => FrLegal(frMsgLen)
    BY DEF FrLengthKnown
  <2> QED BY <1>2, <2>1, <2>2 DEF FrLengthKnown
<1>3. CASE ~ (frRecvLen - end < FrField)
  <2>1. PICK n \in FrLengths(frBuf, end) :
          /\ frMsgLen' = n
          /\ frAt' = IF FrServes /\ ~FrLegal(n) THEN "closed" ELSE "loop"
    BY <1>3 DEF FrNextLength
  <2>2. end + FrField <= frRecvLen
    BY <1>1, <1>3
  <2>3. PICK place2 \in Nat : place2 = base + end
    OBVIOUS
  <2>4. end + FrField <= FrMax /\ place2 + FrField <= Len(FrAll)
    BY <1>1, <2>2, <2>3
  <2>5. ASSUME NEW o \in 1 .. FrField PROVE frBuf[end + o] = FrAll[place2 + o]
    <3>1. end + o \in 1 .. frRecvLen /\ base + (end + o) = place2 + o
      BY <1>1, <2>2, <2>3
    <3> QED BY <1>1, <3>1
  <2>6. k \in 0 .. Len(frStream) /\ place2 = FrPos[k]
    BY <1>1, <2>3 DEF FrPlaced
  <2>7. FrNextIs(place2, n)
    BY <1>1, <2>1, <2>4, <2>5, <2>6, FrFieldTells
  <2> QED BY <1>3, <2>1, <2>6, <2>7 DEF FrLengthKnown
<1> QED BY <1>2, <1>3

LEMMA FrProcessSynced ==
    ASSUME FrInv, FrSynced, FrProcess
    PROVE  FrSynced'
<1>1. /\ FrPlaced /\ frStream \in FrStreams /\ frMode \in FrModes
      /\ FrMax \in Nat /\ frSent \in Nat /\ frRecvLen \in Nat /\ frRecvLen <= FrMax
      /\ frRecvLen <= frSent /\ frDone \in Nat /\ frDone <= frRecvLen
      /\ FrExtra \in Nat
      /\ frBuf \in [1 .. FrMax -> FrFresh \cup FrPlaces]
      /\ frDropped \in SUBSET DOMAIN frStream
      /\ \A i \in 1 .. frRecvLen : frBuf[i] = FrAll[frSent - frRecvLen + i]
  BY FrSyncedFacts
<1>2. PICK base \in Nat : base = frSent - frRecvLen
  BY <1>1
<1>3. PICK end : end = FrEnd
  OBVIOUS
<1>4. /\ frAt = "loop" /\ FrEnd # 0
      /\ frGiven' = Append(frGiven, SubSeq(frBuf, frDone + FrExtra + 1, end))
      /\ frDone' = end /\ FrNextLength(end)
      /\ UNCHANGED <<frMode, frStream, frSent, frBuf, frRecvLen, frDropped, frAstray>>
  BY <1>3 DEF FrProcess
<1>5. end \in Nat /\ end <= frRecvLen
  BY <1>3, <1>4, FrEndReceived
<1>6. frAt' # "idle"
  BY <1>4 DEF FrNextLength
<1>7. PICK place \in Nat, rest \in Nat :
        place = base + frDone /\ rest = frRecvLen - frDone
  BY <1>1, <1>2
<1>8. PICK given, dropped, msgLen : given = frGiven /\ dropped = frDropped /\ msgLen = frMsgLen
  OBVIOUS
<1>9. frAstray \/ FrInStep(place, rest, "loop", msgLen, given, dropped)
  BY <1>2, <1>4, <1>7, <1>8 DEF FrSynced
<1>10. PICK place2, left, at2, len2, given2, dropped2 :
         /\ place2 = base + end /\ left = frRecvLen - end /\ at2 = frAt' /\ len2 = frMsgLen'
         /\ given2 = frGiven' /\ dropped2 = frDropped'
  OBVIOUS
<1>11. ASSUME ~frAstray PROVE FrInStep(place2, left, at2, len2, given2, dropped2)
  <2>1. FrInStep(place, rest, "loop", msgLen, given, dropped)
    BY <1>9, <1>11
  <2>2. ~FrText => FrLengthKnown(place, rest, "loop", msgLen)
    BY <2>1 DEF FrInStep
  <2>3. PICK m \in 0 .. Len(frStream) : FrPos[m] = place
    BY <2>1 DEF FrInStep
  <2>4. PICK k \in DOMAIN frStream :
          /\ FrPos[k - 1] = place /\ FrPos[k] = place2 /\ FrCount(k) > 0
          /\ ~FrText => FrLegal(frStream[k].size)
          /\ FrCount(k) >= FrExtra
    <3>1. CASE FrText
      <4>1. PICK k \in DOMAIN frStream :
              /\ FrPos[k - 1] = place /\ FrPos[k] = place2 /\ FrCount(k) > 0
        BY <1>2, <1>3, <1>4, <1>7, <1>10, <2>3, <3>1, FrTextEndIs
      <4>2. FrExtra = 0
        BY <3>1 DEF FrExtra, FrText
      <4>3. FrCount(k) \in Nat
        BY <1>1 DEF FrPlaced
      <4>4. FrCount(k) >= FrExtra
        BY <4>2, <4>3
      <4> QED BY <3>1, <4>1, <4>4
    <3>2. CASE ~FrText
      <4>1. FrLengthKnown(base + frDone, frRecvLen - frDone, "loop", frMsgLen)
        BY <1>7, <1>8, <2>2, <3>2
      <4> QED BY <1>2, <1>3, <1>4, <1>7, <1>10, <3>2, <4>1, FrLengthEndIs
    <3> QED BY <3>1, <3>2
  <2>5. PICK count \in Nat : count = FrCount(k) /\ place2 = place + count
    BY <1>1, <2>4 DEF FrPlaced
  <2>6. end = frDone + count
    <3>1. PICK done \in Nat : done = frDone
      BY <1>1
    <3>2. base + end = (base + done) + count
      BY <1>7, <1>10, <2>5, <3>1
    <3>3. end = done + count
      BY <1>5, <3>2
    <3> QED BY <3>1, <3>3
  <2>7. SubSeq(frBuf, frDone + FrExtra + 1, end) = FrBody(k)
    <3>1. frDone + FrCount(k) <= FrMax
      BY <1>1, <1>5, <2>5, <2>6
    <3>2. ASSUME NEW o \in 1 .. FrCount(k)
          PROVE  frBuf[frDone + o] = FrAll[FrPos[k - 1] + o]
      <4>1. frDone + o \in 1 .. frRecvLen /\ base + (frDone + o) = place + o
        BY <1>1, <1>5, <1>7, <2>5, <2>6
      <4>2. frBuf[frDone + o] = FrAll[base + (frDone + o)]
        BY <1>1, <1>2, <4>1
      <4> QED BY <2>4, <4>1, <4>2
    <3> QED BY <1>1, <2>4, <2>5, <2>6, <3>1, <3>2, FrBodyIs
  <2>8. ~FrText => FrLengthKnown(place2, left, at2, len2)
    <3> SUFFICES ASSUME ~FrText PROVE FrLengthKnown(place2, left, at2, len2)
      OBVIOUS
    <3>1. FrLengthKnown(place, rest, "loop", frMsgLen)
      BY <1>8, <2>2
    <3>2. FrLengthKnown(FrPos[k], frRecvLen - end, frAt', frMsgLen')
      BY <1>2, <1>4, <1>5, <1>10, <2>4, <3>1, FrNextKnown
    <3> QED BY <1>10, <2>4, <3>2
  <2>9. given2 = Append(given, FrBody(k)) /\ dropped2 = dropped
    BY <1>4, <1>8, <1>10, <2>7
  <2>10. dropped \in SUBSET DOMAIN frStream /\ at2 # "idle"
    BY <1>1, <1>6, <1>8, <1>10
  <2>11. FrInStep(FrPos[k], left, at2, len2, Append(given, FrBody(k)), dropped)
    BY <1>1, <2>1, <2>4, <2>8, <2>10, FrInStepNext
  <2> QED BY <2>4, <2>9, <2>11
<1>12. /\ frRecvLen' <= frSent'
       /\ \A i \in 1 .. frRecvLen' : frBuf'[i] = FrAll[frSent' - frRecvLen' + i]
  BY <1>1, <1>4
<1>13. place2 = frSent' - frRecvLen' + frDone' /\ left = frRecvLen' - frDone'
  BY <1>2, <1>4, <1>10
<1>14. frAstray' \/ FrInStep(place2, left, at2, len2, given2, dropped2)
  BY <1>4, <1>11
<1> QED BY <1>4, <1>10, <1>12, <1>13, <1>14, FrSyncedNext

(* With lengths: what the handler knows when the loop leaves what is left. *)
LEMMA FrLeftKnown ==
    ASSUME FrInv, FrSynced, ~FrText, FrEnd = 0,
           NEW base \in Nat, base = frSent - frRecvLen,
           NEW m \in 0 .. Len(frStream), NEW place \in Nat,
           place = FrPos[m], place = base + frDone,
           NEW rest \in Nat, rest = frRecvLen - frDone,
           FrLengthKnown(place, rest, "loop", frMsgLen),
           ~ (/\ FrServes /\ 0 < rest /\ rest < FrField
              /\ frStream[frBuf[frDone + 1][1]].size # frMsgLen)
    PROVE  /\ FrLengthKnown(place, rest, "idle", IF rest = 0 THEN 0 ELSE frMsgLen)
           /\ FrWholeTill(place + rest) \subseteq FrWholeTill(place)
<1>1. /\ FrPlaced /\ frMode \in FrModes /\ FrMax \in Nat /\ FrField \in Nat /\ 0 < FrField
      /\ FrExtra \in Nat /\ frMsgLen \in Nat
      /\ frSent \in Nat /\ Len(FrAll) \in Nat /\ frSent <= Len(FrAll)
      /\ frRecvLen \in Nat /\ frRecvLen <= FrMax
      /\ frDone \in Nat /\ frDone <= frRecvLen
      /\ \A i \in 1 .. frRecvLen : frBuf[i] = FrAll[base + i]
  BY FrSyncedFacts
<1>2. FrServes => FrLegal(frMsgLen) /\ frMsgLen > FrField
  BY DEF FrLengthKnown, FrLegal
<1>3. ~FrServes => FrExtra = FrField
  <2>1. ~FrServes => frMode = "clen"
    BY <1>1, FrAssumption DEF FrServes, FrText
  <2> QED BY <2>1 DEF FrExtra
<1>4. rest < FrExtra + frMsgLen
  <2>1. PICK end : end = frDone + FrExtra + frMsgLen
    OBVIOUS
  <2>2. FrExtra > 0 \/ frMsgLen > 0
    BY <1>1, <1>2, <1>3
  <2>3. end # 0
    BY <1>1, <2>1, <2>2
  <2>4. ~ (end <= frRecvLen)
    BY <2>1, <2>3 DEF FrEnd
  <2> QED BY <1>1, <2>1, <2>4
<1>5. rest < FrField \/ FrNextIs(place, frMsgLen)
  BY DEF FrLengthKnown
<1>6. FrWholeTill(place + rest) \subseteq FrWholeTill(place)
  <2>1. CASE rest < FrField
    BY <1>1, <2>1, FrNoneWhole
  <2>2. CASE FrNextIs(place, frMsgLen)
    BY <1>1, <1>4, <2>2, FrWaits
  <2> QED BY <1>5, <2>1, <2>2
<1>7. FrLengthKnown(place, rest, "idle", IF rest = 0 THEN 0 ELSE frMsgLen)
  <2>1. CASE rest = 0
    BY <1>1, <2>1 DEF FrLengthKnown
  <2>2. CASE rest # 0 /\ frMsgLen = 0
    <3>1. ~FrServes
      BY <1>1, <1>2, <2>2
    <3>2. rest < FrField
      BY <1>1, <1>3, <1>4, <2>2, <3>1
    <3> QED BY <2>2, <3>1, <3>2 DEF FrLengthKnown
  <2>3. CASE rest # 0 /\ frMsgLen # 0
    <3>1. rest > 0
      BY <2>3
    <3>2. FrNextIs(place, frMsgLen)
      <4> SUFFICES ASSUME rest < FrField PROVE FrNextIs(place, frMsgLen)
        BY <1>5
      <4>1. FrServes
        BY <2>3 DEF FrLengthKnown
      <4>2. frStream[frBuf[frDone + 1][1]].size = frMsgLen
        BY <3>1, <4>1
      <4>3. frDone + 1 \in 1 .. frRecvLen /\ base + (frDone + 1) = place + 1
            /\ place + 1 <= Len(FrAll)
        <5>1. PICK done \in Nat, last \in Nat, sent \in Nat, all \in Nat :
                done = frDone /\ last = frRecvLen /\ sent = frSent /\ all = Len(FrAll)
          BY <1>1
        <5>2. /\ rest = last - done /\ rest > 0 /\ base = sent - last /\ sent <= all
              /\ place = base + done
          BY <1>1, <3>1, <5>1
        <5>3. done + 1 \in 1 .. last /\ base + (done + 1) = place + 1 /\ place + 1 <= all
          BY <5>2
        <5> QED BY <5>1, <5>3
      <4>4. frBuf[frDone + 1] = FrAll[place + 1]
        <5>1. PICK i \in 1 .. frRecvLen : i = frDone + 1
          BY <4>3
        <5>2. frBuf[i] = FrAll[base + i]
          BY <1>1
        <5> QED BY <4>3, <5>1, <5>2
      <4>5. /\ DOMAIN frStream = 1 .. Len(frStream) /\ Len(frStream) \in Nat
            /\ FrPos[Len(frStream)] = Len(FrAll)
        BY <1>1 DEF FrPlaced
      <4>6. m # Len(frStream)
        <5>1. m = Len(frStream) => place = Len(FrAll)
          BY <4>5
        <5> QED BY <1>1, <4>3, <5>1
      <4>7. m + 1 \in DOMAIN frStream /\ (m + 1) - 1 = m
        <5>1. PICK size \in Nat : size = Len(frStream)
          BY <4>5
        <5>2. m \in 0 .. size /\ m # size
          BY <4>6, <5>1
        <5>3. m + 1 \in 1 .. size /\ (m + 1) - 1 = m
          BY <5>2
        <5> QED BY <4>5, <5>1, <5>3
      <4>8. PICK k \in DOMAIN frStream : k = m + 1 /\ k - 1 = m
        BY <4>7
      <4>9. 1 \in 1 .. FrCount(k)
        <5>1. FrCount(k) > 0 /\ FrCount(k) \in Nat
          BY <1>1, FrCountField
        <5> QED BY <5>1
      <4>10. FrAll[FrPos[k - 1] + 1] = <<k, 1>>
        BY <1>1, <4>9 DEF FrPlaced
      <4>11. FrAll[place + 1] = <<k, 1>> /\ FrPos[k - 1] = place
        BY <4>8, <4>10
      <4>12. frStream[k].size = frMsgLen
        BY <4>2, <4>4, <4>11
      <4> QED BY <4>11, <4>12 DEF FrNextIs
    <3> QED BY <1>2, <2>3, <3>1, <3>2 DEF FrLengthKnown
  <2> QED BY <2>1, <2>2, <2>3
<1> QED BY <1>6, <1>7

LEMMA FrLeaveSynced ==
    ASSUME FrInv, FrSynced, FrLeave
    PROVE  FrSynced'
<1>1. /\ FrPlaced /\ FrMax \in Nat /\ frSent \in Nat /\ frRecvLen \in Nat
      /\ frRecvLen <= FrMax /\ frRecvLen <= frSent
      /\ frDone \in Nat /\ frDone <= frRecvLen /\ Len(FrAll) \in Nat
      /\ frSent <= Len(FrAll)
      /\ frBuf \in [1 .. FrMax -> FrFresh \cup FrPlaces]
      /\ \A i \in 1 .. frRecvLen : frBuf[i] = FrAll[frSent - frRecvLen + i]
  BY FrSyncedFacts
<1>2. PICK base \in Nat : base = frSent - frRecvLen
  BY <1>1
<1>3. PICK place \in Nat, rest \in Nat :
        place = base + frDone /\ rest = frRecvLen - frDone
  BY <1>1, <1>2
<1>4. PICK moved : moved = SubSeq(frBuf, frDone + 1, frRecvLen)
  OBVIOUS
<1>5. /\ frAt = "loop" /\ FrEnd = 0
      /\ frBuf' = [i \in 1 .. FrMax |->
                     IF i <= rest THEN moved[i]
                     ELSE IF frMode = "ctext" THEN FrZero ELSE frBuf[i]]
      /\ frRecvLen' = rest /\ frMsgLen' = (IF rest = 0 THEN 0 ELSE frMsgLen)
      /\ frAt' = "idle" /\ frDone' = 0
      /\ UNCHANGED <<frMode, frStream, frSent, frGiven, frDropped>>
  BY <1>3, <1>4, Zenon DEF FrLeave
<1>6. frAstray' = \/ frAstray
                  \/ /\ FrServes /\ ~FrText
                     /\ 0 < rest /\ rest < FrField
                     /\ frStream[moved[1][1]].size # frMsgLen
  BY <1>3, <1>4, Zenon DEF FrLeave
<1>7. ASSUME NEW i \in 1 .. rest
      PROVE  moved[i] = frBuf[frDone + i] /\ frBuf[frDone + i] = FrAll[place + i]
  <2>1. frDone + i \in 1 .. frRecvLen /\ base + (frDone + i) = place + i
    BY <1>1, <1>3
  <2>2. frBuf[frDone + i] = FrAll[base + (frDone + i)]
    BY <1>1, <1>2, <2>1
  <2>3. frBuf \in Seq(FrFresh \cup FrPlaces) /\ Len(frBuf) = FrMax
    BY <1>1
  <2>4. PICK done \in Nat, last \in Nat, buf \in Seq(FrFresh \cup FrPlaces) :
          done = frDone /\ last = frRecvLen /\ buf = frBuf
    BY <1>1, <2>3
  <2>5. moved = SubSeq(buf, done + 1, last) /\ i \in 1 .. last - done
        /\ last <= Len(buf) /\ done <= last /\ Len(buf) \in Nat
    BY <1>1, <1>3, <1>4, <2>3, <2>4
  <2>6. moved[i] = buf[done + i]
    BY <2>4, <2>5
  <2> QED BY <2>1, <2>2, <2>4, <2>6
<1>8. /\ frRecvLen' <= frSent'
      /\ \A i \in 1 .. frRecvLen' : frBuf'[i] = FrAll[frSent' - frRecvLen' + i]
  <2>1. rest <= frSent /\ frSent - rest = place
    BY <1>1, <1>2, <1>3
  <2>2. ASSUME NEW i \in 1 .. rest PROVE frBuf'[i] = FrAll[place + i]
    <3>1. i \in 1 .. FrMax /\ i <= rest
      BY <1>1, <1>3
    <3>2. frBuf'[i] = moved[i]
      BY <1>5, <3>1
    <3> QED BY <1>7, <3>2
  <2> QED BY <1>5, <2>1, <2>2
<1>9. PICK given, dropped, msgLen, len :
        /\ given = frGiven /\ dropped = frDropped /\ msgLen = frMsgLen
        /\ len = IF rest = 0 THEN 0 ELSE frMsgLen
  OBVIOUS
<1>10. frAstray \/ FrInStep(place, rest, "loop", msgLen, given, dropped)
  BY <1>2, <1>3, <1>5, <1>9 DEF FrSynced
<1>11. ASSUME ~frAstray' PROVE FrInStep(place, rest, "idle", len, given, dropped)
  <2>1. ~frAstray
    BY <1>6, <1>11, Zenon
  <2>2. ~ (/\ FrServes /\ ~FrText /\ 0 < rest /\ rest < FrField
           /\ frStream[moved[1][1]].size # frMsgLen)
    BY <1>6, <1>11, Zenon
  <2>3. FrInStep(place, rest, "loop", msgLen, given, dropped)
    BY <1>10, <2>1
  <2>4. CASE FrText
    <3>1. \A k \in DOMAIN frStream : FrCount(k) > 0 =>
             ~ (place < FrPos[k] /\ FrPos[k] <= place + rest)
      <4>1. CASE rest = 0
        <5>1. ASSUME NEW k \in DOMAIN frStream PROVE FrPos[k] \in Nat
          <6>1. k \in 0 .. Len(frStream)
            BY <1>1 DEF FrPlaced
          <6> QED BY <1>1, <6>1, FrPosGrows
        <5> QED BY <4>1, <5>1
      <4>2. CASE rest # 0
        <5>1. ~ (frDone >= frRecvLen)
          BY <1>1, <1>3, <4>2
        <5>2. \/ FrFind(frBuf, frDone + 1, FrSep) = 0
              \/ FrFind(frBuf, frDone + 1, FrSep) > frRecvLen
          BY <1>5, <2>4, <5>1 DEF FrEnd, FrTextEnd
        <5>3. base + frRecvLen <= Len(FrAll) /\ place + rest = base + frRecvLen
          BY <1>1, <1>2, <1>3
        <5>4. \A i \in 1 .. frRecvLen : frBuf[i] = FrAll[base + i]
          BY <1>1, <1>2
        <5>5. \A k \in DOMAIN frStream : FrCount(k) > 0 =>
                ~ (base + frDone < FrPos[k] /\ FrPos[k] <= base + frRecvLen)
          BY <1>1, <2>4, <5>2, <5>3, <5>4, FrNoSep
        <5> QED BY <1>3, <5>3, <5>5
      <4> QED BY <4>1, <4>2
    <3> QED BY <1>1, <2>3, <2>4, <3>1, FrInStepNone
  <2>5. CASE ~FrText
    <3>1. FrLengthKnown(place, rest, "loop", frMsgLen)
      BY <1>9, <2>3, <2>5 DEF FrInStep
    <3>2. PICK m \in 0 .. Len(frStream) : place = FrPos[m]
      BY <2>3 DEF FrInStep
    <3>3. ~ (/\ FrServes /\ 0 < rest /\ rest < FrField
             /\ frStream[frBuf[frDone + 1][1]].size # frMsgLen)
      <4>1. 0 < rest => moved[1] = frBuf[frDone + 1]
        BY <1>7
      <4> QED BY <2>2, <2>5, <4>1
    <3>4. /\ FrLengthKnown(place, rest, "idle", len)
          /\ FrWholeTill(place + rest) \subseteq FrWholeTill(place)
      BY <1>2, <1>3, <1>5, <1>9, <2>5, <3>1, <3>2, <3>3, FrLeftKnown
    <3> QED BY <2>3, <2>5, <3>4, FrInStepLength
  <2> QED BY <2>4, <2>5
<1>12. place = frSent' - frRecvLen' + frDone' /\ rest = frRecvLen' - frDone'
  <2>1. place = frSent - rest + 0 /\ rest = rest - 0
    BY <1>1, <1>2, <1>3
  <2> QED BY <1>5, <2>1
<1>13. /\ "idle" = frAt' /\ len = frMsgLen' /\ given = frGiven' /\ dropped = frDropped'
  BY <1>5, <1>9
<1>14. frAstray' \/ FrInStep(place, rest, "idle", len, given, dropped)
  BY <1>11
<1> QED BY <1>5, <1>8, <1>12, <1>13, <1>14, FrSyncedNext

LEMMA FrAlwaysSynced == FrSpec => []FrSynced
<1>1. ASSUME FrInv, FrSynced, [FrNext]_frVars PROVE FrSynced'
  <2>1. CASE FrRecv
    BY <1>1, <2>1, FrRecvSynced
  <2>2. CASE FrNothing
    BY <1>1, <2>2, FrCloseSynced DEF FrNothing
  <2>3. CASE FrTimeout
    BY <1>1, <2>3, FrCloseSynced DEF FrTimeout
  <2>4. CASE FrProcess
    BY <1>1, <2>4, FrProcessSynced
  <2>5. CASE FrProcessFails
    BY <1>1, <2>5, FrCloseSynced DEF FrProcessFails
  <2>6. CASE FrLeave
    BY <1>1, <2>6, FrLeaveSynced
  <2>7. CASE UNCHANGED frVars
    <3>1. PICK place, rest, at, n, given, dropped :
            /\ place = frSent - frRecvLen + frDone /\ rest = frRecvLen - frDone
            /\ at = frAt /\ n = frMsgLen /\ given = frGiven /\ dropped = frDropped
      OBVIOUS
    <3>2. frAstray \/ FrInStep(place, rest, at, n, given, dropped)
      BY <1>1, <3>1 DEF FrSynced
    <3>3. UNCHANGED <<frMode, frStream, frSent, frBuf, frRecvLen, frMsgLen, frAt,
                      frDone, frGiven, frDropped, frAstray>>
      BY <2>7 DEF frVars
    <3>4. /\ frRecvLen' <= frSent'
          /\ \A i \in 1 .. frRecvLen' : frBuf'[i] = FrAll[frSent' - frRecvLen' + i]
      BY <1>1, <3>3 DEF FrSynced
    <3> QED BY <3>1, <3>2, <3>3, <3>4, FrSyncedNext
  <2> QED BY <1>1, <2>1, <2>2, <2>3, <2>4, <2>5, <2>6, <2>7 DEF FrNext
<1> QED BY <1>1, FrAlwaysInv, FrSyncedInit, PTL DEF FrSpec

(* What process gets of a connection is the messages of the peer, whole,   *)
(* once and in order, and none that is complete waits when handle_input    *)
(* returns, but for the reads of frAstray: whatever the messages, the size *)
(* of the buffer, and the reads the stream was cut into, in the five       *)
(* builds and classes the modes stand for.                                 *)
THEOREM FramingSound == FrSpec => []FrFramed
<1>1. FrInv /\ FrSynced => FrFramed
  BY FrInStepFramed
<1> QED BY <1>1, FrAlwaysInv, FrAlwaysSynced, PTL

-----------------------------------------------------------------------------
(* The components together.                                                *)

(* A behaviour of MCStores is one of each of its components: what it       *)
(* checks of them in one run is what it would check of each alone.         *)
THEOREM StoresApart ==
    Spec => /\ DbSpec /\ DmSpec /\ OrSpec /\ BmSpec /\ FrSpec
            /\ OpSpec /\ AppSpec
<1>1. Init => /\ DbInit /\ DmInit /\ OrInit /\ BmInit
              /\ FrInit /\ OpInit /\ AppInit
  BY DEF Init
<1>2. [Next]_<<part, appVars, appRest>>
        => /\ [DbNext]_dbVars /\ [DmNext]_dmVars /\ [OrNext]_orVars
           /\ [BmNext]_bmVars /\ [FrNext]_frVars
           /\ [OpNext]_opVars /\ [AppNext]_appVars
  BY DEF Next, dbRest, dmRest, orRest, bmRest, frRest, opRest,
         appRest
<1> QED BY <1>1, <1>2, PTL
       DEF Spec, DbSpec, DmSpec, OrSpec, BmSpec, FrSpec, OpSpec,
           AppSpec

(* The variables of the component a behaviour is of have their types.      *)
THEOREM StoresTypeCorrect == Spec => []StoresTypeOK
<1>1. /\ DbInv => DbTypeOK
      /\ DmInv => DmTypeOK
      /\ OrInv => OrTypeOK
      /\ FrInv => FrTypeOK
  BY DEF DbInv, DmInv, OrInv, FrInv
<1>2. /\ DbTypeOK /\ DmTypeOK /\ OrTypeOK /\ BmTypeOK /\ FrTypeOK
      /\ OpTypeOK /\ AppTypeOK
      => StoresTypeOK
  BY DEF StoresTypeOK
<1> QED BY <1>1, <1>2, StoresApart, DbAlwaysInv, DmAlwaysInv, OrAlwaysInv,
           BmAlwaysTypeOK, FrAlwaysInv, PoolTypeCorrect,
           AppAlwaysTypeOK, PTL
=============================================================================
