----------------------------- MODULE DBManager -----------------------------
(***************************************************************************)
(* CDBManager: threads run statements on a pool of database connections,   *)
(* and a thread of its own, CheckLongDBConn, closes connections that have  *)
(* been idle or busy for too many of its rounds.                           *)
(*                                                                         *)
(* m_dbManagerMutex guards the states of the slots: the check holds it for *)
(* a whole round.  m_dbHandleMutex guards counters and connections: the    *)
(* check takes it for one counter at a time, and CreateHandle, which does  *)
(* not take the first, holds it while it connects.                         *)
(***************************************************************************)
EXTENDS Naturals, FiniteSets

CONSTANTS
    DmThreads,      \* threads that call ExecSql
    DmObjects,      \* addresses a connection can have
    DmNull,         \* 0
    DmConnCount,    \* MAX_CONN_COUNT: slots that are used, rounds of idleness
    DmQueryCount    \* MAX_QUERY_COUNT: rounds a query may see

ASSUME DBManagerAssumption ==
    /\ IsFiniteSet(DmThreads)
    /\ DmNull \notin DmObjects
    /\ DmConnCount \in Nat \ {0}
    /\ DmQueryCount \in Nat \ {0}

VARIABLES
    dmPc,      \* where each thread is
    dmIdx,     \* idx: the slot it has chosen
    dmDb,      \* pDB: the connection it runs its statement on
    dmStat,    \* m_ConnStat
    dmConn,    \* m_DBConnPool[].m_pConn
    dmCA,      \* m_iCA, up to MAX_CONN_COUNT
    dmCB,      \* m_iCB
    dmAlive,   \* connections that exist
    dmStep,    \* what the check does next
    dmAt,      \* idx of the check: the slot it is at
    dmCount,   \* idlecount: the counter it has read
    dmRounds,  \* history: rounds that have judged a thread's slot since m_iCB
               \* was cleared for it
    dmLate,    \* history: MAX_QUERY_COUNT rounds have judged one
    dmRaced    \* history: a slot got a connection between the check's reading
               \* its counter and its acting on it

dmThread == <<dmPc, dmIdx, dmDb>>
dmSlots == <<dmStat, dmConn, dmCA, dmCB, dmAlive>>
dmCheck == <<dmStep, dmAt, dmCount>>
dmHist == <<dmRounds, dmLate, dmRaced>>
dmVars == <<dmThread, dmSlots, dmCheck, dmHist>>

DmIdx == 0 .. DmConnCount - 1

DmInit ==
    /\ dmStat = [i \in DmIdx |-> "free"]
    /\ dmConn = [i \in DmIdx |-> DmNull]
    /\ dmCA = [i \in DmIdx |-> 0]
    /\ dmCB = [i \in DmIdx |-> 0]
    /\ dmAlive = {}
    /\ dmPc = [t \in DmThreads |-> "idle"]
    /\ dmIdx = [t \in DmThreads |-> 0]
    /\ dmDb = [t \in DmThreads |-> DmNull]
    /\ dmStep = "sleep"
    /\ dmAt = 0
    /\ dmCount = 0
    /\ dmRounds = [t \in DmThreads |-> 0]
    /\ dmLate = FALSE
    /\ dmRaced = FALSE

(* The two mutexes, as others find them.                                   *)
DmManagerFree == dmStep = "sleep"
DmHandleFree == \A t \in DmThreads : dmPc[t] # "connect"

DmGoto(t, place) == dmPc' = [dmPc EXCEPT ![t] = place]

(* A thread that is done with its slot.                                    *)
DmReturn(t) ==
    /\ DmGoto(t, "idle")
    /\ dmIdx' = [dmIdx EXCEPT ![t] = 0]
    /\ dmDb' = [dmDb EXCEPT ![t] = DmNull]
    /\ dmRounds' = [dmRounds EXCEPT ![t] = 0]

-----------------------------------------------------------------------------
(* A call of ExecSql.                                                      *)

(* It takes the first slot that is not busy, if there is one; SetCB(0)     *)
(* needs the second mutex as well.                                         *)
DmChooseStale(t) ==    \* mutant: m_iCB is not cleared
    \E i \in DmIdx :
      /\ dmPc[t] = "idle"
      /\ dmStat[i] # "busy"
      /\ \A j \in 0 .. i - 1 : dmStat[j] = "busy"
      /\ DmManagerFree /\ DmHandleFree
      /\ dmStat' = [dmStat EXCEPT ![i] = "busy"]
      /\ dmIdx' = [dmIdx EXCEPT ![t] = i]
      /\ DmGoto(t, IF dmStat[i] = "free" THEN "create" ELSE "get")
      /\ UNCHANGED <<dmDb, dmConn, dmCA, dmCB, dmAlive, dmCheck, dmHist>>

DmChoose(t) ==
    \E i \in DmIdx :
      /\ dmPc[t] = "idle"
      /\ dmStat[i] # "busy"
      /\ \A j \in 0 .. i - 1 : dmStat[j] = "busy"
      /\ DmManagerFree /\ DmHandleFree
      /\ dmStat' = [dmStat EXCEPT ![i] = "busy"]
      /\ dmCB' = [dmCB EXCEPT ![i] = 0]
      /\ dmIdx' = [dmIdx EXCEPT ![t] = i]
      /\ DmGoto(t, IF dmStat[i] = "free" THEN "create" ELSE "get")
      /\ UNCHANGED <<dmDb, dmConn, dmCA, dmAlive, dmCheck, dmHist>>

(* CreateHandle deletes what is in the slot, clears its counters and makes *)
(* a new connection, if it knows the type of the database ...              *)
DmCreate(t) ==
    LET i == dmIdx[t]
        rest == dmAlive \ {dmConn[i]}
    IN  /\ dmPc[t] = "create"
        /\ DmHandleFree
        /\ \E o \in (DmObjects \ rest) \cup {DmNull} :
             /\ dmConn' = [dmConn EXCEPT ![i] = o]
             /\ dmAlive' = rest \cup ({o} \ {DmNull})
        /\ dmCA' = [dmCA EXCEPT ![i] = 0]
        /\ dmCB' = [dmCB EXCEPT ![i] = 0]
        /\ DmGoto(t, "connect")
        /\ dmRounds' = [dmRounds EXCEPT ![t] = 0]
        /\ dmRaced' = (dmRaced \/ (dmStep = "judge" /\ dmAt = i))
        /\ UNCHANGED <<dmIdx, dmDb, dmStat, dmCheck, dmLate>>

(* The connection in a slot, if there is one, is deleted.                  *)
DmDelete(i) ==
    /\ dmAlive' = dmAlive \ {dmConn[i]}
    /\ dmConn' = [dmConn EXCEPT ![i] = DmNull]

(* ... which connects, or fails to and is deleted.                         *)
DmConnect(t) ==
    /\ dmPc[t] = "connect"
    /\ DmDelete(dmIdx[t]) \/ UNCHANGED <<dmConn, dmAlive>>
    /\ DmGoto(t, "get")
    /\ UNCHANGED <<dmIdx, dmDb, dmStat, dmCA, dmCB, dmCheck, dmHist>>

(* GetDBConn, without a lock.                                              *)
DmGet(t) ==
    LET o == dmConn[dmIdx[t]]
    IN  /\ dmPc[t] = "get"
        /\ dmDb' = [dmDb EXCEPT ![t] = o]
        /\ DmGoto(t, IF o = DmNull THEN "fail" ELSE "exec")
        /\ UNCHANGED <<dmIdx, dmSlots, dmCheck, dmHist>>

(* Without a connection the slot is set free.                              *)
DmFail(t) ==
    /\ dmPc[t] = "fail"
    /\ DmManagerFree
    /\ dmStat' = [dmStat EXCEPT ![dmIdx[t]] = "free"]
    /\ DmReturn(t)
    /\ UNCHANGED <<dmConn, dmCA, dmCB, dmAlive, dmCheck, dmLate, dmRaced>>

(* The statement is over, with a result or an error ...                    *)
DmExec(t) ==
    /\ dmPc[t] = "exec"
    /\ DmManagerFree
    /\ dmStat' = [dmStat EXCEPT ![dmIdx[t]] = "idle"]
    /\ DmReturn(t)
    /\ UNCHANGED <<dmConn, dmCA, dmCB, dmAlive, dmCheck, dmLate, dmRaced>>

(* ... or with an exception: Free deletes what is in the slot.             *)
DmThrow(t) ==
    /\ dmPc[t] = "exec"
    /\ DmManagerFree /\ DmHandleFree
    /\ DmDelete(dmIdx[t])
    /\ dmStat' = [dmStat EXCEPT ![dmIdx[t]] = "free"]
    /\ DmReturn(t)
    /\ UNCHANGED <<dmCA, dmCB, dmCheck, dmLate, dmRaced>>

-----------------------------------------------------------------------------
(* A round of CheckLongDBConn: slots that have been busy for               *)
(* MAX_QUERY_COUNT rounds or idle for MAX_CONN_COUNT are freed.  Each      *)
(* access to a slot takes m_dbHandleMutex by itself.                       *)
DmRound ==
    /\ dmStep = "sleep"
    /\ dmStep' = "slot"
    /\ UNCHANGED <<dmThread, dmSlots, dmAt, dmCount, dmHist>>

DmNextSlot ==
    /\ dmStep' = IF dmAt + 1 \in DmIdx THEN "slot" ELSE "sleep"
    /\ dmAt' = IF dmAt + 1 \in DmIdx THEN dmAt + 1 ELSE 0
    /\ dmCount' = 0

DmSkip ==
    /\ dmStep = "slot"
    /\ dmStat[dmAt] = "free"
    /\ DmNextSlot
    /\ UNCHANGED <<dmThread, dmSlots, dmHist>>

(* GetCA.                                                                  *)
DmReadAge ==
    /\ dmStep = "slot"
    /\ dmStat[dmAt] # "free"
    /\ DmHandleFree
    /\ dmCount' = dmCA[dmAt]
    /\ dmStep' = IF dmStat[dmAt] = "busy" THEN "age" ELSE "judge"
    /\ UNCHANGED <<dmThread, dmSlots, dmAt, dmHist>>

DmCAPlus == IF dmCount < DmConnCount THEN dmCount + 1 ELSE DmConnCount

(* SetCA, of a busy slot.                                                  *)
DmSetAge ==
    /\ dmStep = "age"
    /\ DmHandleFree
    /\ dmCA' = [dmCA EXCEPT ![dmAt] = DmCAPlus]
    /\ dmStep' = "query"
    /\ UNCHANGED <<dmThread, dmStat, dmConn, dmCB, dmAlive, dmAt, dmCount, dmHist>>

(* GetCB.                                                                  *)
DmReadQuery ==
    /\ dmStep = "query"
    /\ DmHandleFree
    /\ dmCount' = dmCB[dmAt]
    /\ dmStep' = "judge"
    /\ UNCHANGED <<dmThread, dmSlots, dmAt, dmHist>>

DmExpired == dmCount + 1 >= IF dmStat[dmAt] = "busy" THEN DmQueryCount ELSE DmConnCount

DmUsing(t) == dmPc[t] \in {"create", "connect", "get", "fail", "exec"}

(* Free, or SetCB or SetCA.                                                *)
DmJudge ==
    /\ dmStep = "judge"
    /\ DmHandleFree
    /\ \/ /\ DmExpired
          /\ DmDelete(dmAt)
          /\ dmStat' = [dmStat EXCEPT ![dmAt] = "free"]
          /\ UNCHANGED <<dmCA, dmCB>>
       \/ /\ ~DmExpired /\ dmStat[dmAt] = "busy"
          /\ dmCB' = [dmCB EXCEPT ![dmAt] = dmCount + 1]
          /\ UNCHANGED <<dmStat, dmConn, dmCA, dmAlive>>
       \/ /\ ~DmExpired /\ dmStat[dmAt] # "busy"
          /\ dmCA' = [dmCA EXCEPT ![dmAt] = DmCAPlus]
          /\ UNCHANGED <<dmStat, dmConn, dmCB, dmAlive>>
    /\ DmNextSlot
    /\ dmRounds' = [t \in DmThreads |->
                      IF DmUsing(t) /\ dmIdx[t] = dmAt /\ dmRounds[t] < DmQueryCount
                        THEN dmRounds[t] + 1 ELSE dmRounds[t]]
    /\ dmLate' = (dmLate \/ \E t \in DmThreads : dmRounds'[t] = DmQueryCount)
    /\ UNCHANGED <<dmThread, dmRaced>>

DmNext ==
    \/ \E t \in DmThreads :
         \/ DmChoose(t) \/ DmCreate(t) \/ DmConnect(t)
         \/ DmGet(t) \/ DmFail(t) \/ DmExec(t) \/ DmThrow(t)
    \/ DmRound \/ DmSkip \/ DmReadAge \/ DmSetAge \/ DmReadQuery \/ DmJudge

DmSpec == DmInit /\ [][DmNext]_dmVars

-----------------------------------------------------------------------------
(* Properties.                                                             *)

DmTypeOK ==
    /\ dmPc \in [DmThreads -> {"idle", "create", "connect", "get", "fail", "exec"}]
    /\ dmIdx \in [DmThreads -> DmIdx]
    /\ dmDb \in [DmThreads -> DmObjects \cup {DmNull}]
    /\ dmStat \in [DmIdx -> {"free", "busy", "idle"}]
    /\ dmConn \in [DmIdx -> DmObjects \cup {DmNull}]
    /\ dmCA \in [DmIdx -> 0 .. DmConnCount]
    /\ dmCB \in [DmIdx -> 0 .. DmQueryCount]
    /\ dmAlive \subseteq DmObjects
    /\ dmStep \in {"sleep", "slot", "age", "query", "judge"}
    /\ dmAt \in DmIdx
    /\ dmCount \in 0 .. DmConnCount + DmQueryCount
    /\ dmRounds \in [DmThreads -> 0 .. DmQueryCount]
    /\ {dmLate, dmRaced} \subseteq BOOLEAN

(* Until MAX_QUERY_COUNT rounds of the check have judged the slot of one   *)
(* call, or a connection was made between the check's reading a counter    *)
(* and its acting on it, no thread uses a connection that was deleted, no  *)
(* two threads use one, and no connection is lost: whatever goes wrong in  *)
(* the pool begins with the check's deleting a connection under the thread *)
(* that uses it (dbmanager.cpp:140-192, :243-316).                         *)
DmSound ==
    ~dmLate /\ ~dmRaced =>
      /\ \A t \in DmThreads : dmPc[t] = "exec" =>
           dmDb[t] \in dmAlive /\ dmStat[dmIdx[t]] = "busy"
      /\ \A t, u \in DmThreads :
           DmUsing(t) /\ DmUsing(u) /\ t # u => dmIdx[t] # dmIdx[u]
      /\ dmAlive = {dmConn[i] : i \in DmIdx} \ {DmNull}

(* A query has MAX_QUERY_COUNT rounds of time ("the longest time of a      *)
(* query, 2 min", dbmanager.h:32): its connection exists as long as no     *)
(* slot has been judged as often since its counter was cleared.  It does   *)
(* not: the check acts on a counter it read before CreateHandle cleared it *)
(* (dbmanager.cpp:152-156).                                                *)
DmFreshKept ==
    ~dmLate => \A t \in DmThreads : dmPc[t] = "exec" => dmDb[t] \in dmAlive
=============================================================================
