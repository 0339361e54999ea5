---------------------------- MODULE PlatOraAccess ----------------------------
(***************************************************************************)
(* PlatOraAccess, a pool of connections to an Oracle server, and           *)
(* PlatOraConn, one of them: queries, updates and procedures.  Every       *)
(* exception of the library closes the connection and is returned as -1;   *)
(* queries and updates are then tried a second time.                       *)
(*                                                                         *)
(* The library (OTL) and the server are external.  db_conn_lock_[index]    *)
(* is not recursive, and init locks it: get_db_conn calls init with the    *)
(* lock held.                                                              *)
(***************************************************************************)
EXTENDS Naturals, FiniteSets

CONSTANTS
    OrThreads,    \* threads that use the pool
    OrConnNums    \* conn_nums_

ASSUME PlatOraAccessAssumption ==
    /\ IsFiniteSet(OrThreads)
    /\ OrConnNums \in Nat \ {0}

VARIABLES
    orPc,      \* where each thread is
    orAt,      \* index
    orRun,     \* the call each thread is in
    orConn,    \* db_conn_: NULL, or with conn_flag_ 0 ("down") or 1
    orFlag,    \* db_conn_flag_
    orMissing  \* history: connections init could not make

orVars == <<orPc, orAt, orRun, orConn, orFlag, orMissing>>

OrIndex == 0 .. OrConnNums - 1
OrKinds == {"query", "update", "proc"}

(* A call: how often it was tried and what it returned; histories: how     *)
(* often the server has committed it, and whether it was not told so.      *)
OrNoRun == [kind |-> "query", try |-> 1, ret |-> 0, done |-> 0, lost |-> FALSE]
OrFailed == 1    \* -1

(* init goes on when a connection cannot be made and leaves it NULL.       *)
OrInit ==
    /\ orMissing \in SUBSET OrIndex
    /\ orConn = [i \in OrIndex |-> IF i \in orMissing THEN "null" ELSE "up"]
    /\ orFlag = [i \in OrIndex |-> 0]
    /\ orPc = [t \in OrThreads |-> "idle"]
    /\ orAt = [t \in OrThreads |-> 0]
    /\ orRun = [t \in OrThreads |-> OrNoRun]

OrGoto(t, place) == orPc' = [orPc EXCEPT ![t] = place]
OrRunBecomes(t, run) == orRun' = [orRun EXCEPT ![t] = run]
OrConnBecomes(t, state) == orConn' = [orConn EXCEPT ![orAt[t]] = state]

(* get_conn_index, under db_access_lock_: the first connection that is not *)
(* flagged, which it flags; if there is none the test for that never holds *)
(* and the index is 0.                                                     *)
OrFree == {i \in OrIndex : orFlag[i] = 0}

OrGetIndex(t) ==
    /\ orPc[t] = "idle"
    /\ \E i \in OrIndex :
         /\ IF OrFree = {} THEN i = 0
                           ELSE i \in OrFree /\ \A j \in OrFree : i <= j
         /\ orAt' = [orAt EXCEPT ![t] = i]
         /\ orFlag' = [orFlag EXCEPT ![i] = IF i \in OrFree THEN 1 ELSE @]
    /\ OrGoto(t, "flag")
    /\ UNCHANGED <<orRun, orConn, orMissing>>

(* AutoRelease flags the connection, which another call with the same      *)
(* index may just have unflagged.                                          *)
OrFlagConn(t) ==
    /\ orPc[t] = "flag"
    /\ orFlag' = [orFlag EXCEPT ![orAt[t]] = 1]
    /\ OrGoto(t, "lock")
    /\ UNCHANGED <<orAt, orRun, orConn, orMissing>>

(* The call locks the connection and gets it: init, for one that is NULL,  *)
(* waits for the lock for ever.                                            *)
OrInCall == {"run", "stuck"}
OrLockFree(i) == \A u \in OrThreads : ~(orAt[u] = i /\ orPc[u] \in OrInCall)

OrBegin(t, kind) ==
    /\ orPc[t] = "lock"
    /\ OrLockFree(orAt[t])
    /\ OrRunBecomes(t, [OrNoRun EXCEPT !.kind = kind])
    /\ OrGoto(t, IF orConn[orAt[t]] = "null" THEN "stuck" ELSE "run")
    /\ UNCHANGED <<orAt, orConn, orFlag, orMissing>>

OrExecQuery(t) == OrBegin(t, "query")
OrExecUpdate(t) == OrBegin(t, "update")
OrExecProc(t) == OrBegin(t, "proc")

(* The lock is released, then AutoRelease clears the flag, whoever else    *)
(* has been given the connection.                                          *)
OrReturn(t, run, ret) ==
    /\ OrRunBecomes(t, [run EXCEPT !.ret = ret])
    /\ OrGoto(t, "unflag")
    /\ UNCHANGED orFlag

(* A try that failed: queries and updates are tried twice, procedures are  *)
(* not.                                                                    *)
OrRetryAll(t, run) ==    \* mutant: procedures are tried again, too
    IF run.try = 1
      THEN OrRunBecomes(t, [run EXCEPT !.try = 2]) /\ UNCHANGED <<orPc, orFlag>>
      ELSE OrReturn(t, run, OrFailed)

OrTryFails(t, run) ==
    IF run.try = 1 /\ run.kind # "proc"
      THEN OrRunBecomes(t, [run EXCEPT !.try = 2]) /\ UNCHANGED <<orPc, orFlag>>
      ELSE OrReturn(t, run, OrFailed)

(* PlatOraConn: a connection that was closed is made again first.          *)
OrReconnect(t) ==
    /\ orPc[t] = "run"
    /\ orConn[orAt[t]] = "down"
    /\ \/ OrConnBecomes(t, "up") /\ UNCHANGED <<orRun, orPc, orFlag>>
       \/ OrTryFails(t, orRun[t]) /\ UNCHANGED orConn
    /\ UNCHANGED <<orAt, orMissing>>

OrTrying(t, kinds) ==
    /\ orPc[t] = "run"
    /\ orRun[t].kind \in kinds
    /\ orConn[orAt[t]] = "up"
    /\ UNCHANGED <<orAt, orMissing>>

(* A statement and, for updates and procedures, the commit: done, or an    *)
(* exception, before the commit or, its answer lost, after it.             *)
OrException(t, run) == OrConnBecomes(t, "down") /\ OrTryFails(t, run)

OrCommitted(run) == [run EXCEPT !.done = @ + 1]

OrQuery(t) ==
    /\ OrTrying(t, {"query"})
    /\ \/ OrReturn(t, orRun[t], 0) /\ UNCHANGED orConn
       \/ OrException(t, orRun[t])

OrCommit(t) ==
    \/ OrReturn(t, OrCommitted(orRun[t]), 0) /\ UNCHANGED orConn
    \/ OrException(t, orRun[t])
    \/ OrException(t, [OrCommitted(orRun[t]) EXCEPT !.lost = TRUE])

OrUpdate(t) == OrTrying(t, {"update"}) /\ OrCommit(t)

(* A procedure with a parameter of an unknown type is not executed, and    *)
(* the connection stays.                                                   *)
OrProc(t) ==
    /\ OrTrying(t, {"proc"})
    /\ \/ OrCommit(t)
       \/ OrReturn(t, orRun[t], OrFailed) /\ UNCHANGED orConn

OrUnflag(t) ==
    /\ orPc[t] = "unflag"
    /\ orFlag' = [orFlag EXCEPT ![orAt[t]] = 0]
    /\ orAt' = [orAt EXCEPT ![t] = 0]
    /\ OrRunBecomes(t, OrNoRun)
    /\ OrGoto(t, "idle")
    /\ UNCHANGED <<orConn, orMissing>>

OrNext ==
    \E t \in OrThreads :
      \/ OrGetIndex(t) \/ OrFlagConn(t)
      \/ OrExecQuery(t) \/ OrExecUpdate(t) \/ OrExecProc(t)
      \/ OrReconnect(t) \/ OrQuery(t) \/ OrUpdate(t) \/ OrProc(t)
      \/ OrUnflag(t)

OrSpec == OrInit /\ [][OrNext]_orVars

-----------------------------------------------------------------------------
(* Properties.                                                             *)

OrTypeOK ==
    /\ orPc \in [OrThreads -> {"idle", "flag", "lock", "unflag"} \cup OrInCall]
    /\ orAt \in [OrThreads -> OrIndex]
    /\ orRun \in [OrThreads ->
         [kind : OrKinds, try : {1, 2}, ret : {0, OrFailed}, done : 0 .. 2,
          lost : BOOLEAN]]
    /\ orConn \in [OrIndex -> {"null", "down", "up"}]
    /\ orFlag \in [OrIndex -> {0, 1}]
    /\ orMissing \subseteq OrIndex

(* A procedure is committed at most once and an update twice only if its   *)
(* first answer was lost; one that returns 0 was committed, one that fails *)
(* was not unless its answer was lost (plat_ora_access.cpp:237, :266).     *)
(* And a thread waits for itself only on a connection that init could not  *)
(* make: one that is lost later is made again (plat_ora_access.cpp:283).   *)
OrSound ==
    \A t \in OrThreads :
      LET run == orRun[t]
      IN  /\ run.kind = "proc" => run.done <= 1
          /\ run.done = 2 => run.lost
          /\ orPc[t] = "unflag" /\ run.kind # "query" =>
               IF run.ret = 0 THEN run.done >= 1 ELSE run.done > 0 => run.lost
          /\ orPc[t] = "stuck" => orAt[t] \in orMissing
=============================================================================
