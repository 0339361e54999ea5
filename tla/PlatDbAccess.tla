---------------------------- MODULE PlatDbAccess ----------------------------
(***************************************************************************)
(* PlatDbAccess, a pool of connections to a MySQL server, and PlatDbConn,  *)
(* one of them: queries, updates and transactions, each tried twice if the *)
(* first try loses the connection.                                         *)
(*                                                                         *)
(* The server is external.  A command on a connection that is up executes, *)
(* fails, or loses the connection, before or after it was executed.        *)
(* Results a call has not read make every later command on the connection  *)
(* fail ("commands out of sync").                                          *)
(***************************************************************************)
EXTENDS Naturals, FiniteSets

CONSTANTS
    DbThreads,     \* threads that use the pool
    DbConnNums,    \* conn_nums_
    DbMaxFails,    \* max_fail_times_
    DbStatements   \* statements of a transaction or a multiple query

ASSUME PlatDbAccessAssumption ==
    /\ IsFiniteSet(DbThreads)
    /\ DbConnNums \in Nat \ {0}
    /\ DbMaxFails \in Nat
    /\ DbStatements \in Nat \ {0}

VARIABLES
    dbPc,      \* where each thread is
    dbAt,      \* index
    dbRun,     \* the call each thread is in
    dbConn,    \* db_conn_: the state of each connection
    dbFlag,    \* db_conn_flag_
    dbFails,   \* fail_times_, up to max_fail_times_ + 1
    dbRecent,  \* last_fail_time_ is less than recon_interval_ ago
    dbMixed    \* history: a multiple query held a statement without result

dbPool == <<dbConn, dbFlag, dbFails, dbRecent>>
dbVars == <<dbPc, dbAt, dbRun, dbPool, dbMixed>>

DbIndex == 0 .. DbConnNums - 1
DbKinds == {"query", "multi", "update", "trans"}

(* A connection is NULL, or conn_flag_ is 0 ("down"), or 1: the server is  *)
(* there ("up"), has gone ("dead"), or has results to be read ("unread").  *)
DbStates == {"null", "down", "up", "dead", "unread"}

(* A call: its kind, how often it was tried, the statement it is at; what  *)
(* it returns, affected_rows and the results of a multiple query.  Three   *)
(* histories: how often the server executed (for a transaction, committed) *)
(* it, whether the connection was lost after that, and whether an error    *)
(* was not reported.                                                       *)
NoRun == [kind |-> "query", try |-> 1, at |-> 0, ret |-> 0, rows |-> 0,
          done |-> 0, lost |-> FALSE, hidden |-> FALSE]
DbErrno == 1      \* an error of MySQL's, whichever
DbLost == 2       \* -1

(* init stops at the first connection that cannot be made.                 *)
DbInit ==
    /\ \E n \in 0 .. DbConnNums :
         /\ dbConn = [i \in DbIndex |-> IF i < n THEN "up" ELSE "null"]
         /\ dbFails = IF n = DbConnNums THEN 0 ELSE 1
         /\ dbRecent = (n < DbConnNums)
    /\ dbFlag = [i \in DbIndex |-> 0]
    /\ dbPc = [t \in DbThreads |-> "idle"]
    /\ dbAt = [t \in DbThreads |-> 0]
    /\ dbRun = [t \in DbThreads |-> NoRun]
    /\ dbMixed = FALSE

DbGoto(t, place) == dbPc' = [dbPc EXCEPT ![t] = place]
DbConnBecomes(t, state) == dbConn' = [dbConn EXCEPT ![dbAt[t]] = state]
DbRunBecomes(t, run) == dbRun' = [dbRun EXCEPT ![t] = run]

(* db_conn_lock_[index] is held until the call returns.                    *)
DbInCall == {"get", "run", "statement", "results", "fini"}
DbHolds(t, i) == dbAt[t] = i /\ dbPc[t] \in DbInCall

(* get_conn_index: by uin any connection, else one that is not flagged.    *)
DbCall(t) ==
    /\ dbPc[t] = "idle"
    /\ \E i \in DbIndex : dbAt' = [dbAt EXCEPT ![t] = i]
    /\ DbGoto(t, "lock")
    /\ UNCHANGED <<dbRun, dbPool, dbMixed>>

(* The four functions differ in what they call; each locks and flags its   *)
(* connection, gets it, tries, and tries again (DbTryFails).               *)
DbBeginCall(t, kind) ==
    /\ dbPc[t] = "lock"
    /\ \A u \in DbThreads : ~DbHolds(u, dbAt[t])
    /\ dbFlag' = [dbFlag EXCEPT ![dbAt[t]] = 1]
    /\ DbRunBecomes(t, [NoRun EXCEPT !.kind = kind])
    /\ DbGoto(t, "get")
    /\ UNCHANGED <<dbAt, dbConn, dbFails, dbRecent, dbMixed>>

DbExecQuery(t) == DbBeginCall(t, "query")
DbExecMultiQuery(t) == DbBeginCall(t, "multi")
DbExecUpdate(t) == DbBeginCall(t, "update")
DbExecTrans(t) == DbBeginCall(t, "trans")

(* The call returns ret.                                                   *)
DbReturns(t, run, ret) ==
    /\ DbRunBecomes(t, [run EXCEPT !.ret = ret])
    /\ dbFlag' = [dbFlag EXCEPT ![dbAt[t]] = 0]
    /\ DbGoto(t, "done")

DbAvoided == dbFails > DbMaxFails /\ dbRecent

(* get_db_conn: nothing while the strategy says so ...                     *)
DbNoneButFlagged(t) ==    \* mutant: the flag is not cleared
    /\ dbPc[t] = "get"
    /\ DbAvoided
    /\ DbRunBecomes(t, [dbRun[t] EXCEPT !.ret = DbLost])
    /\ DbGoto(t, "done")
    /\ UNCHANGED <<dbAt, dbPool, dbMixed>>

DbGetNone(t) ==
    /\ dbPc[t] = "get"
    /\ DbAvoided
    /\ DbReturns(t, dbRun[t], DbLost)
    /\ UNCHANGED <<dbAt, dbConn, dbFails, dbRecent, dbMixed>>

(* ... or the connection, made if there is none; fail_times_ is cleared    *)
(* even if the connection was not tried.                                   *)
DbGetConn(t) ==
    /\ dbPc[t] = "get"
    /\ ~DbAvoided
    /\ dbFails' = 0
    /\ DbConnBecomes(t, IF dbConn[dbAt[t]] = "null"
                          THEN "up" ELSE dbConn[dbAt[t]])
    /\ DbGoto(t, "run")
    /\ UNCHANGED <<dbAt, dbRun, dbFlag, dbRecent, dbMixed>>

DbNotConnected(t) ==
    /\ dbPc[t] = "get"
    /\ ~DbAvoided
    /\ dbConn[dbAt[t]] = "null"
    /\ DbRunBecomes(t, [dbRun[t] EXCEPT !.ret = DbLost])
    /\ DbConnBecomes(t, "down")
    /\ DbGoto(t, "fini")
    /\ UNCHANGED <<dbAt, dbFlag, dbFails, dbRecent, dbMixed>>

(* A try that returned -1: another try, or the connection is deleted.      *)
DbTryFails(t, run) ==
    /\ IF run.try = 1
         THEN /\ DbRunBecomes(t, [run EXCEPT !.try = 2, !.at = 0])
              /\ DbGoto(t, "run")
         ELSE /\ DbRunBecomes(t, [run EXCEPT !.ret = DbLost])
              /\ DbGoto(t, "fini")
    /\ UNCHANGED dbFlag

(* PlatDbConn: a connection that was lost is made again first.             *)
DbReconnect(t) ==
    /\ dbPc[t] = "run"
    /\ dbConn[dbAt[t]] = "down"
    /\ \/ DbConnBecomes(t, "up") /\ UNCHANGED <<dbRun, dbPc, dbFlag>>
       \/ DbTryFails(t, dbRun[t]) /\ UNCHANGED dbConn
    /\ UNCHANGED <<dbAt, dbFails, dbRecent, dbMixed>>

(* What a command may come to: executed or not, answered or not, and what  *)
(* the connection is afterwards.                                           *)
DbOutcomes(state) ==
    CASE state = "up" ->
           [executed : {TRUE}, error : {FALSE}, state : {"up", "dead"}]
             \cup [executed : {FALSE}, error : {TRUE}, state : {"up"}]
             \cup [executed : {FALSE}, error : {FALSE}, state : {"dead"}]
      [] state = "unread" ->
           {[executed |-> FALSE, error |-> TRUE, state |-> "unread"]}
      [] OTHER -> {[executed |-> FALSE, error |-> FALSE, state |-> "dead"]}

(* A command of a call of one of these kinds, at this place.               *)
DbCommand(t, place, kinds, o) ==
    /\ dbPc[t] = place
    /\ dbRun[t].kind \in kinds
    /\ dbConn[dbAt[t]] # "down"
    /\ o \in DbOutcomes(dbConn[dbAt[t]])
    /\ UNCHANGED <<dbAt, dbFails, dbRecent>>

DbExecuted(run, o) ==
    IF o.executed
      THEN [run EXCEPT !.done = @ + 1, !.lost = @ \/ o.state = "dead"]
      ELSE run

(* exec_query, exec_update: one command.  A lost connection is closed.     *)
DbOneCommand(t, kind) ==
    \E o \in DbOutcomes(dbConn[dbAt[t]]) :
      LET run == DbExecuted(dbRun[t], o)
      IN  /\ DbCommand(t, "run", {kind}, o)
          /\ IF o.state = "dead"
               THEN DbConnBecomes(t, "down") /\ DbTryFails(t, run)
               ELSE /\ DbReturns(t, run, IF o.error THEN DbErrno ELSE 0)
                    /\ UNCHANGED dbConn
          /\ UNCHANGED dbMixed

DbQuery(t) == DbOneCommand(t, "query")
DbUpdate(t) == DbOneCommand(t, "update")

(* exec_multi_query sends its statements ...                               *)
DbMulti(t) ==
    \E o \in DbOutcomes(dbConn[dbAt[t]]) :
      /\ DbCommand(t, "run", {"multi"}, o)
      /\ IF o.state = "dead"
           THEN DbConnBecomes(t, "down") /\ DbTryFails(t, dbRun[t])
           ELSE /\ IF o.error
                     THEN DbReturns(t, dbRun[t], DbErrno)
                     ELSE DbGoto(t, "results") /\ UNCHANGED <<dbRun, dbFlag>>
                /\ UNCHANGED dbConn
      /\ UNCHANGED dbMixed

(* ... and reads a result of each.  A statement without a result ends the  *)
(* call with mysql_errno 0, whatever is left to be read.                   *)
DbResult(t) ==
    LET run == dbRun[t]
        more == run.at + 1 < DbStatements
        got == [run EXCEPT !.at = @ + 1, !.rows = @ + 1]
    IN  /\ dbPc[t] = "results"
        /\ \/ /\ IF more
                   THEN DbRunBecomes(t, got) /\ UNCHANGED <<dbFlag, dbPc>>
                   ELSE DbReturns(t, got, 0)
              /\ UNCHANGED <<dbConn, dbMixed>>
           \/ /\ DbReturns(t, [run EXCEPT !.hidden = TRUE], 0)
              /\ DbConnBecomes(t, IF more THEN "unread" ELSE "up")
              /\ dbMixed' = TRUE
           \/ /\ DbConnBecomes(t, "down")
              /\ DbTryFails(t, run)
              /\ UNCHANGED dbMixed
           \/ /\ DbReturns(t, run, DbErrno)
              /\ UNCHANGED <<dbConn, dbMixed>>
        /\ UNCHANGED <<dbAt, dbFails, dbRecent>>

(* An error of mysql_next_result is not returned, nor is a connection lost *)
(* there closed.                                                           *)
DbNextResultFails(t) ==
    /\ dbPc[t] = "results"
    /\ dbRun[t].at + 1 < DbStatements
    /\ DbReturns(t, [dbRun[t] EXCEPT !.rows = @ + 1, !.hidden = TRUE], 0)
    /\ \E state \in {"up", "dead"} : DbConnBecomes(t, state)
    /\ UNCHANGED <<dbAt, dbFails, dbRecent, dbMixed>>

(* exec_trans: a failure to start is returned as it is; a connection lost  *)
(* there stays open.                                                       *)
DbBegin(t) ==
    \E o \in DbOutcomes(dbConn[dbAt[t]]) :
      /\ DbCommand(t, "run", {"trans"}, o)
      /\ DbConnBecomes(t, o.state)
      /\ IF o.executed /\ o.state = "up"
           THEN DbGoto(t, "statement") /\ UNCHANGED <<dbRun, dbFlag>>
           ELSE DbReturns(t, dbRun[t], DbErrno)
      /\ UNCHANGED dbMixed

(* A statement adds to affected_rows; one that fails, or that affects      *)
(* nothing, rolls the transaction back; a lost connection is closed.       *)
DbStatement(t) ==
    \E o \in DbOutcomes(dbConn[dbAt[t]]) :
      /\ dbRun[t].at < DbStatements
      /\ DbCommand(t, "statement", {"trans"}, o)
      /\ \/ /\ o.state = "dead"
            /\ DbConnBecomes(t, "down")
            /\ DbTryFails(t, dbRun[t])
         \/ /\ o.error
            /\ \E s \in {"up", "dead"} : DbConnBecomes(t, s)    \* rollback
            /\ DbReturns(t, dbRun[t], DbErrno)
         \/ /\ o.executed /\ o.state = "up"
            /\ \E s \in {"up", "dead"} : DbConnBecomes(t, s)    \* rollback
            /\ DbReturns(t, [dbRun[t] EXCEPT !.rows = 0], 0)
         \/ /\ o.executed /\ o.state = "up"
            /\ DbRunBecomes(t, [dbRun[t] EXCEPT !.at = @ + 1, !.rows = @ + 1])
            /\ UNCHANGED <<dbConn, dbFlag, dbPc>>
      /\ UNCHANGED dbMixed

(* A commit that fails is returned as it is.                               *)
DbCommitRetried(t) ==    \* mutant: a commit is tried again like the rest
    \E o \in DbOutcomes(dbConn[dbAt[t]]) :
      LET run == DbExecuted(dbRun[t], o)
      IN  /\ run.at = DbStatements
          /\ DbCommand(t, "statement", {"trans"}, o)
          /\ IF o.state = "dead"
               THEN DbConnBecomes(t, "down") /\ DbTryFails(t, run)
               ELSE /\ DbReturns(t, run, IF o.error THEN DbErrno ELSE 0)
                    /\ UNCHANGED dbConn
          /\ UNCHANGED dbMixed

DbCommit(t) ==
    \E o \in DbOutcomes(dbConn[dbAt[t]]) :
      LET run == DbExecuted(dbRun[t], o)
      IN  /\ run.at = DbStatements
          /\ DbCommand(t, "statement", {"trans"}, o)
          /\ DbConnBecomes(t, o.state)
          /\ DbReturns(t, run, IF o.executed /\ o.state = "up"
                                 THEN 0 ELSE DbErrno)
          /\ UNCHANGED dbMixed

(* fini deletes the connection and increments fail_times_, which threads   *)
(* with other connections increment and clear at the same time: the value  *)
(* it adds one to may be any earlier one.                                  *)
DbFini(t) ==
    /\ dbPc[t] = "fini"
    /\ \E fails \in 1 .. DbMaxFails + 1 : dbFails' = fails
    /\ dbRecent' = TRUE
    /\ DbConnBecomes(t, "null")
    /\ DbReturns(t, dbRun[t], dbRun[t].ret)
    /\ UNCHANGED <<dbAt, dbMixed>>

DbDone(t) ==
    /\ dbPc[t] = "done"
    /\ DbRunBecomes(t, NoRun)
    /\ dbAt' = [dbAt EXCEPT ![t] = 0]
    /\ DbGoto(t, "idle")
    /\ UNCHANGED <<dbPool, dbMixed>>

(* The server drops a connection; recon_interval_ goes by.                 *)
DbServerDrops(i) ==
    /\ dbConn[i] \in {"up", "unread"}
    /\ \A t \in DbThreads : ~DbHolds(t, i)
    /\ dbConn' = [dbConn EXCEPT ![i] = "dead"]
    /\ UNCHANGED <<dbPc, dbAt, dbRun, dbFlag, dbFails, dbRecent, dbMixed>>

DbElapse ==
    /\ dbRecent
    /\ dbRecent' = FALSE
    /\ UNCHANGED <<dbPc, dbAt, dbRun, dbConn, dbFlag, dbFails, dbMixed>>

DbNext ==
    \/ \E t \in DbThreads :
         \/ DbCall(t)
         \/ DbExecQuery(t) \/ DbExecMultiQuery(t)
         \/ DbExecUpdate(t) \/ DbExecTrans(t)
         \/ DbGetNone(t) \/ DbGetConn(t) \/ DbNotConnected(t)
         \/ DbReconnect(t) \/ DbQuery(t) \/ DbUpdate(t)
         \/ DbMulti(t) \/ DbResult(t) \/ DbNextResultFails(t)
         \/ DbBegin(t) \/ DbStatement(t) \/ DbCommit(t)
         \/ DbFini(t) \/ DbDone(t)
    \/ \E i \in DbIndex : DbServerDrops(i)
    \/ DbElapse

DbSpec == DbInit /\ [][DbNext]_dbVars

-----------------------------------------------------------------------------
(* Properties.                                                             *)

DbTypeOK ==
    /\ dbPc \in [DbThreads -> {"idle", "lock", "done"} \cup DbInCall]
    /\ dbAt \in [DbThreads -> DbIndex]
    /\ dbRun \in [DbThreads ->
         [kind : DbKinds, try : {1, 2}, at : 0 .. DbStatements,
          ret : {0, DbErrno, DbLost}, rows : 0 .. 2 * DbStatements,
          done : 0 .. 2, lost : BOOLEAN, hidden : BOOLEAN]]
    /\ dbConn \in [DbIndex -> DbStates]
    /\ dbFlag \in [DbIndex -> {0, 1}]
    /\ dbFails \in 0 .. DbMaxFails + 1
    /\ dbRecent \in BOOLEAN
    /\ dbMixed \in BOOLEAN

(* What a call returns agrees with what the server has done: a transaction *)
(* that returns 0 with affected rows was committed once, one that affected *)
(* nothing was not, no retry commits twice; an update that returns 0 was   *)
(* executed; and an update executed twice, or a failure of something that  *)
(* was done, is due to an answer lost with the connection                  *)
(* (plat_db_access.cpp:333, :369).                                         *)
DbOutcome ==
    \A t \in DbThreads : dbPc[t] = "done" =>
      LET run == dbRun[t]
      IN  /\ run.kind = "trans" =>
               /\ run.done <= 1
               /\ run.ret = 0 => (run.done = 1 <=> run.rows > 0)
          /\ run.kind = "update" =>
               /\ run.ret = 0 => run.done >= 1
               /\ run.done = 2 => run.lost
          /\ run.ret # 0 /\ run.done > 0 => run.lost
          /\ run.kind = "multi" /\ run.ret = 0 /\ ~run.hidden =>
               /\ run.rows >= DbStatements
               /\ run.rows > DbStatements => run.try = 2

(* A connection is flagged as used only while it is, whichever way the     *)
(* call that used it ended, and only a multiple query with a statement     *)
(* without result leaves one that fails every later call.                  *)
DbPoolSound ==
    \A i \in DbIndex :
      /\ dbFlag[i] = 1 => \E t \in DbThreads : DbHolds(t, i)
      /\ dbConn[i] = "unread" => dbMixed
=============================================================================
