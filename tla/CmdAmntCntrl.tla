---------------------------- MODULE CmdAmntCntrl ----------------------------
(***************************************************************************)
(* Flow control of one command: the CmdStaticsNode that get_status (called *)
(* by ISGWMgrSvc::check before the business code), amount_inc (called when *)
(* it is done) and set_status (called by an administrator's command and by *)
(* amount_inc) share.                                                      *)
(*                                                                         *)
(* There are two locks, status_lock_ and statiscs_lock_: get_status and    *)
(* set_status hold the first while they clear the counters of the period,  *)
(* amount_inc holds the second while it changes them, and time_now_ is     *)
(* written without any.  So an increment is a load and a store of its own, *)
(* and each field that the other lock's holder may touch is a step.        *)
(*                                                                         *)
(* cur_fail_ratio is not kept: it is computed from the other two counters  *)
(* where it is tested, and is otherwise only printed, as are the peaks.    *)
(***************************************************************************)
EXTENDS Naturals, FiniteSets

CONSTANTS
    Workers,      \* threads of ISGWMgrSvc
    Free,         \* the holder of a lock nobody holds
    MaxReqLimit,  \* max_req_limit: requests served in a period
    MaxFailRatio, \* max_fail_ratio_limit, in percent
    FailMin,      \* failures below which the ratio is not looked at (10)
    Intvl,        \* time_intvl, the length of a period
    TimeMod,      \* values an unsigned time has (2^32 in the code)
    StartTime,    \* what the clock shows when the process starts
    MaxTime,      \* bound: the last time the clock shows
    MaxReqs,      \* bound: requests that are served
    MaxOrders     \* bound: orders of the administrator

ASSUME CmdAmntCntrlAssumption ==
    /\ Free \notin Workers
    /\ IsFiniteSet(Workers)
    /\ MaxReqLimit \in Nat \ {0}
    /\ MaxFailRatio \in 0 .. 100
    /\ FailMin \in Nat
    /\ Intvl \in Nat \ {0}
    /\ TimeMod \in Nat \ {0, 1}
    /\ MaxTime \in 0 .. TimeMod - 1
    /\ StartTime \in 0 .. MaxTime
    /\ MaxReqs \in Nat
    /\ MaxOrders \in Nat

VARIABLES
    clock,           \* the time of day, in seconds
    time_now_,       \* the object's idea of it
    time_start,      \* the beginning of the current period
    status,          \* 0 serve, 1 refuse for this period, 2 refuse
    cur_req,         \* requests of the current period
    cur_fail_req,    \* those of them that failed
    total_req,       \* requests ever counted
    status_lock_,    \* holder of the first lock
    statiscs_lock_,  \* holder of the second lock
    pc,              \* where each thread is
    stamp,           \* the time a thread in get_status was given
    failed,          \* result < 0 in the call of amount_inc
    reg,             \* the counter a thread has loaded and will store
    crashed,         \* the process has divided by zero
    orders,          \* orders the administrator has given
    served           \* history: requests served since cur_req was cleared

clockVars == <<clock, orders>>
lockVars  == <<status_lock_, statiscs_lock_>>
curVars   == <<cur_req, cur_fail_req>>
localVars == <<stamp, failed, reg>>
vars == <<clock, time_now_, time_start, status, cur_req, cur_fail_req,
          total_req, status_lock_, statiscs_lock_, pc, stamp, failed, reg,
          crashed, orders, served>>

CallPlaces == {"idle", "time", "status", "renew", "clear_fail", "clear_req",
               "admitted", "serve", "test", "renew_amount", "refuse", "count",
               "store", "fail", "store_fail", "ratio", "refuse_fail"}

(* The places where a thread has passed check but is not yet counted.      *)
Serving == {"serve", "test", "renew_amount", "refuse", "count"}

Init ==
    /\ clock = StartTime
    /\ time_now_ = StartTime
    /\ time_start = 0
    /\ status = 0
    /\ cur_req = 0
    /\ cur_fail_req = 0
    /\ total_req = 0
    /\ status_lock_ = Free
    /\ statiscs_lock_ = Free
    /\ pc = [w \in Workers |-> "idle"]
    /\ stamp = [w \in Workers |-> 0]
    /\ failed = [w \in Workers |-> FALSE]
    /\ reg = [w \in Workers |-> 0]
    /\ crashed = FALSE
    /\ orders = 0
    /\ served = 0

Goto(w, place) == pc' = [pc EXCEPT ![w] = place]

(* time_now_ - time_start, of unsigned integers.                           *)
Elapsed == (time_now_ + TimeMod - time_start) % TimeMod

Tick ==
    /\ clock < MaxTime
    /\ clock' = clock + 1
    /\ UNCHANGED <<time_now_, time_start, status, curVars, total_req, lockVars,
                   pc, localVars, crashed, orders, served>>

-----------------------------------------------------------------------------
(* get_status.                                                             *)

(* ISGWMgrSvc::check reads the clock and calls get_status with it.         *)
Check(w) ==
    /\ pc[w] = "idle"
    /\ total_req + Cardinality({v \in Workers : pc[v] # "idle"}) < MaxReqs
    /\ stamp' = [stamp EXCEPT ![w] = clock]
    /\ Goto(w, "time")
    /\ UNCHANGED <<clockVars, time_now_, time_start, status, curVars,
                   total_req, lockVars, failed, reg, crashed, served>>

(* time_now_ = now_t, without a lock.                                      *)
SetTime(w) ==
    /\ pc[w] = "time"
    /\ time_now_' = stamp[w]
    /\ stamp' = [stamp EXCEPT ![w] = 0]
    /\ Goto(w, "status")
    /\ UNCHANGED <<clockVars, time_start, status, curVars, total_req, lockVars,
                   failed, reg, crashed, served>>

(* The test under status_lock_.  If the command is refused for a period    *)
(* that is over, the thread goes on to renew it; otherwise it lets go of   *)
(* the lock and the status decides.                                        *)
GetStatus(w) ==
    /\ pc[w] = "status"
    /\ status_lock_ = Free
    /\ IF status = 1 /\ Elapsed > Intvl
         THEN /\ status_lock_' = w
              /\ Goto(w, "renew")
         ELSE /\ Goto(w, IF status = 0 THEN "admitted" ELSE "idle")
              /\ UNCHANGED status_lock_
    /\ UNCHANGED <<clockVars, time_now_, time_start, status, curVars,
                   total_req, statiscs_lock_, localVars, crashed, served>>

(* Mutant: get_status also takes the lock of the counters it clears.       *)
RenewLocksBoth(w) ==
    /\ pc[w] = "renew"
    /\ statiscs_lock_ = Free
    /\ time_start' = time_now_
    /\ status' = 0
    /\ Goto(w, "clear_fail")
    /\ UNCHANGED <<clockVars, time_now_, curVars, total_req, lockVars,
                   localVars, crashed, served>>

(* A new period begins.                                                    *)
Renew(w) ==
    /\ pc[w] = "renew"
    /\ time_start' = time_now_
    /\ status' = 0
    /\ Goto(w, "clear_fail")
    /\ UNCHANGED <<clockVars, time_now_, curVars, total_req, lockVars,
                   localVars, crashed, served>>

(* Its counters are cleared, here and in set_status(0).                    *)
ClearFail(w) ==
    /\ pc[w] = "clear_fail"
    /\ cur_fail_req' = 0
    /\ Goto(w, "clear_req")
    /\ UNCHANGED <<clockVars, time_now_, time_start, status, cur_req,
                   total_req, lockVars, localVars, crashed, served>>

(* The last one, after which the lock is released.  A thread that was in   *)
(* get_status (stamp 0) has its request admitted; one that was in          *)
(* set_status (stamp 1) has obeyed the administrator.                      *)
ClearReq(w) ==
    /\ pc[w] = "clear_req"
    /\ cur_req' = 0
    /\ served' = 0
    /\ status_lock_' = Free
    /\ Goto(w, IF stamp[w] = 0 THEN "admitted" ELSE "idle")
    /\ stamp' = [stamp EXCEPT ![w] = 0]
    /\ UNCHANGED <<clockVars, time_now_, time_start, status, cur_fail_req,
                   total_req, statiscs_lock_, failed, reg, crashed>>

(* The rest of check: the request waited too long and is answered with an  *)
(* error, or it is served.                                                 *)
Discard(w) ==
    /\ pc[w] = "admitted"
    /\ Goto(w, "idle")
    /\ UNCHANGED <<clockVars, time_now_, time_start, status, curVars,
                   total_req, lockVars, localVars, crashed, served>>

Serve(w) ==
    /\ pc[w] = "admitted"
    /\ served' = served + 1
    /\ Goto(w, "serve")
    /\ UNCHANGED <<clockVars, time_now_, time_start, status, curVars,
                   total_req, lockVars, localVars, crashed>>

-----------------------------------------------------------------------------
(* set_status by an administrator's command.                               *)

(* The thread stays in it, with stamp 1, while it clears the counters.     *)
Order(w, s) ==
    /\ pc[w] = "idle"
    /\ orders < MaxOrders
    /\ status_lock_ = Free
    /\ orders' = orders + 1
    /\ status' = s
    /\ IF s = 0
         THEN /\ status_lock_' = w
              /\ stamp' = [stamp EXCEPT ![w] = 1]
              /\ Goto(w, "clear_fail")
         ELSE UNCHANGED <<status_lock_, stamp, pc>>
    /\ UNCHANGED <<clock, time_now_, time_start, curVars, total_req,
                   statiscs_lock_, failed, reg, crashed, served>>

-----------------------------------------------------------------------------
(* amount_inc.                                                             *)

(* The business code returns, and amount_inc is called with its result.    *)
Return(w, fail) ==
    /\ pc[w] = "serve"
    /\ failed' = [failed EXCEPT ![w] = fail]
    /\ Goto(w, "test")
    /\ UNCHANGED <<clockVars, time_now_, time_start, status, curVars,
                   total_req, lockVars, stamp, reg, crashed, served>>

(* As many requests as a period allows have been counted.                  *)
LimitPassed == cur_req > MaxReqLimit    \* mutant: one too many

LimitReached == cur_req >= MaxReqLimit

(* It takes statiscs_lock_ and looks whether the period is over, or else   *)
(* whether it has had as many requests as allowed.                         *)
AmountInc(w) ==
    /\ pc[w] = "test"
    /\ statiscs_lock_ = Free
    /\ statiscs_lock_' = w
    /\ Goto(w, IF Elapsed >= Intvl THEN "renew_amount"
               ELSE IF LimitReached THEN "refuse" ELSE "count")
    /\ UNCHANGED <<clockVars, time_now_, time_start, status, curVars,
                   total_req, status_lock_, localVars, crashed, served>>

(* A new period begins, with the status as it is.                          *)
RenewAmount(w) ==
    /\ pc[w] = "renew_amount"
    /\ time_start' = time_now_
    /\ cur_fail_req' = 0
    /\ cur_req' = 0
    /\ served' = 0
    /\ Goto(w, "count")
    /\ UNCHANGED <<clockVars, time_now_, status, total_req, lockVars,
                   localVars, crashed>>

(* set_status(1), with statiscs_lock_ held.                                *)
Refuse(w) ==
    /\ pc[w] = "refuse"
    /\ status_lock_ = Free
    /\ status' = 1
    /\ Goto(w, "count")
    /\ UNCHANGED <<clockVars, time_now_, time_start, curVars, total_req,
                   lockVars, localVars, crashed, served>>

(* total_req++, and the load of cur_req++.                                 *)
CountTwice(w) ==    \* mutant: check counted it too
    /\ pc[w] = "count"
    /\ total_req' = total_req + 2
    /\ reg' = [reg EXCEPT ![w] = cur_req]
    /\ Goto(w, "store")
    /\ UNCHANGED <<clockVars, time_now_, time_start, status, curVars,
                   lockVars, stamp, failed, crashed, served>>

Count(w) ==
    /\ pc[w] = "count"
    /\ total_req' = total_req + 1
    /\ reg' = [reg EXCEPT ![w] = cur_req]
    /\ Goto(w, "store")
    /\ UNCHANGED <<clockVars, time_now_, time_start, status, curVars,
                   lockVars, stamp, failed, crashed, served>>

(* The thread is done with amount_inc.                                     *)
Leave(w) ==
    /\ statiscs_lock_' = Free
    /\ failed' = [failed EXCEPT ![w] = FALSE]
    /\ Goto(w, "idle")

(* The store of cur_req++.  A request that succeeded is done with.         *)
Store(w) ==
    /\ pc[w] = "store"
    /\ cur_req' = reg[w] + 1
    /\ reg' = [reg EXCEPT ![w] = 0]
    /\ IF failed[w]
         THEN Goto(w, "fail") /\ UNCHANGED <<statiscs_lock_, failed>>
         ELSE Leave(w)
    /\ UNCHANGED <<clockVars, time_now_, time_start, status, cur_fail_req,
                   total_req, status_lock_, stamp, crashed, served>>

(* The load and the store of cur_fail_req++.                               *)
CountFail(w) ==
    /\ pc[w] = "fail"
    /\ reg' = [reg EXCEPT ![w] = cur_fail_req]
    /\ Goto(w, "store_fail")
    /\ UNCHANGED <<clockVars, time_now_, time_start, status, curVars,
                   total_req, lockVars, stamp, failed, crashed, served>>

StoreFail(w) ==
    /\ pc[w] = "store_fail"
    /\ cur_fail_req' = reg[w] + 1
    /\ reg' = [reg EXCEPT ![w] = 0]
    /\ Goto(w, "ratio")
    /\ UNCHANGED <<clockVars, time_now_, time_start, status, cur_req,
                   total_req, lockVars, stamp, failed, crashed, served>>

(* The ratio of failures, 100 * cur_fail_req / cur_req, and its test.      *)
Ratio(w) ==
    /\ pc[w] = "ratio"
    /\ cur_req > 0
    /\ IF (100 * cur_fail_req) \div cur_req > MaxFailRatio
            /\ cur_fail_req > FailMin
         THEN Goto(w, "refuse_fail") /\ UNCHANGED <<statiscs_lock_, failed>>
         ELSE Leave(w)
    /\ UNCHANGED <<clockVars, time_now_, time_start, status, curVars,
                   total_req, status_lock_, stamp, reg, crashed, served>>

(* The division is by zero, and the process ends.                          *)
DivideByZero(w) ==
    /\ pc[w] = "ratio"
    /\ cur_req = 0
    /\ crashed' = TRUE
    /\ UNCHANGED <<clockVars, time_now_, time_start, status, curVars,
                   total_req, lockVars, pc, localVars, served>>

(* set_status(1) because of the ratio.                                     *)
RefuseFail(w) ==
    /\ pc[w] = "refuse_fail"
    /\ status_lock_ = Free
    /\ status' = 1
    /\ Leave(w)
    /\ UNCHANGED <<clockVars, time_now_, time_start, curVars, total_req,
                   status_lock_, stamp, reg, crashed, served>>

-----------------------------------------------------------------------------
(* What a thread does by itself once it has been called.                   *)
Call(w) ==
    \/ SetTime(w) \/ GetStatus(w) \/ Renew(w) \/ ClearFail(w) \/ ClearReq(w)
    \/ Discard(w) \/ Serve(w)
    \/ \E fail \in BOOLEAN : Return(w, fail)
    \/ AmountInc(w) \/ RenewAmount(w) \/ Refuse(w) \/ Count(w) \/ Store(w)
    \/ CountFail(w) \/ StoreFail(w) \/ Ratio(w) \/ DivideByZero(w)
    \/ RefuseFail(w)

Worker(w) ==
    \/ Check(w)
    \/ \E s \in 0 .. 2 : Order(w, s)
    \/ Call(w)

Next == ~crashed /\ (Tick \/ \E w \in Workers : Worker(w))

Spec == Init /\ [][Next]_vars

(* A thread in a call goes on.  The fairness is strong because of the      *)
(* locks: the mutexes of the system hand themselves sooner or later to a   *)
(* thread that waits for one, even if others keep taking it meanwhile, as  *)
(* threads whose requests are refused do with status_lock_.                *)
FairSpec ==
    Spec /\ \A w \in Workers : SF_vars(~crashed /\ Call(w))

-----------------------------------------------------------------------------
(* Properties.                                                             *)

Times == 0 .. TimeMod - 1

(* The values the variables take.                                          *)
TypeOK ==
    /\ clock \in Times /\ time_now_ \in Times /\ time_start \in Times
    /\ status \in 0 .. 2
    /\ cur_req \in 0 .. MaxReqs
    /\ cur_fail_req \in 0 .. MaxReqs
    /\ total_req \in 0 .. MaxReqs
    /\ status_lock_ \in Workers \cup {Free}
    /\ statiscs_lock_ \in Workers \cup {Free}
    /\ pc \in [Workers -> CallPlaces]
    /\ stamp \in [Workers -> Times]
    /\ failed \in [Workers -> BOOLEAN]
    /\ reg \in [Workers -> 0 .. MaxReqs]
    /\ crashed \in BOOLEAN
    /\ orders \in 0 .. MaxOrders
    /\ served \in 0 .. MaxReqs

(* However the two locks' holders interleave, a period serves no more      *)
(* requests than max_req_limit and one for each thread: increments may     *)
(* undo a clearing, but are never lost.                                    *)
ServedBounded == served <= MaxReqLimit + Cardinality(Workers)

(* A call always returns: amount_inc takes status_lock_ while it holds     *)
(* statiscs_lock_, and nobody takes them in the other order.               *)
CallsReturn ==
    \A w \in Workers : (pc[w] # "idle") ~> (pc[w] = "idle" \/ crashed)

(* "Status 2, stop all further service" (cmd_amount_contrl.cpp:120): it    *)
(* stays until the administrator gives another order.                      *)
StopLasts ==
    [][status = 2 /\ orders' = orders => status' = 2]_vars

(* The counters are guarded by "the mutex that synchronises the other      *)
(* statistics" (cmd_amount_contrl.h:43): the ratio of failures is never    *)
(* divided by a counter that somebody has cleared in between.              *)
NeverDividesByZero == ~crashed
=============================================================================
