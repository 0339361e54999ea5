------------------------ MODULE CmdAmntCntrl_proofs -------------------------
(***************************************************************************)
(* Proofs about CmdAmntCntrl.  The invariant says who holds the locks      *)
(* (Locks), that no counter runs ahead of the requests (Counts), and how   *)
(* many requests a period may still serve (Quota): while the command is    *)
(* served, every request of the period is counted in cur_req or is due to  *)
(* be, whichever counter a thread in get_status has cleared in between.    *)
(***************************************************************************)
EXTENDS CmdAmntCntrl, Integers, QueueFacts, FiniteSetTheorems, TLAPS

At(S) == {w \in Workers : pc[w] \in S}

StatusPlaces   == {"renew", "clear_fail", "clear_req"}
StatiscsPlaces == {"renew_amount", "refuse", "count", "store", "fail",
                   "store_fail", "ratio", "refuse_fail"}

(* Who holds the locks, and who has a time to give or an order to obey.    *)
Locks ==
    /\ \A w \in Workers : pc[w] \in StatusPlaces <=> status_lock_ = w
    /\ \A w \in Workers : pc[w] \in StatiscsPlaces <=> statiscs_lock_ = w
    /\ \A w \in Workers : pc[w] \notin {"time", "clear_fail", "clear_req"}
                            => stamp[w] = 0
    /\ \A w \in Workers : pc[w] = "renew" => status = 1

(* The requests that are in the hands of a thread and not yet in total_req *)
(* ...                                                                     *)
Coming == {w \in Workers :
             \/ pc[w] \in {"time", "status", "renew", "admitted"} \cup Serving
             \/ pc[w] \in {"clear_fail", "clear_req"} /\ stamp[w] = 0}

(* ... and the counters that do not run ahead of them.                     *)
Counts ==
    /\ total_req + Cardinality(Coming) <= MaxReqs
    /\ served <= total_req + Cardinality(At(Serving))
    /\ cur_req <= total_req
    /\ cur_fail_req <= total_req
    /\ \A w \in Workers :
         /\ pc[w] \in {"store", "store_fail"} => reg[w] + 1 <= total_req
         /\ pc[w] \in {"store", "fail", "store_fail"} =>
              cur_fail_req + 1 <= total_req

(* The requests served or to be served in this period.                     *)
Taken == served + Cardinality(At({"admitted"}))

(* Those of all periods that are not in cur_req.                           *)
DuePlaces == {"admitted", "store"} \cup Serving

Due == At(DuePlaces)

Clearing == \E w \in Workers : pc[w] \in {"clear_fail", "clear_req"}

Quota ==
    /\ Taken <= MaxReqLimit + Cardinality(Workers)
    /\ status = 0 /\ ~Clearing =>
         /\ Taken <= cur_req + Cardinality(Due)
         /\ Taken <= MaxReqLimit + Cardinality(Due)
         /\ \A w \in Workers :
              /\ pc[w] \in {"count", "store"} =>
                   Taken + 1 <= MaxReqLimit + Cardinality(Due)
              /\ pc[w] = "store" => Taken <= reg[w] + Cardinality(Due)

Inv == TypeOK /\ Locks /\ Counts /\ Quota

-----------------------------------------------------------------------------
(* The number of threads at some places, when one of them moves.           *)

LEMMA AtFinite ==
    ASSUME NEW S
    PROVE  /\ IsFiniteSet(At(S)) /\ Cardinality(At(S)) \in Nat
           /\ Cardinality(At(S)) <= Cardinality(Workers)
           /\ Cardinality(Workers) \in Nat
BY CmdAmntCntrlAssumption, FS_Subset, FS_CardinalityType DEF At

LEMMA ComingFinite == IsFiniteSet(Coming) /\ Cardinality(Coming) \in Nat
BY CmdAmntCntrlAssumption, FS_Subset, FS_CardinalityType DEF Coming

LEMMA MoveAt ==
    ASSUME TypeOK, NEW w \in Workers, NEW p, Goto(w, p), NEW S
    PROVE  /\ pc[w] \in S /\ p \in S =>
                Cardinality(At(S)') = Cardinality(At(S))
           /\ pc[w] \notin S /\ p \notin S =>
                Cardinality(At(S)') = Cardinality(At(S))
           /\ pc[w] \in S /\ p \notin S =>
                Cardinality(At(S)') = Cardinality(At(S)) - 1
           /\ pc[w] \notin S /\ p \in S =>
                Cardinality(At(S)') = Cardinality(At(S)) + 1
<1>1. pc'[w] = p /\ \A v \in Workers : v # w => pc'[v] = pc[v]
  BY DEF Goto, TypeOK
<1>2. /\ \A v : v # w => (v \in At(S) <=> v \in At(S)')
      /\ w \in At(S) <=> pc[w] \in S
      /\ w \in At(S)' <=> p \in S
  BY <1>1 DEF At
<1>3. /\ Cardinality(At(S)') = Cardinality(At(S))
            - (IF w \in At(S) THEN 1 ELSE 0) + (IF w \in At(S)' THEN 1 ELSE 0)
      /\ Cardinality(At(S)) \in Nat
  BY <1>2, AtFinite, OneMoved
<1> QED BY <1>2, <1>3

LEMMA MoveComing ==
    ASSUME TypeOK, NEW w \in Workers, NEW p, Goto(w, p),
           \A v \in Workers : v # w => stamp'[v] = stamp[v]
    PROVE  /\ w \in Coming /\ w \in Coming' =>
                Cardinality(Coming') = Cardinality(Coming)
           /\ w \notin Coming /\ w \notin Coming' =>
                Cardinality(Coming') = Cardinality(Coming)
           /\ w \in Coming /\ w \notin Coming' =>
                Cardinality(Coming') = Cardinality(Coming) - 1
           /\ w \notin Coming /\ w \in Coming' =>
                Cardinality(Coming') = Cardinality(Coming) + 1
<1>1. pc'[w] = p /\ \A v \in Workers : v # w => pc'[v] = pc[v]
  BY DEF Goto, TypeOK
<1>2. \A v : v # w => (v \in Coming <=> v \in Coming')
  BY <1>1 DEF Coming
<1>3. Cardinality(Coming') = Cardinality(Coming)
        - (IF w \in Coming THEN 1 ELSE 0) + (IF w \in Coming' THEN 1 ELSE 0)
  BY <1>2, ComingFinite, OneMoved
<1> QED BY <1>3, ComingFinite

(* The four numbers of the invariant ...                                   *)
Numbers ==
    /\ Cardinality(Coming) \in Nat /\ Cardinality(At({"admitted"})) \in Nat
    /\ Cardinality(At(Serving)) \in Nat /\ Cardinality(Due) \in Nat
    /\ Cardinality(Due) <= Cardinality(Workers) /\ Cardinality(Workers) \in Nat

LEMMA NumbersNat == Numbers
BY AtFinite, ComingFinite DEF Numbers, Due

(* ... and how they change.                                                *)
Change(a, s, d, c) ==
    /\ Cardinality(At({"admitted"})') = Cardinality(At({"admitted"})) + a
    /\ Cardinality(At(Serving)') = Cardinality(At(Serving)) + s
    /\ Cardinality(Due') = Cardinality(Due) + d
    /\ Cardinality(Coming') = Cardinality(Coming) + c

(* A thread moves between places of these numbers.                         *)
Differ(was, is, n) == /\ ~was /\ is => n = 1
                      /\ was /\ ~is => n = -1
                      /\ (was <=> is) => n = 0

LEMMA MoveChange ==
    ASSUME TypeOK, NEW w \in Workers, NEW p, NEW q, pc[w] = q, Goto(w, p),
           \A v \in Workers : v # w => stamp'[v] = stamp[v],
           NEW a, Differ(q = "admitted", p = "admitted", a),
           NEW s, Differ(q \in Serving, p \in Serving, s),
           NEW d, Differ(q \in DuePlaces, p \in DuePlaces, d),
           NEW c, Differ(w \in Coming, w \in Coming', c)
    PROVE  Change(a, s, d, c)
<1>1. Cardinality(At({"admitted"})') = Cardinality(At({"admitted"})) + a
  <2>1. (p \in {"admitted"} <=> p = "admitted") /\ (q \in {"admitted"} <=> q = "admitted")
    OBVIOUS
  <2> QED BY <2>1, MoveAt, NumbersNat DEF Numbers, Differ
<1>2. Cardinality(At(Serving)') = Cardinality(At(Serving)) + s
  BY MoveAt, NumbersNat DEF Numbers, Differ
<1>3. Cardinality(Due') = Cardinality(Due) + d
  BY MoveAt, NumbersNat DEF Numbers, Differ, Due
<1>4. Cardinality(Coming') = Cardinality(Coming) + c
  BY MoveComing, NumbersNat DEF Numbers, Differ
<1> QED BY <1>1, <1>2, <1>3, <1>4 DEF Change

-----------------------------------------------------------------------------
(* The steps of a thread.                                                  *)

(* Those admitted are due, and so is one that is about to be counted;      *)
(* those being served are coming.                                          *)
AdmittedDue ==
    /\ Numbers
    /\ Cardinality(At(Serving)) <= Cardinality(Coming)
    /\ Cardinality(At({"admitted"})) <= Cardinality(Due)
    /\ \A w \in Workers : pc[w] \in {"count", "store"} =>
         Cardinality(At({"admitted"})) + 1 <= Cardinality(Due)

LEMMA SomeDue == AdmittedDue
<1>1. /\ IsFiniteSet(Due) /\ At({"admitted"}) \subseteq Due
      /\ At(Serving) \subseteq Coming /\ IsFiniteSet(Coming)
  BY AtFinite, ComingFinite DEF Due, At, DuePlaces, Coming
<1>2. ASSUME NEW w \in Workers, pc[w] \in {"count", "store"}
      PROVE  Cardinality(At({"admitted"})) + 1 <= Cardinality(Due)
  <2>1. w \in Due /\ At({"admitted"}) \subseteq Due \ {w}
    BY <1>2 DEF At, Due, DuePlaces, Serving
  <2>2. /\ IsFiniteSet(Due \ {w})
        /\ Cardinality(Due \ {w}) = Cardinality(Due) - 1
    BY <1>1, <2>1, FS_RemoveElement
  <2>3. Cardinality(At({"admitted"})) <= Cardinality(Due \ {w})
    BY <2>1, <2>2, FS_Subset
  <2> QED BY <2>2, <2>3, NumbersNat DEF Numbers
<1> QED BY <1>1, <1>2, FS_Subset, NumbersNat DEF AdmittedDue, Numbers

LEMMA SomeDueNext == AdmittedDue'
BY SomeDue, PTL

(* A thread is called.                                                     *)
LEMMA CheckInv ==
    ASSUME Inv, NEW w \in Workers, Check(w)
    PROVE  Inv'
<1> USE DEF Check, Leave, Inv, clockVars, curVars, lockVars, localVars
<1>1. TypeOK /\ pc \in [Workers -> CallPlaces] /\ stamp \in [Workers -> Times]
  BY DEF TypeOK
<1>2. Goto(w, "time") /\ Change(0, 0, 0, 1)
  <2>1. /\ pc[w] = "idle" /\ Goto(w, "time") /\ pc'[w] = "time"
        /\ \A v \in Workers : v # w => stamp'[v] = stamp[v]
    BY <1>1 DEF Goto
  <2>2. Differ(w \in Coming, w \in Coming', 1)
    BY <1>1, <2>1 DEF Coming, Differ, Serving, Locks
  <2>3. /\ Differ("idle" = "admitted", "time" = "admitted", 0)
        /\ Differ("idle" \in Serving, "time" \in Serving, 0)
        /\ Differ("idle" \in DuePlaces, "time" \in DuePlaces, 0)
    BY DEF Differ, Serving, DuePlaces
  <2> QED BY <2>1, <2>2, <2>3, MoveChange
<1>3. Locks'
  BY <1>1, <1>2, CmdAmntCntrlAssumption
     DEF Goto, Locks, StatusPlaces, StatiscsPlaces, TypeOK
<1>4. Counts'
  <2> DEFINE Called == {v \in Workers : pc[v] # "idle"}
  <2>1. Coming \subseteq Called /\ IsFiniteSet(Called)
    BY <1>1, CmdAmntCntrlAssumption, FS_Subset DEF Coming, Serving, Locks
  <2>2. Cardinality(Coming) <= Cardinality(Called)
        /\ Cardinality(Called) \in Nat
    BY <2>1, FS_Subset, FS_CardinalityType
  <2>3. total_req + Cardinality(Called) < MaxReqs
    OBVIOUS
  <2> HIDE DEF Called
  <2>4. total_req + Cardinality(Coming') <= MaxReqs
    BY <1>1, <1>2, <2>2, <2>3, NumbersNat, CmdAmntCntrlAssumption
       DEF Change, Numbers, TypeOK
  <2> QED BY <1>1, <1>2, <2>4, NumbersNat
          DEF Goto, Counts, Change, Numbers, TypeOK, Locks
<1>5. TypeOK'
  BY <1>1, <1>2, <1>4, SomeDueNext, CmdAmntCntrlAssumption
     DEF Goto, Counts, TypeOK, CallPlaces, Times, AdmittedDue, Numbers
<1>6. Quota'
  BY <1>1, <1>2, NumbersNat, CmdAmntCntrlAssumption
     DEF Goto, Quota, Taken, Clearing, Change, Numbers, TypeOK, Locks,
         StatusPlaces, StatiscsPlaces
<1> QED BY <1>3, <1>4, <1>5, <1>6

LEMMA SetTimeInv ==
    ASSUME Inv, NEW w \in Workers, SetTime(w)
    PROVE  Inv'
<1> USE DEF SetTime, Leave, Inv, clockVars, curVars, lockVars, localVars
<1>1. TypeOK /\ pc \in [Workers -> CallPlaces] /\ stamp \in [Workers -> Times]
  BY DEF TypeOK
<1>2. Goto(w, "status") /\ Change(0, 0, 0, 0)
  <2>1. /\ pc[w] = "time" /\ Goto(w, "status") /\ pc'[w] = "status"
        /\ \A v \in Workers : v # w => stamp'[v] = stamp[v]
    BY <1>1 DEF Goto
  <2>2. Differ(w \in Coming, w \in Coming', 0)
    BY <1>1, <2>1 DEF Coming, Differ, Serving, Locks
  <2>3. /\ Differ("time" = "admitted", "status" = "admitted", 0)
        /\ Differ("time" \in Serving, "status" \in Serving, 0)
        /\ Differ("time" \in DuePlaces, "status" \in DuePlaces, 0)
    BY DEF Differ, Serving, DuePlaces
  <2> QED BY <2>1, <2>2, <2>3, MoveChange
<1>3. Locks'
  BY <1>1, <1>2, CmdAmntCntrlAssumption
     DEF Goto, Locks, StatusPlaces, StatiscsPlaces, TypeOK
<1>4. Counts'
  BY <1>1, <1>2, NumbersNat, CmdAmntCntrlAssumption
     DEF Goto, Counts, Change, Numbers, TypeOK, Locks
<1>5. TypeOK'
  BY <1>1, <1>2, <1>4, SomeDueNext, CmdAmntCntrlAssumption
     DEF Goto, Counts, TypeOK, CallPlaces, Times, AdmittedDue, Numbers
<1>6. Quota'
  BY <1>1, <1>2, NumbersNat, CmdAmntCntrlAssumption
     DEF Goto, Quota, Taken, Clearing, Change, Numbers, TypeOK, Locks,
         StatusPlaces, StatiscsPlaces
<1> QED BY <1>3, <1>4, <1>5, <1>6

LEMMA GetStatusInv ==
    ASSUME Inv, NEW w \in Workers, GetStatus(w)
    PROVE  Inv'
<1> USE DEF GetStatus, Leave, Inv, clockVars, curVars, lockVars, localVars
<1>1. TypeOK /\ pc \in [Workers -> CallPlaces] /\ stamp \in [Workers -> Times]
  BY DEF TypeOK
<1>2. \/ (status = 1 /\ Elapsed > Intvl) /\ Goto(w, "renew") /\ Change(0, 0, 0, 0)
      \/ /\ (~ (status = 1 /\ Elapsed > Intvl) /\ status = 0)
         /\ Goto(w, "admitted") /\ Change(1, 0, 1, 0)
      \/ /\ (~ (status = 1 /\ Elapsed > Intvl) /\ status # 0)
         /\ Goto(w, "idle") /\ Change(0, 0, 0, -1)
  <2>1. ASSUME (status = 1 /\ Elapsed > Intvl)
        PROVE  Goto(w, "renew") /\ Change(0, 0, 0, 0)
    <3>1. /\ pc[w] = "status" /\ Goto(w, "renew") /\ pc'[w] = "renew"
          /\ \A v \in Workers : v # w => stamp'[v] = stamp[v]
      BY <1>1, <2>1 DEF Goto
    <3>2. Differ(w \in Coming, w \in Coming', 0)
      BY <1>1, <3>1, <2>1 DEF Coming, Differ, Serving, Locks
    <3>3. /\ Differ("status" = "admitted", "renew" = "admitted", 0)
          /\ Differ("status" \in Serving, "renew" \in Serving, 0)
          /\ Differ("status" \in DuePlaces, "renew" \in DuePlaces, 0)
      BY DEF Differ, Serving, DuePlaces
    <3> QED BY <3>1, <3>2, <3>3, MoveChange, <2>1
  <2>2. ASSUME (~ (status = 1 /\ Elapsed > Intvl) /\ status = 0)
        PROVE  Goto(w, "admitted") /\ Change(1, 0, 1, 0)
    <3>1. /\ pc[w] = "status" /\ Goto(w, "admitted") /\ pc'[w] = "admitted"
          /\ \A v \in Workers : v # w => stamp'[v] = stamp[v]
      BY <1>1, <2>2 DEF Goto
    <3>2. Differ(w \in Coming, w \in Coming', 0)
      BY <1>1, <3>1, <2>2 DEF Coming, Differ, Serving, Locks
    <3>3. /\ Differ("status" = "admitted", "admitted" = "admitted", 1)
          /\ Differ("status" \in Serving, "admitted" \in Serving, 0)
          /\ Differ("status" \in DuePlaces, "admitted" \in DuePlaces, 1)
      BY DEF Differ, Serving, DuePlaces
    <3> QED BY <3>1, <3>2, <3>3, MoveChange, <2>2
  <2>3. ASSUME (~ (status = 1 /\ Elapsed > Intvl) /\ status # 0)
        PROVE  Goto(w, "idle") /\ Change(0, 0, 0, -1)
    <3>1. /\ pc[w] = "status" /\ Goto(w, "idle") /\ pc'[w] = "idle"
          /\ \A v \in Workers : v # w => stamp'[v] = stamp[v]
      BY <1>1, <2>3 DEF Goto
    <3>2. Differ(w \in Coming, w \in Coming', -1)
      BY <1>1, <3>1, <2>3 DEF Coming, Differ, Serving, Locks
    <3>3. /\ Differ("status" = "admitted", "idle" = "admitted", 0)
          /\ Differ("status" \in Serving, "idle" \in Serving, 0)
          /\ Differ("status" \in DuePlaces, "idle" \in DuePlaces, 0)
      BY DEF Differ, Serving, DuePlaces
    <3> QED BY <3>1, <3>2, <3>3, MoveChange, <2>3
  <2> QED BY <2>1, <2>2, <2>3
<1>3. Locks'
  BY <1>1, <1>2, CmdAmntCntrlAssumption
     DEF Goto, Locks, StatusPlaces, StatiscsPlaces, TypeOK
<1>4. Counts'
  BY <1>1, <1>2, NumbersNat, CmdAmntCntrlAssumption
     DEF Goto, Counts, Change, Numbers, TypeOK, Locks
<1>5. TypeOK'
  BY <1>1, <1>2, <1>4, SomeDueNext, CmdAmntCntrlAssumption
     DEF Goto, Counts, TypeOK, CallPlaces, Times, AdmittedDue, Numbers
<1>6. Quota'
  <2>1. /\ status' = status /\ served' = served /\ cur_req' = cur_req
        /\ reg' = reg /\ \A v \in Workers : reg[v] \in Nat
        /\ served \in Nat /\ cur_req \in Nat /\ MaxReqLimit \in Nat
    BY <1>1, CmdAmntCntrlAssumption DEF TypeOK
  <2>2. ~ Clearing
    BY <1>1, CmdAmntCntrlAssumption DEF Clearing, Locks, StatusPlaces
  <2>3. CASE status = 0
    <3>1. Change(1, 0, 1, 0) /\ Goto(w, "admitted")
      BY <1>2, <2>3
    <3>2. Taken' = Taken + 1 /\ Cardinality(Due') = Cardinality(Due) + 1
      BY <2>1, <3>1, NumbersNat DEF Taken, Change, Numbers
    <3>3. \A v \in Workers : pc'[v] \in {"count", "store"} => pc'[v] = pc[v]
      BY <1>1, <3>1 DEF Goto
    <3>4. Taken \in Nat /\ Numbers /\ Numbers'
      BY <2>1, NumbersNat, SomeDueNext DEF Taken, AdmittedDue, Numbers
    <3> QED BY <2>1, <2>2, <2>3, <3>2, <3>3, <3>4 DEF Quota, Numbers
  <2>4. CASE status # 0
    <3>1. Taken' = Taken
      BY <1>2, <2>1, <2>4, NumbersNat DEF Taken, Change, Numbers
    <3> QED BY <2>1, <2>4, <3>1 DEF Quota
  <2> QED BY <2>3, <2>4
<1> QED BY <1>3, <1>4, <1>5, <1>6

LEMMA RenewInv ==
    ASSUME Inv, NEW w \in Workers, Renew(w)
    PROVE  Inv'
<1> USE DEF Renew, Leave, Inv, clockVars, curVars, lockVars, localVars
<1>1. TypeOK /\ pc \in [Workers -> CallPlaces] /\ stamp \in [Workers -> Times]
  BY DEF TypeOK
<1>2. Goto(w, "clear_fail") /\ Change(0, 0, 0, 0)
  <2>1. /\ pc[w] = "renew" /\ Goto(w, "clear_fail") /\ pc'[w] = "clear_fail"
        /\ \A v \in Workers : v # w => stamp'[v] = stamp[v]
    BY <1>1 DEF Goto
  <2>2. Differ(w \in Coming, w \in Coming', 0)
    BY <1>1, <2>1 DEF Coming, Differ, Serving, Locks
  <2>3. /\ Differ("renew" = "admitted", "clear_fail" = "admitted", 0)
        /\ Differ("renew" \in Serving, "clear_fail" \in Serving, 0)
        /\ Differ("renew" \in DuePlaces, "clear_fail" \in DuePlaces, 0)
    BY DEF Differ, Serving, DuePlaces
  <2> QED BY <2>1, <2>2, <2>3, MoveChange
<1>3. Locks'
  BY <1>1, <1>2, CmdAmntCntrlAssumption
     DEF Goto, Locks, StatusPlaces, StatiscsPlaces, TypeOK
<1>4. Counts'
  BY <1>1, <1>2, NumbersNat, CmdAmntCntrlAssumption
     DEF Goto, Counts, Change, Numbers, TypeOK, Locks
<1>5. TypeOK'
  BY <1>1, <1>2, <1>4, SomeDueNext, CmdAmntCntrlAssumption
     DEF Goto, Counts, TypeOK, CallPlaces, Times, AdmittedDue, Numbers
<1>6. Quota'
  BY <1>1, <1>2, NumbersNat, CmdAmntCntrlAssumption
     DEF Goto, Quota, Taken, Clearing, Change, Numbers, TypeOK, Locks,
         StatusPlaces, StatiscsPlaces
<1> QED BY <1>3, <1>4, <1>5, <1>6

LEMMA ClearFailInv ==
    ASSUME Inv, NEW w \in Workers, ClearFail(w)
    PROVE  Inv'
<1> USE DEF ClearFail, Leave, Inv, clockVars, curVars, lockVars, localVars
<1>1. TypeOK /\ pc \in [Workers -> CallPlaces] /\ stamp \in [Workers -> Times]
  BY DEF TypeOK
<1>2. Goto(w, "clear_req") /\ Change(0, 0, 0, 0)
  <2>1. /\ pc[w] = "clear_fail" /\ Goto(w, "clear_req") /\ pc'[w] = "clear_req"
        /\ \A v \in Workers : v # w => stamp'[v] = stamp[v]
    BY <1>1 DEF Goto
  <2>2. Differ(w \in Coming, w \in Coming', 0)
    BY <1>1, <2>1 DEF Coming, Differ, Serving, Locks
  <2>3. /\ Differ("clear_fail" = "admitted", "clear_req" = "admitted", 0)
        /\ Differ("clear_fail" \in Serving, "clear_req" \in Serving, 0)
        /\ Differ("clear_fail" \in DuePlaces, "clear_req" \in DuePlaces, 0)
    BY DEF Differ, Serving, DuePlaces
  <2> QED BY <2>1, <2>2, <2>3, MoveChange
<1>3. Locks'
  BY <1>1, <1>2, CmdAmntCntrlAssumption
     DEF Goto, Locks, StatusPlaces, StatiscsPlaces, TypeOK
<1>4. Counts'
  BY <1>1, <1>2, NumbersNat, CmdAmntCntrlAssumption
     DEF Goto, Counts, Change, Numbers, TypeOK, Locks
<1>5. TypeOK'
  BY <1>1, <1>2, <1>4, SomeDueNext, CmdAmntCntrlAssumption
     DEF Goto, Counts, TypeOK, CallPlaces, Times, AdmittedDue, Numbers
<1>6. Quota'
  BY <1>1, <1>2, NumbersNat, CmdAmntCntrlAssumption
     DEF Goto, Quota, Taken, Clearing, Change, Numbers, TypeOK, Locks,
         StatusPlaces, StatiscsPlaces
<1> QED BY <1>3, <1>4, <1>5, <1>6

LEMMA ClearReqInv ==
    ASSUME Inv, NEW w \in Workers, ClearReq(w)
    PROVE  Inv'
<1> USE DEF ClearReq, Leave, Inv, clockVars, curVars, lockVars, localVars
<1>1. TypeOK /\ pc \in [Workers -> CallPlaces] /\ stamp \in [Workers -> Times]
  BY DEF TypeOK
<1>2. \/ stamp[w] = 0 /\ Goto(w, "admitted") /\ Change(1, 0, 1, 0)
      \/ stamp[w] # 0 /\ Goto(w, "idle") /\ Change(0, 0, 0, 0)
  <2>1. ASSUME stamp[w] = 0 PROVE Goto(w, "admitted") /\ Change(1, 0, 1, 0)
    <3>1. /\ pc[w] = "clear_req" /\ Goto(w, "admitted") /\ pc'[w] = "admitted"
          /\ \A v \in Workers : v # w => stamp'[v] = stamp[v]
      BY <1>1, <2>1 DEF Goto
    <3>2. Differ(w \in Coming, w \in Coming', 0)
      BY <1>1, <3>1, <2>1 DEF Coming, Differ, Serving, Locks
    <3>3. /\ Differ("clear_req" = "admitted", "admitted" = "admitted", 1)
          /\ Differ("clear_req" \in Serving, "admitted" \in Serving, 0)
          /\ Differ("clear_req" \in DuePlaces, "admitted" \in DuePlaces, 1)
      BY DEF Differ, Serving, DuePlaces
    <3> QED BY <3>1, <3>2, <3>3, MoveChange, <2>1
  <2>2. ASSUME stamp[w] # 0 PROVE Goto(w, "idle") /\ Change(0, 0, 0, 0)
    <3>1. /\ pc[w] = "clear_req" /\ Goto(w, "idle") /\ pc'[w] = "idle"
          /\ \A v \in Workers : v # w => stamp'[v] = stamp[v]
      BY <1>1, <2>2 DEF Goto
    <3>2. Differ(w \in Coming, w \in Coming', 0)
      BY <1>1, <3>1, <2>2 DEF Coming, Differ, Serving, Locks
    <3>3. /\ Differ("clear_req" = "admitted", "idle" = "admitted", 0)
          /\ Differ("clear_req" \in Serving, "idle" \in Serving, 0)
          /\ Differ("clear_req" \in DuePlaces, "idle" \in DuePlaces, 0)
      BY DEF Differ, Serving, DuePlaces
    <3> QED BY <3>1, <3>2, <3>3, MoveChange, <2>2
  <2> QED BY <2>1, <2>2
<1>3. Locks'
  BY <1>1, <1>2, CmdAmntCntrlAssumption
     DEF Goto, Locks, StatusPlaces, StatiscsPlaces, TypeOK
<1>4. Counts'
  BY <1>1, <1>2, NumbersNat, CmdAmntCntrlAssumption
     DEF Goto, Counts, Change, Numbers, TypeOK, Locks
<1>5. TypeOK'
  BY <1>1, <1>2, <1>4, SomeDueNext, CmdAmntCntrlAssumption
     DEF Goto, Counts, TypeOK, CallPlaces, Times, AdmittedDue, Numbers
<1>6. Quota'
  <2>1. Taken' = Cardinality(At({"admitted"})') /\ cur_req' = 0
    BY NumbersNat, <1>2 DEF Taken, Numbers, Change
  <2>2. \A v \in Workers : reg'[v] \in Nat
    BY <1>1 DEF TypeOK
  <2> QED BY <1>2, <2>1, <2>2, SomeDueNext, NumbersNat, CmdAmntCntrlAssumption
          DEF Quota, AdmittedDue, Change, Numbers
<1> QED BY <1>3, <1>4, <1>5, <1>6

LEMMA DiscardInv ==
    ASSUME Inv, NEW w \in Workers, Discard(w)
    PROVE  Inv'
<1> USE DEF Discard, Leave, Inv, clockVars, curVars, lockVars, localVars
<1>1. TypeOK /\ pc \in [Workers -> CallPlaces] /\ stamp \in [Workers -> Times]
  BY DEF TypeOK
<1>2. Goto(w, "idle") /\ Change(-1, 0, -1, -1)
  <2>1. /\ pc[w] = "admitted" /\ Goto(w, "idle") /\ pc'[w] = "idle"
        /\ \A v \in Workers : v # w => stamp'[v] = stamp[v]
    BY <1>1 DEF Goto
  <2>2. Differ(w \in Coming, w \in Coming', -1)
    BY <1>1, <2>1 DEF Coming, Differ, Serving, Locks
  <2>3. /\ Differ("admitted" = "admitted", "idle" = "admitted", -1)
        /\ Differ("admitted" \in Serving, "idle" \in Serving, 0)
        /\ Differ("admitted" \in DuePlaces, "idle" \in DuePlaces, -1)
    BY DEF Differ, Serving, DuePlaces
  <2> QED BY <2>1, <2>2, <2>3, MoveChange
<1>3. Locks'
  BY <1>1, <1>2, CmdAmntCntrlAssumption
     DEF Goto, Locks, StatusPlaces, StatiscsPlaces, TypeOK
<1>4. Counts'
  BY <1>1, <1>2, NumbersNat, CmdAmntCntrlAssumption
     DEF Goto, Counts, Change, Numbers, TypeOK, Locks
<1>5. TypeOK'
  BY <1>1, <1>2, <1>4, SomeDueNext, CmdAmntCntrlAssumption
     DEF Goto, Counts, TypeOK, CallPlaces, Times, AdmittedDue, Numbers
<1>6. Quota'
  BY <1>1, <1>2, NumbersNat, CmdAmntCntrlAssumption
     DEF Goto, Quota, Taken, Clearing, Change, Numbers, TypeOK, Locks,
         StatusPlaces, StatiscsPlaces
<1> QED BY <1>3, <1>4, <1>5, <1>6

LEMMA ServeInv ==
    ASSUME Inv, NEW w \in Workers, Serve(w)
    PROVE  Inv'
<1> USE DEF Serve, Leave, Inv, clockVars, curVars, lockVars, localVars
<1>1. TypeOK /\ pc \in [Workers -> CallPlaces] /\ stamp \in [Workers -> Times]
  BY DEF TypeOK
<1>2. Goto(w, "serve") /\ Change(-1, 1, 0, 0)
  <2>1. /\ pc[w] = "admitted" /\ Goto(w, "serve") /\ pc'[w] = "serve"
        /\ \A v \in Workers : v # w => stamp'[v] = stamp[v]
    BY <1>1 DEF Goto
  <2>2. Differ(w \in Coming, w \in Coming', 0)
    BY <1>1, <2>1 DEF Coming, Differ, Serving, Locks
  <2>3. /\ Differ("admitted" = "admitted", "serve" = "admitted", -1)
        /\ Differ("admitted" \in Serving, "serve" \in Serving, 1)
        /\ Differ("admitted" \in DuePlaces, "serve" \in DuePlaces, 0)
    BY DEF Differ, Serving, DuePlaces
  <2> QED BY <2>1, <2>2, <2>3, MoveChange
<1>3. Locks'
  BY <1>1, <1>2, CmdAmntCntrlAssumption
     DEF Goto, Locks, StatusPlaces, StatiscsPlaces, TypeOK
<1>4. Counts'
  BY <1>1, <1>2, NumbersNat, CmdAmntCntrlAssumption
     DEF Goto, Counts, Change, Numbers, TypeOK, Locks
<1>5. TypeOK'
  BY <1>1, <1>2, <1>4, SomeDueNext, CmdAmntCntrlAssumption
     DEF Goto, Counts, TypeOK, CallPlaces, Times, AdmittedDue, Numbers
<1>6. Quota'
  BY <1>1, <1>2, NumbersNat, CmdAmntCntrlAssumption
     DEF Goto, Quota, Taken, Clearing, Change, Numbers, TypeOK, Locks,
         StatusPlaces, StatiscsPlaces
<1> QED BY <1>3, <1>4, <1>5, <1>6

LEMMA ReturnInv ==
    ASSUME Inv, NEW w \in Workers, NEW fail \in BOOLEAN, Return(w, fail)
    PROVE  Inv'
<1> USE DEF Return, Leave, Inv, clockVars, curVars, lockVars, localVars
<1>1. TypeOK /\ pc \in [Workers -> CallPlaces] /\ stamp \in [Workers -> Times]
  BY DEF TypeOK
<1>2. Goto(w, "test") /\ Change(0, 0, 0, 0)
  <2>1. /\ pc[w] = "serve" /\ Goto(w, "test") /\ pc'[w] = "test"
        /\ \A v \in Workers : v # w => stamp'[v] = stamp[v]
    BY <1>1 DEF Goto
  <2>2. Differ(w \in Coming, w \in Coming', 0)
    BY <1>1, <2>1 DEF Coming, Differ, Serving, Locks
  <2>3. /\ Differ("serve" = "admitted", "test" = "admitted", 0)
        /\ Differ("serve" \in Serving, "test" \in Serving, 0)
        /\ Differ("serve" \in DuePlaces, "test" \in DuePlaces, 0)
    BY DEF Differ, Serving, DuePlaces
  <2> QED BY <2>1, <2>2, <2>3, MoveChange
<1>3. Locks'
  BY <1>1, <1>2, CmdAmntCntrlAssumption
     DEF Goto, Locks, StatusPlaces, StatiscsPlaces, TypeOK
<1>4. Counts'
  BY <1>1, <1>2, NumbersNat, CmdAmntCntrlAssumption
     DEF Goto, Counts, Change, Numbers, TypeOK, Locks
<1>5. TypeOK'
  BY <1>1, <1>2, <1>4, SomeDueNext, CmdAmntCntrlAssumption
     DEF Goto, Counts, TypeOK, CallPlaces, Times, AdmittedDue, Numbers
<1>6. Quota'
  BY <1>1, <1>2, NumbersNat, CmdAmntCntrlAssumption
     DEF Goto, Quota, Taken, Clearing, Change, Numbers, TypeOK, Locks,
         StatusPlaces, StatiscsPlaces
<1> QED BY <1>3, <1>4, <1>5, <1>6

LEMMA AmountIncInv ==
    ASSUME Inv, NEW w \in Workers, AmountInc(w)
    PROVE  Inv'
<1> USE DEF AmountInc, Leave, Inv, clockVars, curVars, lockVars, localVars
<1>1. TypeOK /\ pc \in [Workers -> CallPlaces] /\ stamp \in [Workers -> Times]
  BY DEF TypeOK
<1>2. \/ Elapsed >= Intvl /\ Goto(w, "renew_amount") /\ Change(0, 0, 0, 0)
      \/ (~ (Elapsed >= Intvl) /\ LimitReached) /\ Goto(w, "refuse") /\ Change(0, 0, 0, 0)
      \/ /\ (~ (Elapsed >= Intvl) /\ ~ LimitReached)
         /\ Goto(w, "count") /\ Change(0, 0, 0, 0)
  <2>1. ASSUME Elapsed >= Intvl PROVE Goto(w, "renew_amount") /\ Change(0, 0, 0, 0)
    <3>1. /\ pc[w] = "test" /\ Goto(w, "renew_amount") /\ pc'[w] = "renew_amount"
          /\ \A v \in Workers : v # w => stamp'[v] = stamp[v]
      BY <1>1, <2>1 DEF Goto
    <3>2. Differ(w \in Coming, w \in Coming', 0)
      BY <1>1, <3>1, <2>1 DEF Coming, Differ, Serving, Locks
    <3>3. /\ Differ("test" = "admitted", "renew_amount" = "admitted", 0)
          /\ Differ("test" \in Serving, "renew_amount" \in Serving, 0)
          /\ Differ("test" \in DuePlaces, "renew_amount" \in DuePlaces, 0)
      BY DEF Differ, Serving, DuePlaces
    <3> QED BY <3>1, <3>2, <3>3, MoveChange, <2>1
  <2>2. ASSUME (~ (Elapsed >= Intvl) /\ LimitReached)
        PROVE  Goto(w, "refuse") /\ Change(0, 0, 0, 0)
    <3>1. /\ pc[w] = "test" /\ Goto(w, "refuse") /\ pc'[w] = "refuse"
          /\ \A v \in Workers : v # w => stamp'[v] = stamp[v]
      BY <1>1, <2>2 DEF Goto
    <3>2. Differ(w \in Coming, w \in Coming', 0)
      BY <1>1, <3>1, <2>2 DEF Coming, Differ, Serving, Locks
    <3>3. /\ Differ("test" = "admitted", "refuse" = "admitted", 0)
          /\ Differ("test" \in Serving, "refuse" \in Serving, 0)
          /\ Differ("test" \in DuePlaces, "refuse" \in DuePlaces, 0)
      BY DEF Differ, Serving, DuePlaces
    <3> QED BY <3>1, <3>2, <3>3, MoveChange, <2>2
  <2>3. ASSUME (~ (Elapsed >= Intvl) /\ ~ LimitReached)
        PROVE  Goto(w, "count") /\ Change(0, 0, 0, 0)
    <3>1. /\ pc[w] = "test" /\ Goto(w, "count") /\ pc'[w] = "count"
          /\ \A v \in Workers : v # w => stamp'[v] = stamp[v]
      BY <1>1, <2>3 DEF Goto
    <3>2. Differ(w \in Coming, w \in Coming', 0)
      BY <1>1, <3>1, <2>3 DEF Coming, Differ, Serving, Locks
    <3>3. /\ Differ("test" = "admitted", "count" = "admitted", 0)
          /\ Differ("test" \in Serving, "count" \in Serving, 0)
          /\ Differ("test" \in DuePlaces, "count" \in DuePlaces, 0)
      BY DEF Differ, Serving, DuePlaces
    <3> QED BY <3>1, <3>2, <3>3, MoveChange, <2>3
  <2> QED BY <2>1, <2>2, <2>3
<1>3. Locks'
  BY <1>1, <1>2, CmdAmntCntrlAssumption
     DEF Goto, Locks, StatusPlaces, StatiscsPlaces, TypeOK
<1>4. Counts'
  BY <1>1, <1>2, NumbersNat, CmdAmntCntrlAssumption
     DEF Goto, Counts, Change, Numbers, TypeOK, Locks
<1>5. TypeOK'
  BY <1>1, <1>2, <1>4, SomeDueNext, CmdAmntCntrlAssumption
     DEF Goto, Counts, TypeOK, CallPlaces, Times, AdmittedDue, Numbers
<1>6. Quota'
  <2>1. /\ status' = status /\ served' = served /\ cur_req' = cur_req
        /\ reg' = reg /\ \A v \in Workers : reg[v] \in Nat
        /\ served \in Nat /\ cur_req \in Nat /\ MaxReqLimit \in Nat
    BY <1>1, CmdAmntCntrlAssumption DEF TypeOK
  <2>2. /\ Taken' = Taken /\ Cardinality(Due') = Cardinality(Due)
        /\ Taken \in Nat /\ Numbers
    BY <1>2, <2>1, NumbersNat DEF Taken, Change, Numbers
  <2>3. Clearing' <=> Clearing
    BY <1>1, <1>2 DEF Goto, Clearing
  <2>4. \A v \in Workers : v # w => pc'[v] = pc[v]
    BY <1>1, <1>2 DEF Goto
  <2>5. /\ pc'[w] # "store"
        /\ pc'[w] = "count" => cur_req < MaxReqLimit
    BY <1>1, <1>2, <2>1 DEF Goto, LimitReached
  <2>6. ASSUME status = 0, ~ Clearing
        PROVE  \A v \in Workers :
                 /\ pc'[v] \in {"count", "store"} =>
                      Taken + 1 <= MaxReqLimit + Cardinality(Due)
                 /\ pc'[v] = "store" => Taken <= reg[v] + Cardinality(Due)
    BY <2>1, <2>2, <2>4, <2>5, <2>6 DEF Quota, Numbers
  <2> QED BY <2>1, <2>2, <2>3, <2>6 DEF Quota
<1> QED BY <1>3, <1>4, <1>5, <1>6

LEMMA RenewAmountInv ==
    ASSUME Inv, NEW w \in Workers, RenewAmount(w)
    PROVE  Inv'
<1> USE DEF RenewAmount, Leave, Inv, clockVars, curVars, lockVars, localVars
<1>1. TypeOK /\ pc \in [Workers -> CallPlaces] /\ stamp \in [Workers -> Times]
  BY DEF TypeOK
<1>2. Goto(w, "count") /\ Change(0, 0, 0, 0)
  <2>1. /\ pc[w] = "renew_amount" /\ Goto(w, "count") /\ pc'[w] = "count"
        /\ \A v \in Workers : v # w => stamp'[v] = stamp[v]
    BY <1>1 DEF Goto
  <2>2. Differ(w \in Coming, w \in Coming', 0)
    BY <1>1, <2>1 DEF Coming, Differ, Serving, Locks
  <2>3. /\ Differ("renew_amount" = "admitted", "count" = "admitted", 0)
        /\ Differ("renew_amount" \in Serving, "count" \in Serving, 0)
        /\ Differ("renew_amount" \in DuePlaces, "count" \in DuePlaces, 0)
    BY DEF Differ, Serving, DuePlaces
  <2> QED BY <2>1, <2>2, <2>3, MoveChange
<1>3. Locks'
  BY <1>1, <1>2, CmdAmntCntrlAssumption
     DEF Goto, Locks, StatusPlaces, StatiscsPlaces, TypeOK
<1>4. Counts'
  BY <1>1, <1>2, NumbersNat, CmdAmntCntrlAssumption
     DEF Goto, Counts, Change, Numbers, TypeOK, Locks
<1>5. TypeOK'
  BY <1>1, <1>2, <1>4, SomeDueNext, CmdAmntCntrlAssumption
     DEF Goto, Counts, TypeOK, CallPlaces, Times, AdmittedDue, Numbers
<1>6. Quota'
  <2>1. Taken' = Cardinality(At({"admitted"})') /\ cur_req' = 0
    BY NumbersNat, <1>2 DEF Taken, Numbers, Change
  <2>2. \A v \in Workers : reg'[v] \in Nat
    BY <1>1 DEF TypeOK
  <2> QED BY <1>2, <2>1, <2>2, SomeDueNext, NumbersNat, CmdAmntCntrlAssumption
          DEF Quota, AdmittedDue, Change, Numbers
<1> QED BY <1>3, <1>4, <1>5, <1>6

LEMMA RefuseInv ==
    ASSUME Inv, NEW w \in Workers, Refuse(w)
    PROVE  Inv'
<1> USE DEF Refuse, Leave, Inv, clockVars, curVars, lockVars, localVars
<1>1. TypeOK /\ pc \in [Workers -> CallPlaces] /\ stamp \in [Workers -> Times]
  BY DEF TypeOK
<1>2. Goto(w, "count") /\ Change(0, 0, 0, 0)
  <2>1. /\ pc[w] = "refuse" /\ Goto(w, "count") /\ pc'[w] = "count"
        /\ \A v \in Workers : v # w => stamp'[v] = stamp[v]
    BY <1>1 DEF Goto
  <2>2. Differ(w \in Coming, w \in Coming', 0)
    BY <1>1, <2>1 DEF Coming, Differ, Serving, Locks
  <2>3. /\ Differ("refuse" = "admitted", "count" = "admitted", 0)
        /\ Differ("refuse" \in Serving, "count" \in Serving, 0)
        /\ Differ("refuse" \in DuePlaces, "count" \in DuePlaces, 0)
    BY DEF Differ, Serving, DuePlaces
  <2> QED BY <2>1, <2>2, <2>3, MoveChange
<1>3. Locks'
  BY <1>1, <1>2, CmdAmntCntrlAssumption
     DEF Goto, Locks, StatusPlaces, StatiscsPlaces, TypeOK
<1>4. Counts'
  BY <1>1, <1>2, NumbersNat, CmdAmntCntrlAssumption
     DEF Goto, Counts, Change, Numbers, TypeOK, Locks
<1>5. TypeOK'
  BY <1>1, <1>2, <1>4, SomeDueNext, CmdAmntCntrlAssumption
     DEF Goto, Counts, TypeOK, CallPlaces, Times, AdmittedDue, Numbers
<1>6. Quota'
  BY <1>1, <1>2, NumbersNat, CmdAmntCntrlAssumption
     DEF Goto, Quota, Taken, Clearing, Change, Numbers, TypeOK, Locks,
         StatusPlaces, StatiscsPlaces
<1> QED BY <1>3, <1>4, <1>5, <1>6

LEMMA CountInv ==
    ASSUME Inv, NEW w \in Workers, Count(w)
    PROVE  Inv'
<1> USE DEF Count, Leave, Inv, clockVars, curVars, lockVars, localVars
<1>1. TypeOK /\ pc \in [Workers -> CallPlaces] /\ stamp \in [Workers -> Times]
  BY DEF TypeOK
<1>2. Goto(w, "store") /\ Change(0, -1, 0, -1)
  <2>1. /\ pc[w] = "count" /\ Goto(w, "store") /\ pc'[w] = "store"
        /\ \A v \in Workers : v # w => stamp'[v] = stamp[v]
    BY <1>1 DEF Goto
  <2>2. Differ(w \in Coming, w \in Coming', -1)
    BY <1>1, <2>1 DEF Coming, Differ, Serving, Locks
  <2>3. /\ Differ("count" = "admitted", "store" = "admitted", 0)
        /\ Differ("count" \in Serving, "store" \in Serving, -1)
        /\ Differ("count" \in DuePlaces, "store" \in DuePlaces, 0)
    BY DEF Differ, Serving, DuePlaces
  <2> QED BY <2>1, <2>2, <2>3, MoveChange
<1>3. Locks'
  BY <1>1, <1>2, CmdAmntCntrlAssumption
     DEF Goto, Locks, StatusPlaces, StatiscsPlaces, TypeOK
<1>4. Counts'
  BY <1>1, <1>2, NumbersNat, CmdAmntCntrlAssumption
     DEF Goto, Counts, Change, Numbers, TypeOK, Locks
<1>5. TypeOK'
  BY <1>1, <1>2, <1>4, SomeDueNext, CmdAmntCntrlAssumption
     DEF Goto, Counts, TypeOK, CallPlaces, Times, AdmittedDue, Numbers
<1>6. Quota'
  BY <1>1, <1>2, NumbersNat, CmdAmntCntrlAssumption
     DEF Goto, Quota, Taken, Clearing, Change, Numbers, TypeOK, Locks,
         StatusPlaces, StatiscsPlaces
<1> QED BY <1>3, <1>4, <1>5, <1>6

LEMMA StoreInv ==
    ASSUME Inv, NEW w \in Workers, Store(w)
    PROVE  Inv'
<1> USE DEF Store, Leave, Inv, clockVars, curVars, lockVars, localVars
<1>1. TypeOK /\ pc \in [Workers -> CallPlaces] /\ stamp \in [Workers -> Times]
  BY DEF TypeOK
<1>2. \/ failed[w] /\ Goto(w, "fail") /\ Change(0, 0, -1, 0)
      \/ ~ failed[w] /\ Goto(w, "idle") /\ Change(0, 0, -1, 0)
  <2>1. ASSUME failed[w] PROVE Goto(w, "fail") /\ Change(0, 0, -1, 0)
    <3>1. /\ pc[w] = "store" /\ Goto(w, "fail") /\ pc'[w] = "fail"
          /\ \A v \in Workers : v # w => stamp'[v] = stamp[v]
      BY <1>1, <2>1 DEF Goto
    <3>2. Differ(w \in Coming, w \in Coming', 0)
      BY <1>1, <3>1, <2>1 DEF Coming, Differ, Serving, Locks
    <3>3. /\ Differ("store" = "admitted", "fail" = "admitted", 0)
          /\ Differ("store" \in Serving, "fail" \in Serving, 0)
          /\ Differ("store" \in DuePlaces, "fail" \in DuePlaces, -1)
      BY DEF Differ, Serving, DuePlaces
    <3> QED BY <3>1, <3>2, <3>3, MoveChange, <2>1
  <2>2. ASSUME ~ failed[w] PROVE Goto(w, "idle") /\ Change(0, 0, -1, 0)
    <3>1. /\ pc[w] = "store" /\ Goto(w, "idle") /\ pc'[w] = "idle"
          /\ \A v \in Workers : v # w => stamp'[v] = stamp[v]
      BY <1>1, <2>2 DEF Goto
    <3>2. Differ(w \in Coming, w \in Coming', 0)
      BY <1>1, <3>1, <2>2 DEF Coming, Differ, Serving, Locks
    <3>3. /\ Differ("store" = "admitted", "idle" = "admitted", 0)
          /\ Differ("store" \in Serving, "idle" \in Serving, 0)
          /\ Differ("store" \in DuePlaces, "idle" \in DuePlaces, -1)
      BY DEF Differ, Serving, DuePlaces
    <3> QED BY <3>1, <3>2, <3>3, MoveChange, <2>2
  <2> QED BY <2>1, <2>2
<1>3. Locks'
  BY <1>1, <1>2, CmdAmntCntrlAssumption
     DEF Goto, Locks, StatusPlaces, StatiscsPlaces, TypeOK
<1>4. Counts'
  BY <1>1, <1>2, NumbersNat, CmdAmntCntrlAssumption
     DEF Goto, Counts, Change, Numbers, TypeOK, Locks
<1>5. TypeOK'
  <2>1. cur_req' \in 0 .. MaxReqs
    BY <1>1, <1>4, SomeDueNext, CmdAmntCntrlAssumption
       DEF Counts, TypeOK, AdmittedDue, Numbers
  <2>2. pc' \in [Workers -> CallPlaces] /\ failed' \in [Workers -> BOOLEAN]
    BY <1>1, <1>2 DEF Goto, TypeOK, CallPlaces
  <2>3. reg' \in [Workers -> 0 .. MaxReqs]
    BY <1>1, CmdAmntCntrlAssumption DEF TypeOK
  <2>4. statiscs_lock_' \in Workers \cup {Free}
    BY <1>1 DEF TypeOK
  <2> QED BY <1>1, <2>1, <2>2, <2>3, <2>4 DEF TypeOK
<1>6. Quota'
  BY <1>1, <1>2, NumbersNat, CmdAmntCntrlAssumption
     DEF Goto, Quota, Taken, Clearing, Change, Numbers, TypeOK, Locks,
         StatusPlaces, StatiscsPlaces
<1> QED BY <1>3, <1>4, <1>5, <1>6

LEMMA CountFailInv ==
    ASSUME Inv, NEW w \in Workers, CountFail(w)
    PROVE  Inv'
<1> USE DEF CountFail, Leave, Inv, clockVars, curVars, lockVars, localVars
<1>1. TypeOK /\ pc \in [Workers -> CallPlaces] /\ stamp \in [Workers -> Times]
  BY DEF TypeOK
<1>2. Goto(w, "store_fail") /\ Change(0, 0, 0, 0)
  <2>1. /\ pc[w] = "fail" /\ Goto(w, "store_fail") /\ pc'[w] = "store_fail"
        /\ \A v \in Workers : v # w => stamp'[v] = stamp[v]
    BY <1>1 DEF Goto
  <2>2. Differ(w \in Coming, w \in Coming', 0)
    BY <1>1, <2>1 DEF Coming, Differ, Serving, Locks
  <2>3. /\ Differ("fail" = "admitted", "store_fail" = "admitted", 0)
        /\ Differ("fail" \in Serving, "store_fail" \in Serving, 0)
        /\ Differ("fail" \in DuePlaces, "store_fail" \in DuePlaces, 0)
    BY DEF Differ, Serving, DuePlaces
  <2> QED BY <2>1, <2>2, <2>3, MoveChange
<1>3. Locks'
  BY <1>1, <1>2, CmdAmntCntrlAssumption
     DEF Goto, Locks, StatusPlaces, StatiscsPlaces, TypeOK
<1>4. Counts'
  BY <1>1, <1>2, NumbersNat, CmdAmntCntrlAssumption
     DEF Goto, Counts, Change, Numbers, TypeOK, Locks
<1>5. TypeOK'
  BY <1>1, <1>2, <1>4, SomeDueNext, CmdAmntCntrlAssumption
     DEF Goto, Counts, TypeOK, CallPlaces, Times, AdmittedDue, Numbers
<1>6. Quota'
  BY <1>1, <1>2, NumbersNat, CmdAmntCntrlAssumption
     DEF Goto, Quota, Taken, Clearing, Change, Numbers, TypeOK, Locks,
         StatusPlaces, StatiscsPlaces
<1> QED BY <1>3, <1>4, <1>5, <1>6

LEMMA StoreFailInv ==
    ASSUME Inv, NEW w \in Workers, StoreFail(w)
    PROVE  Inv'
<1> USE DEF StoreFail, Leave, Inv, clockVars, curVars, lockVars, localVars
<1>1. TypeOK /\ pc \in [Workers -> CallPlaces] /\ stamp \in [Workers -> Times]
  BY DEF TypeOK
<1>2. Goto(w, "ratio") /\ Change(0, 0, 0, 0)
  <2>1. /\ pc[w] = "store_fail" /\ Goto(w, "ratio") /\ pc'[w] = "ratio"
        /\ \A v \in Workers : v # w => stamp'[v] = stamp[v]
    BY <1>1 DEF Goto
  <2>2. Differ(w \in Coming, w \in Coming', 0)
    BY <1>1, <2>1 DEF Coming, Differ, Serving, Locks
  <2>3. /\ Differ("store_fail" = "admitted", "ratio" = "admitted", 0)
        /\ Differ("store_fail" \in Serving, "ratio" \in Serving, 0)
        /\ Differ("store_fail" \in DuePlaces, "ratio" \in DuePlaces, 0)
    BY DEF Differ, Serving, DuePlaces
  <2> QED BY <2>1, <2>2, <2>3, MoveChange
<1>3. Locks'
  BY <1>1, <1>2, CmdAmntCntrlAssumption
     DEF Goto, Locks, StatusPlaces, StatiscsPlaces, TypeOK
<1>4. Counts'
  <2>1. /\ cur_fail_req' = reg[w] + 1 /\ reg[w] + 1 <= total_req
        /\ total_req' = total_req /\ cur_req' = cur_req /\ served' = served
    BY DEF Counts
  <2>2. \A v \in Workers : pc'[v] \notin {"store", "fail", "store_fail"}
    BY <1>1, <1>2 DEF Goto, Locks, StatiscsPlaces
  <2> QED BY <1>1, <1>2, <2>1, <2>2, NumbersNat
          DEF Counts, Change, Numbers, TypeOK
<1>5. TypeOK'
  BY <1>1, <1>2, <1>4, SomeDueNext, CmdAmntCntrlAssumption
     DEF Goto, Counts, TypeOK, CallPlaces, Times, AdmittedDue, Numbers
<1>6. Quota'
  BY <1>1, <1>2, NumbersNat, CmdAmntCntrlAssumption
     DEF Goto, Quota, Taken, Clearing, Change, Numbers, TypeOK, Locks,
         StatusPlaces, StatiscsPlaces
<1> QED BY <1>3, <1>4, <1>5, <1>6

LEMMA RatioInv ==
    ASSUME Inv, NEW w \in Workers, Ratio(w)
    PROVE  Inv'
<1> USE DEF Ratio, Leave, Inv, clockVars, curVars, lockVars, localVars
<1>1. TypeOK /\ pc \in [Workers -> CallPlaces] /\ stamp \in [Workers -> Times]
  BY DEF TypeOK
<1>2. \/ /\ ((100 * cur_fail_req) \div cur_req > MaxFailRatio /\ cur_fail_req > FailMin)
         /\ Goto(w, "refuse_fail") /\ Change(0, 0, 0, 0)
      \/ /\ (~ ((100 * cur_fail_req) \div cur_req > MaxFailRatio /\ cur_fail_req > FailMin))
         /\ Goto(w, "idle") /\ Change(0, 0, 0, 0)
  <2>1. ASSUME ((100 * cur_fail_req) \div cur_req > MaxFailRatio /\ cur_fail_req > FailMin)
        PROVE  Goto(w, "refuse_fail") /\ Change(0, 0, 0, 0)
    <3>1. /\ pc[w] = "ratio" /\ Goto(w, "refuse_fail") /\ pc'[w] = "refuse_fail"
          /\ \A v \in Workers : v # w => stamp'[v] = stamp[v]
      BY <1>1, <2>1 DEF Goto
    <3>2. Differ(w \in Coming, w \in Coming', 0)
      BY <1>1, <3>1, <2>1 DEF Coming, Differ, Serving, Locks
    <3>3. /\ Differ("ratio" = "admitted", "refuse_fail" = "admitted", 0)
          /\ Differ("ratio" \in Serving, "refuse_fail" \in Serving, 0)
          /\ Differ("ratio" \in DuePlaces, "refuse_fail" \in DuePlaces, 0)
      BY DEF Differ, Serving, DuePlaces
    <3> QED BY <3>1, <3>2, <3>3, MoveChange, <2>1
  <2>2. ASSUME (~ ((100 * cur_fail_req) \div cur_req > MaxFailRatio /\ cur_fail_req > FailMin))
        PROVE  Goto(w, "idle") /\ Change(0, 0, 0, 0)
    <3>1. /\ pc[w] = "ratio" /\ Goto(w, "idle") /\ pc'[w] = "idle"
          /\ \A v \in Workers : v # w => stamp'[v] = stamp[v]
      BY <1>1, <2>2 DEF Goto
    <3>2. Differ(w \in Coming, w \in Coming', 0)
      BY <1>1, <3>1, <2>2 DEF Coming, Differ, Serving, Locks
    <3>3. /\ Differ("ratio" = "admitted", "idle" = "admitted", 0)
          /\ Differ("ratio" \in Serving, "idle" \in Serving, 0)
          /\ Differ("ratio" \in DuePlaces, "idle" \in DuePlaces, 0)
      BY DEF Differ, Serving, DuePlaces
    <3> QED BY <3>1, <3>2, <3>3, MoveChange, <2>2
  <2> QED BY <2>1, <2>2
<1>3. Locks'
  BY <1>1, <1>2, CmdAmntCntrlAssumption
     DEF Goto, Locks, StatusPlaces, StatiscsPlaces, TypeOK
<1>4. Counts'
  BY <1>1, <1>2, NumbersNat, CmdAmntCntrlAssumption
     DEF Goto, Counts, Change, Numbers, TypeOK, Locks
<1>5. TypeOK'
  BY <1>1, <1>2, <1>4, SomeDueNext, CmdAmntCntrlAssumption
     DEF Goto, Counts, TypeOK, CallPlaces, Times, AdmittedDue, Numbers
<1>6. Quota'
  BY <1>1, <1>2, NumbersNat, CmdAmntCntrlAssumption
     DEF Goto, Quota, Taken, Clearing, Change, Numbers, TypeOK, Locks,
         StatusPlaces, StatiscsPlaces
<1> QED BY <1>3, <1>4, <1>5, <1>6

LEMMA RefuseFailInv ==
    ASSUME Inv, NEW w \in Workers, RefuseFail(w)
    PROVE  Inv'
<1> USE DEF RefuseFail, Leave, Inv, clockVars, curVars, lockVars, localVars
<1>1. TypeOK /\ pc \in [Workers -> CallPlaces] /\ stamp \in [Workers -> Times]
  BY DEF TypeOK
<1>2. Goto(w, "idle") /\ Change(0, 0, 0, 0)
  <2>1. /\ pc[w] = "refuse_fail" /\ Goto(w, "idle") /\ pc'[w] = "idle"
        /\ \A v \in Workers : v # w => stamp'[v] = stamp[v]
    BY <1>1 DEF Goto
  <2>2. Differ(w \in Coming, w \in Coming', 0)
    BY <1>1, <2>1 DEF Coming, Differ, Serving, Locks
  <2>3. /\ Differ("refuse_fail" = "admitted", "idle" = "admitted", 0)
        /\ Differ("refuse_fail" \in Serving, "idle" \in Serving, 0)
        /\ Differ("refuse_fail" \in DuePlaces, "idle" \in DuePlaces, 0)
    BY DEF Differ, Serving, DuePlaces
  <2> QED BY <2>1, <2>2, <2>3, MoveChange
<1>3. Locks'
  BY <1>1, <1>2, CmdAmntCntrlAssumption
     DEF Goto, Locks, StatusPlaces, StatiscsPlaces, TypeOK
<1>4. Counts'
  BY <1>1, <1>2, NumbersNat, CmdAmntCntrlAssumption
     DEF Goto, Counts, Change, Numbers, TypeOK, Locks
<1>5. TypeOK'
  BY <1>1, <1>2, <1>4, SomeDueNext, CmdAmntCntrlAssumption
     DEF Goto, Counts, TypeOK, CallPlaces, Times, AdmittedDue, Numbers
<1>6. Quota'
  BY <1>1, <1>2, NumbersNat, CmdAmntCntrlAssumption
     DEF Goto, Quota, Taken, Clearing, Change, Numbers, TypeOK, Locks,
         StatusPlaces, StatiscsPlaces
<1> QED BY <1>3, <1>4, <1>5, <1>6

(* The administrator's order: a thread that obeys set_status(0) clears the *)
(* counters, any other leaves a status that is not to serve.               *)
LEMMA OrderInv ==
    ASSUME Inv, NEW w \in Workers, NEW s \in 0 .. 2, Order(w, s)
    PROVE  Inv'
<1> USE DEF Order, Inv, curVars
<1>1. TypeOK /\ pc \in [Workers -> CallPlaces] /\ stamp \in [Workers -> Times]
  BY DEF TypeOK
<1>2. CASE s = 0
  <2>1. /\ pc[w] = "idle" /\ Goto(w, "clear_fail") /\ pc'[w] = "clear_fail"
        /\ stamp' = [stamp EXCEPT ![w] = 1] /\ stamp'[w] = 1
        /\ \A v \in Workers : v # w => stamp'[v] = stamp[v] /\ pc'[v] = pc[v]
        /\ status_lock_' = w /\ status' = 0
    BY <1>1, <1>2 DEF Goto
  <2>2. Differ(w \in Coming, w \in Coming', 0)
    BY <1>1, <2>1 DEF Coming, Differ, Serving
  <2>3. /\ Differ("idle" = "admitted", "clear_fail" = "admitted", 0)
        /\ Differ("idle" \in Serving, "clear_fail" \in Serving, 0)
        /\ Differ("idle" \in DuePlaces, "clear_fail" \in DuePlaces, 0)
    BY DEF Differ, Serving, DuePlaces
  <2>4. Change(0, 0, 0, 0)
    BY <1>1, <2>1, <2>2, <2>3, MoveChange
  <2>5. Locks'
    BY <1>1, <2>1, CmdAmntCntrlAssumption
       DEF Locks, StatusPlaces, StatiscsPlaces, TypeOK
  <2>6. Counts'
    BY <1>1, <2>1, <2>4, NumbersNat DEF Counts, Change, Numbers, TypeOK
  <2>7. TypeOK'
    <3>1. stamp' \in [Workers -> Times]
      BY <1>1, <2>1, CmdAmntCntrlAssumption DEF Times
    <3>2. pc' \in [Workers -> CallPlaces]
      BY <1>1, <2>1 DEF Goto, CallPlaces
    <3>3. orders' \in 0 .. MaxOrders
      BY <1>1, CmdAmntCntrlAssumption DEF TypeOK
    <3> QED BY <1>1, <2>1, <3>1, <3>2, <3>3 DEF TypeOK
  <2>8. Quota'
    <3>1. Taken' = Taken /\ Clearing'
      BY <2>1, <2>4, NumbersNat DEF Taken, Change, Numbers, Clearing
    <3> QED BY <3>1 DEF Quota
  <2> QED BY <2>5, <2>6, <2>7, <2>8
<1>3. CASE s # 0
  <2>1. pc' = pc /\ stamp' = stamp /\ status_lock_' = status_lock_
    BY <1>3
  <2>2. \A v \in Workers : pc[v] # "renew"
    BY CmdAmntCntrlAssumption DEF Locks, StatusPlaces
  <2>3. Locks'
    BY <2>1, <2>2 DEF Locks
  <2>4. Counts'
    BY <2>1 DEF Counts, Coming, At
  <2>5. TypeOK'
    BY <1>1, <2>1, CmdAmntCntrlAssumption DEF TypeOK
  <2>6. Quota'
    BY <1>3, <2>1 DEF Quota, Taken, At
  <2> QED BY <2>3, <2>4, <2>5, <2>6
<1> QED BY <1>2, <1>3

(* Steps that are not a thread's, or change nothing the invariant reads.   *)
LEMMA StandStill ==
    ASSUME Inv, clock' \in Times, crashed' \in BOOLEAN,
           UNCHANGED <<time_now_, time_start, status, curVars, total_req,
                       lockVars, pc, localVars, orders, served>>
    PROVE  Inv'
BY DEF Inv, TypeOK, Locks, Counts, Quota, Coming, At, Taken, Due, Clearing,
       curVars, lockVars, localVars

-----------------------------------------------------------------------------
(* The invariant.                                                          *)

LEMMA InitInv == Init => Inv
<1> SUFFICES ASSUME Init PROVE Inv
  OBVIOUS
<1>1. \A w \in Workers : pc[w] = "idle" /\ stamp[w] = 0
  BY DEF Init
<1>2. TypeOK
  <2>1. StartTime \in Times /\ 0 \in Times
    BY CmdAmntCntrlAssumption DEF Times
  <2>2. 0 \in 0 .. MaxReqs /\ 0 \in 0 .. MaxOrders
    BY CmdAmntCntrlAssumption
  <2>3. pc \in [Workers -> CallPlaces] /\ stamp \in [Workers -> Times]
    BY <2>1 DEF Init, CallPlaces
  <2>4. reg \in [Workers -> 0 .. MaxReqs] /\ failed \in [Workers -> BOOLEAN]
    BY <2>2 DEF Init
  <2>5. /\ clock \in Times /\ time_now_ \in Times /\ time_start \in Times
        /\ status \in 0 .. 2
        /\ cur_req \in 0 .. MaxReqs /\ cur_fail_req \in 0 .. MaxReqs
        /\ total_req \in 0 .. MaxReqs /\ served \in 0 .. MaxReqs
        /\ orders \in 0 .. MaxOrders
    <3>1. /\ clock = StartTime /\ time_now_ = StartTime /\ time_start = 0
          /\ status = 0 /\ cur_req = 0 /\ cur_fail_req = 0 /\ total_req = 0
          /\ orders = 0 /\ served = 0
      BY DEF Init
    <3> QED BY <2>1, <2>2, <3>1
  <2>6. status_lock_ = Free /\ statiscs_lock_ = Free /\ crashed \in BOOLEAN
    BY DEF Init
  <2> QED BY <2>3, <2>4, <2>5, <2>6 DEF TypeOK
<1>3. Locks
  BY <1>1, CmdAmntCntrlAssumption DEF Init, Locks, StatusPlaces, StatiscsPlaces
<1>4. Coming = {} /\ At(Serving) = {} /\ At({"admitted"}) = {}
  BY <1>1 DEF Coming, At, Serving
<1>5. Cardinality({}) = 0
  BY FS_EmptySet
<1>6. Counts
  BY <1>1, <1>4, <1>5, CmdAmntCntrlAssumption DEF Init, Counts
<1>7. Taken = 0
  BY <1>4, <1>5 DEF Init, Taken
<1>8. Quota
  BY <1>1, <1>7, NumbersNat, CmdAmntCntrlAssumption DEF Init, Quota, Numbers
<1> QED BY <1>2, <1>3, <1>6, <1>8 DEF Inv

LEMMA CallInv ==
    ASSUME Inv, NEW w \in Workers, Call(w)
    PROVE  Inv'
<1>1. CASE SetTime(w) \/ GetStatus(w) \/ Renew(w) \/ ClearFail(w)
  BY <1>1, SetTimeInv, GetStatusInv, RenewInv, ClearFailInv
<1>2. CASE ClearReq(w) \/ Discard(w) \/ Serve(w)
  BY <1>2, ClearReqInv, DiscardInv, ServeInv
<1>3. CASE \E fail \in BOOLEAN : Return(w, fail)
  BY <1>3, ReturnInv
<1>4. CASE AmountInc(w) \/ RenewAmount(w) \/ Refuse(w) \/ Count(w)
  BY <1>4, AmountIncInv, RenewAmountInv, RefuseInv, CountInv
<1>5. CASE Store(w) \/ CountFail(w) \/ StoreFail(w)
  BY <1>5, StoreInv, CountFailInv, StoreFailInv
<1>6. CASE Ratio(w) \/ RefuseFail(w)
  BY <1>6, RatioInv, RefuseFailInv
<1>7. CASE DivideByZero(w)
  <2>1. clock' \in Times /\ crashed' \in BOOLEAN
    BY <1>7 DEF DivideByZero, Inv, TypeOK, clockVars
  <2> QED BY <1>7, <2>1, StandStill DEF DivideByZero, clockVars
<1> QED BY <1>1, <1>2, <1>3, <1>4, <1>5, <1>6, <1>7 DEF Call

LEMMA NextInv == Inv /\ [Next]_vars => Inv'
<1> SUFFICES ASSUME Inv, [Next]_vars PROVE Inv'
  OBVIOUS
<1>1. CASE Tick
  <2>1. clock' \in Times /\ crashed' \in BOOLEAN
    BY <1>1, CmdAmntCntrlAssumption DEF Tick, Inv, TypeOK, Times
  <2> QED BY <1>1, <2>1, StandStill DEF Tick
<1>2. ASSUME NEW w \in Workers, Check(w) \/ Call(w) PROVE Inv'
  BY <1>2, CheckInv, CallInv
<1>3. ASSUME NEW w \in Workers, NEW s \in 0 .. 2, Order(w, s) PROVE Inv'
  BY <1>3, OrderInv
<1>4. CASE UNCHANGED vars
  <2>1. clock' \in Times /\ crashed' \in BOOLEAN
    BY <1>4 DEF vars, Inv, TypeOK
  <2> QED BY <1>4, <2>1, StandStill DEF vars, curVars, lockVars, localVars
<1> QED BY <1>1, <1>2, <1>3, <1>4 DEF Next, Worker

LEMMA AlwaysInv == Spec => []Inv
BY InitInv, NextInv, PTL DEF Spec

(* The variables of a command's flow control take the values they are      *)
(* meant to, in every state the threads of get_status, amount_inc and      *)
(* set_status reach.                                                       *)
THEOREM FlowTypeCorrect == Spec => []TypeOK
<1>1. Inv => TypeOK
  BY DEF Inv
<1> QED BY <1>1, AlwaysInv, PTL

(* However get_status, under one lock, and amount_inc, under the other,    *)
(* clear and increment the counters of the period, it never serves more    *)
(* requests than max_req_limit and one for each thread.                    *)
THEOREM FlowServedBounded == Spec => []ServedBounded
<1>1. Inv => ServedBounded
  <2> SUFFICES ASSUME Inv PROVE ServedBounded
    OBVIOUS
  <2>1. served \in Nat /\ MaxReqLimit \in Nat
    BY CmdAmntCntrlAssumption DEF Inv, TypeOK
  <2>2. served <= Taken
    BY <2>1, NumbersNat DEF Taken, Numbers
  <2>3. Taken <= MaxReqLimit + Cardinality(Workers) /\ Taken \in Nat
    BY <2>1, NumbersNat DEF Inv, Quota, Taken, Numbers
  <2> QED BY <2>1, <2>2, <2>3, NumbersNat DEF ServedBounded, Numbers
<1> QED BY <1>1, AlwaysInv, PTL

=============================================================================
