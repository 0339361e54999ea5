-------------------------- MODULE IBCMgrSvc_proofs ---------------------------
(***************************************************************************)
(* Proofs about IBCMgrSvc.  Tables and histories are first looked at by    *)
(* themselves: Sound says of a table and a history that every batch is     *)
(* counted as it should be, and is kept by evicting a batch, merging a     *)
(* result and finishing a batch.  The invariant, Inv, adds where the       *)
(* sub-requests are.                                                       *)
(***************************************************************************)
EXTENDS IBCMgrSvc, QueueFacts, FiniteSetTheorems, TLAPS

NatRecord == [cnum : Nat, snum : Nat]
NatHistory == [lost : Nat, merged : Nat, good : Nat, told : Nat,
               toldGood : Nat, parts : Nat, full : Nat, nomem : BOOLEAN]

(* What table tab has counted of a batch.                                  *)
KeptIn(tab, b) == IF b \in DOMAIN tab THEN tab[b] ELSE NewRecord

(* A batch is counted once (CountedOnce), a complete answer is its only    *)
(* one (FullIsOnly); moreover, a record has counted something, so that     *)
(* every answer tells something.                                           *)
SoundBatch(tab, h, b) ==
    /\ h[b].told + KeptIn(tab, b).cnum = h[b].merged
    /\ h[b].toldGood + KeptIn(tab, b).snum = h[b].good
    /\ h[b].good <= h[b].merged
    /\ h[b].parts + h[b].full <= h[b].told
    /\ b \in DOMAIN tab => tab[b].cnum >= 1
    /\ h[b].full > 0 => /\ h[b].full = 1
                        /\ h[b].parts = 0
                        /\ h[b].told = Total
                        /\ b \notin DOMAIN tab

Sound(tab, h) ==
    /\ DOMAIN tab \subseteq Batches
    /\ tab \in [DOMAIN tab -> NatRecord]
    /\ h \in [Batches -> NatHistory]
    /\ \A b \in Batches : SoundBatch(tab, h, b)

ThreadsOK ==
    /\ left \in [Batches -> Nat]
    /\ queue \in Seq(Batches)
    /\ Len(queue) <= QueCap
    /\ pc \in [Threads -> {"idle", "process", "merge"}]
    /\ req \in [Threads -> Batches \cup {0}]
    /\ ok \in [Threads -> BOOLEAN]
    /\ \A t \in Threads : req[t] = 0 <=> pc[t] = "idle"

Inv == ThreadsOK /\ Sound(table, hist) /\ AllAccounted /\ TableBounded

-----------------------------------------------------------------------------
(* Tables and histories.                                                   *)

LEMMA BatchesNat == Batches \subseteq Nat \ {0} /\ IsFiniteSet(Batches)
BY IBCMgrSvcAssumption, FS_Interval DEF Batches

LEMMA NewRecordType == NewRecord \in NatRecord /\ NewRecord.cnum = 0 /\ NewRecord.snum = 0
BY DEF NewRecord, NatRecord

(* What an answer changes in the history of its batch.                     *)
LEMMA TellFields ==
    ASSUME NEW h \in [Batches -> NatHistory], NEW b \in Batches,
           NEW r \in NatRecord, NEW kind \in {"part", "full"}
    PROVE  LET h2 == Tell(h, b, r, kind)
           IN  /\ h2 \in [Batches -> NatHistory]
               /\ \A c \in Batches \ {b} : h2[c] = h[c]
               /\ h2[b].told = h[b].told + r.cnum
               /\ h2[b].toldGood = h[b].toldGood + r.snum
               /\ h2[b].parts = h[b].parts + (IF kind = "part" THEN 1 ELSE 0)
               /\ h2[b].full = h[b].full + (IF kind = "full" THEN 1 ELSE 0)
               /\ h2[b].merged = h[b].merged
               /\ h2[b].good = h[b].good
               /\ h2[b].lost = h[b].lost
<1> DEFINE told == h[b].told + r.cnum
           toldGood == h[b].toldGood + r.snum
           parts == h[b].parts + (IF kind = "part" THEN 1 ELSE 0)
           full == h[b].full + (IF kind = "full" THEN 1 ELSE 0)
           n == [h[b] EXCEPT !.told = told, !.toldGood = toldGood,
                             !.parts = parts, !.full = full]
<1>1. h[b] \in NatHistory
  OBVIOUS
<1>2. told \in Nat /\ toldGood \in Nat /\ parts \in Nat /\ full \in Nat
  BY <1>1 DEF NatHistory, NatRecord
<1>3. Tell(h, b, r, kind) = [h EXCEPT ![b] = n]
  BY <1>1, Zenon DEF Tell, NatHistory
<1> HIDE DEF told, toldGood, parts, full
<1>4. /\ n \in NatHistory
      /\ n.told = told /\ n.toldGood = toldGood
      /\ n.parts = parts /\ n.full = full
      /\ n.merged = h[b].merged /\ n.good = h[b].good /\ n.lost = h[b].lost
  BY <1>1, <1>2 DEF NatHistory
<1> HIDE DEF n
<1>5. /\ [h EXCEPT ![b] = n] \in [Batches -> NatHistory]
      /\ \A c \in Batches \ {b} : [h EXCEPT ![b] = n][c] = h[c]
      /\ [h EXCEPT ![b] = n][b] = n
  BY <1>4
<1> QED BY <1>3, <1>4, <1>5 DEF told, toldGood, parts, full

(* Evicting a batch that has a record: what the record says is told.       *)
LEMMA EvictSound ==
    ASSUME NEW tab, NEW h, Sound(tab, h), NEW o \in DOMAIN tab
    PROVE  LET h2 == Tell(h, o, tab[o], "part")
           IN  /\ Sound(Erase(tab, o), h2)
               /\ \A b \in Batches : /\ h2[b].merged = h[b].merged
                                     /\ h2[b].lost = h[b].lost
<1> DEFINE h2 == Tell(h, o, tab[o], "part")
           tab2 == Erase(tab, o)
<1>1. /\ o \in Batches
      /\ tab[o] \in NatRecord
      /\ h \in [Batches -> NatHistory]
  BY DEF Sound
<1>2. /\ h2 \in [Batches -> NatHistory]
      /\ \A b \in Batches \ {o} : h2[b] = h[b]
      /\ h2[o].told = h[o].told + tab[o].cnum
      /\ h2[o].toldGood = h[o].toldGood + tab[o].snum
      /\ h2[o].parts = h[o].parts + 1
      /\ h2[o].full = h[o].full
      /\ h2[o].merged = h[o].merged
      /\ h2[o].good = h[o].good
      /\ h2[o].lost = h[o].lost
  BY <1>1, TellFields DEF NatHistory
<1>3. /\ DOMAIN tab2 = DOMAIN tab \ {o}
      /\ \A b \in DOMAIN tab2 : tab2[b] = tab[b]
      /\ tab2 \in [DOMAIN tab2 -> NatRecord]
  BY DEF Erase, Sound
<1> HIDE DEF h2, tab2
<1>4. ASSUME NEW b \in Batches PROVE SoundBatch(tab2, h2, b)
  <2>1. SoundBatch(tab, h, b)
    BY DEF Sound
  <2>2. CASE b # o
    <3>1. KeptIn(tab2, b) = KeptIn(tab, b) /\ h2[b] = h[b]
      BY <1>2, <1>3, <2>2 DEF KeptIn
    <3> QED BY <1>3, <2>1, <2>2, <3>1 DEF SoundBatch
  <2>3. CASE b = o
    <3>1. KeptIn(tab2, o) = NewRecord /\ KeptIn(tab, o) = tab[o] /\ o \notin DOMAIN tab2
      BY <1>3 DEF KeptIn
    <3>2. h[o] \in NatHistory
      BY <1>1
    <3> QED BY <1>1, <1>2, <2>1, <2>3, <3>1, <3>2, NewRecordType
            DEF SoundBatch, NatHistory, NatRecord
  <2> QED BY <2>2, <2>3
<1>5. Sound(tab2, h2)
  BY <1>2, <1>3, <1>4 DEF Sound
<1>6. \A b \in Batches : h2[b].merged = h[b].merged /\ h2[b].lost = h[b].lost
  BY <1>2
<1> QED BY <1>5, <1>6 DEF h2, tab2

(* Merging a result of a batch of which not all results are merged.        *)
LEMMA MergeSound ==
    ASSUME NEW tab, NEW h, Sound(tab, h), NEW b \in Batches,
           h[b].merged < Total, NEW good \in BOOLEAN,
           NEW r, r = [cnum |-> KeptIn(tab, b).cnum + 1,
                       snum |-> KeptIn(tab, b).snum + (IF good THEN 1 ELSE 0)]
    PROVE  LET h2 == MergedHist(h, b, good)
           IN  /\ Sound(With(tab, b, r), h2)
               /\ h2[b].merged = h[b].merged + 1
               /\ h2[b].lost = h[b].lost
               /\ \A c \in Batches \ {b} : h2[c] = h[c]
<1> DEFINE h2 == MergedHist(h, b, good)
           tab2 == With(tab, b, r)
<1>1. /\ h \in [Batches -> NatHistory]
      /\ h[b] \in NatHistory
      /\ KeptIn(tab, b) \in NatRecord
      /\ r \in NatRecord
      /\ r.cnum = KeptIn(tab, b).cnum + 1
      /\ r.snum = KeptIn(tab, b).snum + (IF good THEN 1 ELSE 0)
  <2>1. h \in [Batches -> NatHistory] /\ KeptIn(tab, b) \in NatRecord
    BY NewRecordType DEF Sound, KeptIn
  <2> QED BY <2>1 DEF NatRecord
<1>2. /\ h2 \in [Batches -> NatHistory]
      /\ \A c \in Batches \ {b} : h2[c] = h[c]
      /\ h2[b].told = h[b].told
      /\ h2[b].toldGood = h[b].toldGood
      /\ h2[b].parts = h[b].parts
      /\ h2[b].full = h[b].full
      /\ h2[b].lost = h[b].lost
      /\ h2[b].merged = h[b].merged + 1
      /\ h2[b].good = h[b].good + (IF good THEN 1 ELSE 0)
  <2> DEFINE g == h[b].good + (IF good THEN 1 ELSE 0)
             n == [h[b] EXCEPT !.merged = h[b].merged + 1, !.good = g]
  <2>1. h[b].merged + 1 \in Nat /\ g \in Nat
    BY <1>1 DEF NatHistory
  <2>2. h2 = [h EXCEPT ![b] = n]
    BY <1>1 DEF MergedHist, NatHistory
  <2>3. /\ n \in NatHistory
        /\ n.told = h[b].told
        /\ n.toldGood = h[b].toldGood
        /\ n.parts = h[b].parts
        /\ n.full = h[b].full
        /\ n.lost = h[b].lost
        /\ n.merged = h[b].merged + 1
        /\ n.good = g
    <3> HIDE DEF g
    <3> QED BY <1>1, <2>1 DEF NatHistory
  <2> HIDE DEF n, h2
  <2> QED BY <1>1, <2>2, <2>3
<1>3. /\ DOMAIN tab2 = DOMAIN tab \cup {b}
      /\ tab2[b] = r
      /\ \A c \in DOMAIN tab \ {b} : tab2[c] = tab[c]
      /\ tab2 \in [DOMAIN tab2 -> NatRecord]
      /\ DOMAIN tab2 \subseteq Batches
  BY <1>1 DEF With, Sound
<1> HIDE DEF h2, tab2
<1>4. ASSUME NEW c \in Batches PROVE SoundBatch(tab2, h2, c)
  <2>1. SoundBatch(tab, h, c)
    BY DEF Sound
  <2>2. CASE c # b
    <3>1. /\ KeptIn(tab2, c) = KeptIn(tab, c)
          /\ h2[c] = h[c]
          /\ c \in DOMAIN tab2 <=> c \in DOMAIN tab
          /\ c \in DOMAIN tab => tab2[c] = tab[c]
      BY <1>2, <1>3, <2>2 DEF KeptIn
    <3> QED BY <2>1, <3>1 DEF SoundBatch
  <2>3. CASE c = b
    <3>1. KeptIn(tab2, b) = r /\ tab2[b] = r
      BY <1>3 DEF KeptIn
    <3>2. h[b].full = 0
      BY <1>1, <2>1, <2>3, IBCMgrSvcAssumption
         DEF SoundBatch, NatHistory, NatRecord
    <3> QED BY <1>1, <1>2, <2>1, <2>3, <3>1, <3>2
            DEF SoundBatch, NatHistory, NatRecord
  <2> QED BY <2>2, <2>3
<1>5. Sound(tab2, h2)
  BY <1>2, <1>3, <1>4 DEF Sound
<1> QED BY <1>2, <1>5 DEF h2, tab2

(* Finishing a batch whose record counts all results: it has not been told *)
(* anything before.                                                        *)
LEMMA FinishSound ==
    ASSUME NEW tab, NEW h, Sound(tab, h), NEW b \in DOMAIN tab,
           h[b].merged <= Total, Complete(tab[b])
    PROVE  LET h2 == Tell(h, b, tab[b], "full")
           IN  /\ Sound(Erase(tab, b), h2)
               /\ \A c \in Batches : /\ h2[c].merged = h[c].merged
                                     /\ h2[c].lost = h[c].lost
<1> DEFINE h2 == Tell(h, b, tab[b], "full")
           tab2 == Erase(tab, b)
<1>1. /\ b \in Batches
      /\ tab[b] \in NatRecord
      /\ h \in [Batches -> NatHistory]
      /\ h[b] \in NatHistory
  BY DEF Sound
<1>2. /\ h2 \in [Batches -> NatHistory]
      /\ \A c \in Batches \ {b} : h2[c] = h[c]
      /\ h2[b].told = h[b].told + tab[b].cnum
      /\ h2[b].toldGood = h[b].toldGood + tab[b].snum
      /\ h2[b].parts = h[b].parts
      /\ h2[b].full = h[b].full + 1
      /\ h2[b].merged = h[b].merged
      /\ h2[b].good = h[b].good
      /\ h2[b].lost = h[b].lost
  BY <1>1, TellFields DEF NatHistory
<1>3. /\ DOMAIN tab2 = DOMAIN tab \ {b}
      /\ \A c \in DOMAIN tab2 : tab2[c] = tab[c]
      /\ tab2 \in [DOMAIN tab2 -> NatRecord]
  BY DEF Erase, Sound
<1> HIDE DEF h2, tab2
<1>4. ASSUME NEW c \in Batches PROVE SoundBatch(tab2, h2, c)
  <2>1. SoundBatch(tab, h, c)
    BY DEF Sound
  <2>2. CASE c # b
    <3>1. KeptIn(tab2, c) = KeptIn(tab, c) /\ h2[c] = h[c]
      BY <1>2, <1>3, <2>2 DEF KeptIn
    <3> QED BY <1>3, <2>1, <2>2, <3>1 DEF SoundBatch
  <2>3. CASE c = b
    <3>1. KeptIn(tab2, b) = NewRecord /\ KeptIn(tab, b) = tab[b] /\ b \notin DOMAIN tab2
      BY <1>3 DEF KeptIn
    <3>2. h[b].told = 0 /\ tab[b].cnum = Total /\ h[b].parts = 0 /\ h[b].full = 0
      BY <1>1, <2>1, <2>3, <3>1, IBCMgrSvcAssumption
         DEF SoundBatch, NatHistory, NatRecord, Complete
    <3> QED BY <1>1, <1>2, <2>1, <2>3, <3>1, <3>2, NewRecordType,
               IBCMgrSvcAssumption
            DEF SoundBatch, NatHistory, NatRecord
  <2> QED BY <2>2, <2>3
<1>5. Sound(tab2, h2)
  BY <1>2, <1>3, <1>4 DEF Sound
<1>6. \A c \in Batches : h2[c].merged = h[c].merged /\ h2[c].lost = h[c].lost
  BY <1>2
<1> QED BY <1>5, <1>6 DEF h2, tab2

-----------------------------------------------------------------------------
(* The table has room: the oldest batch, if one has to go, is another one. *)

LEMMA OldestIsLeast ==
    ASSUME DOMAIN table \subseteq Batches, DOMAIN table # {}
    PROVE  /\ Oldest \in DOMAIN table
           /\ \A c \in DOMAIN table : Oldest <= c
<1>1. \E b \in DOMAIN table : \A c \in DOMAIN table : b <= c
  BY BatchesNat, LeastNatural
<1> QED BY <1>1 DEF Oldest

LEMMA TableFinite ==
    ASSUME Sound(table, hist)
    PROVE  /\ IsFiniteSet(DOMAIN table)
           /\ Cardinality(DOMAIN table) \in Nat
BY BatchesNat, FS_Subset, FS_CardinalityType DEF Sound

LEMMA TooManyHasOldest ==
    ASSUME Sound(table, hist), NEW b \in Batches, TooMany(b)
    PROVE  /\ Oldest \in DOMAIN table
           /\ Oldest # b
           /\ \A c \in DOMAIN table : Oldest <= c
<1>1. Cardinality(DOMAIN table) > 0
  BY TableFinite, IBCMgrSvcAssumption DEF TooMany
<1>2. DOMAIN table # {}
  BY <1>1, FS_EmptySet
<1> QED BY <1>2, OldestIsLeast DEF TooMany, Sound

LEMMA RoomSound ==
    ASSUME Sound(table, hist), TableBounded, NEW b \in Batches
    PROVE  /\ Sound(Room(b), RoomHist(b))
           /\ \A c \in Batches : /\ RoomHist(b)[c].merged = hist[c].merged
                                 /\ RoomHist(b)[c].lost = hist[c].lost
           /\ KeptIn(Room(b), b) = KeptIn(table, b)
           /\ IsFiniteSet(DOMAIN Room(b) \cup {b})
           /\ Cardinality(DOMAIN Room(b) \cup {b}) <= MaxRecords + 1
<1>1. MaxRecords \in Nat
  BY IBCMgrSvcAssumption
<1>2. CASE TooMany(b)
  <2>1. Oldest \in DOMAIN table /\ Oldest # b
    BY <1>2, TooManyHasOldest
  <2>2. /\ Room(b) = Erase(table, Oldest)
        /\ RoomHist(b) = Tell(hist, Oldest, table[Oldest], "part")
    BY <1>2 DEF Room, RoomHist
  <2>3. DOMAIN Room(b) = DOMAIN table \ {Oldest} /\ b \notin DOMAIN table
    BY <1>2, <2>2 DEF Erase, TooMany
  <2>4. /\ IsFiniteSet(DOMAIN Room(b))
        /\ Cardinality(DOMAIN Room(b)) = Cardinality(DOMAIN table) - 1
    BY <2>1, <2>3, TableFinite, FS_RemoveElement
  <2>5. /\ IsFiniteSet(DOMAIN Room(b) \cup {b})
        /\ Cardinality(DOMAIN Room(b) \cup {b}) = Cardinality(DOMAIN table)
    BY <2>3, <2>4, TableFinite, FS_AddElement
  <2>6. KeptIn(Room(b), b) = KeptIn(table, b)
    BY <2>3 DEF KeptIn
  <2> QED BY <2>1, <2>2, <2>5, <2>6, EvictSound DEF TableBounded
<1>3. CASE ~TooMany(b)
  <2>1. Room(b) = table /\ RoomHist(b) = hist
    BY <1>3 DEF Room, RoomHist
  <2>2. b \in DOMAIN table \/ Cardinality(DOMAIN table) <= MaxRecords
    BY <1>1, <1>3, TableFinite DEF TooMany
  <2>3. /\ IsFiniteSet(DOMAIN table \cup {b})
        /\ Cardinality(DOMAIN table \cup {b}) =
             IF b \in DOMAIN table THEN Cardinality(DOMAIN table)
                                   ELSE Cardinality(DOMAIN table) + 1
    BY TableFinite, FS_AddElement
  <2> QED BY <1>1, <2>1, <2>2, <2>3, TableFinite DEF TableBounded
<1> QED BY <1>2, <1>3

-----------------------------------------------------------------------------
(* Where the sub-requests of a batch are.                                  *)

LEMMA HavingFinite ==
    ASSUME NEW b
    PROVE  IsFiniteSet(Having(b)) /\ Cardinality(Having(b)) \in Nat
BY IBCMgrSvcAssumption, FS_Subset, FS_CardinalityType DEF Having

LEMMA QueuedPlaces ==
    ASSUME NEW b
    PROVE  Queued(b) = Places(queue, b) /\ Queued(b)' = Places(queue', b)
BY DEF Queued, Places

LEMMA QueuedFinite ==
    ASSUME ThreadsOK, NEW b
    PROVE  Cardinality(Queued(b)) \in Nat
<1>1. queue \in Seq(Batches)
  BY DEF ThreadsOK
<1>2. Cardinality(Places(queue, b)) \in Nat
  BY <1>1, PlacesFinite
<1> QED BY <1>2, QueuedPlaces

(* A thread gets a sub-request ...                                         *)
LEMMA HavingStarts ==
    ASSUME NEW t \in Threads, NEW b \in Batches, ThreadsOK, req[t] = 0,
           req' = [req EXCEPT ![t] = b], NEW c \in Batches
    PROVE  Cardinality(Having(c)') =
             Cardinality(Having(c)) + (IF c = b THEN 1 ELSE 0)
<1>1. CASE c = b
  <2>1. Having(b)' = Having(b) \cup {t} /\ t \notin Having(b)
    BY BatchesNat DEF Having, ThreadsOK
  <2> QED BY <1>1, <2>1, HavingFinite, FS_AddElement
<1>2. CASE c # b
  <2>1. Having(c)' = Having(c)
    BY <1>2, BatchesNat DEF Having, ThreadsOK
  <2> QED BY <1>2, <2>1, HavingFinite
<1> QED BY <1>1, <1>2

(* ... and is done with it.                                                *)
LEMMA HavingStops ==
    ASSUME NEW t \in Threads, NEW b \in Batches, ThreadsOK, req[t] = b,
           req' = [req EXCEPT ![t] = 0], NEW c \in Batches
    PROVE  Cardinality(Having(c)') =
             Cardinality(Having(c)) - (IF c = b THEN 1 ELSE 0)
<1>1. CASE c = b
  <2>1. Having(b)' = Having(b) \ {t} /\ t \in Having(b)
    BY BatchesNat DEF Having, ThreadsOK
  <2> QED BY <1>1, <2>1, HavingFinite, FS_RemoveElement
<1>2. CASE c # b
  <2>1. Having(c)' = Having(c)
    BY <1>2, BatchesNat DEF Having, ThreadsOK
  <2> QED BY <1>2, <2>1, HavingFinite
<1> QED BY <1>1, <1>2

(* Merging a result tells nobody anything.                                 *)
LEMMA MergedParts ==
    ASSUME NEW h \in [Batches -> NatHistory], NEW b \in Batches, NEW good
    PROVE  LET h2 == MergedHist(h, b, good)
           IN  /\ h2 \in [Batches -> NatHistory]
               /\ \A c \in Batches : h2[c].parts = h[c].parts
               /\ \A c \in Batches \ {b} : h2[c].merged = h[c].merged
               /\ h2[b].merged = h[b].merged + 1
<1> DEFINE g == h[b].good + (IF good THEN 1 ELSE 0)
           n == [h[b] EXCEPT !.merged = h[b].merged + 1, !.good = g]
<1>1. h[b].merged + 1 \in Nat /\ g \in Nat /\ h[b] \in NatHistory
  BY DEF NatHistory
<1>2. MergedHist(h, b, good) = [h EXCEPT ![b] = n]
  BY <1>1 DEF MergedHist, NatHistory
<1>3. n \in NatHistory /\ n.parts = h[b].parts /\ n.merged = h[b].merged + 1
  <2> HIDE DEF g
  <2> QED BY <1>1 DEF NatHistory
<1> HIDE DEF n
<1> QED BY <1>2, <1>3

(* A batch of which a thread has a sub-request is not complete.            *)
LEMMA HasMoreToMerge ==
    ASSUME Inv, NEW t \in Threads, pc[t] # "idle"
    PROVE  /\ req[t] \in Batches
           /\ hist[req[t]] \in NatHistory
           /\ hist[req[t]].merged < Total
<1> DEFINE b == req[t]
<1>1. b \in Batches /\ hist[b] \in NatHistory /\ left[b] \in Nat
  BY DEF Inv, ThreadsOK, Sound
<1>2. t \in Having(b)
  BY DEF Having
<1>3. Cardinality(Having(b)) >= 1
  BY <1>2, HavingFinite, FS_EmptySet
<1>4. left[b] + Cardinality(Queued(b)) + Cardinality(Having(b))
        + hist[b].merged + hist[b].lost = Total
  BY <1>1 DEF Inv, AllAccounted
<1>5. Cardinality(Queued(b)) \in Nat /\ Cardinality(Having(b)) \in Nat
  BY HavingFinite, QueuedFinite DEF Inv
<1>6. hist[b].merged \in Nat /\ hist[b].lost \in Nat
  BY <1>1 DEF NatHistory
<1> HIDE DEF b
<1>7. hist[b].merged < Total
  BY <1>1, <1>3, <1>4, <1>5, <1>6, IBCMgrSvcAssumption
<1> QED BY <1>1, <1>7 DEF b

-----------------------------------------------------------------------------
LEMMA InitInv == Init => Inv
<1> SUFFICES ASSUME Init PROVE Inv
  OBVIOUS
<1> USE IBCMgrSvcAssumption DEF Init
<1>1. ThreadsOK
  BY DEF ThreadsOK
<1>2. Sound(table, hist)
  <2>1. NoHistory \in NatHistory
    BY DEF NoHistory, NatHistory
  <2>2. table \in [DOMAIN table -> NatRecord] /\ DOMAIN table = {}
    OBVIOUS
  <2>3. \A b \in Batches : SoundBatch(table, hist, b)
    BY <2>2 DEF SoundBatch, KeptIn, NoHistory, NewRecord
  <2> QED BY <2>1, <2>2, <2>3 DEF Sound
<1>3. AllAccounted
  <2> SUFFICES ASSUME NEW b \in Batches
               PROVE  left[b] + Cardinality(Queued(b)) + Cardinality(Having(b))
                        + hist[b].merged + hist[b].lost = Total
    BY DEF AllAccounted
  <2>1. Queued(b) = {} /\ Having(b) = {}
    BY BatchesNat DEF Queued, Having
  <2> QED BY <2>1, FS_EmptySet DEF NoHistory
<1>4. TableBounded
  BY FS_EmptySet DEF TableBounded
<1> QED BY <1>1, <1>2, <1>3, <1>4 DEF Inv

(* One more of a batch is lost: no record changes.                         *)
LEMMA LoseSound ==
    ASSUME Sound(table, hist), NEW b \in Batches,
           hist' = [hist EXCEPT ![b].lost = @ + 1], UNCHANGED table
    PROVE  /\ Sound(table, hist)'
           /\ \A c \in Batches : hist'[c].merged = hist[c].merged
           /\ \A c \in Batches :
                hist'[c].lost = hist[c].lost + (IF c = b THEN 1 ELSE 0)
<1>1. hist \in [Batches -> NatHistory]
  BY DEF Sound
<1>2. \A c \in Batches :
        /\ hist'[c] \in NatHistory
        /\ hist'[c].lost = hist[c].lost + (IF c = b THEN 1 ELSE 0)
        /\ hist'[c].merged = hist[c].merged
        /\ hist'[c].good = hist[c].good
        /\ hist'[c].told = hist[c].told
        /\ hist'[c].toldGood = hist[c].toldGood
        /\ hist'[c].parts = hist[c].parts
        /\ hist'[c].full = hist[c].full
  BY <1>1 DEF NatHistory
<1>3. hist' \in [Batches -> NatHistory]
  BY <1>1, <1>2
<1>4. \A c \in Batches : SoundBatch(table', hist', c)
  BY <1>2 DEF Sound, SoundBatch, KeptIn
<1> QED BY <1>2, <1>3, <1>4 DEF Sound

(* The loop of the batch creates a sub-request: queued or lost.            *)
LEMMA CreateStep ==
    ASSUME Inv, NEW b \in Batches, Create(b)
    PROVE  Inv'
<1> USE DEF Create, threadVars, Looping
<1>1. /\ ThreadsOK /\ Sound(table, hist) /\ AllAccounted /\ TableBounded
      /\ left[b] \in Nat /\ left[b] > 0
  BY DEF Inv, ThreadsOK
<1>2. \A c \in Batches : /\ left[c] \in Nat
                         /\ left'[c] = left[c] - (IF c = b THEN 1 ELSE 0)
                         /\ Having(c)' = Having(c)
                         /\ Cardinality(Having(c)) \in Nat
                         /\ Cardinality(Queued(c)) \in Nat
  <2> SUFFICES ASSUME NEW c \in Batches
               PROVE  /\ left[c] \in Nat
                      /\ left'[c] = left[c] - (IF c = b THEN 1 ELSE 0)
                      /\ Having(c)' = Having(c)
                      /\ Cardinality(Having(c)) \in Nat
                      /\ Cardinality(Queued(c)) \in Nat
    OBVIOUS
  <2>1. left[c] \in Nat /\ left'[c] = left[c] - (IF c = b THEN 1 ELSE 0)
    BY <1>1 DEF ThreadsOK
  <2>2. Having(c)' = Having(c)
    BY DEF Having
  <2> QED BY <1>1, <2>1, <2>2, HavingFinite, QueuedFinite
<1>3. left' \in [Batches -> Nat]
  BY <1>1 DEF ThreadsOK
<1>4. CASE Len(queue) < QueCap
  <2>1. queue' = Append(queue, b) /\ UNCHANGED <<table, hist>>
    BY <1>4
  <2>2. ThreadsOK'
    BY <1>1, <1>3, <1>4, <2>1, IBCMgrSvcAssumption DEF ThreadsOK
  <2>3. \A c \in Batches : Cardinality(Queued(c)') =
          Cardinality(Queued(c)) + (IF c = b THEN 1 ELSE 0)
    <3>1. queue \in Seq(Batches)
      BY <1>1 DEF ThreadsOK
    <3>2. \A c \in Batches : Cardinality(Places(Append(queue, b), c)) =
            Cardinality(Places(queue, c)) + (IF c = b THEN 1 ELSE 0)
      BY <3>1, PlacesAppend
    <3> QED BY <2>1, <3>2, QueuedPlaces
  <2>4. \A c \in Batches : hist[c].merged \in Nat /\ hist[c].lost \in Nat
    BY <1>1 DEF Sound, NatHistory
  <2>5. AllAccounted'
    <3> SUFFICES ASSUME NEW c \in Batches
                 PROVE  left'[c] + Cardinality(Queued(c)') + Cardinality(Having(c)')
                          + hist'[c].merged + hist'[c].lost = Total
      BY DEF AllAccounted
    <3>1. left[c] + Cardinality(Queued(c)) + Cardinality(Having(c))
            + hist[c].merged + hist[c].lost = Total
      BY <1>1 DEF AllAccounted
    <3>2. /\ left'[c] = left[c] - (IF c = b THEN 1 ELSE 0)
          /\ Cardinality(Having(c)') = Cardinality(Having(c))
          /\ Cardinality(Queued(c)') =
               Cardinality(Queued(c)) + (IF c = b THEN 1 ELSE 0)
          /\ hist'[c] = hist[c]
      BY <1>2, <2>1, <2>3
    <3>3. /\ left[c] \in Nat /\ Cardinality(Having(c)) \in Nat
          /\ Cardinality(Queued(c)) \in Nat
          /\ hist[c].merged \in Nat /\ hist[c].lost \in Nat
      BY <1>2, <2>4
    <3> QED BY <3>1, <3>2, <3>3
  <2> QED BY <1>1, <2>1, <2>2, <2>5 DEF Inv, TableBounded
<1>5. CASE ~(Len(queue) < QueCap)
  <2>1. hist' = [hist EXCEPT ![b].lost = @ + 1] /\ UNCHANGED <<queue, table>>
    BY <1>5
  <2>2. ThreadsOK'
    BY <1>1, <1>3, <2>1 DEF ThreadsOK
  <2>3. /\ Sound(table, hist)'
        /\ \A c \in Batches : hist'[c].merged = hist[c].merged
        /\ \A c \in Batches :
             hist'[c].lost = hist[c].lost + (IF c = b THEN 1 ELSE 0)
    BY <1>1, <2>1, LoseSound
  <2>4. \A c \in Batches : hist[c].merged \in Nat /\ hist[c].lost \in Nat
    BY <1>1 DEF Sound, NatHistory
  <2>5. \A c \in Batches : Queued(c)' = Queued(c)
    BY <2>1 DEF Queued
  <2>6. AllAccounted'
    <3> SUFFICES ASSUME NEW c \in Batches
                 PROVE  left'[c] + Cardinality(Queued(c)') + Cardinality(Having(c)')
                          + hist'[c].merged + hist'[c].lost = Total
      BY DEF AllAccounted
    <3>1. left[c] + Cardinality(Queued(c)) + Cardinality(Having(c))
            + hist[c].merged + hist[c].lost = Total
      BY <1>1 DEF AllAccounted
    <3>2. /\ left'[c] = left[c] - (IF c = b THEN 1 ELSE 0)
          /\ Cardinality(Having(c)') = Cardinality(Having(c))
          /\ Cardinality(Queued(c)') = Cardinality(Queued(c))
          /\ hist'[c].merged = hist[c].merged
          /\ hist'[c].lost = hist[c].lost + (IF c = b THEN 1 ELSE 0)
      BY <1>2, <2>3, <2>5
    <3>3. /\ left[c] \in Nat /\ Cardinality(Having(c)) \in Nat
          /\ Cardinality(Queued(c)) \in Nat
          /\ hist[c].merged \in Nat /\ hist[c].lost \in Nat
      BY <1>2, <2>4
    <3> QED BY <3>1, <3>2, <3>3
  <2> QED BY <1>1, <2>1, <2>2, <2>3, <2>6 DEF Inv, TableBounded
<1> QED BY <1>4, <1>5

(* A thread takes a sub-request off the queue.                             *)
LEMMA RecvStep ==
    ASSUME Inv, NEW t \in Threads, Recv(t)
    PROVE  Inv'
<1> USE DEF Recv
<1>1. ThreadsOK /\ Sound(table, hist) /\ AllAccounted /\ TableBounded
  BY DEF Inv
<1>2. /\ Head(queue) \in Batches
      /\ Tail(queue) \in Seq(Batches)
      /\ Len(Tail(queue)) = Len(queue) - 1
      /\ Len(queue) \in Nat
  BY <1>1, TailElements DEF ThreadsOK
<1>3. req[t] = 0
  BY <1>1 DEF ThreadsOK
<1>4. ThreadsOK'
  BY <1>1, <1>2, BatchesNat, IBCMgrSvcAssumption DEF ThreadsOK
<1>5. AllAccounted'
  <2> SUFFICES ASSUME NEW b \in Batches
               PROVE  left[b] + Cardinality(Queued(b)') + Cardinality(Having(b)')
                        + hist[b].merged + hist[b].lost = Total
    BY DEF AllAccounted
  <2>1. Cardinality(Queued(b)') =
          Cardinality(Queued(b)) - (IF b = Head(queue) THEN 1 ELSE 0)
    <3>1. queue \in Seq(Batches) /\ queue # <<>> /\ queue' = Tail(queue)
      BY <1>1 DEF ThreadsOK
    <3>2. Cardinality(Places(Tail(queue), b)) =
            Cardinality(Places(queue, b)) - (IF b = Head(queue) THEN 1 ELSE 0)
      BY <3>1, PlacesTail
    <3> QED BY <3>1, <3>2, QueuedPlaces
  <2>2. Cardinality(Having(b)') =
          Cardinality(Having(b)) + (IF b = Head(queue) THEN 1 ELSE 0)
    BY <1>1, <1>2, <1>3, HavingStarts
  <2>3. /\ Cardinality(Queued(b)) \in Nat /\ Cardinality(Having(b)) \in Nat
        /\ left[b] \in Nat /\ hist[b].merged \in Nat /\ hist[b].lost \in Nat
    <3>1. left[b] \in Nat /\ hist[b].merged \in Nat /\ hist[b].lost \in Nat
      BY <1>1 DEF ThreadsOK, Sound, NatHistory
    <3> QED BY <1>1, <3>1, HavingFinite, QueuedFinite
  <2>4. left[b] + Cardinality(Queued(b)) + Cardinality(Having(b))
          + hist[b].merged + hist[b].lost = Total
    BY <1>1 DEF AllAccounted
  <2> QED BY <2>1, <2>2, <2>3, <2>4
<1> QED BY <1>1, <1>4, <1>5 DEF Inv, TableBounded

(* The operation is run.                                                   *)
LEMMA ProcessStep ==
    ASSUME Inv, NEW t \in Threads, NEW result \in BOOLEAN, Process(t, result)
    PROVE  Inv'
<1> USE DEF Process
<1>1. ThreadsOK'
  BY DEF Inv, ThreadsOK
<1>2. AllAccounted'
  BY DEF Inv, AllAccounted, Queued, Having
<1> QED BY <1>1, <1>2 DEF Inv, TableBounded

(* A thread is done with its sub-request: it is counted or lost.           *)
LEMMA ReturnStep ==
    ASSUME Inv, NEW t \in Threads, pc[t] # "idle", Return(t),
           UNCHANGED <<left, queue>>,
           Sound(table, hist)', TableBounded',
           NEW one \in {0, 1},
           \A b \in Batches :
             /\ hist'[b].merged =
                  hist[b].merged + (IF b = req[t] THEN one ELSE 0)
             /\ hist'[b].lost =
                  hist[b].lost + (IF b = req[t] THEN 1 - one ELSE 0)
    PROVE  Inv'
<1> USE DEF Return
<1>1. ThreadsOK /\ Sound(table, hist) /\ AllAccounted
  BY DEF Inv
<1>2. ThreadsOK'
  BY <1>1, BatchesNat DEF ThreadsOK
<1>3. req[t] \in Batches
  BY <1>1 DEF ThreadsOK
<1>4. AllAccounted'
  <2> SUFFICES ASSUME NEW b \in Batches
               PROVE  left[b] + Cardinality(Queued(b)) + Cardinality(Having(b)')
                        + hist'[b].merged + hist'[b].lost = Total
    BY DEF AllAccounted, Queued
  <2>1. Cardinality(Having(b)') =
          Cardinality(Having(b)) - (IF b = req[t] THEN 1 ELSE 0)
    BY <1>1, <1>3, HavingStops
  <2>2. /\ Cardinality(Queued(b)) \in Nat /\ Cardinality(Having(b)) \in Nat
        /\ left[b] \in Nat /\ hist[b].merged \in Nat /\ hist[b].lost \in Nat
    BY <1>1, HavingFinite, QueuedFinite DEF ThreadsOK, Sound, NatHistory
  <2>3. left[b] + Cardinality(Queued(b)) + Cardinality(Having(b))
          + hist[b].merged + hist[b].lost = Total
    BY <1>1 DEF AllAccounted
  <2> QED BY <2>1, <2>2, <2>3
<1> QED BY <1>2, <1>4 DEF Inv

(* A thread gives its sub-request up.                                      *)
LEMMA GiveUpStep ==
    ASSUME Inv, NEW t \in Threads, pc[t] # "idle", Return(t),
           hist' = [hist EXCEPT ![req[t]].lost = @ + 1],
           UNCHANGED <<left, queue, table>>
    PROVE  Inv'
<1>1. req[t] \in Batches
  BY HasMoreToMerge
<1>2. Sound(table, hist) /\ TableBounded /\ TableBounded'
  BY DEF Inv, TableBounded
<1>3. /\ Sound(table, hist)'
      /\ \A c \in Batches : hist'[c].merged = hist[c].merged
      /\ \A c \in Batches :
           hist'[c].lost = hist[c].lost + (IF c = req[t] THEN 1 ELSE 0)
  BY <1>1, <1>2, LoseSound
<1>4. \A c \in Batches : hist[c].merged \in Nat /\ hist[c].lost \in Nat
  BY <1>2 DEF Sound, NatHistory
<1>5. \A c \in Batches :
        /\ hist'[c].merged = hist[c].merged + (IF c = req[t] THEN 0 ELSE 0)
        /\ hist'[c].lost = hist[c].lost + (IF c = req[t] THEN 1 - 0 ELSE 0)
  BY <1>3, <1>4
<1> QED BY <1>2, <1>3, <1>5, ReturnStep

(* What merging a result makes of the table and the history, after a batch *)
(* has been evicted if need be.                                            *)
LEMMA MergedSound ==
    ASSUME Inv, NEW t \in Threads, pc[t] # "idle"
    PROVE  LET b    == req[t]
               r    == Merged(b, ok[t])
               tab2 == With(Room(b), b, r)
               h2   == MergedHist(RoomHist(b), b, ok[t])
           IN  /\ b \in Batches
               /\ Sound(tab2, h2)
               /\ b \in DOMAIN tab2 /\ tab2[b] = r
               /\ IsFiniteSet(DOMAIN tab2)
               /\ Cardinality(DOMAIN tab2) <= MaxRecords + 1
               /\ h2[b].merged <= Total
               /\ \A c \in Batches :
                    /\ h2[c].merged = hist[c].merged + (IF c = b THEN 1 ELSE 0)
                    /\ h2[c].lost = hist[c].lost + (IF c = b THEN 1 - 1 ELSE 0)
<1> DEFINE b    == req[t]
           r    == Merged(b, ok[t])
           tab2 == With(Room(b), b, r)
           h1   == RoomHist(b)
           h2   == MergedHist(h1, b, ok[t])
<1>1. b \in Batches /\ hist[b].merged < Total /\ ok[t] \in BOOLEAN
  BY HasMoreToMerge DEF Inv, ThreadsOK
<1>2. Sound(table, hist) /\ TableBounded
  BY DEF Inv
<1> HIDE DEF b
<1>3. /\ Sound(Room(b), h1)
      /\ \A c \in Batches : h1[c].merged = hist[c].merged /\ h1[c].lost = hist[c].lost
      /\ KeptIn(Room(b), b) = KeptIn(table, b)
      /\ IsFiniteSet(DOMAIN Room(b) \cup {b})
      /\ Cardinality(DOMAIN Room(b) \cup {b}) <= MaxRecords + 1
  BY <1>1, <1>2, RoomSound
<1>4. r = [cnum |-> KeptIn(Room(b), b).cnum + 1,
           snum |-> KeptIn(Room(b), b).snum + (IF ok[t] THEN 1 ELSE 0)]
  BY <1>3 DEF Merged, KeptIn
<1> HIDE DEF r, h1
<1>5. /\ Sound(With(Room(b), b, r), MergedHist(h1, b, ok[t]))
      /\ MergedHist(h1, b, ok[t])[b].merged = h1[b].merged + 1
      /\ MergedHist(h1, b, ok[t])[b].lost = h1[b].lost
      /\ \A c \in Batches \ {b} : MergedHist(h1, b, ok[t])[c] = h1[c]
  BY <1>1, <1>3, <1>4, MergeSound
<1>6. DOMAIN tab2 = DOMAIN Room(b) \cup {b} /\ tab2[b] = r
  BY DEF With
<1>7. \A c \in Batches : hist[c].merged \in Nat /\ hist[c].lost \in Nat
  BY <1>2 DEF Sound, NatHistory
<1> HIDE DEF h2
<1>8. \A c \in Batches :
        /\ h2[c].merged = hist[c].merged + (IF c = b THEN 1 ELSE 0)
        /\ h2[c].lost = hist[c].lost + (IF c = b THEN 1 - 1 ELSE 0)
  BY <1>3, <1>5, <1>7 DEF h2
<1>9. h2[b].merged <= Total
  BY <1>1, <1>7, <1>8, IBCMgrSvcAssumption
<1> HIDE DEF tab2
<1>10. Sound(tab2, h2)
  BY <1>5 DEF tab2, h2
<1> QED BY <1>1, <1>3, <1>6, <1>8, <1>9, <1>10 DEF b, r, tab2, h1, h2

(* The batch is not complete.                                              *)
LEMMA MergeStep ==
    ASSUME Inv, NEW t \in Threads, Merge(t)
    PROVE  Inv'
<1> DEFINE b == req[t]
<1>1. /\ pc[t] # "idle" /\ Return(t) /\ UNCHANGED <<left, queue>>
      /\ table' = With(Room(b), b, Merged(b, ok[t]))
      /\ hist' = MergedHist(RoomHist(b), b, ok[t])
  BY DEF Merge
<1>2. /\ Sound(table', hist')
      /\ Cardinality(DOMAIN table') <= MaxRecords + 1
      /\ \A c \in Batches :
           /\ hist'[c].merged = hist[c].merged + (IF c = b THEN 1 ELSE 0)
           /\ hist'[c].lost = hist[c].lost + (IF c = b THEN 1 - 1 ELSE 0)
  BY <1>1, MergedSound
<1>3. Sound(table, hist)' /\ TableBounded'
  BY <1>2 DEF Sound, SoundBatch, KeptIn, TableBounded
<1> QED BY <1>1, <1>2, <1>3, ReturnStep

(* The batch is complete: its record is erased.                            *)
LEMMA FinishStep ==
    ASSUME Inv, NEW t \in Threads, Finish(t)
    PROVE  Inv'
<1> DEFINE b    == req[t]
           r    == Merged(b, ok[t])
           tab2 == With(Room(b), b, r)
           h2   == MergedHist(RoomHist(b), b, ok[t])
<1>1. /\ pc[t] # "idle" /\ Return(t) /\ UNCHANGED <<left, queue>>
      /\ Complete(r)
      /\ table' = Erase(tab2, b)
      /\ hist' = Tell(h2, b, r, "full")
  BY DEF Finish
<1>2. /\ b \in Batches
      /\ Sound(tab2, h2)
      /\ b \in DOMAIN tab2 /\ tab2[b] = r
      /\ IsFiniteSet(DOMAIN tab2)
      /\ Cardinality(DOMAIN tab2) <= MaxRecords + 1
      /\ h2[b].merged <= Total
      /\ \A c \in Batches :
           /\ h2[c].merged = hist[c].merged + (IF c = b THEN 1 ELSE 0)
           /\ h2[c].lost = hist[c].lost + (IF c = b THEN 1 - 1 ELSE 0)
  BY <1>1, MergedSound
<1> HIDE DEF r, tab2, h2
<1>3. /\ Sound(table', hist')
      /\ \A c \in Batches : hist'[c].merged = h2[c].merged /\ hist'[c].lost = h2[c].lost
  BY <1>1, <1>2, FinishSound
<1>4. DOMAIN table' = DOMAIN tab2 \ {b}
  BY <1>1 DEF Erase
<1>5. Cardinality(DOMAIN table') <= MaxRecords + 1
  BY <1>2, <1>4, FS_RemoveElement, FS_CardinalityType, IBCMgrSvcAssumption
<1>6. Sound(table, hist)' /\ TableBounded'
  BY <1>3, <1>5 DEF Sound, SoundBatch, KeptIn, TableBounded
<1>7. \A c \in Batches :
        /\ hist'[c].merged = hist[c].merged + (IF c = b THEN 1 ELSE 0)
        /\ hist'[c].lost = hist[c].lost + (IF c = b THEN 1 - 1 ELSE 0)
  BY <1>2, <1>3
<1> QED BY <1>1, <1>6, <1>7, ReturnStep

(* The batch is complete and cannot be answered: its record stays.         *)
LEMMA NoMemoryToFinishStep ==
    ASSUME Inv, NEW t \in Threads, NoMemoryToFinish(t)
    PROVE  Inv'
<1> DEFINE b    == req[t]
           r    == Merged(b, ok[t])
           tab2 == With(Room(b), b, r)
           h2   == MergedHist(RoomHist(b), b, ok[t])
<1>1. /\ pc[t] # "idle" /\ Return(t) /\ UNCHANGED <<left, queue>>
      /\ table' = tab2
      /\ hist' = [h2 EXCEPT ![b].nomem = TRUE]
  BY DEF NoMemoryToFinish
<1>2. /\ b \in Batches
      /\ Sound(tab2, h2)
      /\ Cardinality(DOMAIN tab2) <= MaxRecords + 1
      /\ \A c \in Batches :
           /\ h2[c].merged = hist[c].merged + (IF c = b THEN 1 ELSE 0)
           /\ h2[c].lost = hist[c].lost + (IF c = b THEN 1 - 1 ELSE 0)
  BY <1>1, MergedSound
<1> HIDE DEF r, tab2, h2
<1>3. h2 \in [Batches -> NatHistory]
  BY <1>2 DEF Sound
<1>4. \A c \in Batches : /\ hist'[c] \in NatHistory
                         /\ hist'[c].lost = h2[c].lost
                         /\ hist'[c].merged = h2[c].merged
                         /\ hist'[c].good = h2[c].good
                         /\ hist'[c].told = h2[c].told
                         /\ hist'[c].toldGood = h2[c].toldGood
                         /\ hist'[c].parts = h2[c].parts
                         /\ hist'[c].full = h2[c].full
  BY <1>1, <1>3 DEF NatHistory
<1>5. hist' \in [Batches -> NatHistory]
  BY <1>1, <1>3, <1>4
<1>6. Sound(table, hist)' /\ TableBounded'
  <2>1. DOMAIN tab2 \subseteq Batches /\ tab2 \in [DOMAIN tab2 -> NatRecord]
    BY <1>2 DEF Sound
  <2>2. \A c \in Batches : SoundBatch(tab2, h2, c)
    BY <1>2 DEF Sound
  <2>3. \A c \in Batches : SoundBatch(tab2, hist', c)
    BY <1>4, <2>2 DEF SoundBatch
  <2>4. Sound(tab2, hist')
    BY <1>5, <2>1, <2>3 DEF Sound
  <2> QED BY <1>1, <1>2, <2>4 DEF Sound, SoundBatch, KeptIn, TableBounded
<1>7. \A c \in Batches :
        /\ hist'[c].merged = hist[c].merged + (IF c = b THEN 1 ELSE 0)
        /\ hist'[c].lost = hist[c].lost + (IF c = b THEN 1 - 1 ELSE 0)
  BY <1>2, <1>4
<1> QED BY <1>1, <1>6, <1>7, ReturnStep

LEMMA NextInv == Inv /\ [Next]_vars => Inv'
<1> SUFFICES ASSUME Inv, [Next]_vars PROVE Inv'
  OBVIOUS
<1>1. ASSUME NEW b \in Batches, Create(b) PROVE Inv'
  BY <1>1, CreateStep
<1>2. ASSUME NEW t \in Threads, Thread(t) PROVE Inv'
  <2>1. CASE Recv(t)
    BY <2>1, RecvStep
  <2>2. CASE GiveUp(t)
    BY <2>2, GiveUpStep DEF GiveUp
  <2>3. ASSUME NEW result \in BOOLEAN, Process(t, result) PROVE Inv'
    BY <2>3, ProcessStep
  <2>4. CASE Merge(t)
    BY <2>4, MergeStep
  <2>5. CASE Finish(t)
    BY <2>5, FinishStep
  <2>6. CASE NoMemoryToEvict(t)
    BY <2>6, GiveUpStep DEF NoMemoryToEvict
  <2>7. CASE NoMemoryToFinish(t)
    BY <2>7, NoMemoryToFinishStep
  <2> QED BY <1>2, <2>1, <2>2, <2>3, <2>4, <2>5, <2>6, <2>7 DEF Thread
<1>3. CASE UNCHANGED vars
  <2> USE <1>3 DEF vars
  <2>1. ThreadsOK'
    BY DEF Inv, ThreadsOK
  <2>2. Sound(table, hist)'
    BY DEF Inv, Sound, SoundBatch, KeptIn
  <2>3. AllAccounted' /\ TableBounded'
    BY DEF Inv, AllAccounted, TableBounded, Queued, Having
  <2> QED BY <2>1, <2>2, <2>3 DEF Inv
<1> QED BY <1>1, <1>2, <1>3 DEF Next

LEMMA AlwaysInv == Spec => []Inv
BY InitInv, NextInv, PTL DEF Spec

-----------------------------------------------------------------------------
(* What the invariant says of the batches.                                 *)

(* No field of a record or a history exceeds the number of sub-requests.   *)
LEMMA InvTypes == Inv => TypeOK
<1> SUFFICES ASSUME Inv PROVE TypeOK
  OBVIOUS
<1>1. ThreadsOK /\ Sound(table, hist) /\ AllAccounted
  BY DEF Inv
<1>2. Total \in Nat
  BY IBCMgrSvcAssumption
<1>3. ASSUME NEW b \in Batches
      PROVE  /\ left[b] \in Counts
             /\ hist[b] \in History
             /\ b \in DOMAIN table => table[b] \in Record
  <2>1. /\ left[b] \in Nat
        /\ hist[b] \in NatHistory
        /\ KeptIn(table, b) \in NatRecord
        /\ b \in DOMAIN table => table[b] = KeptIn(table, b)
    BY <1>1, NewRecordType DEF ThreadsOK, Sound, KeptIn
  <2>2. left[b] + Cardinality(Queued(b)) + Cardinality(Having(b))
          + hist[b].merged + hist[b].lost = Total
    BY <1>1 DEF AllAccounted
  <2>3. Cardinality(Queued(b)) \in Nat /\ Cardinality(Having(b)) \in Nat
    BY <1>1, HavingFinite, QueuedFinite
  <2>4. /\ hist[b].merged \in Nat /\ hist[b].lost \in Nat
        /\ hist[b].good \in Nat /\ hist[b].told \in Nat
        /\ hist[b].toldGood \in Nat /\ hist[b].parts \in Nat
        /\ hist[b].full \in Nat /\ hist[b].nomem \in BOOLEAN
        /\ KeptIn(table, b).cnum \in Nat /\ KeptIn(table, b).snum \in Nat
    BY <2>1 DEF NatHistory, NatRecord
  <2>5. /\ left[b] <= Total /\ hist[b].merged <= Total /\ hist[b].lost <= Total
    BY <1>2, <2>1, <2>2, <2>3, <2>4
  <2>6. /\ hist[b].told + KeptIn(table, b).cnum = hist[b].merged
        /\ hist[b].toldGood + KeptIn(table, b).snum = hist[b].good
        /\ hist[b].good <= hist[b].merged
        /\ hist[b].parts + hist[b].full <= hist[b].told
    BY <1>1 DEF Sound, SoundBatch
  <2>7. /\ hist[b].good <= Total /\ hist[b].told <= Total
        /\ hist[b].toldGood <= Total /\ hist[b].parts <= Total
        /\ hist[b].full <= Total
        /\ KeptIn(table, b).cnum <= Total /\ KeptIn(table, b).snum <= Total
    BY <1>2, <2>4, <2>5, <2>6
  <2>8. left[b] \in Counts /\ hist[b] \in History
    BY <1>2, <2>1, <2>4, <2>5, <2>7 DEF Counts, History, NatHistory
  <2>9. KeptIn(table, b) \in Record
    BY <1>2, <2>1, <2>4, <2>7 DEF Counts, Record, NatRecord
  <2> QED BY <2>1, <2>8, <2>9
<1> QED BY <1>1, <1>3 DEF TypeOK, ThreadsOK, Sound

(* Type correctness of the batches: the counters of a batch stay within    *)
(* its number of sub-requests.                                             *)
THEOREM IbcTypeCorrect == Spec => []TypeOK
BY AlwaysInv, InvTypes, PTL

(* Every result of a sub-request (process of IBCMgrSvc) is in the record   *)
(* of its batch or has been told to the client, exactly once, whatever was *)
(* evicted meanwhile.                                                      *)
THEOREM IbcCountedOnce == Spec => []CountedOnce
<1>1. Inv => CountedOnce
  BY DEF Inv, Sound, SoundBatch, CountedOnce, Kept, KeptIn
<1> QED BY <1>1, AlwaysInv, PTL

(* Every sub-request of a batch is still to be created, on the queue, with *)
(* a thread, counted or lost.                                              *)
THEOREM IbcAllAccounted == Spec => []AllAccounted
<1>1. Inv => AllAccounted
  BY DEF Inv
<1> QED BY <1>1, AlwaysInv, PTL

(* A complete answer is the only answer its batch gets.                    *)
THEOREM IbcFullIsOnly == Spec => []FullIsOnly
<1>1. Inv => FullIsOnly
  BY DEF Inv, Sound, SoundBatch, FullIsOnly
<1> QED BY <1>1, AlwaysInv, PTL

(* The table of records never has more than one record above its limit.    *)
THEOREM IbcTableBounded == Spec => []TableBounded
<1>1. Inv => TableBounded
  BY DEF Inv
<1> QED BY <1>1, AlwaysInv, PTL

(* process answers a batch early only when more than MaxRecords + 1        *)
(* batches have results that no answer has told.                           *)
THEOREM IbcEvictsWhenCrowded == Spec => EvictsWhenCrowded
<1> DEFINE C == {b \in Batches : hist'[b].merged > hist[b].told}
           A == (\E b \in Batches : hist'[b].parts # hist[b].parts) =>
                  Cardinality(C) > MaxRecords + 1
<1>1. Inv /\ [Next]_vars => [A]_vars
  <2> SUFFICES ASSUME Inv, Next, NEW b \in Batches,
                      hist'[b].parts # hist[b].parts
               PROVE  Cardinality(C) > MaxRecords + 1
    OBVIOUS
  <2>1. Sound(table, hist) /\ hist \in [Batches -> NatHistory]
    BY DEF Inv, Sound
  <2>2. PICK t \in Threads : /\ Merge(t) \/ Finish(t) \/ NoMemoryToFinish(t)
    <3>1. hist' # hist
      OBVIOUS
    <3>2. \A x \in Batches : hist' # [hist EXCEPT ![x].lost = @ + 1]
      <4> SUFFICES ASSUME NEW x \in Batches, hist' = [hist EXCEPT ![x].lost = @ + 1]
                   PROVE  FALSE
        OBVIOUS
      <4>1. hist'[b].parts = hist[b].parts
        BY <2>1 DEF NatHistory
      <4> QED BY <4>1
    <3>3. \A x \in Batches : ~ Create(x)
      BY <3>1, <3>2 DEF Create
    <3>4. \A x \in Threads : /\ ~ Recv(x)
                            /\ \A result \in BOOLEAN : ~ Process(x, result)
      BY <3>1 DEF Recv, Process
    <3>5. \A x \in Threads : ~ GiveUp(x) /\ ~ NoMemoryToEvict(x)
      BY <3>2, HasMoreToMerge DEF GiveUp, NoMemoryToEvict
    <3> QED BY <3>3, <3>4, <3>5 DEF Next, Thread
  <2> DEFINE q  == req[t]
             h1 == RoomHist(q)
             h2 == MergedHist(h1, q, ok[t])
  <2>3. pc[t] # "idle"
    BY <2>2 DEF Merge, Finish, NoMemoryToFinish
  <2>4. q \in Batches /\ Sound(table, hist) /\ TableBounded
    BY <2>3, HasMoreToMerge DEF Inv
  <2>5. h1 \in [Batches -> NatHistory]
    BY <2>4, RoomSound DEF Sound
  <2> HIDE DEF q
  <2>6. h2 \in [Batches -> NatHistory]
    <3> HIDE DEF h1
    <3> QED BY <2>4, <2>5, MergedParts
  <2>7. \A c \in Batches : /\ hist'[c].parts = h2[c].parts
                           /\ hist'[c].merged = h2[c].merged
    <3> HIDE DEF h2
    <3>1. CASE hist' = h2
      BY <3>1
    <3>2. CASE hist' = [h2 EXCEPT ![q].nomem = TRUE]
      BY <2>4, <2>6, <3>2 DEF NatHistory
    <3>3. CASE hist' = Tell(h2, q, Merged(q, ok[t]), "full")
      <4>1. KeptIn(table, q) \in NatRecord
        BY <2>4, NewRecordType DEF Sound, KeptIn
      <4>2. Merged(q, ok[t]) \in NatRecord
        BY <4>1 DEF Merged, KeptIn, NatRecord
      <4> HIDE DEF Merged
      <4>3. /\ \A c \in Batches \ {q} : hist'[c] = h2[c]
            /\ hist'[q].parts = h2[q].parts + (IF "full" = "part" THEN 1 ELSE 0)
            /\ hist'[q].merged = h2[q].merged
        BY <2>4, <2>6, <3>3, <4>2, TellFields
      <4>4. h2[q].parts \in Nat
        BY <2>4, <2>6 DEF NatHistory
      <4> QED BY <4>3, <4>4
    <3> QED BY <2>2, <3>1, <3>2, <3>3
            DEF Merge, Finish, NoMemoryToFinish, q, h1, h2
  <2>8. /\ \A c \in Batches : h2[c].parts = h1[c].parts
        /\ \A c \in Batches \ {q} : h2[c].merged = h1[c].merged
        /\ h2[q].merged = h1[q].merged + 1
    <3> HIDE DEF h1
    <3> QED BY <2>4, <2>5, MergedParts
  <2>9. \A c \in Batches : h1[c].merged = hist[c].merged
    BY <2>4, RoomSound
  <2> HIDE DEF h2
  <2>10. h1[b].parts # hist[b].parts
    BY <2>7, <2>8
  <2>11. TooMany(q)
    BY <2>10 DEF RoomHist, h1
  <2> HIDE DEF h1
  <2>12. ASSUME NEW c \in Batches, c \in DOMAIN table \/ c = q
         PROVE  hist'[c].merged > hist[c].told
    <3>1. /\ hist[c].told + KeptIn(table, c).cnum = hist[c].merged
          /\ c \in DOMAIN table => KeptIn(table, c).cnum >= 1
          /\ KeptIn(table, c) \in NatRecord
          /\ hist[c].told \in Nat /\ hist[c].merged \in Nat
      BY <2>1, NewRecordType DEF Sound, SoundBatch, KeptIn, NatHistory
    <3>2. KeptIn(table, c).cnum \in Nat
      BY <3>1 DEF NatRecord
    <3>3. hist'[c].merged = hist[c].merged + (IF c = q THEN 1 ELSE 0)
      BY <2>4, <2>7, <2>8, <2>9, <3>1
    <3> QED BY <2>12, <3>1, <3>2, <3>3
  <2>13. DOMAIN table \cup {q} \subseteq C
    BY <2>1, <2>4, <2>12 DEF Sound
  <2>14. /\ IsFiniteSet(DOMAIN table \cup {q})
         /\ Cardinality(DOMAIN table \cup {q}) = Cardinality(DOMAIN table) + 1
         /\ Cardinality(DOMAIN table) \in Nat
         /\ Cardinality(DOMAIN table) > MaxRecords
    BY <2>1, <2>11, TableFinite, FS_AddElement, FS_CardinalityType DEF TooMany
  <2>15. IsFiniteSet(C)
    BY BatchesNat, FS_Subset
  <2>16. Cardinality(DOMAIN table \cup {q}) <= Cardinality(C) /\ Cardinality(C) \in Nat
    BY <2>13, <2>15, FS_Subset, FS_CardinalityType
  <2> HIDE DEF C
  <2> QED BY <2>14, <2>16, IBCMgrSvcAssumption
<1> QED BY <1>1, AlwaysInv, PTL DEF Spec, EvictsWhenCrowded
=============================================================================
