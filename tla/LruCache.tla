------------------------------- MODULE LruCache -------------------------------
(***************************************************************************)
(* What a table of CLruHashTableEx promises: entries in the order they     *)
(* were last used, at most Max of them.  Inserting one into a full table   *)
(* drops the one used longest ago, and only that one; a process that is    *)
(* killed within a call costs the table the entry the call was about, and  *)
(* one slot at the most.  Nothing is promised of a table an erase has      *)
(* damaged; that takes a lost slot, or entries left and slots free where   *)
(* the erase goes on.                                                      *)
(***************************************************************************)
EXTENDS Naturals, Sequences

CONSTANTS Max, Entries

VARIABLES
    cache,   \* the entries, last used first
    lost,    \* slots lost by processes that were killed
    doing,   \* the call that is under way: "none", "insert", "remove" or "erase"
    damaged  \* an erase has damaged the table

Full == Len(cache) + lost = Max
Without(i) == SubSeq(cache, 1, i - 1) \o SubSeq(cache, i + 1, Len(cache))

Init == cache = <<>> /\ lost = 0 /\ doing = "none" /\ damaged = FALSE

Touch ==
    /\ doing = "none"
    /\ \E i \in DOMAIN cache : cache' = <<cache[i]>> \o Without(i)
    /\ UNCHANGED <<lost, doing>>

BeginInsert ==
    /\ doing = "none" /\ doing' = "insert"
    /\ cache' = IF Full THEN SubSeq(cache, 1, Len(cache) - 1) ELSE cache
    /\ UNCHANGED lost

Insert ==
    /\ doing = "insert" /\ doing' = "none"
    /\ ~Full
    /\ \E e \in Entries : cache' = <<e>> \o cache
    /\ UNCHANGED lost

BeginRemove ==
    /\ doing = "none" /\ doing' \in {"remove", "erase"}
    /\ \E i \in DOMAIN cache : cache' = Without(i)
    /\ UNCHANGED lost

Remove == doing \in {"remove", "erase"} /\ doing' = "none" /\ UNCHANGED <<cache, lost>>

Killed ==
    /\ doing # "none" /\ doing' = "none"
    /\ lost' \in {lost, lost + 1}
    /\ UNCHANGED cache

(* begin() has found a lost node, or an erase has gone on to a free one.   *)
Damage ==
    \/ doing = "none" /\ lost > 0
    \/ doing = "erase" /\ cache # <<>> /\ Len(cache) + lost + 1 < Max

Next ==
    \/ /\ Touch \/ BeginInsert \/ Insert \/ BeginRemove \/ Remove \/ Killed
       /\ UNCHANGED damaged
    \/ (damaged \/ Damage) /\ damaged' = TRUE

Spec == Init /\ [][Next]_<<cache, lost, doing, damaged>>
=============================================================================
