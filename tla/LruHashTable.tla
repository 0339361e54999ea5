----------------------------- MODULE LruHashTable -----------------------------
(***************************************************************************)
(* CLruHashTableEx: a hash table of iMax nodes in shared memory.  A node   *)
(* is in the chain of its bucket and in the chain of all nodes in the      *)
(* order of their use, or in the chain of free ones; the chains are of     *)
(* indices, -1 ends one.                                                   *)
(*                                                                         *)
(* The table outlives the process: the next one attaches it as it is.  A   *)
(* call that allocates, links, unlinks or frees a node does so in steps    *)
(* of these four, between which its process may be killed; one of them is  *)
(* taken as a whole.  Calls of one table do not overlap.                   *)
(*                                                                         *)
(* Two erases take nodes out of chains they are not in.  They are done     *)
(* here as the code does them, and so are the calls that follow.           *)
(*                                                                         *)
(* A value is a number, its key what _M_get_key makes of it.               *)
(***************************************************************************)
EXTENDS Integers, Sequences, FiniteSets

CONSTANTS
    LruMax,      \* iMax
    LruBuckets,  \* iBucket, iMax / 4 in Init
    LruValues,   \* values
    LruKeys,     \* the key of each of them
    LruMaxLost,  \* bound: processes killed while their call holds a node
    LruMaxAfter  \* bound: calls on a damaged table

ASSUME LruHashTableAssumption ==
    /\ {LruMax, LruBuckets} \subseteq Nat \ {0}
    /\ {LruMaxLost, LruMaxAfter} \subseteq Nat
    /\ LruValues \subseteq Nat /\ LruValues # {}
    /\ LruKeys \in [LruValues -> Nat]

VARIABLES
    lruTab,     \* the table
    lruCall,    \* the call under way: what it does, its next step, its node
    lruLost,    \* history: processes killed while their call held a node
    lruAfter    \* history: 0 until an erase damages the table, then 1, and 1
                \* more for each call

lruVars == <<lruTab, lruCall, lruLost, lruAfter>>

LruNode == 0 .. LruMax - 1
LruKey(v) == LruKeys[v]
LruBucket(code) == code % LruBuckets
LruZero == CHOOSE v \in LruValues : \A w \in LruValues : v <= w

(* SHITEM: iNext and iPrev, the same of the LRU chain, uCode, fValid, data.*)
LruUnlinked(valid, val) ==
    [next |-> -1, prev |-> -1, lruNext |-> -1, lruPrev |-> -1, code |-> 0,
     valid |-> valid, val |-> val]

LruMakeTableOpen(node, bucket) ==    \* mutant: the last node's iNext is iMax
    [free |-> 0, head |-> -1, tail |-> -1, item |-> 0,
     node |-> [i \in LruNode |->
                 [node[i] EXCEPT !.valid = FALSE, !.next = i + 1, !.prev = i - 1]],
     bucket |-> bucket]

(* sht_init: every node is free, in order.  The buckets, and the rest of   *)
(* the nodes, are left as they are; in new memory all is 0.                *)
LruMakeTable(node, bucket) ==
    [free |-> 0, head |-> -1, tail |-> -1, item |-> 0,
     node |-> [i \in LruNode |->
                 [node[i] EXCEPT !.valid = FALSE,
                                 !.next = IF i + 1 < LruMax THEN i + 1 ELSE -1,
                                 !.prev = i - 1]],
     bucket |-> bucket]

LruEmpty ==
    LruMakeTable([i \in LruNode |->
                    [next |-> 0, prev |-> 0, lruNext |-> 0, lruPrev |-> 0, code |-> 0,
                     valid |-> FALSE, val |-> LruZero]],
                 [b \in 0 .. LruBuckets - 1 |-> [count |-> 0, head |-> 0]])

LruIdle == [op |-> "none", step |-> "none", node |-> -1, val |-> LruZero,
            copy |-> FALSE, at |-> 0]

LruInit ==
    /\ lruTab = LruEmpty
    /\ lruCall = LruIdle
    /\ lruLost = 0
    /\ lruAfter = 0

-----------------------------------------------------------------------------
(* The chains.                                                             *)

(* Sets a link of the node with this index, if there is one.               *)
LruLink(t, i, link, j) ==
    IF i \in LruNode THEN [t EXCEPT !.node[i][link] = j] ELSE t

(* sht_alloc_node_i *)
LruAllocNode(t) ==
    LET i == t.free
        taken == [t EXCEPT !.free = t.node[i].next,
                           !.node[i] = LruUnlinked(TRUE, t.node[i].val),
                           !.item = @ + 1]
    IN  LruLink(taken, taken.free, "prev", -1)

(* sht_free_node_i *)
LruFreeNode(t, i) ==
    LET freed == [t EXCEPT !.node[i] = [LruUnlinked(FALSE, t.node[i].val) EXCEPT
                                          !.next = t.free]]
    IN  [LruLink(freed, t.free, "prev", i) EXCEPT !.free = i, !.item = @ - 1]

(* The LRU chain: a node becomes its head, or leaves it.                   *)
LruToFront(t, i) ==
    LET linked == LruLink(t, t.head, "lruPrev", i)
    IN  [linked EXCEPT !.node[i] = [@ EXCEPT !.lruNext = t.head, !.lruPrev = -1],
                       !.head = i]

LruPush(t, i) ==
    [LruToFront(t, i) EXCEPT !.tail = IF t.tail < 0 /\ t.head < 0 THEN i ELSE @]

LruDropKeepsTail(t, i) ==    \* mutant: the tail is left as it is
    LET n == t.node[i]
        linked == LruLink(LruLink(t, n.lruPrev, "lruNext", n.lruNext),
                          n.lruNext, "lruPrev", n.lruPrev)
    IN  [linked EXCEPT !.head = IF @ = i THEN n.lruNext ELSE @]

LruDrop(t, i) ==
    LET n == t.node[i]
        linked == LruLink(LruLink(t, n.lruPrev, "lruNext", n.lruNext),
                          n.lruNext, "lruPrev", n.lruPrev)
    IN  [linked EXCEPT !.head = IF @ = i THEN n.lruNext ELSE @,
                       !.tail = IF @ = i THEN n.lruPrev ELSE @]

(* sht_insert_i *)
LruInsertNode(t, i, code) ==
    LET b == t.bucket[LruBucket(code)]
        first == IF b.count > 0 THEN b.head ELSE -1
        hung == [t EXCEPT
                   !.node[i] = [@ EXCEPT !.code = code, !.next = first, !.prev = -1],
                   !.bucket[LruBucket(code)] = [count |-> b.count + 1, head |-> i]]
    IN  LruPush(LruLink(hung, first, "prev", i), i)

(* sht_remove_i *)
LruRemoveNode(t, i, code) ==
    LET n == t.node[i]
        linked == LruLink(LruLink(t, n.prev, "next", n.next),
                          n.next, "prev", n.prev)
    IN  LruDrop([linked EXCEPT
                   !.bucket[LruBucket(code)] =
                     [count |-> @.count - 1,
                      head |-> IF @.head = i THEN n.next ELSE @.head]],
                i)

(* At most limit nodes of a chain.                                         *)
LruWalk(t, from, link, limit) ==
    LET walk[n \in 0 .. limit] ==
          [i \in LruNode \cup {-1} |->
             IF i = -1 \/ n = 0 THEN <<>>
             ELSE <<i>> \o walk[n - 1][t.node[i][link]]]
    IN  walk[limit][from]

(* The chain of a bucket, from a node on, of which n are behind: iCount    *)
(* ends it, and may be below 0 once the table is damaged.                  *)
LruChainFrom(t, b, from, n) ==
    LruWalk(t, from, "next",
            IF t.bucket[b].count > n THEN t.bucket[b].count - n ELSE 0)

LruChain(t, b) == LruChainFrom(t, b, t.bucket[b].head, 0)

LruMembers(s) == {s[k] : k \in DOMAIN s}
LruUsedOf(t) == LruWalk(t, t.head, "lruNext", LruMax)
LruUsed == LruUsedOf(lruTab)

(* The place of the first of the nodes wanted on a chain, or 0; the node   *)
(* there, or -1.                                                           *)
LruPlace(chain, wanted) ==
    LET found == {k \in DOMAIN chain : chain[k] \in wanted}
    IN  IF found = {} THEN 0 ELSE CHOOSE k \in found : \A l \in found : k <= l

LruFirst(chain, wanted) ==
    LET k == LruPlace(chain, wanted) IN IF k = 0 THEN -1 ELSE chain[k]

(* sht_find_i: a value is found by its key and its contents ...            *)
LruFindNode(t, v) ==
    LruFirst(LruChain(t, LruBucket(LruKey(v))),
             {i \in LruNode : t.node[i].code = LruKey(v) /\ t.node[i].val = v})

(* sht_find moves what it finds to the head of the LRU chain.              *)
LruFind(t, v) ==
    LET i == LruFindNode(t, v)
    IN  IF i = -1 \/ t.head = i THEN t ELSE LruToFront(LruDrop(t, i), i)

-----------------------------------------------------------------------------
(* Calls.                                                                  *)

LruDamaged == lruAfter > 0

(* A call begins, which may do the first damage.                           *)
LruBegin(harm) ==
    /\ lruCall = LruIdle
    /\ lruAfter <= LruMaxAfter
    /\ lruAfter' = IF harm \/ LruDamaged THEN lruAfter + 1 ELSE 0
    /\ UNCHANGED lruLost

(* A node is in none of the chains while a call holds it.                  *)
LruHeld == lruCall.step \in {"link", "evict", "free"}

LruInsertDropsHead(t, v, copy) ==    \* mutant: the node last used is taken
    LET call == [op |-> "insert", step |-> "link", node |-> t.free, val |-> v,
                 copy |-> copy, at |-> 0]
    IN  IF t.free # -1
          THEN lruTab' = LruAllocNode(t) /\ lruCall' = call
        ELSE IF t.tail = -1
          THEN lruTab' = t /\ UNCHANGED lruCall
        ELSE /\ lruTab' = LruRemoveNode(t, t.head, t.node[t.head].code)
             /\ lruCall' = [call EXCEPT !.step = "evict", !.node = t.head]

(* sht_insert_multi: takes a free node or that at the LRU chain's tail,    *)
(* and has nothing to take if every node is lost.                          *)
LruInsertMulti(t, v, copy) ==
    LET call == [op |-> "insert", step |-> "link", node |-> t.free, val |-> v,
                 copy |-> copy, at |-> 0]
    IN  IF t.free # -1
          THEN lruTab' = LruAllocNode(t) /\ lruCall' = call
        ELSE IF t.tail = -1
          THEN lruTab' = t /\ UNCHANGED lruCall
        ELSE /\ lruTab' = LruRemoveNode(t, t.tail, t.node[t.tail].code)
             /\ lruCall' = [call EXCEPT !.step = "evict", !.node = t.tail]

(* insert_unique *)
LruInsertUnique(v) ==
    /\ LruBegin(FALSE)
    /\ IF LruFindNode(lruTab, v) # -1
         THEN lruTab' = LruFind(lruTab, v) /\ UNCHANGED lruCall
         ELSE LruInsertMulti(lruTab, v, TRUE)

(* insert_equal forgets what sht_insert_multi returns: the node keeps the  *)
(* contents it had.                                                        *)
LruInsertEqual(v) ==
    /\ LruBegin(FALSE)
    /\ LruInsertMulti(lruTab, v, FALSE)

(* find_or_insert returns a node; its caller fills it in.                  *)
LruFindOrInsert(v) == LruInsertUnique(v)

LruSearch(v) ==
    /\ LruBegin(FALSE)
    /\ lruTab' = LruFind(lruTab, v)
    /\ UNCHANGED lruCall

LruBeginRemove(i, code) ==
    /\ lruTab' = LruRemoveNode(lruTab, i, code)
    /\ lruCall' = [LruIdle EXCEPT !.op = "remove", !.step = "free", !.node = i]

(* remove *)
LruRemove(v) ==
    /\ LruBegin(FALSE)
    /\ LruFindNode(lruTab, v) # -1
    /\ LruBeginRemove(LruFindNode(lruTab, v), LruKey(v))

(* erase(key) removes and frees every node of that key it comes to: on     *)
(* the bucket's chain up to the first, and from there on along the chain   *)
(* this node is now in, that of the free nodes, for as many nodes as the   *)
(* bucket has left.                                                        *)
LruEraseFrom(v, from, n) ==
    LET rest == LruChainFrom(lruTab, LruBucket(LruKey(v)), from, n)
        k == LruPlace(rest, {j \in LruNode : lruTab.node[j].code = LruKey(v)})
    IN  IF k = 0
          THEN lruTab' = lruTab /\ lruCall' = LruIdle
          ELSE /\ lruTab' = LruRemoveNode(lruTab, rest[k], LruKey(v))
               /\ lruCall' = [op |-> "erase", step |-> "free", node |-> rest[k],
                              val |-> v, copy |-> FALSE, at |-> n + k]

LruErase(v) ==
    /\ LruBegin(FALSE)
    /\ LruEraseFrom(v, lruTab.bucket[LruBucket(LruKey(v))].head, 0)

(* erase(iterator): the macro that computes the index subtracts the        *)
(* node's address from the table's; only node 0 has an index in range.     *)
(* begin() finds a node a killed process has lost as well as any other.    *)
LruEraseAt(i) ==
    /\ LruBegin(i \notin LruMembers(LruUsed))
    /\ i = 0 /\ lruTab.node[i].valid
    /\ LruBeginRemove(i, lruTab.node[i].code)

-----------------------------------------------------------------------------
(* Further steps of a call.                                                *)

(* sht_free_node_i: remove is over, an eviction goes on to allocate, and   *)
(* erase to look for more nodes of the key ...                             *)
LruFreed ==
    /\ lruCall.step \in {"free", "evict"}
    /\ lruTab' = LruFreeNode(lruTab, lruCall.node)
    /\ lruCall' = IF lruCall.op = "insert" THEN [lruCall EXCEPT !.step = "alloc"]
                  ELSE IF lruCall.op = "erase" THEN [lruCall EXCEPT !.step = "scan"]
                  ELSE LruIdle
    /\ UNCHANGED <<lruLost, lruAfter>>

(* ... which are free ones, whose code is 0.                               *)
LruScan ==
    /\ lruCall.step = "scan"
    /\ LruEraseFrom(lruCall.val, lruTab.node[lruCall.node].next, lruCall.at)
    /\ lruAfter' = IF LruDamaged \/ lruCall' = LruIdle THEN lruAfter ELSE 1
    /\ UNCHANGED lruLost

(* sht_alloc_node_i, after an eviction.                                    *)
LruAlloc ==
    /\ lruCall.step = "alloc"
    /\ lruTab' = LruAllocNode(lruTab)
    /\ lruCall' = [lruCall EXCEPT !.step = "link", !.node = lruTab.free]
    /\ UNCHANGED <<lruLost, lruAfter>>

(* sht_insert_i, and the copy of the contents.                             *)
LruLinked ==
    LET i == lruCall.node
        linked == LruInsertNode(lruTab, i, LruKey(lruCall.val))
    IN  /\ lruCall.step = "link"
        /\ lruTab' = IF lruCall.copy THEN [linked EXCEPT !.node[i].val = lruCall.val]
                                     ELSE linked
        /\ lruCall' = LruIdle
        /\ UNCHANGED <<lruLost, lruAfter>>

(* The process is killed.  sht_attach finds nothing wrong with the table,  *)
(* unless it seems to have too many nodes: then Init makes it anew.        *)
LruKilled ==
    /\ lruCall # LruIdle \/ lruTab.item > LruMax
    /\ LruHeld => lruLost < LruMaxLost
    /\ lruLost' = IF LruHeld THEN lruLost + 1 ELSE lruLost
    /\ lruCall' = LruIdle
    /\ lruTab' = IF lruTab.item > LruMax
                   THEN LruMakeTable(lruTab.node, lruTab.bucket) ELSE lruTab
    /\ UNCHANGED lruAfter

LruNext ==
    \/ \E v \in LruValues :
         \/ LruInsertUnique(v) \/ LruInsertEqual(v) \/ LruFindOrInsert(v)
         \/ LruSearch(v) \/ LruRemove(v) \/ LruErase(v)
    \/ \E i \in LruNode : LruEraseAt(i)
    \/ LruFreed \/ LruScan \/ LruAlloc \/ LruLinked \/ LruKilled

LruSpec == LruInit /\ [][LruNext]_lruVars

-----------------------------------------------------------------------------
(* Properties.                                                             *)

LruIndex == LruNode \cup {-1}
LruCodes == {LruKey(v) : v \in LruValues} \cup {0}

LruTypeOK ==
    /\ lruTab.node \in [LruNode ->
         [next : LruIndex, prev : LruIndex, lruNext : LruIndex,
          lruPrev : LruIndex, code : LruCodes,
          valid : BOOLEAN, val : LruValues]]
    /\ {lruTab.free, lruTab.head, lruTab.tail} \subseteq LruIndex
    /\ lruTab.item \in Int
    /\ lruTab.bucket \in [0 .. LruBuckets - 1 -> [count : Int, head : LruIndex]]
    /\ lruCall \in [op : {"none", "insert", "remove", "erase"},
                    step : {"none", "link", "evict", "free", "alloc", "scan"},
                    node : LruIndex, val : LruValues, copy : BOOLEAN, at : Nat]
    /\ lruLost \in 0 .. LruMaxLost
    /\ lruAfter \in 0 .. LruMaxAfter + 1

LruFree == LruWalk(lruTab, lruTab.free, "next", LruMax)

(* Every node is where it should be: the chains of the buckets hold the    *)
(* nodes of the LRU chain, each in the bucket of its code and as many as   *)
(* iCount says, the LRU chain read backwards from iLruTail is the one read *)
(* from iLruHead, the nodes of the free chain are the invalid ones, and    *)
(* iItem counts the others, of which one is lost with each process killed  *)
(* while its call holds a node, and none with others; and a search moves   *)
(* what it finds, and nothing else, to the front.  It is so until one of   *)
(* the two erases takes a node out of chains it is not in                  *)
(* (CLruHashTableEx.hpp:487-529, :749-848, :976-983, :1003-1032).          *)
LruSound == ~LruDamaged =>
    LET chain == LruUsed
        used == LruMembers(chain)
        back == LruWalk(lruTab, lruTab.tail, "lruPrev", LruMax)
        free == LruMembers(LruFree)
        adrift == IF LruHeld THEN lruLost + 1 ELSE lruLost
    IN  /\ \A b \in 0 .. LruBuckets - 1 :
             LET nodes == LruChain(lruTab, b)
             IN  /\ LruMembers(nodes) =
                      {i \in used : LruBucket(lruTab.node[i].code) = b}
                 /\ Len(nodes) = lruTab.bucket[b].count
        /\ Len(back) = Len(chain)
        /\ \A k \in DOMAIN back : back[k] = chain[Len(back) + 1 - k]
        /\ free = {i \in LruNode : ~lruTab.node[i].valid}
        /\ used \cap free = {}
        /\ lruTab.item = LruMax - Cardinality(free)
        /\ lruTab.item = Cardinality(used) + adrift
        /\ \A v \in LruValues :
             LET i == LruFindNode(lruTab, v)
             IN  i # -1 => \E p \in DOMAIN chain :
                   /\ chain[p] = i
                   /\ LruUsedOf(LruFind(lruTab, v)) =
                        <<i>> \o (SubSeq(chain, 1, p - 1)
                                  \o SubSeq(chain, p + 1, Len(chain)))

LruEntries ==
    LET chain == LruUsed
    IN  [k \in DOMAIN chain |-> [code |-> lruTab.node[chain[k]].code,
                                val |-> lruTab.node[chain[k]].val]]

LruPromise == INSTANCE LruCache WITH
    Max <- LruMax,
    Entries <- [code : LruCodes, val : LruValues],
    cache <- LruEntries,
    lost <- lruLost,
    doing <- lruCall.op,
    damaged <- LruDamaged

(* The table keeps the promise of LruCache: whatever the calls, and        *)
(* wherever a process is killed, an entry disappears only if it is         *)
(* removed, or if it is the least recently used of a full table, until an  *)
(* erase damages the table; and that happens only if a killed process has  *)
(* lost a node, or to an erase that leaves entries while nodes are free    *)
(* (CLruHashTableEx.hpp:487-529, :1064-1107).                              *)
LruKeepsPromise == LruPromise!Spec
=============================================================================
