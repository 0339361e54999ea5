------------------------ MODULE LruHashTable_proofs -------------------------
(***************************************************************************)
(* Proofs about LruHashTable.  Its chains are lists: LruShape says which,  *)
(* each operation of the code is shown to put a node before a list or to   *)
(* take one out, and the walks to read the lists.  The invariant LruInv    *)
(* is the shape and the count of the nodes; LruSound and the refinement of *)
(* LruCache follow from it, step by step.                                  *)
(***************************************************************************)
EXTENDS LruHashTable, QueueFacts, TLAPS

-----------------------------------------------------------------------------
(* Chains: lists of nodes. The node at a place of a list, or -1 past its   *)
(* ends.                                                                   *)
LruNth(s, k) == IF k \in DOMAIN s THEN s[k] ELSE -1

LruDistinct(s) == \A j, k \in DOMAIN s : s[j] = s[k] => j = k

(* The links of the nodes of a list lead along it and back.                *)
LruDll(nd, nx, pv, s) ==
    \A k \in DOMAIN s : /\ nd[s[k]][nx] = LruNth(s, k + 1)
                        /\ nd[s[k]][pv] = LruNth(s, k - 1)

LEMMA LruNodeNumbers ==
    /\ LruMax \in Nat /\ LruMax > 0 /\ LruBuckets \in Nat /\ LruBuckets > 0
    /\ LruNode = 0 .. LruMax - 1 /\ LruNode \subseteq Nat /\ -1 \notin LruNode
BY LruHashTableAssumption DEF LruNode

(* A node is put before a chain ...                                        *)
LruPushLinks(nd, nd2, nx, pv, s, i) ==
    /\ nd2[i][nx] = LruNth(s, 1) /\ nd2[i][pv] = -1
    /\ \A k \in LruMembers(s) :
         /\ nd2[k][nx] = nd[k][nx]
         /\ nd2[k][pv] = IF k = LruNth(s, 1) THEN i ELSE nd[k][pv]

LruPushes(nd2, nx, pv, s, i) ==
    /\ InFront(s, i) \in Seq(LruNode) /\ Len(InFront(s, i)) = Len(s) + 1
    /\ LruDistinct(InFront(s, i))
    /\ LruDll(nd2, nx, pv, InFront(s, i))
    /\ LruMembers(InFront(s, i)) = LruMembers(s) \cup {i}
    /\ LruNth(InFront(s, i), 1) = i
    /\ LruNth(InFront(s, i), Len(s) + 1)
         = IF s = <<>> THEN i ELSE LruNth(s, Len(s))

(* What LruPushes says, from what the links are.                           *)
LEMMA LruPushChain ==
    ASSUME NEW s \in Seq(LruNode), LruDistinct(s), NEW i \in LruNode \ LruMembers(s),
           NEW nd, NEW nd2, NEW nx, NEW pv, LruDll(nd, nx, pv, s),
           LruPushLinks(nd, nd2, nx, pv, s, i)
    PROVE  LruPushes(nd2, nx, pv, s, i)
<1>1. /\ nd2[i][nx] = LruNth(s, 1) /\ nd2[i][pv] = -1
      /\ \A k \in LruMembers(s) :
           /\ nd2[k][nx] = nd[k][nx]
           /\ nd2[k][pv] = IF k = LruNth(s, 1) THEN i ELSE nd[k][pv]
  BY DEF LruPushLinks
<1> DEFINE c == InFront(s, i)
<1>2. /\ c \in Seq(LruNode) /\ Len(c) = Len(s) + 1
      /\ DOMAIN c = 1 .. Len(s) + 1
      /\ DOMAIN s = 1 .. Len(s) /\ Len(s) \in Nat
      /\ c[1] = i
  BY InFrontElements
<1>3. \A k \in DOMAIN s : c[k + 1] = s[k]
  BY InFrontElements
<1>4. \A k \in DOMAIN c : k # 1 => k - 1 \in DOMAIN s /\ c[k] = s[k - 1]
  BY InFrontElements
<1> HIDE DEF c
<1>5. /\ c \in Seq(LruNode) /\ Len(c) = Len(s) + 1
      /\ DOMAIN c = 1 .. Len(s) + 1
      /\ DOMAIN s = 1 .. Len(s) /\ Len(s) \in Nat
      /\ c[1] = i
      /\ \A k \in DOMAIN s : c[k + 1] = s[k]
      /\ \A k \in DOMAIN c : k # 1 => k - 1 \in DOMAIN s /\ c[k] = s[k - 1]
  BY <1>2, <1>3, <1>4, Zenon
<1>6. \A k \in DOMAIN s : s[k] \in LruMembers(s) /\ s[k] # i
  BY DEF LruMembers
<1>7. LruDistinct(c)
  BY <1>5, <1>6 DEF LruDistinct
<1>8. LruMembers(c) = LruMembers(s) \cup {i}
  <2>1. \A k \in DOMAIN c : c[k] \in LruMembers(s) \cup {i}
    BY <1>5, <1>6
  <2>2. ASSUME NEW x \in LruMembers(s) PROVE x \in LruMembers(c)
    <3>1. PICK k \in DOMAIN s : s[k] = x
      BY DEF LruMembers
    <3>2. k + 1 \in DOMAIN c /\ c[k + 1] = x
      BY <1>5, <3>1
    <3> QED BY <3>2 DEF LruMembers
  <2>3. i \in LruMembers(c)
    BY <1>5 DEF LruMembers
  <2>4. \A x \in LruMembers(c) : x \in LruMembers(s) \cup {i}
    BY <2>1 DEF LruMembers
  <2> QED BY <2>2, <2>3, <2>4
<1>9. LruDll(nd2, nx, pv, c)
  <2>1. ASSUME NEW k \in DOMAIN c
        PROVE  nd2[c[k]][nx] = LruNth(c, k + 1)
    <3>1. CASE k = 1
      BY <1>1, <1>5, <3>1 DEF LruNth
    <3>2. CASE k # 1
      <4>1. /\ k - 1 \in DOMAIN s /\ c[k] = s[k - 1] /\ k \in Nat
            /\ s[k - 1] \in LruMembers(s)
        BY <1>5, <1>6, <3>2
      <4>2. nd2[c[k]][nx] = LruNth(s, (k - 1) + 1)
        BY <1>1, <4>1 DEF LruDll
      <4>3. k \in DOMAIN s <=> k + 1 \in DOMAIN c
        BY <1>5, <4>1
      <4>4. k \in DOMAIN s => c[k + 1] = s[k]
        BY <1>5
      <4> QED BY <4>1, <4>2, <4>3, <4>4 DEF LruNth
    <3> QED BY <3>1, <3>2
  <2>2. ASSUME NEW k \in DOMAIN c
        PROVE  nd2[c[k]][pv] = LruNth(c, k - 1)
    <3>1. CASE k = 1
      BY <1>1, <1>5, <3>1 DEF LruNth
    <3>2. CASE k = 2
      <4>1. /\ 1 \in DOMAIN s /\ c[k] = s[1] /\ s[1] \in LruMembers(s)
            /\ k - 1 = 1 /\ 1 \in DOMAIN c
        BY <1>5, <1>6, <3>2
      <4> QED BY <1>1, <1>5, <4>1 DEF LruNth
    <3>3. CASE k # 1 /\ k # 2
      <4>1. /\ k - 1 \in DOMAIN s /\ c[k] = s[k - 1] /\ k \in Nat
            /\ s[k - 1] \in LruMembers(s)
            /\ 1 \in DOMAIN s /\ k - 1 # 1 /\ k - 2 \in DOMAIN s
            /\ (k - 1) - 1 = k - 2
            /\ (k - 2) + 1 = k - 1 /\ k - 1 \in DOMAIN c
        BY <1>5, <1>6, <3>3
      <4>2. s[k - 1] # s[1]
        BY <4>1 DEF LruDistinct
      <4>3. nd2[c[k]][pv] = nd[s[k - 1]][pv]
        BY <1>1, <4>1, <4>2 DEF LruNth
      <4>4. nd[s[k - 1]][pv] = LruNth(s, k - 2)
        BY <4>1 DEF LruDll
      <4>5. c[k - 1] = s[k - 2]
        BY <1>5, <4>1
      <4> QED BY <4>1, <4>3, <4>4, <4>5 DEF LruNth
    <3> QED BY <3>1, <3>2, <3>3
  <2> QED BY <2>1, <2>2 DEF LruDll
<1>10. LruNth(c, 1) = i
  BY <1>5 DEF LruNth
<1>11. LruNth(c, Len(s) + 1) = IF s = <<>> THEN i ELSE LruNth(s, Len(s))
  <2>1. CASE s = <<>>
    BY <1>5, <2>1 DEF LruNth
  <2>2. CASE s # <<>>
    <3>1. Len(s) \in DOMAIN s /\ Len(s) + 1 \in DOMAIN c
      BY <1>5, <2>2
    <3> QED BY <1>5, <2>2, <3>1 DEF LruNth
  <2> QED BY <2>1, <2>2
<1> QED BY <1>5, <1>7, <1>8, <1>9, <1>10, <1>11 DEF c, LruPushes

(* ... or taken out of one.                                                *)
LruDropLinks(nd, nd2, nx, pv, s, i) ==
    \A k \in LruMembers(s) : k # i =>
      /\ nd2[k][nx] = IF k = nd[i][pv] THEN nd[i][nx] ELSE nd[k][nx]
      /\ nd2[k][pv] = IF k = nd[i][nx] THEN nd[i][pv] ELSE nd[k][pv]

LruDrops(nd, nd2, nx, pv, s, p) ==
    /\ LeftOut(s, p) \in Seq(LruNode)
    /\ Len(LeftOut(s, p)) = Len(s) - 1
    /\ LruDistinct(LeftOut(s, p))
    /\ LruDll(nd2, nx, pv, LeftOut(s, p))
    /\ LruMembers(LeftOut(s, p)) = LruMembers(s) \ {s[p]}
    /\ LruNth(LeftOut(s, p), 1)
         = IF s[p] = LruNth(s, 1) THEN nd[s[p]][nx] ELSE LruNth(s, 1)
    /\ LruNth(LeftOut(s, p), Len(s) - 1)
         = IF s[p] = LruNth(s, Len(s)) THEN nd[s[p]][pv] ELSE LruNth(s, Len(s))

(* What LruDrops says, from what the links are.                            *)
LEMMA LruDropChain ==
    ASSUME NEW s \in Seq(LruNode), LruDistinct(s), NEW p \in DOMAIN s,
           NEW nd, NEW nd2, NEW nx, NEW pv, LruDll(nd, nx, pv, s),
           LruDropLinks(nd, nd2, nx, pv, s, s[p])
    PROVE  LruDrops(nd, nd2, nx, pv, s, p)
<1>1. PICK i : i = s[p]
  OBVIOUS
<1>2. \A k \in LruMembers(s) : k # i =>
        /\ nd2[k][nx] = IF k = nd[i][pv] THEN nd[i][nx] ELSE nd[k][nx]
        /\ nd2[k][pv] = IF k = nd[i][nx] THEN nd[i][pv] ELSE nd[k][pv]
  BY <1>1 DEF LruDropLinks
<1> DEFINE c == LeftOut(s, p)
<1>3. /\ c \in Seq(LruNode) /\ Len(c) = Len(s) - 1
      /\ DOMAIN c = 1 .. Len(s) - 1
      /\ DOMAIN s = 1 .. Len(s) /\ Len(s) \in Nat /\ p \in 1 .. Len(s)
      /\ \A k \in 1 .. Len(s) - 1 : c[k] = IF k < p THEN s[k] ELSE s[k + 1]
  BY LeftOutElements, Zenon
<1> HIDE DEF c
<1>4. /\ \A k \in DOMAIN s : s[k] \in LruMembers(s) /\ (s[k] = i <=> k = p)
      /\ \A x \in LruMembers(s) : \E k \in DOMAIN s : s[k] = x
  BY <1>1 DEF LruMembers, LruDistinct
<1>5. LruDistinct(c)
  <2>1. ASSUME NEW j \in DOMAIN c, NEW k \in DOMAIN c, c[j] = c[k]
        PROVE  j = k
    <3> DEFINE a == IF j < p THEN j ELSE j + 1
               b == IF k < p THEN k ELSE k + 1
    <3>1. /\ j \in Int /\ k \in Int /\ p \in Int
          /\ a \in DOMAIN s /\ c[j] = s[a] /\ b \in DOMAIN s /\ c[k] = s[b]
      BY <1>3
    <3>2. a = b
      <4> HIDE DEF a, b
      <4> QED BY <2>1, <3>1 DEF LruDistinct
    <3> QED BY <3>1, <3>2
  <2> QED BY <2>1 DEF LruDistinct
<1>6. LruMembers(c) = LruMembers(s) \ {i}
  <2>1. ASSUME NEW k \in DOMAIN c PROVE c[k] \in LruMembers(s) \ {i}
    <3>1. CASE k < p
      BY <1>3, <1>4, <3>1
    <3>2. CASE ~ (k < p)
      <4>1. k + 1 \in DOMAIN s /\ k + 1 # p /\ c[k] = s[k + 1]
        BY <1>3, <3>2
      <4> QED BY <1>4, <4>1
    <3> QED BY <3>1, <3>2
  <2>2. ASSUME NEW x \in LruMembers(s) \ {i} PROVE x \in LruMembers(c)
    <3>1. PICK k \in DOMAIN s : s[k] = x
      BY <1>4
    <3>2. CASE k < p
      <4>1. k \in DOMAIN c /\ c[k] = x
        BY <1>3, <3>1, <3>2
      <4> QED BY <4>1 DEF LruMembers
    <3>3. CASE ~ (k < p)
      <4>1. k # p /\ k - 1 \in DOMAIN c /\ ~ (k - 1 < p) /\ k - 1 + 1 = k
        BY <1>3, <1>4, <3>1, <3>3
      <4>2. c[k - 1] = x
        BY <1>3, <3>1, <4>1
      <4> QED BY <4>1, <4>2 DEF LruMembers
    <3> QED BY <3>2, <3>3
  <2>3. \A x \in LruMembers(c) : x \in LruMembers(s) \ {i}
    BY <2>1 DEF LruMembers
  <2> QED BY <2>2, <2>3
<1>7. nd[i][nx] = LruNth(s, p + 1) /\ nd[i][pv] = LruNth(s, p - 1)
  BY <1>1 DEF LruDll
<1>8. /\ \A k \in DOMAIN s : (s[k] = LruNth(s, p + 1) <=> k = p + 1)
      /\ \A k \in DOMAIN s : (s[k] = LruNth(s, p - 1) <=> k = p - 1)
      /\ \A k \in DOMAIN s : s[k] # -1
  <2>1. \A k \in DOMAIN s : s[k] # -1
    BY LruNodeNumbers
  <2> QED BY <2>1, <1>3 DEF LruNth, LruDistinct
<1>9. LruDll(nd2, nx, pv, c)
  <2>1. ASSUME NEW k \in DOMAIN c
        PROVE  nd2[c[k]][nx] = LruNth(c, k + 1)
    <3>1. CASE k < p - 1
      <4>1. /\ k \in DOMAIN s /\ c[k] = s[k] /\ k # p /\ k # p - 1
            /\ k + 1 \in DOMAIN c /\ c[k + 1] = s[k + 1] /\ k + 1 \in DOMAIN s
        BY <1>3, <3>1
      <4>2. nd2[s[k]][nx] = nd[s[k]][nx]
        BY <1>2, <1>4, <1>7, <1>8, <4>1
      <4>3. nd[s[k]][nx] = s[k + 1]
        BY <4>1 DEF LruDll, LruNth
      <4> QED BY <4>1, <4>2, <4>3 DEF LruNth
    <3>2. CASE k = p - 1
      <4>1. /\ k \in DOMAIN s /\ c[k] = s[k] /\ k # p /\ k = p - 1
            /\ (k + 1 \in DOMAIN c <=> p + 1 \in DOMAIN s)
            /\ (p + 1 \in DOMAIN s => c[k + 1] = s[p + 1])
        BY <1>3, <3>2
      <4>2. nd2[s[k]][nx] = nd[i][nx]
        BY <1>2, <1>4, <1>7, <1>8, <4>1
      <4> QED BY <1>7, <4>1, <4>2 DEF LruNth
    <3>3. CASE k > p - 1
      <4>1. /\ k + 1 \in DOMAIN s /\ c[k] = s[k + 1] /\ k + 1 # p /\ k + 1 # p - 1
            /\ (k + 1 \in DOMAIN c <=> (k + 1) + 1 \in DOMAIN s)
            /\ (k + 1 \in DOMAIN c => c[k + 1] = s[(k + 1) + 1])
        BY <1>3, <3>3
      <4>2. nd2[s[k + 1]][nx] = nd[s[k + 1]][nx]
        BY <1>2, <1>4, <1>7, <1>8, <4>1
      <4>3. nd[s[k + 1]][nx] = LruNth(s, (k + 1) + 1)
        BY <4>1 DEF LruDll
      <4> QED BY <4>1, <4>2, <4>3 DEF LruNth
    <3>4. k \in Int /\ p \in Int
      BY <1>3
    <3> QED BY <3>1, <3>2, <3>3, <3>4
  <2>2. ASSUME NEW k \in DOMAIN c
        PROVE  nd2[c[k]][pv] = LruNth(c, k - 1)
    <3>1. CASE k < p
      <4>1. /\ k \in DOMAIN s /\ c[k] = s[k] /\ k # p /\ k # p + 1
            /\ (k - 1 \in DOMAIN c <=> k - 1 \in DOMAIN s)
            /\ (k - 1 \in DOMAIN c => c[k - 1] = s[k - 1])
        BY <1>3, <3>1
      <4>2. nd2[s[k]][pv] = nd[s[k]][pv]
        BY <1>2, <1>4, <1>7, <1>8, <4>1
      <4>3. nd[s[k]][pv] = LruNth(s, k - 1)
        BY <4>1 DEF LruDll
      <4> QED BY <4>1, <4>2, <4>3 DEF LruNth
    <3>2. CASE k = p
      <4>1. /\ k + 1 \in DOMAIN s /\ c[k] = s[k + 1] /\ k + 1 # p /\ k + 1 = p + 1
            /\ (k - 1 \in DOMAIN c <=> p - 1 \in DOMAIN s)
            /\ (p - 1 \in DOMAIN s => c[k - 1] = s[p - 1])
        BY <1>3, <3>2
      <4>2. nd2[s[k + 1]][pv] = nd[i][pv]
        BY <1>2, <1>4, <1>7, <1>8, <4>1
      <4> QED BY <1>7, <4>1, <4>2 DEF LruNth
    <3>3. CASE k > p
      <4>1. /\ k + 1 \in DOMAIN s /\ c[k] = s[k + 1] /\ k + 1 # p /\ k + 1 # p + 1
            /\ k - 1 \in DOMAIN c /\ k \in DOMAIN s /\ c[k - 1] = s[k]
            /\ (k + 1) - 1 = k
        BY <1>3, <3>3
      <4>2. nd2[s[k + 1]][pv] = nd[s[k + 1]][pv]
        BY <1>2, <1>4, <1>7, <1>8, <4>1
      <4>3. nd[s[k + 1]][pv] = s[k]
        BY <4>1 DEF LruDll, LruNth
      <4> QED BY <4>1, <4>2, <4>3 DEF LruNth
    <3>4. k \in Int /\ p \in Int
      BY <1>3
    <3> QED BY <3>1, <3>2, <3>3, <3>4
  <2> QED BY <2>1, <2>2 DEF LruDll
<1>10. LruNth(c, 1) = IF i = LruNth(s, 1) THEN nd[i][nx] ELSE LruNth(s, 1)
  <2>1. LruNth(s, 1) = s[1] /\ 1 \in DOMAIN s
    BY <1>3 DEF LruNth
  <2>2. i = s[1] <=> p = 1
    BY <1>4, <2>1
  <2>3. CASE p = 1
    BY <1>3, <1>7, <2>1, <2>2, <2>3 DEF LruNth
  <2>4. CASE p # 1
    BY <1>3, <2>1, <2>2, <2>4 DEF LruNth
  <2> QED BY <2>3, <2>4
<1>11. LruNth(c, Len(s) - 1)
        = IF i = LruNth(s, Len(s)) THEN nd[i][pv] ELSE LruNth(s, Len(s))
  <2>1. LruNth(s, Len(s)) = s[Len(s)] /\ Len(s) \in DOMAIN s
    BY <1>3 DEF LruNth
  <2>2. i = s[Len(s)] <=> p = Len(s)
    BY <1>4, <2>1
  <2>3. CASE p = Len(s)
    BY <1>3, <1>7, <2>1, <2>2, <2>3 DEF LruNth
  <2>4. CASE p # Len(s)
    <3>1. /\ Len(s) - 1 \in DOMAIN c /\ ~ (Len(s) - 1 < p)
          /\ c[Len(s) - 1] = s[(Len(s) - 1) + 1] /\ (Len(s) - 1) + 1 = Len(s)
      BY <1>3, <2>4
    <3> QED BY <2>1, <2>2, <2>4, <3>1 DEF LruNth
  <2> QED BY <2>3, <2>4
<1> QED BY <1>1, <1>3, <1>5, <1>6, <1>9, <1>10, <1>11 DEF c, LruDrops

-----------------------------------------------------------------------------
(* Walks along links. What LruWalk defines is a function that exists.      *)
LruWalking(nd, link, limit, f) ==
    f = [n \in 0 .. limit |->
           [i \in LruIndex |->
              IF i = -1 \/ n = 0 THEN <<>> ELSE <<i>> \o f[n - 1][nd[i][link]]]]

LEMMA LruWalkingExists ==
    ASSUME NEW nd, NEW link
    PROVE  \A limit \in Nat : \E f : LruWalking(nd, link, limit, f)
<1> DEFINE S == {m \in Nat : \E f : LruWalking(nd, link, m, f)}
<1>1. 0 \in S
  <2> DEFINE f == [n \in 0 .. 0 |-> [i \in LruIndex |-> <<>>]]
  <2>1. f = [n \in 0 .. 0 |->
               [i \in LruIndex |->
                  IF i = -1 \/ n = 0 THEN <<>> ELSE <<i>> \o f[n - 1][nd[i][link]]]]
    OBVIOUS
  <2>2. LruWalking(nd, link, 0, f)
    BY <2>1 DEF LruWalking
  <2> QED BY <2>2
<1>2. ASSUME NEW m \in Nat, m \in S PROVE m + 1 \in S
  <2>1. PICK f : LruWalking(nd, link, m, f)
    BY <1>2
  <2> DEFINE g == [n \in 0 .. m + 1 |->
                     IF n <= m THEN f[n]
                     ELSE [i \in LruIndex |->
                             IF i = -1 THEN <<>> ELSE <<i>> \o f[m][nd[i][link]]]]
             h == [n \in 0 .. m + 1 |->
                     [i \in LruIndex |->
                        IF i = -1 \/ n = 0 THEN <<>> ELSE <<i>> \o g[n - 1][nd[i][link]]]]
  <2>2. ASSUME NEW n \in 0 .. m + 1 PROVE g[n] = h[n]
    <3>1. /\ n <= m => g[n] = f[n]
          /\ ~ (n <= m) => g[n] = [i \in LruIndex |->
                             IF i = -1 THEN <<>> ELSE <<i>> \o f[m][nd[i][link]]]
          /\ n # 0 => g[n - 1] = f[n - 1]
      OBVIOUS
    <3>2. h[n] = [i \in LruIndex |->
                    IF i = -1 \/ n = 0 THEN <<>> ELSE <<i>> \o g[n - 1][nd[i][link]]]
      <4> HIDE DEF g
      <4> QED OBVIOUS
    <3>3. n <= m => f[n] = [i \in LruIndex |->
                      IF i = -1 \/ n = 0 THEN <<>> ELSE <<i>> \o f[n - 1][nd[i][link]]]
      <4>1. n <= m => n \in 0 .. m
        OBVIOUS
      <4> QED BY <2>1, <4>1 DEF LruWalking
    <3>4. ~ (n <= m) => n - 1 = m /\ n # 0
      OBVIOUS
    <3> HIDE DEF g, h
    <3>5. CASE n <= m
      BY <3>1, <3>2, <3>3, <3>5
    <3>6. CASE ~ (n <= m)
      BY <3>1, <3>2, <3>4, <3>6
    <3> QED BY <3>5, <3>6
  <2>3. g = h
    <3>1. /\ g = [n \in 0 .. m + 1 |-> g[n]]
          /\ h = [n \in 0 .. m + 1 |-> h[n]]
      OBVIOUS
    <3> HIDE DEF g, h
    <3> QED BY <2>2, <3>1
  <2>4. LruWalking(nd, link, m + 1, g)
    <3>1. h = [n \in 0 .. m + 1 |->
                     [i \in LruIndex |->
                        IF i = -1 \/ n = 0 THEN <<>> ELSE <<i>> \o g[n - 1][nd[i][link]]]]
      OBVIOUS
    <3> HIDE DEF g, h
    <3> QED BY <2>3, <3>1 DEF LruWalking
  <2> HIDE DEF g
  <2> QED BY <2>4
<1>3. \A m \in Nat : m \in S
  <2> HIDE DEF S
  <2> QED BY <1>1, <1>2, NaturalInduction
<1> QED BY <1>3

LruWalks(nd, link, limit, f) ==
    \A i \in LruIndex, n \in 0 .. limit :
      f[n][i] = IF i = -1 \/ n = 0 THEN <<>> ELSE <<i>> \o f[n - 1][nd[i][link]]

LEMMA LruWalkStep ==
    ASSUME NEW t, NEW link, NEW limit \in Nat, NEW from
    PROVE  \E f : /\ LruWalk(t, from, link, limit) = f[limit][from]
                 /\ LruWalks(t.node, link, limit, f)
<1> DEFINE W == CHOOSE f : LruWalking(t.node, link, limit, f)
<1>1. LruWalk(t, from, link, limit) = W[limit][from]
  BY DEF LruWalk, LruWalking, LruIndex
<1>2. LruWalking(t.node, link, limit, W)
  <2>1. \E f : LruWalking(t.node, link, limit, f)
    BY LruWalkingExists
  <2> QED BY <2>1
<1> HIDE DEF W
<1>3. ASSUME NEW i \in LruIndex, NEW n \in 0 .. limit
      PROVE  W[n][i] = IF i = -1 \/ n = 0 THEN <<>>
                       ELSE <<i>> \o W[n - 1][t.node[i][link]]
  <2>1. W[n] = [j \in LruIndex |->
                  IF j = -1 \/ n = 0 THEN <<>> ELSE <<j>> \o W[n - 1][t.node[j][link]]]
    BY <1>2 DEF LruWalking
  <2> QED BY <2>1
<1>4. LruWalks(t.node, link, limit, W)
  BY <1>3 DEF LruWalks
<1> QED BY <1>1, <1>4

(* A walk along the links of a chain is the chain.                         *)
LEMMA LruWalkIsChain ==
    ASSUME NEW t, NEW link, NEW limit \in Nat, NEW from \in LruIndex,
           NEW s \in Seq(LruNode), Len(s) <= limit,
           \A k \in DOMAIN s : t.node[s[k]][link] = LruNth(s, k + 1),
           from = LruNth(s, 1) \/ limit = 0
    PROVE  LruWalk(t, from, link, limit) = s
<1>1. DOMAIN s = 1 .. Len(s) /\ Len(s) \in Nat
  OBVIOUS
<1>2. PICK f : /\ LruWalk(t, from, link, limit) = f[limit][from]
               /\ LruWalks(t.node, link, limit, f)
  BY LruWalkStep
<1>3. \A i \in LruIndex, n \in 0 .. limit :
        f[n][i] = IF i = -1 \/ n = 0 THEN <<>> ELSE <<i>> \o f[n - 1][t.node[i][link]]
  BY <1>2 DEF LruWalks
<1> DEFINE S == {n \in Nat : n <= limit =>
                   \A k \in 1 .. Len(s) + 1 : Len(s) + 1 - k <= n =>
                     f[n][LruNth(s, k)] = SubSeq(s, k, Len(s))}
<1>4. \A k \in DOMAIN s : s[k] \in LruIndex /\ s[k] # -1 /\ s[k] \in LruNode
  BY LruNodeNumbers DEF LruIndex
<1>5. LruNth(s, Len(s) + 1) = -1 /\ -1 \in LruIndex
  BY <1>1 DEF LruNth, LruIndex
<1>6. ASSUME NEW n \in Nat, n <= limit
      PROVE  f[n][LruNth(s, Len(s) + 1)] = SubSeq(s, Len(s) + 1, Len(s))
  <2>1. n \in 0 .. limit
    BY <1>6
  <2>2. f[n][-1] = <<>>
    BY <1>3, <1>5, <2>1
  <2>3. SubSeq(s, Len(s) + 1, Len(s)) = <<>>
    BY <1>1
  <2> QED BY <1>5, <2>2, <2>3
<1>7. 0 \in S
  <2>1. \A k \in 1 .. Len(s) + 1 : Len(s) + 1 - k <= 0 => k = Len(s) + 1
    BY <1>1
  <2> QED BY <1>6, <2>1
<1>8. ASSUME NEW n \in Nat, n \in S PROVE n + 1 \in S
  <2>1. ASSUME n + 1 <= limit, NEW k \in 1 .. Len(s) + 1,
               Len(s) + 1 - k <= n + 1
        PROVE  f[n + 1][LruNth(s, k)] = SubSeq(s, k, Len(s))
    <3>1. CASE k = Len(s) + 1
      <4>1. n + 1 \in Nat
        OBVIOUS
      <4> QED BY <1>6, <2>1, <3>1, <4>1
    <3>2. CASE k # Len(s) + 1
      <4>1. /\ k \in DOMAIN s /\ k + 1 \in 1 .. Len(s) + 1 /\ Len(s) + 1 - (k + 1) <= n
            /\ n + 1 \in 0 .. limit /\ n <= limit /\ n + 1 # 0 /\ (n + 1) - 1 = n
        BY <1>1, <2>1, <3>2
      <4>2. f[n][LruNth(s, k + 1)] = SubSeq(s, k + 1, Len(s))
        BY <1>8, <4>1
      <4>3. LruNth(s, k) = s[k] /\ t.node[s[k]][link] = LruNth(s, k + 1)
        BY <4>1 DEF LruNth
      <4>4. f[n + 1][s[k]] = <<s[k]>> \o f[(n + 1) - 1][t.node[s[k]][link]]
        BY <1>3, <1>4, <4>1
      <4>5. <<s[k]>> \o SubSeq(s, k + 1, Len(s)) = SubSeq(s, k, Len(s))
        BY <4>1, SuffixStep, Zenon
      <4> QED BY <4>1, <4>2, <4>3, <4>4, <4>5
    <3> QED BY <3>1, <3>2
  <2> QED BY <2>1
<1>9. \A n \in Nat : n \in S
  <2> HIDE DEF S
  <2> QED BY <1>7, <1>8, NaturalInduction
<1>10. CASE from = LruNth(s, 1)
  <2>1. limit \in S
    <3> HIDE DEF S
    <3> QED BY <1>9
  <2>2. limit <= limit /\ 1 \in 1 .. Len(s) + 1 /\ Len(s) + 1 - 1 <= limit
    BY <1>1
  <2>3. f[limit][LruNth(s, 1)] = SubSeq(s, 1, Len(s))
    BY <2>1, <2>2
  <2>4. SubSeq(s, 1, Len(s)) = s
    BY <1>1
  <2> QED BY <1>2, <1>3, <1>10, <2>3, <2>4
<1>11. CASE limit = 0
  <2>1. f[limit][from] = <<>>
    BY <1>3, <1>11
  <2>2. s = <<>>
    BY <1>1, <1>11
  <2> QED BY <1>2, <1>3, <2>1, <2>2
<1> QED BY <1>10, <1>11

-----------------------------------------------------------------------------
(* The table: its type, and what each operation of the code does to its    *)
(* fields.                                                                 *)
LruLinks == {"next", "prev", "lruNext", "lruPrev"}

LruHeads == 0 .. LruBuckets - 1

LruNodes == [next : LruIndex, prev : LruIndex, lruNext : LruIndex,
          lruPrev : LruIndex, code : LruCodes,
          valid : BOOLEAN, val : LruValues]

LruTables == [free : LruIndex, head : LruIndex, tail : LruIndex, item : Int,
  node : [LruNode -> LruNodes], bucket : [LruHeads -> [count : Int, head : LruIndex]]]

LruSameContents(t, t2) ==
    \A k \in LruNode : /\ t2.node[k].code = t.node[k].code
                       /\ t2.node[k].valid = t.node[k].valid
                       /\ t2.node[k].val = t.node[k].val

LruRelinked(t, t2, i, link, j) ==
    /\ t2 \in LruTables
    /\ t2.free = t.free /\ t2.head = t.head /\ t2.tail = t.tail
    /\ t2.item = t.item /\ t2.bucket = t.bucket
    /\ LruSameContents(t, t2)
    /\ \A k \in LruNode, l \in LruLinks :
         t2.node[k][l] = IF k = i /\ l = link THEN j ELSE t.node[k][l]

LEMMA LruLinkFacts ==
    ASSUME NEW t \in LruTables, NEW i \in LruIndex, NEW link \in LruLinks,
           NEW j \in LruIndex
    PROVE  LruRelinked(t, LruLink(t, i, link, j), i, link, j)
<1> DEFINE t2 == LruLink(t, i, link, j)
<1>1. CASE i \notin LruNode
  BY <1>1 DEF LruLink, LruSameContents, LruRelinked
<1>2. CASE i \in LruNode
  <2>1. /\ t2 = [t EXCEPT !.node = [t.node EXCEPT ![i] = [t.node[i] EXCEPT ![link] = j]]]
        /\ t.node \in [LruNode -> LruNodes] /\ t.node[i] \in LruNodes
    BY <1>2 DEF LruLink, LruTables
  <2> DEFINE n == [t.node[i] EXCEPT ![link] = j]
  <2>2. n \in LruNodes
    BY <2>1 DEF LruNodes, LruLinks
  <2>3. /\ n.code = t.node[i].code /\ n.valid = t.node[i].valid /\ n.val = t.node[i].val
        /\ \A l \in LruLinks : n[l] = IF l = link THEN j ELSE t.node[i][l]
    BY <2>1 DEF LruNodes, LruLinks
  <2> HIDE DEF n
  <2>4. t2 = [t EXCEPT !.node = [t.node EXCEPT ![i] = n]]
    BY <2>1 DEF n
  <2> HIDE DEF t2
  <2>5. /\ t2 \in LruTables /\ t2.node = [t.node EXCEPT ![i] = n]
        /\ t2.free = t.free /\ t2.head = t.head /\ t2.tail = t.tail
        /\ t2.item = t.item /\ t2.bucket = t.bucket
    BY <1>2, <2>1, <2>2, <2>4 DEF LruTables
  <2>6. t2.node[i] = n /\ \A k \in LruNode : k # i => t2.node[k] = t.node[k]
    BY <1>2, <2>1, <2>5
  <2>7. LruRelinked(t, t2, i, link, j)
    BY <2>3, <2>5, <2>6 DEF LruSameContents, LruRelinked
  <2> QED BY <2>7 DEF t2
<1> QED BY <1>1, <1>2

LEMMA LruLinkNames == "next" \in LruLinks /\ "prev" \in LruLinks
                   /\ "lruNext" \in LruLinks /\ "lruPrev" \in LruLinks
BY DEF LruLinks

LruFronted(t, t2, i, tail) ==
    /\ t2 \in LruTables
    /\ t2.free = t.free /\ t2.item = t.item /\ t2.bucket = t.bucket
    /\ t2.head = i
    /\ t2.tail = tail
    /\ LruSameContents(t, t2)
    /\ \A k \in LruNode : t2.node[k].next = t.node[k].next
                       /\ t2.node[k].prev = t.node[k].prev
    /\ t2.node[i].lruNext = t.head /\ t2.node[i].lruPrev = -1
    /\ \A k \in LruNode : k # i =>
         /\ t2.node[k].lruNext = t.node[k].lruNext
         /\ t2.node[k].lruPrev = IF k = t.head THEN i ELSE t.node[k].lruPrev

LEMMA LruToFrontFacts ==
    ASSUME NEW t \in LruTables, NEW i \in LruNode, NEW t2, t2 = LruToFront(t, i)
    PROVE  LruFronted(t, t2, i, t.tail)
<1>1. i \in LruIndex /\ t.head \in LruIndex /\ t.tail \in LruIndex /\ -1 \in LruIndex
  BY DEF LruIndex, LruTables
<1>2. PICK l : l = LruLink(t, t.head, "lruPrev", i)
  OBVIOUS
<1>3. LruRelinked(t, l, t.head, "lruPrev", i)
  BY <1>1, <1>2, LruLinkFacts, LruLinkNames
<1>4. /\ l \in LruTables /\ l.node \in [LruNode -> LruNodes]
      /\ l.free = t.free /\ l.head = t.head /\ l.tail = t.tail
      /\ l.item = t.item /\ l.bucket = t.bucket
      /\ LruSameContents(t, l)
      /\ \A k \in LruNode :
           /\ l.node[k].next = t.node[k].next /\ l.node[k].prev = t.node[k].prev
           /\ l.node[k].lruNext = t.node[k].lruNext
           /\ l.node[k].lruPrev = IF k = t.head THEN i ELSE t.node[k].lruPrev
  BY <1>3 DEF LruLinks, LruRelinked, LruTables
<1>5. t2 = [l EXCEPT !.node[i] = [@ EXCEPT !.lruNext = t.head, !.lruPrev = -1],
                     !.head = i]
  BY <1>2 DEF LruToFront
<1>6. PICK n : n = [l.node[i] EXCEPT !.lruNext = t.head, !.lruPrev = -1]
  OBVIOUS
<1>7. /\ n \in LruNodes
      /\ n.lruNext = t.head /\ n.lruPrev = -1 /\ n.next = l.node[i].next
      /\ n.prev = l.node[i].prev /\ n.code = l.node[i].code
      /\ n.valid = l.node[i].valid /\ n.val = l.node[i].val
  <2>1. l.node[i] \in LruNodes
    BY <1>4
  <2> QED BY <1>1, <1>6, <2>1 DEF LruNodes
<1>8. /\ t2.free = l.free /\ t2.item = l.item /\ t2.bucket = l.bucket
      /\ t2.head = i /\ t2.tail = l.tail
      /\ t2.node = [l.node EXCEPT ![i] = n]
  BY <1>4, <1>5, <1>6 DEF LruTables
<1>9. t2 \in LruTables
  <2>1. t2 = [free |-> t2.free, head |-> t2.head, tail |-> t2.tail, item |-> t2.item,
              node |-> t2.node, bucket |-> t2.bucket]
    BY <1>4, <1>5 DEF LruTables
  <2> QED BY <1>1, <1>4, <1>7, <1>8, <2>1 DEF LruTables
<1>10. t2.node[i] = n /\ \A k \in LruNode : k # i => t2.node[k] = l.node[k]
  BY <1>4, <1>8
<1> QED BY <1>4, <1>7, <1>8, <1>9, <1>10 DEF LruSameContents, LruFronted

LruPushed(t, t2, i) ==
    LruFronted(t, t2, i, IF t.tail < 0 /\ t.head < 0 THEN i ELSE t.tail)

LEMMA LruPushFacts ==
    ASSUME NEW t \in LruTables, NEW i \in LruNode, NEW t2, t2 = LruPush(t, i)
    PROVE  LruPushed(t, t2, i)
<1>1. PICK m : m = LruToFront(t, i)
  OBVIOUS
<1>2. LruFronted(t, m, i, t.tail)
  BY <1>1, LruToFrontFacts
<1>3. m \in LruTables /\ m.tail = t.tail
  BY <1>2 DEF LruFronted
<1>4. PICK tail : tail = IF t.tail < 0 /\ t.head < 0 THEN i ELSE t.tail
  OBVIOUS
<1>5. t2 = [m EXCEPT !.tail = tail] /\ tail \in LruIndex
  BY <1>1, <1>3, <1>4 DEF LruPush, LruIndex, LruTables
<1>6. /\ t2 \in LruTables /\ t2.free = m.free /\ t2.item = m.item
      /\ t2.bucket = m.bucket /\ t2.head = m.head /\ t2.node = m.node /\ t2.tail = tail
  BY <1>3, <1>5 DEF LruTables
<1>7. LruFronted(t, t2, i, tail)
  BY <1>2, <1>6 DEF LruFronted, LruSameContents
<1> QED BY <1>4, <1>7 DEF LruPushed

LruDropped(t, t2, i) ==
    /\ t2 \in LruTables
    /\ t2.free = t.free /\ t2.item = t.item /\ t2.bucket = t.bucket
    /\ t2.head = IF t.head = i THEN t.node[i].lruNext ELSE t.head
    /\ t2.tail = IF t.tail = i THEN t.node[i].lruPrev ELSE t.tail
    /\ LruSameContents(t, t2)
    /\ \A k \in LruNode : t2.node[k].next = t.node[k].next
                       /\ t2.node[k].prev = t.node[k].prev
    /\ \A k \in LruNode :
         /\ t2.node[k].lruNext = IF k = t.node[i].lruPrev
                                   THEN t.node[i].lruNext ELSE t.node[k].lruNext
         /\ t2.node[k].lruPrev = IF k = t.node[i].lruNext
                                   THEN t.node[i].lruPrev ELSE t.node[k].lruPrev

LEMMA LruDropFacts ==
    ASSUME NEW t \in LruTables, NEW i \in LruNode, NEW t2, t2 = LruDrop(t, i)
    PROVE  LruDropped(t, t2, i)
<1>1. /\ i \in LruIndex /\ t.head \in LruIndex /\ t.tail \in LruIndex
      /\ t.node[i].lruNext \in LruIndex /\ t.node[i].lruPrev \in LruIndex
  BY DEF LruIndex, LruTables, LruNodes
<1>2. PICK m : m = LruLink(t, t.node[i].lruPrev, "lruNext", t.node[i].lruNext)
  OBVIOUS
<1>3. LruRelinked(t, m, t.node[i].lruPrev, "lruNext", t.node[i].lruNext)
  BY <1>1, <1>2, LruLinkFacts, LruLinkNames
<1>4. PICK l : l = LruLink(m, t.node[i].lruNext, "lruPrev", t.node[i].lruPrev)
  OBVIOUS
<1>5. LruRelinked(m, l, t.node[i].lruNext, "lruPrev", t.node[i].lruPrev)
  <2>1. m \in LruTables
    BY <1>3 DEF LruRelinked
  <2> QED BY <1>1, <1>4, <2>1, LruLinkFacts, LruLinkNames
<1>6. /\ l \in LruTables
      /\ l.free = t.free /\ l.head = t.head /\ l.tail = t.tail
      /\ l.item = t.item /\ l.bucket = t.bucket
      /\ LruSameContents(t, l)
      /\ \A k \in LruNode :
           /\ l.node[k].next = t.node[k].next /\ l.node[k].prev = t.node[k].prev
           /\ l.node[k].lruNext = IF k = t.node[i].lruPrev
                                    THEN t.node[i].lruNext ELSE t.node[k].lruNext
           /\ l.node[k].lruPrev = IF k = t.node[i].lruNext
                                    THEN t.node[i].lruPrev ELSE t.node[k].lruPrev
  BY <1>3, <1>5 DEF LruLinks, LruRelinked, LruSameContents
<1>7. t2 = [l EXCEPT !.head = IF @ = i THEN t.node[i].lruNext ELSE @,
                     !.tail = IF @ = i THEN t.node[i].lruPrev ELSE @]
  BY <1>2, <1>4 DEF LruDrop
<1>8. /\ t2 \in LruTables
      /\ t2.free = l.free /\ t2.item = l.item /\ t2.bucket = l.bucket /\ t2.node = l.node
      /\ t2.head = IF l.head = i THEN t.node[i].lruNext ELSE l.head
      /\ t2.tail = IF l.tail = i THEN t.node[i].lruPrev ELSE l.tail
  BY <1>1, <1>6, <1>7 DEF LruTables
<1> QED BY <1>6, <1>8 DEF LruSameContents, LruDropped

LEMMA LruCodeZero == 0 \in LruCodes /\ -1 \in LruIndex
BY DEF LruCodes, LruIndex

LruAllocates(t, t2, i) ==
    /\ t2 \in LruTables
    /\ t2.free = t.node[i].next /\ t2.item = t.item + 1
    /\ t2.head = t.head /\ t2.tail = t.tail /\ t2.bucket = t.bucket
    /\ t2.node[i].valid
    /\ \A k \in LruNode : k # i =>
         /\ t2.node[k].code = t.node[k].code /\ t2.node[k].val = t.node[k].val
         /\ t2.node[k].valid = t.node[k].valid
         /\ t2.node[k].lruNext = t.node[k].lruNext
         /\ t2.node[k].lruPrev = t.node[k].lruPrev
         /\ t2.node[k].next = t.node[k].next
         /\ t2.node[k].prev = IF k = t.node[i].next THEN -1 ELSE t.node[k].prev

LEMMA LruAllocFacts ==
    ASSUME NEW t \in LruTables, t.free \in LruNode, NEW t2, t2 = LruAllocNode(t),
           NEW i, i = t.free
    PROVE  LruAllocates(t, t2, i)
<1>1. i \in LruNode /\ t.node[i] \in LruNodes /\ t.node[i].next \in LruIndex
  BY DEF LruTables, LruNodes
<1>2. PICK n : n = LruUnlinked(TRUE, t.node[i].val)
  OBVIOUS
<1>3. n \in LruNodes /\ n.valid
  BY <1>1, <1>2, LruCodeZero DEF LruUnlinked, LruNodes
<1>4. PICK m : m = [t EXCEPT !.free = t.node[i].next, !.node[i] = n, !.item = @ + 1]
  OBVIOUS
<1>5. /\ m \in LruTables /\ m.free = t.node[i].next /\ m.item = t.item + 1
      /\ m.head = t.head /\ m.tail = t.tail /\ m.bucket = t.bucket
      /\ m.node = [t.node EXCEPT ![i] = n]
  <2>1. /\ m.free = t.node[i].next /\ m.item = t.item + 1
        /\ m.head = t.head /\ m.tail = t.tail /\ m.bucket = t.bucket
        /\ m.node = [t.node EXCEPT ![i] = n]
    BY <1>4 DEF LruTables
  <2>2. m = [free |-> m.free, head |-> m.head, tail |-> m.tail, item |-> m.item,
             node |-> m.node, bucket |-> m.bucket]
    BY <1>4 DEF LruTables
  <2> QED BY <1>1, <1>3, <2>1, <2>2 DEF LruTables
<1>6. m.node[i] = n /\ \A k \in LruNode : k # i => m.node[k] = t.node[k]
  BY <1>1, <1>5 DEF LruTables
<1>7. t2 = LruLink(m, m.free, "prev", -1)
  BY <1>2, <1>4 DEF LruAllocNode
<1>8. LruRelinked(m, t2, m.free, "prev", -1)
  BY <1>1, <1>5, <1>7, LruLinkFacts, LruLinkNames, LruCodeZero
<1>9. /\ t2 \in LruTables /\ t2.free = m.free /\ t2.item = m.item
      /\ t2.head = m.head /\ t2.tail = m.tail /\ t2.bucket = m.bucket
      /\ LruSameContents(m, t2)
      /\ \A k \in LruNode :
           /\ t2.node[k].lruNext = m.node[k].lruNext
           /\ t2.node[k].lruPrev = m.node[k].lruPrev
           /\ t2.node[k].next = m.node[k].next
           /\ t2.node[k].prev = IF k = m.free THEN -1 ELSE m.node[k].prev
  BY <1>8 DEF LruRelinked, LruLinks
<1> QED BY <1>1, <1>3, <1>5, <1>6, <1>9 DEF LruSameContents, LruAllocates

LruGivesBack(t, t2, i) ==
    /\ t2 \in LruTables
    /\ t2.free = i /\ t2.item = t.item - 1
    /\ t2.head = t.head /\ t2.tail = t.tail /\ t2.bucket = t.bucket
    /\ ~ t2.node[i].valid
    /\ t2.node[i].next = t.free
    /\ t2.node[i].prev = IF i = t.free THEN i ELSE -1
    /\ \A k \in LruNode : k # i =>
         /\ t2.node[k].code = t.node[k].code /\ t2.node[k].val = t.node[k].val
         /\ t2.node[k].valid = t.node[k].valid
         /\ t2.node[k].lruNext = t.node[k].lruNext
         /\ t2.node[k].lruPrev = t.node[k].lruPrev
         /\ t2.node[k].next = t.node[k].next
         /\ t2.node[k].prev = IF k = t.free THEN i ELSE t.node[k].prev

LEMMA LruFreeFacts ==
    ASSUME NEW t \in LruTables, NEW i \in LruNode, NEW t2, t2 = LruFreeNode(t, i)
    PROVE  LruGivesBack(t, t2, i)
<1>1. /\ i \in LruIndex /\ t.free \in LruIndex /\ t.node[i] \in LruNodes
      /\ t.node[i].val \in LruValues /\ t.item \in Int
  BY DEF LruIndex, LruTables, LruNodes
<1>2. PICK n : n = [LruUnlinked(FALSE, t.node[i].val) EXCEPT !.next = t.free]
  OBVIOUS
<1>3. n \in LruNodes /\ ~ n.valid /\ n.next = t.free /\ n.prev = -1
  BY <1>1, <1>2, LruCodeZero DEF LruUnlinked, LruNodes
<1>4. PICK l : l = [t EXCEPT !.node[i] = n]
  OBVIOUS
<1>5. /\ l \in LruTables /\ l.free = t.free /\ l.item = t.item
      /\ l.head = t.head /\ l.tail = t.tail /\ l.bucket = t.bucket
      /\ l.node[i] = n /\ \A k \in LruNode : k # i => l.node[k] = t.node[k]
  BY <1>3, <1>4 DEF LruTables
<1>6. PICK m : m = LruLink(l, t.free, "prev", i)
  OBVIOUS
<1>7. LruRelinked(l, m, t.free, "prev", i)
  BY <1>1, <1>5, <1>6, LruLinkFacts, LruLinkNames
<1>8. /\ m \in LruTables /\ m.free = t.free /\ m.item = t.item
      /\ m.head = t.head /\ m.tail = t.tail /\ m.bucket = t.bucket
      /\ LruSameContents(l, m)
      /\ \A k \in LruNode :
           /\ m.node[k].lruNext = l.node[k].lruNext
           /\ m.node[k].lruPrev = l.node[k].lruPrev
           /\ m.node[k].next = l.node[k].next
           /\ m.node[k].prev = IF k = t.free THEN i ELSE l.node[k].prev
  BY <1>5, <1>7 DEF LruRelinked, LruLinks
<1>9. t2 = [m EXCEPT !.free = i, !.item = @ - 1]
  BY <1>2, <1>4, <1>6 DEF LruFreeNode
<1>10. /\ t2 \in LruTables /\ t2.free = i /\ t2.item = t.item - 1
       /\ t2.head = m.head /\ t2.tail = m.tail /\ t2.bucket = m.bucket
       /\ t2.node = m.node
  <2>1. /\ t2.free = i /\ t2.item = t.item - 1
        /\ t2.head = m.head /\ t2.tail = m.tail /\ t2.bucket = m.bucket
        /\ t2.node = m.node
    BY <1>8, <1>9 DEF LruTables
  <2>2. t2 = [free |-> t2.free, head |-> t2.head, tail |-> t2.tail, item |-> t2.item,
              node |-> t2.node, bucket |-> t2.bucket]
    BY <1>8, <1>9 DEF LruTables
  <2> QED BY <1>1, <1>8, <2>1, <2>2 DEF LruTables
<1> QED BY <1>3, <1>5, <1>8, <1>10 DEF LruSameContents, LruGivesBack

LruHangs(t, t2, i, code, b, first) ==
    /\ t2 \in LruTables
    /\ t2.free = t.free /\ t2.item = t.item
    /\ t2.head = i
    /\ t2.tail = IF t.tail < 0 /\ t.head < 0 THEN i ELSE t.tail
    /\ t2.bucket[b] = [count |-> t.bucket[b].count + 1, head |-> i]
    /\ \A d \in LruHeads : d # b => t2.bucket[d] = t.bucket[d]
    /\ t2.node[i].code = code
    /\ \A k \in LruNode : /\ t2.node[k].valid = t.node[k].valid
                          /\ t2.node[k].val = t.node[k].val
    /\ t2.node[i].lruNext = t.head /\ t2.node[i].lruPrev = -1
    /\ t2.node[i].next = first
    /\ t2.node[i].prev = IF i = first THEN i ELSE -1
    /\ \A k \in LruNode : k # i =>
         /\ t2.node[k].code = t.node[k].code
         /\ t2.node[k].lruNext = t.node[k].lruNext
         /\ t2.node[k].lruPrev = IF k = t.head THEN i ELSE t.node[k].lruPrev
         /\ t2.node[k].next = t.node[k].next
         /\ t2.node[k].prev = IF k = first THEN i ELSE t.node[k].prev

LEMMA LruInsertFacts ==
    ASSUME NEW t \in LruTables, NEW i \in LruNode, NEW code \in LruCodes,
           NEW b \in LruHeads, b = LruBucket(code), NEW first,
           first = IF t.bucket[b].count > 0 THEN t.bucket[b].head ELSE -1,
           NEW t2, t2 = LruInsertNode(t, i, code)
    PROVE  LruHangs(t, t2, i, code, b, first)
<1>1. i \in LruIndex /\ first \in LruIndex /\ t.bucket[b].count \in Int
  BY LruCodeZero DEF LruIndex, LruTables
<1>2. PICK n : n = [t.node[i] EXCEPT !.code = code, !.next = first, !.prev = -1]
  OBVIOUS
<1>3. /\ n \in LruNodes /\ n.code = code /\ n.next = first /\ n.prev = -1
      /\ n.lruNext = t.node[i].lruNext /\ n.lruPrev = t.node[i].lruPrev
      /\ n.valid = t.node[i].valid /\ n.val = t.node[i].val
  <2>1. t.node[i] \in LruNodes
    BY DEF LruTables
  <2> QED BY <1>1, <1>2, <2>1, LruCodeZero DEF LruNodes
<1>4. PICK h : h = [count |-> t.bucket[b].count + 1, head |-> i]
  OBVIOUS
<1>5. h \in [count : Int, head : LruIndex]
  BY <1>1, <1>4
<1>6. PICK m : m = [t EXCEPT !.node[i] = n, !.bucket[b] = h]
  OBVIOUS
<1>7. /\ m \in LruTables /\ m.free = t.free /\ m.item = t.item
      /\ m.head = t.head /\ m.tail = t.tail
      /\ m.bucket = [t.bucket EXCEPT ![b] = h]
      /\ m.node = [t.node EXCEPT ![i] = n]
  BY <1>3, <1>5, <1>6 DEF LruTables
<1>8. /\ m.node[i] = n /\ \A k \in LruNode : k # i => m.node[k] = t.node[k]
      /\ m.bucket[b] = h /\ \A d \in LruHeads : d # b => m.bucket[d] = t.bucket[d]
  BY <1>7 DEF LruTables
<1>9. PICK l : l = LruLink(m, first, "prev", i)
  OBVIOUS
<1>10. LruRelinked(m, l, first, "prev", i)
  BY <1>1, <1>7, <1>9, LruLinkFacts, LruLinkNames
<1>11. /\ l \in LruTables /\ l.free = m.free /\ l.item = m.item
       /\ l.head = m.head /\ l.tail = m.tail /\ l.bucket = m.bucket
       /\ LruSameContents(m, l)
       /\ \A k \in LruNode :
            /\ l.node[k].lruNext = m.node[k].lruNext
            /\ l.node[k].lruPrev = m.node[k].lruPrev
            /\ l.node[k].next = m.node[k].next
            /\ l.node[k].prev = IF k = first THEN i ELSE m.node[k].prev
  BY <1>10 DEF LruRelinked, LruLinks
<1>12. t2 = LruPush(l, i)
  BY <1>2, <1>4, <1>6, <1>9 DEF LruInsertNode
<1>13. /\ t2 \in LruTables
       /\ t2.free = l.free /\ t2.item = l.item /\ t2.bucket = l.bucket
       /\ t2.head = i
       /\ t2.tail = IF l.tail < 0 /\ l.head < 0 THEN i ELSE l.tail
       /\ LruSameContents(l, t2)
       /\ \A k \in LruNode : t2.node[k].next = l.node[k].next
                          /\ t2.node[k].prev = l.node[k].prev
       /\ t2.node[i].lruNext = l.head /\ t2.node[i].lruPrev = -1
       /\ \A k \in LruNode : k # i =>
            /\ t2.node[k].lruNext = l.node[k].lruNext
            /\ t2.node[k].lruPrev = IF k = l.head THEN i ELSE l.node[k].lruPrev
  <2>1. LruPushed(l, t2, i)
    BY <1>11, <1>12, LruPushFacts
  <2> QED BY <2>1 DEF LruPushed, LruFronted
<1>14. \A k \in LruNode : k # i =>
         /\ t2.node[k].code = t.node[k].code
         /\ t2.node[k].lruNext = t.node[k].lruNext
         /\ t2.node[k].lruPrev = IF k = t.head THEN i ELSE t.node[k].lruPrev
         /\ t2.node[k].next = t.node[k].next
         /\ t2.node[k].prev = IF k = first THEN i ELSE t.node[k].prev
  BY <1>7, <1>8, <1>11, <1>13 DEF LruSameContents
<1>15. \A k \in LruNode : /\ t2.node[k].valid = t.node[k].valid
                          /\ t2.node[k].val = t.node[k].val
  BY <1>3, <1>8, <1>11, <1>13 DEF LruSameContents
<1>16. /\ t2.node[i].code = code /\ t2.node[i].next = first
       /\ t2.node[i].prev = IF i = first THEN i ELSE -1
  BY <1>3, <1>8, <1>11, <1>13 DEF LruSameContents
<1> QED BY <1>4, <1>7, <1>8, <1>11, <1>13, <1>14, <1>15, <1>16 DEF LruHangs

LruUnhangs(t, t2, i, b) ==
    /\ t2 \in LruTables
    /\ t2.free = t.free /\ t2.item = t.item
    /\ t2.head = IF t.head = i THEN t.node[i].lruNext ELSE t.head
    /\ t2.tail = IF t.tail = i THEN t.node[i].lruPrev ELSE t.tail
    /\ t2.bucket[b].count = t.bucket[b].count - 1
    /\ t2.bucket[b].head
         = IF t.bucket[b].head = i THEN t.node[i].next ELSE t.bucket[b].head
    /\ \A d \in LruHeads : d # b => t2.bucket[d] = t.bucket[d]
    /\ LruSameContents(t, t2)
    /\ \A k \in LruNode : k # i =>
         /\ t2.node[k].lruNext = IF k = t.node[i].lruPrev
                                   THEN t.node[i].lruNext ELSE t.node[k].lruNext
         /\ t2.node[k].lruPrev = IF k = t.node[i].lruNext
                                   THEN t.node[i].lruPrev ELSE t.node[k].lruPrev
         /\ t2.node[k].next = IF k = t.node[i].prev
                                THEN t.node[i].next ELSE t.node[k].next
         /\ t2.node[k].prev = IF k = t.node[i].next
                                THEN t.node[i].prev ELSE t.node[k].prev

LEMMA LruRemoveFacts ==
    ASSUME NEW t \in LruTables, NEW i \in LruNode, NEW code,
           NEW b \in LruHeads, b = LruBucket(code),
           NEW t2, t2 = LruRemoveNode(t, i, code)
    PROVE  LruUnhangs(t, t2, i, b)
<1>1. /\ i \in LruIndex /\ t.node[i].next \in LruIndex /\ t.node[i].prev \in LruIndex
      /\ t.bucket[b].count \in Int /\ t.bucket[b].head \in LruIndex
  BY DEF LruIndex, LruTables, LruNodes
<1>2. PICK m : m = LruLink(t, t.node[i].prev, "next", t.node[i].next)
  OBVIOUS
<1>3. LruRelinked(t, m, t.node[i].prev, "next", t.node[i].next)
  BY <1>1, <1>2, LruLinkFacts, LruLinkNames
<1>4. PICK l : l = LruLink(m, t.node[i].next, "prev", t.node[i].prev)
  OBVIOUS
<1>5. LruRelinked(m, l, t.node[i].next, "prev", t.node[i].prev)
  <2>1. m \in LruTables
    BY <1>3 DEF LruRelinked
  <2> QED BY <1>1, <1>4, <2>1, LruLinkFacts, LruLinkNames
<1>6. /\ l \in LruTables
      /\ l.free = t.free /\ l.head = t.head /\ l.tail = t.tail
      /\ l.item = t.item /\ l.bucket = t.bucket
      /\ LruSameContents(t, l)
      /\ \A k \in LruNode :
           /\ l.node[k].lruNext = t.node[k].lruNext
           /\ l.node[k].lruPrev = t.node[k].lruPrev
           /\ l.node[k].next = IF k = t.node[i].prev
                                 THEN t.node[i].next ELSE t.node[k].next
           /\ l.node[k].prev = IF k = t.node[i].next
                                 THEN t.node[i].prev ELSE t.node[k].prev
  BY <1>3, <1>5 DEF LruLinks, LruRelinked, LruSameContents
<1>7. PICK h : h = [count |-> l.bucket[b].count - 1,
                    head |-> IF l.bucket[b].head = i THEN t.node[i].next
                                                   ELSE l.bucket[b].head]
  OBVIOUS
<1>8. /\ h \in [count : Int, head : LruIndex]
      /\ h.count = t.bucket[b].count - 1
      /\ h.head = IF t.bucket[b].head = i THEN t.node[i].next ELSE t.bucket[b].head
  BY <1>1, <1>6, <1>7
<1>9. PICK r : r = [l EXCEPT !.bucket[b] = h]
  OBVIOUS
<1>10. /\ r \in LruTables /\ r.free = l.free /\ r.item = l.item
       /\ r.head = l.head /\ r.tail = l.tail /\ r.node = l.node
       /\ r.bucket = [l.bucket EXCEPT ![b] = h]
  BY <1>6, <1>8, <1>9 DEF LruTables
<1>11. r.bucket[b] = h /\ \A d \in LruHeads : d # b => r.bucket[d] = l.bucket[d]
  BY <1>6, <1>10 DEF LruTables
<1>12. r = [l EXCEPT !.bucket[b] =
              [count |-> @.count - 1,
               head |-> IF @.head = i THEN t.node[i].next ELSE @.head]]
  BY <1>6, <1>7, <1>9 DEF LruTables
<1>13. t2 = LruDrop(r, i)
  BY <1>2, <1>4, <1>12 DEF LruRemoveNode
<1>14. /\ t2 \in LruTables
       /\ t2.free = r.free /\ t2.item = r.item /\ t2.bucket = r.bucket
       /\ t2.head = IF r.head = i THEN r.node[i].lruNext ELSE r.head
       /\ t2.tail = IF r.tail = i THEN r.node[i].lruPrev ELSE r.tail
       /\ LruSameContents(r, t2)
       /\ \A k \in LruNode : t2.node[k].next = r.node[k].next
                          /\ t2.node[k].prev = r.node[k].prev
       /\ \A k \in LruNode :
            /\ t2.node[k].lruNext = IF k = r.node[i].lruPrev
                                      THEN r.node[i].lruNext ELSE r.node[k].lruNext
            /\ t2.node[k].lruPrev = IF k = r.node[i].lruNext
                                      THEN r.node[i].lruPrev ELSE r.node[k].lruPrev
  <2>1. LruDropped(r, t2, i)
    BY <1>10, <1>13, LruDropFacts
  <2> QED BY <2>1 DEF LruDropped
<1> QED BY <1>6, <1>8, <1>10, <1>11, <1>14 DEF LruSameContents, LruUnhangs

-----------------------------------------------------------------------------
(* The shape of a table: the LRU chain is u, the chain of free nodes f,    *)
(* that of each bucket b is c[b].                                          *)
LruUsedShape(t, u) ==
    /\ u \in Seq(LruNode) /\ LruDistinct(u)
    /\ LruDll(t.node, "lruNext", "lruPrev", u)
    /\ t.head = LruNth(u, 1) /\ t.tail = LruNth(u, Len(u))

LruFreeShape(t, f) ==
    /\ f \in Seq(LruNode) /\ LruDistinct(f)
    /\ LruDll(t.node, "next", "prev", f)
    /\ t.free = LruNth(f, 1)
    /\ t.item = LruMax - Len(f)

LruBucketShape(t, b, s) ==
    /\ s \in Seq(LruNode) /\ LruDistinct(s)
    /\ LruDll(t.node, "next", "prev", s)
    /\ t.bucket[b].count = Len(s)
    /\ s # <<>> => t.bucket[b].head = LruNth(s, 1)

(* A node is in the chain of its bucket if it is in u, and free if it is   *)
(* not valid.                                                              *)
LruPlaced(t, u, f, c) ==
    /\ \A b \in LruHeads, i \in LruNode :
         i \in LruMembers(c[b]) <=>
           i \in LruMembers(u) /\ LruBucket(t.node[i].code) = b
    /\ \A i \in LruNode : i \in LruMembers(f) <=> ~ t.node[i].valid
    /\ \A i \in LruNode : ~ (i \in LruMembers(u) /\ i \in LruMembers(f))

LruShape(t, u, f, c) ==
    /\ t \in LruTables
    /\ LruUsedShape(t, u) /\ LruFreeShape(t, f)
    /\ \A b \in LruHeads : LruBucketShape(t, b, c[b])
    /\ LruPlaced(t, u, f, c)

(* A list stays one while the links of its nodes do.                       *)
LEMMA LruSameChain ==
    ASSUME NEW s, NEW nd, NEW nd2, NEW nx, NEW pv, LruDll(nd, nx, pv, s),
           \A k \in LruMembers(s) : nd2[k][nx] = nd[k][nx] /\ nd2[k][pv] = nd[k][pv]
    PROVE  LruDll(nd2, nx, pv, s)
BY DEF LruDll, LruMembers

LEMMA LruMembersNodes ==
    ASSUME NEW s \in Seq(LruNode)
    PROVE  /\ LruMembers(s) \subseteq LruNode
           /\ \A k \in DOMAIN s : s[k] \in LruMembers(s) /\ s[k] \in LruNode
           /\ DOMAIN s = 1 .. Len(s) /\ Len(s) \in Nat
BY DEF LruMembers

(* The nodes next to a node of a chain are of this chain, or -1.           *)
LEMMA LruNeighbours ==
    ASSUME NEW s \in Seq(LruNode), NEW nd, NEW nx, NEW pv, LruDll(nd, nx, pv, s),
           NEW i \in LruMembers(s)
    PROVE  /\ nd[i][nx] = -1 \/ nd[i][nx] \in LruMembers(s)
           /\ nd[i][pv] = -1 \/ nd[i][pv] \in LruMembers(s)
BY DEF LruMembers, LruDll, LruNth

-----------------------------------------------------------------------------
(* What the operations do to the shape: a free node is taken ...           *)
LruTakes(t, t2, u, f, c, i) ==
    /\ LruShape(t2, u, LeftOut(f, 1), c)
    /\ i \in LruNode /\ t2.node[i].valid /\ i \notin LruMembers(u)
    /\ Len(LeftOut(f, 1)) = Len(f) - 1
    /\ \A k \in LruMembers(u) : t2.node[k].code = t.node[k].code
                             /\ t2.node[k].val = t.node[k].val

LEMMA LruAllocShape ==
    ASSUME NEW t, NEW u, NEW f, NEW c, LruShape(t, u, f, c), t.free # -1,
           NEW i, i = t.free, NEW t2, t2 = LruAllocNode(t)
    PROVE  LruTakes(t, t2, u, f, c, i)
<1> DEFINE g == LeftOut(f, 1)
<1>1. /\ t \in LruTables /\ f \in Seq(LruNode) /\ u \in Seq(LruNode) /\ LruDistinct(f)
      /\ LruDll(t.node, "next", "prev", f)
      /\ t.free = LruNth(f, 1) /\ t.item = LruMax - Len(f)
      /\ LruUsedShape(t, u)
      /\ \A b \in LruHeads : LruBucketShape(t, b, c[b])
      /\ LruPlaced(t, u, f, c)
  BY DEF LruShape, LruFreeShape, LruUsedShape
<1>2. 1 \in DOMAIN f /\ f[1] = i /\ i \in LruNode /\ i \in LruMembers(f)
  BY <1>1 DEF LruNth, LruMembers
<1>3. LruAllocates(t, t2, i)
  BY <1>1, <1>2, LruAllocFacts
<1>4. /\ t2 \in LruTables
      /\ t2.free = t.node[i].next /\ t2.item = t.item + 1
      /\ t2.head = t.head /\ t2.tail = t.tail /\ t2.bucket = t.bucket
      /\ t2.node[i].valid
      /\ \A k \in LruNode : k # i =>
                /\ t2.node[k].code = t.node[k].code /\ t2.node[k].val = t.node[k].val
                /\ t2.node[k].valid = t.node[k].valid
                /\ t2.node[k].lruNext = t.node[k].lruNext
                /\ t2.node[k].lruPrev = t.node[k].lruPrev
                /\ t2.node[k].next = t.node[k].next
                /\ t2.node[k].prev = IF k = t.node[i].next THEN -1 ELSE t.node[k].prev
  BY <1>3 DEF LruAllocates
<1>5. /\ t.node[i].prev = -1
      /\ t.node[i].next = -1 \/ t.node[i].next \in LruMembers(f)
  <2>1. t.node[i].prev = LruNth(f, 0)
    BY <1>1, <1>2 DEF LruDll
  <2>2. 0 \notin DOMAIN f
    BY <1>1
  <2> QED BY <1>1, <1>2, <2>1, <2>2, LruNeighbours DEF LruNth
<1>6. /\ g \in Seq(LruNode) /\ Len(g) = Len(f) - 1
      /\ LruDistinct(g)
      /\ LruDll(t2.node, "next", "prev", g)
      /\ LruMembers(g) = LruMembers(f) \ {i}
      /\ LruNth(g, 1) = IF i = LruNth(f, 1) THEN t.node[i].next ELSE LruNth(f, 1)
  <2>1. \A k \in LruMembers(f) : k \in LruNode /\ k # -1
    BY <1>1, LruMembersNodes, LruNodeNumbers
  <2>2. LruDropLinks(t.node, t2.node, "next", "prev", f, f[1])
    BY <1>2, <1>4, <1>5, <2>1 DEF LruDropLinks
  <2>3. LruDrops(t.node, t2.node, "next", "prev", f, 1)
    BY <1>1, <1>2, <2>2, LruDropChain
  <2> QED BY <1>2, <2>3 DEF LruDrops
<1>7. LruFreeShape(t2, g)
  <2>1. t2.item = LruMax - Len(g)
    <3>1. /\ Len(f) \in Int /\ LruMax \in Int
          /\ t.item = LruMax - Len(f) /\ t2.item = t.item + 1
      BY <1>1, <1>4, LruNodeNumbers
    <3>2. Len(g) = Len(f) - 1
      BY <1>6
    <3> HIDE DEF g
    <3> QED BY <3>1, <3>2
  <2> QED BY <1>1, <1>4, <1>6, <2>1 DEF LruFreeShape
<1>8. \A k \in LruMembers(u) : k \in LruNode /\ k # i /\ k # t.node[i].next
  <2>1. \A k \in LruMembers(u) : k \in LruNode /\ k # -1 /\ k \notin LruMembers(f)
    BY <1>1, LruMembersNodes, LruNodeNumbers DEF LruPlaced
  <2> QED BY <1>2, <1>5, <2>1
<1>9. LruUsedShape(t2, u)
  <2>1. \A k \in LruMembers(u) : /\ t2.node[k].lruNext = t.node[k].lruNext
                                /\ t2.node[k].lruPrev = t.node[k].lruPrev
    BY <1>4, <1>8
  <2>2. LruDll(t2.node, "lruNext", "lruPrev", u)
    BY <1>1, <2>1, LruSameChain DEF LruUsedShape
  <2> QED BY <1>1, <1>4, <2>2 DEF LruUsedShape
<1>10. ASSUME NEW b \in LruHeads PROVE LruBucketShape(t2, b, c[b])
  <2>1. LruBucketShape(t, b, c[b])
    BY <1>1
  <2>2. \A k \in LruMembers(c[b]) : k \in LruMembers(u)
    BY <1>1, <2>1, LruMembersNodes DEF LruPlaced, LruBucketShape
  <2>3. \A k \in LruMembers(c[b]) : /\ t2.node[k].next = t.node[k].next
                                   /\ t2.node[k].prev = t.node[k].prev
    BY <1>4, <1>8, <2>2
  <2>4. LruDll(t2.node, "next", "prev", c[b])
    BY <2>1, <2>3, LruSameChain DEF LruBucketShape
  <2> QED BY <1>4, <2>1, <2>4 DEF LruBucketShape
<1>11. LruPlaced(t2, u, g, c)
  <2>1. ASSUME NEW b \in LruHeads, NEW k \in LruNode
        PROVE  k \in LruMembers(c[b]) <=>
                 k \in LruMembers(u) /\ LruBucket(t2.node[k].code) = b
    BY <1>1, <1>4, <1>8 DEF LruPlaced
  <2>2. ASSUME NEW k \in LruNode
        PROVE  k \in LruMembers(g) <=> ~ t2.node[k].valid
    BY <1>1, <1>4, <1>6 DEF LruPlaced
  <2>3. ASSUME NEW k \in LruNode
        PROVE  ~ (k \in LruMembers(u) /\ k \in LruMembers(g))
    BY <1>1, <1>6 DEF LruPlaced
  <2> QED BY <2>1, <2>2, <2>3 DEF LruPlaced
<1>12. LruShape(t2, u, g, c)
  BY <1>4, <1>7, <1>9, <1>10, <1>11 DEF LruShape
<1> QED BY <1>2, <1>4, <1>6, <1>8, <1>12 DEF LruTakes

(* ... one that is in no chain is freed ...                                *)
LEMMA LruFreedShape ==
    ASSUME NEW t, NEW u, NEW f, NEW c, LruShape(t, u, f, c),
           NEW i \in LruNode, t.node[i].valid, i \notin LruMembers(u),
           NEW t2, t2 = LruFreeNode(t, i)
    PROVE  /\ LruShape(t2, u, InFront(f, i), c)
           /\ Len(InFront(f, i)) = Len(f) + 1
           /\ t2.free = i
           /\ \A k \in LruMembers(u) : t2.node[k].code = t.node[k].code
                                    /\ t2.node[k].val = t.node[k].val
<1> DEFINE g == InFront(f, i)
<1>1. /\ t \in LruTables /\ f \in Seq(LruNode) /\ u \in Seq(LruNode) /\ LruDistinct(f)
      /\ LruDll(t.node, "next", "prev", f)
      /\ t.free = LruNth(f, 1) /\ t.item = LruMax - Len(f)
      /\ LruUsedShape(t, u)
      /\ \A b \in LruHeads : LruBucketShape(t, b, c[b])
      /\ LruPlaced(t, u, f, c)
  BY DEF LruShape, LruFreeShape, LruUsedShape
<1>2. i \in LruNode \ LruMembers(f)
  BY <1>1 DEF LruPlaced
<1>3. LruGivesBack(t, t2, i)
  BY <1>1, LruFreeFacts
<1>4. /\ t2 \in LruTables
      /\ t2.free = i /\ t2.item = t.item - 1
      /\ t2.head = t.head /\ t2.tail = t.tail /\ t2.bucket = t.bucket
      /\ ~ t2.node[i].valid
      /\ t2.node[i].next = t.free /\ t2.node[i].prev = -1
      /\ \A k \in LruNode : k # i =>
           /\ t2.node[k].code = t.node[k].code /\ t2.node[k].val = t.node[k].val
           /\ t2.node[k].valid = t.node[k].valid
           /\ t2.node[k].lruNext = t.node[k].lruNext
           /\ t2.node[k].lruPrev = t.node[k].lruPrev
           /\ t2.node[k].next = t.node[k].next
           /\ t2.node[k].prev = IF k = t.free THEN i ELSE t.node[k].prev
  <2>1. t.free = -1 \/ t.free \in LruMembers(f)
    BY <1>1 DEF LruNth, LruMembers
  <2>2. i # t.free
    BY <1>2, <2>1, LruNodeNumbers
  <2> QED BY <1>3, <2>2 DEF LruGivesBack
<1>5. /\ g \in Seq(LruNode) /\ Len(g) = Len(f) + 1
      /\ LruDistinct(g)
      /\ LruDll(t2.node, "next", "prev", g)
      /\ LruMembers(g) = LruMembers(f) \cup {i}
      /\ LruNth(g, 1) = i
  <2>1. \A k \in LruMembers(f) : k \in LruNode /\ k # i
    BY <1>1, <1>2, LruMembersNodes
  <2>2. LruPushLinks(t.node, t2.node, "next", "prev", f, i)
    BY <1>1, <1>4, <2>1 DEF LruPushLinks
  <2>3. LruPushes(t2.node, "next", "prev", f, i)
    BY <1>1, <1>2, <2>2, LruPushChain
  <2> QED BY <2>3 DEF LruPushes
<1>6. LruFreeShape(t2, g)
  <2>1. t2.item = LruMax - Len(g)
    BY <1>1, <1>4, <1>5, LruNodeNumbers
  <2> QED BY <1>1, <1>4, <1>5, <2>1 DEF LruFreeShape
<1>7. \A k \in LruMembers(u) : k \in LruNode /\ k # i /\ k # t.free
  <2>1. \A k \in LruMembers(u) : k \in LruNode /\ k # -1 /\ k \notin LruMembers(f)
    BY <1>1, LruMembersNodes, LruNodeNumbers DEF LruPlaced
  <2>2. t.free = -1 \/ t.free \in LruMembers(f)
    BY <1>1 DEF LruNth, LruMembers
  <2> QED BY <2>1, <2>2
<1>8. LruUsedShape(t2, u)
  <2>1. \A k \in LruMembers(u) : /\ t2.node[k].lruNext = t.node[k].lruNext
                                /\ t2.node[k].lruPrev = t.node[k].lruPrev
    BY <1>4, <1>7
  <2>2. LruDll(t2.node, "lruNext", "lruPrev", u)
    BY <1>1, <2>1, LruSameChain DEF LruUsedShape
  <2> QED BY <1>1, <1>4, <2>2 DEF LruUsedShape
<1>9. ASSUME NEW b \in LruHeads PROVE LruBucketShape(t2, b, c[b])
  <2>1. LruBucketShape(t, b, c[b])
    BY <1>1
  <2>2. \A k \in LruMembers(c[b]) : k \in LruMembers(u)
    BY <1>1, <2>1, LruMembersNodes DEF LruPlaced, LruBucketShape
  <2>3. \A k \in LruMembers(c[b]) : /\ t2.node[k].next = t.node[k].next
                                   /\ t2.node[k].prev = t.node[k].prev
    BY <1>4, <1>7, <2>2
  <2>4. LruDll(t2.node, "next", "prev", c[b])
    BY <2>1, <2>3, LruSameChain DEF LruBucketShape
  <2> QED BY <1>4, <2>1, <2>4 DEF LruBucketShape
<1>10. LruPlaced(t2, u, g, c)
  <2>1. ASSUME NEW b \in LruHeads, NEW k \in LruNode
        PROVE  k \in LruMembers(c[b]) <=>
                 k \in LruMembers(u) /\ LruBucket(t2.node[k].code) = b
    BY <1>1, <1>4, <1>7 DEF LruPlaced
  <2>2. ASSUME NEW k \in LruNode
        PROVE  k \in LruMembers(g) <=> ~ t2.node[k].valid
    BY <1>1, <1>4, <1>5 DEF LruPlaced
  <2>3. ASSUME NEW k \in LruNode
        PROVE  ~ (k \in LruMembers(u) /\ k \in LruMembers(g))
    BY <1>1, <1>5, <1>7 DEF LruPlaced
  <2> QED BY <2>1, <2>2, <2>3 DEF LruPlaced
<1>11. LruShape(t2, u, g, c)
  BY <1>4, <1>6, <1>8, <1>9, <1>10 DEF LruShape
<1> QED BY <1>4, <1>5, <1>7, <1>11

(* ... put into the chain of its bucket and before all others ...          *)
LruInserts(t, t2, u, f, c, i, code, b) ==
    /\ LruShape(t2, InFront(u, i), f, [c EXCEPT ![b] = InFront(c[b], i)])
    /\ Len(InFront(u, i)) = Len(u) + 1
    /\ t2.node[i].code = code
    /\ \A k \in LruNode : t2.node[k].val = t.node[k].val
    /\ \A k \in LruMembers(u) : t2.node[k].code = t.node[k].code

LEMMA LruInsertShape ==
    ASSUME NEW t, NEW u, NEW f, NEW c, LruShape(t, u, f, c),
           c \in [LruHeads -> Seq(LruNode)],
           NEW i \in LruNode, t.node[i].valid, i \notin LruMembers(u),
           NEW code \in LruCodes, NEW b \in LruHeads, b = LruBucket(code),
           NEW t2, t2 = LruInsertNode(t, i, code)
    PROVE  LruInserts(t, t2, u, f, c, i, code, b)
<1> DEFINE v == InFront(u, i)
           s == c[b]
           r == InFront(s, i)
           first == IF t.bucket[b].count > 0 THEN t.bucket[b].head ELSE -1
           d == [c EXCEPT ![b] = r]
<1>1. /\ t \in LruTables /\ u \in Seq(LruNode) /\ LruDistinct(u)
      /\ LruDll(t.node, "lruNext", "lruPrev", u)
      /\ t.head = LruNth(u, 1) /\ t.tail = LruNth(u, Len(u))
      /\ f \in Seq(LruNode) /\ LruFreeShape(t, f)
      /\ \A e \in LruHeads : LruBucketShape(t, e, c[e])
      /\ LruPlaced(t, u, f, c)
  BY DEF LruShape, LruFreeShape, LruUsedShape
<1>2. /\ s \in Seq(LruNode) /\ LruDistinct(s) /\ LruDll(t.node, "next", "prev", s)
      /\ t.bucket[b].count = Len(s) /\ (s # <<>> => t.bucket[b].head = LruNth(s, 1))
  BY <1>1 DEF LruBucketShape
<1>3. first = LruNth(s, 1)
  <2>1. CASE s = <<>>
    BY <1>2, <2>1 DEF LruNth
  <2>2. CASE s # <<>>
    BY <1>2, <2>2
  <2> QED BY <2>1, <2>2
<1>4. \A k \in LruMembers(s) : k \in LruMembers(u) /\ k \in LruNode
  BY <1>1, <1>2, LruMembersNodes DEF LruPlaced
<1>5. i \in LruNode \ LruMembers(u) /\ i \in LruNode \ LruMembers(s)
      /\ i \notin LruMembers(f)
  BY <1>1, <1>4 DEF LruPlaced
<1>6. LruHangs(t, t2, i, code, b, first)
  <2> HIDE DEF first
  <2>1. first = IF t.bucket[b].count > 0 THEN t.bucket[b].head ELSE -1
    BY DEF first
  <2> QED BY <1>1, <2>1, LruInsertFacts
<1> HIDE DEF first
<1>7. /\ t2 \in LruTables
      /\ t2.free = t.free /\ t2.item = t.item
      /\ t2.head = i
      /\ t2.tail = IF t.tail < 0 /\ t.head < 0 THEN i ELSE t.tail
      /\ t2.bucket[b] = [count |-> t.bucket[b].count + 1, head |-> i]
      /\ \A e \in LruHeads : e # b => t2.bucket[e] = t.bucket[e]
      /\ t2.node[i].code = code
      /\ \A k \in LruNode : /\ t2.node[k].valid = t.node[k].valid
                            /\ t2.node[k].val = t.node[k].val
      /\ t2.node[i].lruNext = t.head /\ t2.node[i].lruPrev = -1
      /\ t2.node[i].next = first /\ t2.node[i].prev = -1
      /\ \A k \in LruNode : k # i =>
           /\ t2.node[k].code = t.node[k].code
           /\ t2.node[k].lruNext = t.node[k].lruNext
           /\ t2.node[k].lruPrev = IF k = t.head THEN i ELSE t.node[k].lruPrev
           /\ t2.node[k].next = t.node[k].next
           /\ t2.node[k].prev = IF k = first THEN i ELSE t.node[k].prev
  <2>1. i # first
    <3>1. first = -1 \/ first \in LruMembers(s)
      BY <1>3 DEF LruNth, LruMembers
    <3> HIDE DEF s
    <3> QED BY <1>5, <3>1, LruNodeNumbers
  <2> QED BY <1>6, <2>1 DEF LruHangs
<1>8. \A k \in LruMembers(u) : k \in LruNode /\ k # i /\ k \notin LruMembers(f)
  BY <1>1, <1>5, LruMembersNodes DEF LruPlaced
<1>9. LruPushes(t2.node, "lruNext", "lruPrev", u, i)
  <2>1. LruPushLinks(t.node, t2.node, "lruNext", "lruPrev", u, i)
    BY <1>1, <1>7, <1>8 DEF LruPushLinks
  <2> QED BY <1>1, <1>5, <2>1, LruPushChain
<1>10. LruPushes(t2.node, "next", "prev", s, i)
  <2> HIDE DEF s
  <2>1. LruPushLinks(t.node, t2.node, "next", "prev", s, i)
    BY <1>3, <1>4, <1>5, <1>7, <1>8 DEF LruPushLinks
  <2> QED BY <1>2, <1>5, <2>1, LruPushChain
<1>11. LruUsedShape(t2, v)
  <2>1. t2.tail = LruNth(v, Len(v))
    <3>1. t2.tail = IF u = <<>> THEN i ELSE LruNth(u, Len(u))
      <4>1. CASE u = <<>>
        BY <1>1, <1>7, <4>1 DEF LruNth
      <4>2. CASE u # <<>>
        <5>1. 1 \in DOMAIN u /\ u[1] \in LruNode
          BY <1>1, <4>2
        <5>2. t.head \in Nat
          BY <1>1, <5>1, LruNodeNumbers DEF LruNth
        <5> QED BY <1>1, <1>7, <4>2, <5>2
      <4> QED BY <4>1, <4>2
    <3> QED BY <1>9, <3>1 DEF LruPushes
  <2> QED BY <1>7, <1>9, <2>1 DEF LruPushes, LruUsedShape
<1>12. LruFreeShape(t2, f)
  <2>1. \A k \in LruMembers(f) : k \in LruNode /\ k # i /\ k # first
    <3>1. first = -1 \/ first \in LruMembers(s)
      BY <1>3 DEF LruNth, LruMembers
    <3>2. \A k \in LruMembers(f) : k \in LruNode /\ k # -1
      BY <1>1, LruMembersNodes, LruNodeNumbers
    <3> HIDE DEF s
    <3> QED BY <1>4, <1>5, <1>8, <3>1, <3>2
  <2>2. \A k \in LruMembers(f) : /\ t2.node[k].next = t.node[k].next
                                /\ t2.node[k].prev = t.node[k].prev
    BY <1>7, <2>1
  <2>3. LruDll(t2.node, "next", "prev", f)
    BY <1>1, <2>2, LruSameChain DEF LruFreeShape
  <2> QED BY <1>1, <1>7, <2>3 DEF LruFreeShape
<1>13. ASSUME NEW e \in LruHeads PROVE LruBucketShape(t2, e, d[e])
  <2>1. CASE e = b
    <3>1. d[e] = r
      BY <2>1
    <3>2. r \in Seq(LruNode) /\ LruDistinct(r) /\ LruDll(t2.node, "next", "prev", r)
          /\ Len(r) = Len(s) + 1 /\ LruNth(r, 1) = i
      BY <1>10 DEF LruPushes
    <3> HIDE DEF d, r, s
    <3> QED BY <1>2, <1>7, <2>1, <3>1, <3>2 DEF LruBucketShape
  <2>2. CASE e # b
    <3>1. d[e] = c[e] /\ LruBucketShape(t, e, c[e])
      BY <1>1, <2>2
    <3>2. \A k \in LruMembers(c[e]) :
            /\ k \in LruNode /\ k \in LruMembers(u) /\ k \notin LruMembers(s)
      BY <1>1, <2>2, <3>1, LruMembersNodes DEF LruPlaced, LruBucketShape
    <3>3. first = -1 \/ first \in LruMembers(s)
      BY <1>3 DEF LruNth, LruMembers
    <3>4. \A k \in LruMembers(c[e]) : /\ t2.node[k].next = t.node[k].next
                                     /\ t2.node[k].prev = t.node[k].prev
      <4> HIDE DEF s
      <4>1. \A k \in LruMembers(c[e]) : k \in LruNode /\ k # i /\ k # first
        BY <1>8, <3>2, <3>3, LruNodeNumbers
      <4> QED BY <1>7, <4>1
    <3>5. LruDll(t2.node, "next", "prev", c[e])
      BY <3>1, <3>4, LruSameChain DEF LruBucketShape
    <3> HIDE DEF d
    <3> QED BY <1>7, <2>2, <3>1, <3>5 DEF LruBucketShape
  <2> QED BY <2>1, <2>2
<1>14. LruPlaced(t2, v, f, d)
  <2>1. /\ LruMembers(v) = LruMembers(u) \cup {i}
        /\ LruMembers(r) = LruMembers(s) \cup {i}
        /\ d[b] = r /\ \A e \in LruHeads : e # b => d[e] = c[e]
    BY <1>9, <1>10 DEF LruPushes
  <2> HIDE DEF v, r, d
  <2>2. ASSUME NEW e \in LruHeads, NEW k \in LruNode
        PROVE  k \in LruMembers(d[e]) <=>
                 k \in LruMembers(v) /\ LruBucket(t2.node[k].code) = e
    <3>1. CASE k = i
      <4>1. LruBucket(t2.node[k].code) = b /\ k \in LruMembers(v)
        BY <1>7, <2>1, <3>1
      <4>2. e # b => k \notin LruMembers(d[e])
        BY <1>1, <1>5, <2>1, <3>1 DEF LruPlaced
      <4> QED BY <2>1, <3>1, <4>1, <4>2
    <3>2. CASE k # i
      <4>1. k \in LruMembers(d[e]) <=> k \in LruMembers(c[e])
        BY <2>1, <3>2
      <4>2. k \in LruMembers(c[e]) <=>
              k \in LruMembers(u) /\ LruBucket(t.node[k].code) = e
        BY <1>1 DEF LruPlaced
      <4>3. t2.node[k].code = t.node[k].code
        BY <1>7, <3>2
      <4> QED BY <2>1, <3>2, <4>1, <4>2, <4>3
    <3> QED BY <3>1, <3>2
  <2>3. ASSUME NEW k \in LruNode
        PROVE  k \in LruMembers(f) <=> ~ t2.node[k].valid
    BY <1>1, <1>7 DEF LruPlaced
  <2>4. ASSUME NEW k \in LruNode
        PROVE  ~ (k \in LruMembers(v) /\ k \in LruMembers(f))
    BY <1>5, <1>8, <2>1
  <2> QED BY <2>2, <2>3, <2>4 DEF LruPlaced
<1>15. LruShape(t2, v, f, d)
  <2> HIDE DEF v, d
  <2> QED BY <1>7, <1>11, <1>12, <1>13, <1>14 DEF LruShape
<1>16. Len(v) = Len(u) + 1
  BY <1>9 DEF LruPushes
<1> QED BY <1>7, <1>8, <1>15, <1>16 DEF LruInserts

(* ... or taken out of both.                                               *)
LruRemoves(t, t2, u, f, c, p, i, b) ==
    /\ \E q \in DOMAIN c[b] :
         LruShape(t2, LeftOut(u, p), f, [c EXCEPT ![b] = LeftOut(c[b], q)])
    /\ i \in LruNode /\ t.node[i].valid
    /\ Len(LeftOut(u, p)) = Len(u) - 1
    /\ i \notin LruMembers(LeftOut(u, p))
    /\ LruSameContents(t, t2)

LEMMA LruRemoveShape ==
    ASSUME NEW t, NEW u, NEW f, NEW c, LruShape(t, u, f, c),
           c \in [LruHeads -> Seq(LruNode)],
           NEW p \in DOMAIN u, NEW i, i = u[p],
           NEW code, code = t.node[i].code,
           NEW b \in LruHeads, b = LruBucket(code),
           NEW t2, t2 = LruRemoveNode(t, i, code)
    PROVE  LruRemoves(t, t2, u, f, c, p, i, b)
<1>1. /\ t \in LruTables /\ u \in Seq(LruNode) /\ LruDistinct(u)
      /\ LruDll(t.node, "lruNext", "lruPrev", u)
      /\ t.head = LruNth(u, 1) /\ t.tail = LruNth(u, Len(u))
      /\ f \in Seq(LruNode) /\ LruFreeShape(t, f)
      /\ \A e \in LruHeads : LruBucketShape(t, e, c[e])
      /\ LruPlaced(t, u, f, c)
  BY DEF LruShape, LruFreeShape, LruUsedShape
<1>2. /\ i \in LruNode /\ i \in LruMembers(u) /\ i \in LruMembers(c[b])
      /\ t.node[i].valid
  BY <1>1, LruMembersNodes DEF LruPlaced
<1>3. PICK q \in DOMAIN c[b] : c[b][q] = i
  BY <1>2 DEF LruMembers
<1> DEFINE v == LeftOut(u, p)
           s == c[b]
           r == LeftOut(s, q)
           d == [c EXCEPT ![b] = r]
<1>4. /\ s \in Seq(LruNode) /\ LruDistinct(s) /\ LruDll(t.node, "next", "prev", s)
      /\ t.bucket[b].count = Len(s) /\ (s # <<>> => t.bucket[b].head = LruNth(s, 1))
      /\ s # <<>>
  BY <1>1, <1>3 DEF LruBucketShape
<1>5. LruUnhangs(t, t2, i, b)
  BY <1>1, <1>2, LruRemoveFacts
<1>6. /\ t2 \in LruTables
      /\ t2.free = t.free /\ t2.item = t.item
      /\ t2.head = IF t.head = i THEN t.node[i].lruNext ELSE t.head
      /\ t2.tail = IF t.tail = i THEN t.node[i].lruPrev ELSE t.tail
      /\ t2.bucket[b].count = t.bucket[b].count - 1
      /\ t2.bucket[b].head
           = IF t.bucket[b].head = i THEN t.node[i].next ELSE t.bucket[b].head
      /\ \A e \in LruHeads : e # b => t2.bucket[e] = t.bucket[e]
      /\ LruSameContents(t, t2)
      /\ \A k \in LruNode : k # i =>
           /\ t2.node[k].lruNext = IF k = t.node[i].lruPrev
                                     THEN t.node[i].lruNext ELSE t.node[k].lruNext
           /\ t2.node[k].lruPrev = IF k = t.node[i].lruNext
                                     THEN t.node[i].lruPrev ELSE t.node[k].lruPrev
           /\ t2.node[k].next = IF k = t.node[i].prev
                                  THEN t.node[i].next ELSE t.node[k].next
           /\ t2.node[k].prev = IF k = t.node[i].next
                                  THEN t.node[i].prev ELSE t.node[k].prev
  BY <1>5 DEF LruUnhangs
<1>7. /\ \A k \in LruMembers(s) : k \in LruMembers(u) /\ k \in LruNode
      /\ \A k \in LruMembers(u) : k \in LruNode /\ k \notin LruMembers(f)
  BY <1>1, <1>4, LruMembersNodes DEF LruPlaced
<1>8. LruDrops(t.node, t2.node, "lruNext", "lruPrev", u, p)
  <2>1. LruDropLinks(t.node, t2.node, "lruNext", "lruPrev", u, u[p])
    BY <1>6, <1>7 DEF LruDropLinks
  <2> QED BY <1>1, <2>1, LruDropChain
<1>9. LruDrops(t.node, t2.node, "next", "prev", s, q)
  <2>1. s[q] = i
    BY <1>3
  <2>2. q \in DOMAIN s
    BY <1>3
  <2>3. \A k \in LruMembers(s) : k \in LruNode
    BY <1>7
  <2> HIDE DEF s
  <2>4. LruDropLinks(t.node, t2.node, "next", "prev", s, i)
    BY <1>6, <2>3 DEF LruDropLinks
  <2> QED BY <1>4, <2>1, <2>2, <2>4, LruDropChain
<1>10. LruUsedShape(t2, v)
  <2>1. /\ LruNth(v, 1) = IF i = LruNth(u, 1) THEN t.node[i].lruNext ELSE LruNth(u, 1)
        /\ LruNth(v, Len(u) - 1)
             = IF i = LruNth(u, Len(u)) THEN t.node[i].lruPrev ELSE LruNth(u, Len(u))
        /\ Len(v) = Len(u) - 1
    BY <1>8, Zenon DEF LruDrops
  <2> HIDE DEF v
  <2>2. /\ t2.head = IF t.head = i THEN t.node[i].lruNext ELSE t.head
        /\ t2.tail = IF t.tail = i THEN t.node[i].lruPrev ELSE t.tail
        /\ t.head = LruNth(u, 1) /\ t.tail = LruNth(u, Len(u))
    BY <1>1, <1>6
  <2>3. LruNth(v, Len(v)) = LruNth(v, Len(u) - 1)
    BY <2>1, Zenon
  <2>4. t2.head = LruNth(v, 1) /\ t2.tail = LruNth(v, Len(v))
    BY <2>1, <2>2, <2>3, Zenon
  <2>5. /\ v \in Seq(LruNode) /\ LruDistinct(v)
        /\ LruDll(t2.node, "lruNext", "lruPrev", v)
    BY <1>8 DEF LruDrops, v
  <2> QED BY <2>4, <2>5 DEF LruUsedShape
<1>11. LruFreeShape(t2, f)
  <2>1. \A k \in LruMembers(f) :
          k \in LruNode /\ k # i /\ k # t.node[i].next /\ k # t.node[i].prev
    <3>1. /\ t.node[i].next = -1 \/ t.node[i].next \in LruMembers(s)
          /\ t.node[i].prev = -1 \/ t.node[i].prev \in LruMembers(s)
      <4>1. i \in LruMembers(s)
        BY <1>2
      <4> HIDE DEF s
      <4> QED BY <1>4, <4>1, LruNeighbours
    <3>2. \A k \in LruMembers(f) : k \in LruNode /\ k # -1
      BY <1>1, LruMembersNodes, LruNodeNumbers
    <3> HIDE DEF s
    <3> QED BY <1>2, <1>7, <3>1, <3>2
  <2>2. \A k \in LruMembers(f) : /\ t2.node[k].next = t.node[k].next
                                /\ t2.node[k].prev = t.node[k].prev
    BY <1>6, <2>1
  <2>3. LruDll(t2.node, "next", "prev", f)
    BY <1>1, <2>2, LruSameChain DEF LruFreeShape
  <2> QED BY <1>1, <1>6, <2>3 DEF LruFreeShape
<1>12. ASSUME NEW e \in LruHeads PROVE LruBucketShape(t2, e, d[e])
  <2>1. CASE e = b
    <3>1. d[e] = r
      BY <2>1
    <3>2. /\ r \in Seq(LruNode) /\ LruDistinct(r) /\ LruDll(t2.node, "next", "prev", r)
          /\ Len(r) = Len(s) - 1
          /\ LruNth(r, 1) = IF i = LruNth(s, 1) THEN t.node[i].next ELSE LruNth(s, 1)
      BY <1>3, <1>9 DEF LruDrops
    <3>3. t.bucket[b].head = LruNth(s, 1) /\ t.bucket[b].count = Len(s)
      BY <1>4
    <3> HIDE DEF d, r, s
    <3>4. t2.bucket[b].count = t.bucket[b].count - 1
      BY <1>6
    <3>5. t2.bucket[b].head
            = IF t.bucket[b].head = i THEN t.node[i].next ELSE t.bucket[b].head
      BY <1>6
    <3>6. t2.bucket[b].head = LruNth(r, 1) /\ t2.bucket[b].count = Len(r)
      BY <3>2, <3>3, <3>4, <3>5, Zenon
    <3> QED BY <2>1, <3>1, <3>2, <3>6 DEF LruBucketShape
  <2>2. CASE e # b
    <3>1. d[e] = c[e] /\ LruBucketShape(t, e, c[e])
      BY <1>1, <2>2
    <3>2. \A k \in LruMembers(c[e]) :
            /\ k \in LruNode /\ k \in LruMembers(u) /\ k \notin LruMembers(s)
      BY <1>1, <2>2, <3>1, LruMembersNodes DEF LruPlaced, LruBucketShape
    <3>3. /\ t.node[i].next = -1 \/ t.node[i].next \in LruMembers(s)
          /\ t.node[i].prev = -1 \/ t.node[i].prev \in LruMembers(s)
          /\ i \in LruMembers(s)
      <4>1. i \in LruMembers(s)
        BY <1>2
      <4> HIDE DEF s
      <4> QED BY <1>4, <4>1, LruNeighbours
    <3>4. \A k \in LruMembers(c[e]) : /\ t2.node[k].next = t.node[k].next
                                     /\ t2.node[k].prev = t.node[k].prev
      <4> HIDE DEF s
      <4>1. \A k \in LruMembers(c[e]) :
              k \in LruNode /\ k # i /\ k # t.node[i].next /\ k # t.node[i].prev
        BY <3>2, <3>3, LruNodeNumbers
      <4> QED BY <1>6, <4>1
    <3>5. LruDll(t2.node, "next", "prev", c[e])
      BY <3>1, <3>4, LruSameChain DEF LruBucketShape
    <3> HIDE DEF d
    <3> QED BY <1>6, <2>2, <3>1, <3>5 DEF LruBucketShape
  <2> QED BY <2>1, <2>2
<1>13. LruPlaced(t2, v, f, d)
  <2>1. /\ LruMembers(v) = LruMembers(u) \ {i}
        /\ LruMembers(r) = LruMembers(s) \ {i}
        /\ d[b] = r /\ \A e \in LruHeads : e # b => d[e] = c[e]
    BY <1>3, <1>8, <1>9 DEF LruDrops
  <2> HIDE DEF v, r, d
  <2>2. ASSUME NEW e \in LruHeads, NEW k \in LruNode
        PROVE  k \in LruMembers(d[e]) <=>
                 k \in LruMembers(v) /\ LruBucket(t2.node[k].code) = e
    <3>1. /\ k \in LruMembers(c[e]) <=>
              k \in LruMembers(u) /\ LruBucket(t.node[k].code) = e
          /\ t2.node[k].code = t.node[k].code
      BY <1>1, <1>6 DEF LruPlaced, LruSameContents
    <3>2. CASE e = b
      BY <2>1, <3>1, <3>2
    <3>3. CASE e # b
      <4>1. i \notin LruMembers(c[e])
        BY <1>1, <1>2, <3>3 DEF LruPlaced
      <4> QED BY <2>1, <3>1, <3>3, <4>1
    <3> QED BY <3>2, <3>3
  <2>3. ASSUME NEW k \in LruNode
        PROVE  k \in LruMembers(f) <=> ~ t2.node[k].valid
    BY <1>1, <1>6 DEF LruPlaced, LruSameContents
  <2>4. ASSUME NEW k \in LruNode
        PROVE  ~ (k \in LruMembers(v) /\ k \in LruMembers(f))
    BY <1>7, <2>1
  <2> QED BY <2>2, <2>3, <2>4 DEF LruPlaced
<1>14. LruShape(t2, v, f, d)
  <2> HIDE DEF v, d
  <2> QED BY <1>6, <1>10, <1>11, <1>12, <1>13 DEF LruShape
<1>15. Len(v) = Len(u) - 1 /\ i \notin LruMembers(v)
  BY <1>8 DEF LruDrops
<1> QED BY <1>2, <1>6, <1>14, <1>15 DEF LruRemoves

(* A search moves a node to the front of the order of use.                 *)
LEMMA LruTouchShape ==
    ASSUME NEW t, NEW u, NEW f, NEW c, LruShape(t, u, f, c),
           NEW p \in DOMAIN u, NEW i, i = u[p], t.head # i,
           NEW t2, t2 = LruToFront(LruDrop(t, i), i)
    PROVE  /\ LruShape(t2, InFront(LeftOut(u, p), i), f, c)
           /\ Len(InFront(LeftOut(u, p), i)) = Len(u)
           /\ LruSameContents(t, t2)
<1> DEFINE v == LeftOut(u, p)
           w == InFront(v, i)
<1>1. /\ t \in LruTables /\ u \in Seq(LruNode) /\ LruDistinct(u)
      /\ LruDll(t.node, "lruNext", "lruPrev", u)
      /\ t.head = LruNth(u, 1) /\ t.tail = LruNth(u, Len(u))
      /\ LruFreeShape(t, f)
      /\ \A e \in LruHeads : LruBucketShape(t, e, c[e])
      /\ LruPlaced(t, u, f, c)
  BY DEF LruShape, LruUsedShape
<1>2. i \in LruNode /\ i \in LruMembers(u) /\ \A k \in LruMembers(u) : k \in LruNode
  BY <1>1, LruMembersNodes
<1>3. PICK m : m = LruDrop(t, i)
  OBVIOUS
<1>4. LruDropped(t, m, i)
  BY <1>1, <1>2, <1>3, LruDropFacts
<1>5. LruDrops(t.node, m.node, "lruNext", "lruPrev", u, p)
  <2>1. LruDropLinks(t.node, m.node, "lruNext", "lruPrev", u, u[p])
    BY <1>2, <1>4 DEF LruDropLinks, LruDropped
  <2> QED BY <1>1, <2>1, LruDropChain
<1>6. LruPushed(m, t2, i)
  <2>1. m \in LruTables /\ m.head = t.head
    BY <1>4 DEF LruDropped
  <2>2. LruFronted(m, t2, i, m.tail)
    BY <1>2, <1>3, <2>1, LruToFrontFacts
  <2>3. t.head \in LruNode /\ t.head \in Nat
    <3>1. 1 \in DOMAIN u /\ u[1] \in LruNode
      BY <1>1
    <3> QED BY <1>1, <3>1, LruNodeNumbers DEF LruNth
  <2>4. m.tail = IF m.tail < 0 /\ m.head < 0 THEN i ELSE m.tail
    BY <2>1, <2>3
  <2> QED BY <2>2, <2>4 DEF LruPushed
<1>7. m.head = LruNth(v, 1) /\ m.tail = LruNth(v, Len(v))
  BY <1>1, <1>4, <1>5 DEF LruDrops, LruDropped
<1>8. /\ v \in Seq(LruNode) /\ LruDistinct(v) /\ LruDll(m.node, "lruNext", "lruPrev", v)
      /\ LruMembers(v) = LruMembers(u) \ {i} /\ Len(v) = Len(u) - 1
  BY <1>5 DEF LruDrops
<1> HIDE DEF v
<1>9. LruPushes(t2.node, "lruNext", "lruPrev", v, i)
  <2>1. \A k \in LruMembers(v) : k \in LruNode /\ k # i
    BY <1>2, <1>8
  <2>2. LruPushLinks(m.node, t2.node, "lruNext", "lruPrev", v, i)
    BY <1>6, <1>7, <2>1 DEF LruPushLinks, LruPushed, LruFronted
  <2>3. i \in LruNode \ LruMembers(v)
    BY <1>2, <1>8
  <2> QED BY <1>8, <2>2, <2>3, LruPushChain
<1>10. LruUsedShape(t2, w)
  <2>1. t2.tail = IF v = <<>> THEN i ELSE LruNth(v, Len(v))
    <3>1. CASE v = <<>>
      BY <1>6, <1>7, <3>1 DEF LruNth, LruPushed, LruFronted
    <3>2. CASE v # <<>>
      <4>1. 1 \in DOMAIN v /\ v[1] \in LruNode
        BY <1>8, <3>2
      <4>2. m.head \in Nat
        BY <1>7, <4>1, LruNodeNumbers DEF LruNth
      <4> QED BY <1>6, <1>7, <3>2, <4>2 DEF LruPushed, LruFronted
    <3> QED BY <3>1, <3>2
  <2>2. t2.head = i
    BY <1>6 DEF LruPushed, LruFronted
  <2> QED BY <1>9, <2>1, <2>2 DEF LruPushes, LruUsedShape
<1>11. /\ t2 \in LruTables /\ t2.free = t.free /\ t2.item = t.item
       /\ t2.bucket = t.bucket /\ LruSameContents(t, t2)
       /\ \A k \in LruNode : /\ t2.node[k].next = t.node[k].next
                             /\ t2.node[k].prev = t.node[k].prev
  BY <1>4, <1>6 DEF LruDropped, LruPushed, LruFronted, LruSameContents
<1>12. LruFreeShape(t2, f)
  <2>1. \A k \in LruMembers(f) : /\ t2.node[k].next = t.node[k].next
                                /\ t2.node[k].prev = t.node[k].prev
    BY <1>1, <1>11, LruMembersNodes DEF LruFreeShape
  <2>2. LruDll(t2.node, "next", "prev", f)
    BY <1>1, <2>1, LruSameChain DEF LruFreeShape
  <2> QED BY <1>1, <1>11, <2>2 DEF LruFreeShape
<1>13. ASSUME NEW e \in LruHeads PROVE LruBucketShape(t2, e, c[e])
  <2>1. LruBucketShape(t, e, c[e])
    BY <1>1
  <2>2. \A k \in LruMembers(c[e]) : /\ t2.node[k].next = t.node[k].next
                                   /\ t2.node[k].prev = t.node[k].prev
    BY <1>11, <2>1, LruMembersNodes DEF LruBucketShape
  <2>3. LruDll(t2.node, "next", "prev", c[e])
    BY <2>1, <2>2, LruSameChain DEF LruBucketShape
  <2> QED BY <1>11, <2>1, <2>3 DEF LruBucketShape
<1>14. LruPlaced(t2, w, f, c)
  <2>1. LruMembers(w) = LruMembers(u)
    BY <1>2, <1>8, <1>9 DEF LruPushes
  <2> HIDE DEF w
  <2> QED BY <1>1, <1>11, <2>1 DEF LruPlaced, LruSameContents
<1>15. LruShape(t2, w, f, c)
  <2> HIDE DEF w
  <2> QED BY <1>10, <1>11, <1>12, <1>13, <1>14 DEF LruShape
<1>16. Len(w) = Len(u)
  <2>1. Len(w) = Len(v) + 1 /\ Len(u) \in Nat
    BY <1>1, <1>9 DEF LruPushes
  <2> HIDE DEF w
  <2> QED BY <1>8, <2>1
<1> QED BY <1>11, <1>15, <1>16 DEF v

(* A chain has at most as many nodes as there are.                         *)
LEMMA DistinctCardinality ==
    ASSUME NEW S, NEW s \in Seq(S), LruDistinct(s)
    PROVE  IsFiniteSet(LruMembers(s)) /\ Cardinality(LruMembers(s)) = Len(s)
<1> DEFINE M == LruMembers(s)
<1>1. Len(s) \in Nat /\ DOMAIN s = 1 .. Len(s) /\ s = [k \in 1 .. Len(s) |-> s[k]]
  OBVIOUS
<1>2. \A k \in 1 .. Len(s) : s[k] \in M
  BY <1>1 DEF LruMembers
<1>3. \A x \in M : \E k \in 1 .. Len(s) : s[k] = x
  BY <1>1 DEF LruMembers
<1> HIDE DEF M
<1>4. s \in [1 .. Len(s) -> M]
  BY <1>1, <1>2
<1>5. s \in Bijection(1 .. Len(s), M)
  BY <1>1, <1>3, <1>4, Fun_IsBij DEF LruDistinct
<1>6. ExistsBijection(1 .. Len(s), M)
  BY <1>5 DEF ExistsBijection
<1>7. Cardinality(M) = Len(s)
  BY <1>1, <1>6, FS_CountingElements
<1>8. IsFiniteSet(M)
  <2>1. IsFiniteSet(1 .. Len(s))
    <3>1. 1 \in Int /\ Len(s) \in Int
      BY <1>1
    <3> QED BY <3>1, FS_Interval
  <2> QED BY <1>6, <2>1, FS_Bijection
<1> QED BY <1>7, <1>8 DEF M

(* There are iMax nodes.                                                   *)
LEMMA LruNodesFinite ==
    IsFiniteSet(LruNode) /\ Cardinality(LruNode) = LruMax
<1>1. 0 \in Int /\ LruMax - 1 \in Int /\ LruMax \in Nat /\ LruMax > 0
  BY LruNodeNumbers
<1>2. /\ IsFiniteSet(0 .. LruMax - 1)
      /\ Cardinality(0 .. LruMax - 1)
           = IF 0 > LruMax - 1 THEN 0 ELSE (LruMax - 1) - 0 + 1
  BY <1>1, FS_Interval
<1> QED BY <1>1, <1>2 DEF LruNode

LEMMA LruChainLength ==
    ASSUME NEW s \in Seq(LruNode), LruDistinct(s)
    PROVE  Len(s) \in Nat /\ Len(s) <= LruMax
<1>1. IsFiniteSet(LruMembers(s)) /\ Cardinality(LruMembers(s)) = Len(s)
  BY DistinctCardinality
<1>2. LruMembers(s) \in SUBSET LruNode
  BY LruMembersNodes
<1>3. Cardinality(LruMembers(s)) <= Cardinality(LruNode)
  BY <1>2, LruNodesFinite, FS_Subset
<1> QED BY <1>1, <1>3, LruNodesFinite

-----------------------------------------------------------------------------
(* What a reader of a table of that shape finds.                           *)
LruReversed(s) == [k \in 1 .. Len(s) |-> s[Len(s) + 1 - k]]

LruReads(t, u, f, c) ==
    /\ LruUsedOf(t) = u
    /\ LruWalk(t, t.free, "next", LruMax) = f
    /\ LruWalk(t, t.tail, "lruPrev", LruMax) = LruReversed(u)
    /\ \A b \in LruHeads : LruChain(t, b) = c[b]

LEMMA LruShapeReads ==
    ASSUME NEW t, NEW u, NEW f, NEW c, LruShape(t, u, f, c)
    PROVE  LruReads(t, u, f, c)
<1>1. /\ t \in LruTables /\ u \in Seq(LruNode) /\ LruDistinct(u)
      /\ LruDll(t.node, "lruNext", "lruPrev", u)
      /\ t.head = LruNth(u, 1) /\ t.tail = LruNth(u, Len(u))
      /\ f \in Seq(LruNode) /\ LruDistinct(f) /\ LruDll(t.node, "next", "prev", f)
      /\ t.free = LruNth(f, 1)
      /\ \A b \in LruHeads : LruBucketShape(t, b, c[b])
  BY DEF LruShape, LruFreeShape, LruUsedShape
<1>2. t.free \in LruIndex /\ t.head \in LruIndex /\ t.tail \in LruIndex /\ LruMax \in Nat
  BY <1>1, LruNodeNumbers DEF LruTables
<1>3. Len(u) <= LruMax /\ Len(f) <= LruMax /\ Len(u) \in Nat
  BY <1>1, LruChainLength
<1>4. LruUsedOf(t) = u
  <2>1. \A k \in DOMAIN u : t.node[u[k]]["lruNext"] = LruNth(u, k + 1)
    BY <1>1 DEF LruDll
  <2> QED BY <1>1, <1>2, <1>3, <2>1, LruWalkIsChain DEF LruUsedOf
<1>5. LruWalk(t, t.free, "next", LruMax) = f
  <2>1. \A k \in DOMAIN f : t.node[f[k]]["next"] = LruNth(f, k + 1)
    BY <1>1 DEF LruDll
  <2> QED BY <1>1, <1>2, <1>3, <2>1, LruWalkIsChain
<1>6. LruWalk(t, t.tail, "lruPrev", LruMax) = LruReversed(u)
  <2> DEFINE r == LruReversed(u)
  <2>1. DOMAIN u = 1 .. Len(u) /\ \A k \in 1 .. Len(u) : u[k] \in LruNode
    BY <1>1
  <2>2. /\ r \in Seq(LruNode) /\ Len(r) = Len(u) /\ DOMAIN r = 1 .. Len(u)
        /\ \A k \in 1 .. Len(u) : r[k] = u[Len(u) + 1 - k]
    <3>1. \A k \in 1 .. Len(u) : Len(u) + 1 - k \in 1 .. Len(u)
      BY <1>3
    <3>2. r = [k \in 1 .. Len(u) |-> u[Len(u) + 1 - k]]
      BY DEF LruReversed
    <3>3. r \in [1 .. Len(u) -> LruNode]
      BY <2>1, <3>1, <3>2
    <3>4. r \in Seq(LruNode) /\ Len(r) = Len(u) /\ DOMAIN r = 1 .. Len(u)
      <4> HIDE DEF r
      <4> QED BY <1>3, <3>3
    <3> QED BY <3>2, <3>4
  <2> HIDE DEF r
  <2>3. ASSUME NEW k \in DOMAIN r
        PROVE  t.node[r[k]]["lruPrev"] = LruNth(r, k + 1)
    <3>1. /\ Len(u) + 1 - k \in DOMAIN u /\ r[k] = u[Len(u) + 1 - k]
          /\ (Len(u) + 1 - k) - 1 = Len(u) + 1 - (k + 1)
      BY <1>3, <2>1, <2>2
    <3>2. t.node[r[k]]["lruPrev"] = LruNth(u, (Len(u) + 1 - k) - 1)
      BY <1>1, <3>1 DEF LruDll
    <3>3. (Len(u) + 1 - k) - 1 \in DOMAIN u <=> k + 1 \in DOMAIN r
      BY <1>3, <2>1, <2>2
    <3>4. k + 1 \in DOMAIN r => r[k + 1] = u[(Len(u) + 1 - k) - 1]
      BY <2>2, <3>1
    <3> QED BY <3>2, <3>3, <3>4 DEF LruNth
  <2>4. t.tail = LruNth(r, 1)
    <3>1. CASE Len(u) = 0
      BY <1>1, <2>1, <2>2, <3>1 DEF LruNth
    <3>2. CASE Len(u) # 0
      <4>1. Len(u) \in DOMAIN u /\ 1 \in DOMAIN r /\ Len(u) + 1 - 1 = Len(u)
        BY <1>3, <2>1, <2>2, <3>2
      <4>2. r[1] = u[Len(u)]
        BY <2>2, <4>1
      <4> QED BY <1>1, <4>1, <4>2 DEF LruNth
    <3> QED BY <3>1, <3>2
  <2>5. LruWalk(t, t.tail, "lruPrev", LruMax) = r
    BY <1>2, <1>3, <2>2, <2>3, <2>4, LruWalkIsChain
  <2> QED BY <2>5 DEF r
<1>7. ASSUME NEW b \in LruHeads PROVE LruChain(t, b) = c[b]
  <2>1. PICK s : s = c[b]
    OBVIOUS
  <2>2. /\ s \in Seq(LruNode) /\ LruDistinct(s) /\ LruDll(t.node, "next", "prev", s)
        /\ t.bucket[b].count = Len(s) /\ (s # <<>> => t.bucket[b].head = LruNth(s, 1))
    BY <1>1, <2>1 DEF LruBucketShape
  <2>3. \A k \in DOMAIN s : t.node[s[k]]["next"] = LruNth(s, k + 1)
    BY <2>2 DEF LruDll
  <2>4. t.bucket[b].head \in LruIndex /\ Len(s) \in Nat /\ Len(s) <= Len(s)
    BY <1>1, <2>2 DEF LruTables
  <2>5. t.bucket[b].head = LruNth(s, 1) \/ Len(s) = 0
    BY <2>2
  <2>6. LruWalk(t, t.bucket[b].head, "next", Len(s)) = s
    BY <2>2, <2>3, <2>4, <2>5, LruWalkIsChain
  <2>7. (IF t.bucket[b].count > 0 THEN t.bucket[b].count - 0 ELSE 0) = Len(s)
    BY <2>2, <2>4
  <2> QED BY <2>1, <2>6, <2>7 DEF LruChain, LruChainFrom
<1> QED BY <1>4, <1>5, <1>6, <1>7 DEF LruReads

(* What a search on a chain finds.                                         *)
LEMMA LruPlaceFound ==
    ASSUME NEW s \in Seq(LruNode), NEW wanted \in SUBSET LruNode
    PROVE  \/ LruPlace(s, wanted) = 0 /\ LruMembers(s) \cap wanted = {}
           \/ LruPlace(s, wanted) \in DOMAIN s /\ s[LruPlace(s, wanted)] \in wanted
<1> DEFINE found == {k \in DOMAIN s : s[k] \in wanted}
<1>1. found \subseteq Nat
  OBVIOUS
<1>2. CASE found = {}
  <2>1. LruMembers(s) \cap wanted = {}
    BY <1>2 DEF LruMembers
  <2> QED BY <1>2, <2>1 DEF LruPlace
<1>3. CASE found # {}
  <2>1. \E k \in found : \A l \in found : k <= l
    <3> HIDE DEF found
    <3> QED BY <1>1, <1>3, LeastNatural
  <2>2. LruPlace(s, wanted) \in found
    BY <1>3, <2>1 DEF LruPlace
  <2> QED BY <2>2
<1> QED BY <1>2, <1>3

LEMMA LruFirstFound ==
    ASSUME NEW s \in Seq(LruNode), NEW wanted \in SUBSET LruNode
    PROVE  /\ LruFirst(s, wanted) = -1
                \/ LruFirst(s, wanted) \in LruMembers(s) \cap wanted
           /\ LruFirst(s, wanted) = -1 <=> LruMembers(s) \cap wanted = {}
<1>1. CASE LruPlace(s, wanted) = 0 /\ LruMembers(s) \cap wanted = {}
  BY <1>1 DEF LruFirst
<1>2. CASE LruPlace(s, wanted) \in DOMAIN s /\ s[LruPlace(s, wanted)] \in wanted
  <2>1. LruPlace(s, wanted) # 0 /\ s[LruPlace(s, wanted)] \in LruMembers(s)
    BY <1>2 DEF LruMembers
  <2> QED BY <1>2, <2>1, LruNodeNumbers DEF LruFirst
<1> QED BY <1>1, <1>2, LruPlaceFound

(* The entries of a table whose LRU chain is u.                            *)
LruEntryAt(t, i) == [code |-> t.node[i].code, val |-> t.node[i].val]

LruEntriesOf(t, u) == [k \in DOMAIN u |-> LruEntryAt(t, u[k])]

LruEntryValues == [code : LruCodes, val : LruValues]

(* They are as many as the nodes of the chain.                             *)
LEMMA LruEntriesType ==
    ASSUME NEW t \in LruTables, NEW u \in Seq(LruNode)
    PROVE  /\ LruEntriesOf(t, u) \in Seq(LruEntryValues)
           /\ Len(LruEntriesOf(t, u)) = Len(u)
           /\ \A k \in DOMAIN u : LruEntriesOf(t, u)[k] = LruEntryAt(t, u[k])
<1> DEFINE e == LruEntriesOf(t, u)
<1>1. DOMAIN u = 1 .. Len(u) /\ Len(u) \in Nat /\ \A k \in DOMAIN u : u[k] \in LruNode
  OBVIOUS
<1>2. \A i \in LruNode : LruEntryAt(t, i) \in LruEntryValues
  BY DEF LruTables, LruNodes, LruEntryAt, LruEntryValues
<1>3. e = [k \in 1 .. Len(u) |-> LruEntryAt(t, u[k])]
  BY <1>1 DEF LruEntriesOf
<1>4. e \in [1 .. Len(u) -> LruEntryValues]
  BY <1>1, <1>2, <1>3
<1>5. \A k \in DOMAIN u : e[k] = LruEntryAt(t, u[k])
  BY <1>1, <1>3
<1> HIDE DEF e
<1>6. e \in Seq(LruEntryValues) /\ Len(e) = Len(u)
  BY <1>1, <1>4
<1> QED BY <1>5, <1>6 DEF e

LruSameEntries(t, t2, u) ==
    \A k \in LruMembers(u) : /\ t2.node[k].code = t.node[k].code
                             /\ t2.node[k].val = t.node[k].val

(* They stay while the nodes of the chain keep their contents ...          *)
LEMMA LruEntriesKept ==
    ASSUME NEW t, NEW t2, NEW u, LruSameEntries(t, t2, u)
    PROVE  LruEntriesOf(t2, u) = LruEntriesOf(t, u)
<1>1. \A k \in DOMAIN u : LruEntryAt(t2, u[k]) = LruEntryAt(t, u[k])
  BY DEF LruSameEntries, LruMembers, LruEntryAt
<1> QED BY <1>1 DEF LruEntriesOf

(* ... and change with the chain.                                          *)
LEMMA LruEntriesInFront ==
    ASSUME NEW t \in LruTables, NEW t2 \in LruTables, NEW u \in Seq(LruNode),
           NEW i \in LruNode, LruSameEntries(t, t2, u)
    PROVE  /\ LruEntriesOf(t2, InFront(u, i))
                = InFront(LruEntriesOf(t, u), LruEntryAt(t2, i))
           /\ LruEntryAt(t2, i) \in LruEntryValues
<1> DEFINE w == InFront(u, i)
           e == LruEntriesOf(t, u)
           x == LruEntryAt(t2, i)
           a == LruEntriesOf(t2, w)
           b == InFront(e, x)
<1>1. /\ w \in Seq(LruNode) /\ Len(w) = Len(u) + 1 /\ w[1] = i /\ Len(u) \in Nat
      /\ DOMAIN u = 1 .. Len(u) /\ DOMAIN w = 1 .. Len(u) + 1
  BY InFrontElements
<1>2. \A k \in DOMAIN w : k # 1 => k - 1 \in DOMAIN u /\ w[k] = u[k - 1]
  BY InFrontElements
<1>3. e \in Seq(LruEntryValues) /\ Len(e) = Len(u)
  BY LruEntriesType
<1>4. \A k \in DOMAIN u : e[k] = LruEntryAt(t, u[k])
  BY LruEntriesType
<1>5. x \in LruEntryValues
  BY DEF LruTables, LruNodes, LruEntryAt, LruEntryValues
<1>6. \A k \in DOMAIN u : LruEntryAt(t2, u[k]) = LruEntryAt(t, u[k])
  BY DEF LruSameEntries, LruMembers, LruEntryAt
<1> HIDE DEF w, e, x
<1>7. a \in Seq(LruEntryValues) /\ Len(a) = Len(w)
  BY <1>1, LruEntriesType
<1>8. \A k \in DOMAIN w : a[k] = LruEntryAt(t2, w[k])
  BY <1>1, LruEntriesType
<1>9. b \in Seq(LruEntryValues) /\ Len(b) = Len(e) + 1 /\ b[1] = x
      /\ DOMAIN b = 1 .. Len(e) + 1
  BY <1>3, <1>5, InFrontElements
<1>10. \A k \in DOMAIN b : k # 1 => k - 1 \in DOMAIN e /\ b[k] = e[k - 1]
  BY <1>3, <1>5, InFrontElements
<1> HIDE DEF a, b
<1>11. ASSUME NEW k \in 1 .. Len(a) PROVE a[k] = b[k]
  <2>1. k \in DOMAIN w /\ k \in DOMAIN b
    BY <1>1, <1>3, <1>7, <1>9
  <2>2. CASE k = 1
    BY <1>1, <1>8, <1>9, <2>1, <2>2 DEF x
  <2>3. CASE k # 1
    BY <1>2, <1>4, <1>6, <1>8, <1>10, <2>1, <2>3
  <2> QED BY <2>2, <2>3
<1>12. Len(a) = Len(b)
  BY <1>1, <1>3, <1>7, <1>9
<1>13. a = b
  BY <1>7, <1>9, <1>11, <1>12, SameSequence
<1> QED BY <1>5, <1>13 DEF a, b, w, e, x

LEMMA LruEntriesLeftOut ==
    ASSUME NEW t \in LruTables, NEW t2 \in LruTables, NEW u \in Seq(LruNode),
           NEW p \in DOMAIN u, LruSameEntries(t, t2, u)
    PROVE  LruEntriesOf(t2, LeftOut(u, p)) = LeftOut(LruEntriesOf(t, u), p)
<1> DEFINE w == LeftOut(u, p)
           e == LruEntriesOf(t, u)
           a == LruEntriesOf(t2, w)
           b == LeftOut(e, p)
<1>1. /\ w \in Seq(LruNode) /\ Len(w) = Len(u) - 1 /\ DOMAIN w = 1 .. Len(u) - 1
      /\ DOMAIN u = 1 .. Len(u) /\ Len(u) \in Nat /\ p \in 1 .. Len(u)
      /\ \A k \in 1 .. Len(u) - 1 : w[k] = IF k < p THEN u[k] ELSE u[k + 1]
  BY LeftOutElements, Zenon
<1>2. e \in Seq(LruEntryValues) /\ Len(e) = Len(u)
  BY LruEntriesType
<1>3. \A k \in DOMAIN u : e[k] = LruEntryAt(t, u[k])
  BY LruEntriesType
<1>4. \A k \in DOMAIN u : LruEntryAt(t2, u[k]) = LruEntryAt(t, u[k])
  BY DEF LruSameEntries, LruMembers, LruEntryAt
<1> HIDE DEF w, e
<1>5. p \in DOMAIN e
  BY <1>1, <1>2
<1>6. a \in Seq(LruEntryValues) /\ Len(a) = Len(w)
  BY <1>1, LruEntriesType
<1>7. \A k \in DOMAIN w : a[k] = LruEntryAt(t2, w[k])
  BY <1>1, LruEntriesType
<1>8. /\ b \in Seq(LruEntryValues) /\ Len(b) = Len(e) - 1
      /\ \A k \in 1 .. Len(e) - 1 : b[k] = IF k < p THEN e[k] ELSE e[k + 1]
  BY <1>2, <1>5, LeftOutElements, Zenon
<1> HIDE DEF a, b
<1>9. ASSUME NEW k \in 1 .. Len(a) PROVE a[k] = b[k]
  <2>1. /\ k \in DOMAIN w /\ k \in 1 .. Len(u) - 1 /\ k \in 1 .. Len(e) - 1
        /\ k \in DOMAIN u /\ k + 1 \in DOMAIN u
    BY <1>1, <1>2, <1>6
  <2>2. CASE k < p
    BY <1>1, <1>3, <1>4, <1>7, <1>8, <2>1, <2>2
  <2>3. CASE ~ (k < p)
    BY <1>1, <1>3, <1>4, <1>7, <1>8, <2>1, <2>3
  <2> QED BY <2>2, <2>3
<1>10. Len(a) = Len(b)
  BY <1>1, <1>2, <1>6, <1>8
<1>11. a = b
  BY <1>6, <1>8, <1>9, <1>10, SameSequence
<1> QED BY <1>11 DEF a, b, w, e

(* They are those LruCache speaks of.                                      *)
LEMMA LruEntriesRead ==
    ASSUME NEW u, NEW f, NEW c, LruShape(lruTab, u, f, c)
    PROVE  LruEntries = LruEntriesOf(lruTab, u)
<1>1. LruUsedOf(lruTab) = u
  BY LruShapeReads DEF LruReads
<1> QED BY <1>1 DEF LruEntries, LruUsed, LruEntriesOf, LruEntryAt

(* What sht_find finds, and what it does to the order of use.              *)
LruFinds(t, t2, v, i, p, u, f, c) ==
    /\ u[p] = i /\ t.node[i].code = LruKey(v)
    /\ LruShape(t2, InFront(LeftOut(u, p), i), f, c)
    /\ Len(InFront(LeftOut(u, p), i)) = Len(u)
    /\ LruSameContents(t, t2)

(* Codes have buckets.                                                     *)
LEMMA LruBucketOf ==
    ASSUME NEW code \in LruCodes
    PROVE  LruBucket(code) \in LruHeads
<1>1. code \in Nat
  BY LruHashTableAssumption DEF LruCodes, LruKey
<1> QED BY <1>1, LruNodeNumbers DEF LruBucket, LruHeads

(* The key of a value is a code.                                           *)
LEMMA LruKeyCode ==
    ASSUME NEW v \in LruValues
    PROVE  LruKey(v) \in LruCodes /\ LruBucket(LruKey(v)) \in LruHeads
BY LruBucketOf DEF LruCodes

(* What is found in the chain of a bucket is in use.                       *)
LEMMA LruChainUsed ==
    ASSUME NEW t, NEW u, NEW f, NEW c, LruShape(t, u, f, c),
           NEW b \in LruHeads, NEW wanted \in SUBSET LruNode,
           NEW i, i = LruFirst(LruChain(t, b), wanted), i # -1
    PROVE  i \in LruMembers(u) /\ i \in wanted /\ LruBucket(t.node[i].code) = b
<1>1. LruChain(t, b) = c[b]
  BY LruShapeReads DEF LruReads
<1>2. c[b] \in Seq(LruNode)
  BY DEF LruShape, LruBucketShape
<1>3. i \in LruMembers(c[b]) /\ i \in wanted
  BY <1>1, <1>2, LruFirstFound
<1> QED BY <1>3 DEF LruShape, LruPlaced

(* What sht_find returns is in the LRU chain, and becomes its first node.  *)
LEMMA LruFindFacts ==
    ASSUME NEW t, NEW u, NEW f, NEW c, LruShape(t, u, f, c), NEW v \in LruValues,
           NEW i, i = LruFindNode(t, v), i # -1
    PROVE  \E p \in DOMAIN u : LruFinds(t, LruFind(t, v), v, i, p, u, f, c)
<1> DEFINE wanted == {j \in LruNode : t.node[j].code = LruKey(v) /\ t.node[j].val = v}
<1>1. i \in LruMembers(u) /\ i \in wanted
  <2>1. LruBucket(LruKey(v)) \in LruHeads
    BY LruKeyCode
  <2>2. i = LruFirst(LruChain(t, LruBucket(LruKey(v))), wanted)
    BY DEF LruFindNode
  <2>3. wanted \in SUBSET LruNode
    OBVIOUS
  <2> HIDE DEF wanted
  <2> QED BY <2>1, <2>2, <2>3, LruChainUsed
<1>2. i \in LruNode /\ t.node[i].code = LruKey(v)
  BY <1>1
<1>3. PICK p \in DOMAIN u : u[p] = i
  BY <1>1 DEF LruMembers
<1>4. u \in Seq(LruNode) /\ LruDistinct(u) /\ t.head = LruNth(u, 1)
  BY DEF LruShape, LruUsedShape
<1>5. CASE t.head = i
  <2>1. 1 \in DOMAIN u /\ u[1] = i /\ u # <<>>
    BY <1>2, <1>4, <1>5, LruNodeNumbers DEF LruNth
  <2>2. p = 1
    BY <1>3, <1>4, <2>1 DEF LruDistinct
  <2>3. InFront(LeftOut(u, p), i) = u
    BY <1>4, <2>1, <2>2, FrontAgain
  <2>4. LruFind(t, v) = t
    BY <1>5 DEF LruFind
  <2>5. LruFinds(t, LruFind(t, v), v, i, p, u, f, c)
    BY <1>2, <1>3, <2>3, <2>4 DEF LruFinds, LruSameContents
  <2> QED BY <2>5
<1>6. CASE t.head # i
  <2>1. LruFind(t, v) = LruToFront(LruDrop(t, i), i)
    BY <1>6 DEF LruFind
  <2>2. PICK t2 : t2 = LruToFront(LruDrop(t, i), i)
    OBVIOUS
  <2>3. /\ LruShape(t2, InFront(LeftOut(u, p), i), f, c)
        /\ Len(InFront(LeftOut(u, p), i)) = Len(u)
        /\ LruSameContents(t, t2)
    BY <1>3, <1>6, <2>2, LruTouchShape
  <2>4. LruFinds(t, t2, v, i, p, u, f, c)
    BY <1>2, <1>3, <2>3 DEF LruFinds
  <2> QED BY <2>1, <2>2, <2>4
<1> QED BY <1>5, <1>6

-----------------------------------------------------------------------------
(* The types of the table, whatever an erase has done to it.  A walk meets *)
(* nodes, whatever the links.                                              *)
LEMMA LruWalkType ==
    ASSUME NEW t \in LruTables, NEW link \in LruLinks, NEW limit \in Nat,
           NEW from \in LruIndex
    PROVE  /\ LruWalk(t, from, link, limit) \in Seq(LruNode)
           /\ from = -1 \/ limit = 0 => LruWalk(t, from, link, limit) = <<>>
<1>1. PICK f : /\ LruWalk(t, from, link, limit) = f[limit][from]
               /\ LruWalks(t.node, link, limit, f)
  BY LruWalkStep
<1>2. \A i \in LruIndex, n \in 0 .. limit :
        f[n][i] = IF i = -1 \/ n = 0 THEN <<>> ELSE <<i>> \o f[n - 1][t.node[i][link]]
  BY <1>1 DEF LruWalks
<1>3. \A i \in LruIndex : i # -1 => i \in LruNode /\ t.node[i][link] \in LruIndex
  BY DEF LruIndex, LruTables, LruNodes, LruLinks
<1> DEFINE S == {n \in Nat : n <= limit => \A i \in LruIndex : f[n][i] \in Seq(LruNode)}
<1>4. 0 \in S
  <2>1. ASSUME NEW i \in LruIndex PROVE f[0][i] = <<>>
    <3>1. 0 \in 0 .. limit
      OBVIOUS
    <3> QED BY <1>2, <3>1
  <2>2. <<>> \in Seq(LruNode)
    OBVIOUS
  <2> QED BY <2>1, <2>2
<1>5. ASSUME NEW n \in Nat, n \in S PROVE n + 1 \in S
  <2>1. ASSUME n + 1 <= limit, NEW i \in LruIndex PROVE f[n + 1][i] \in Seq(LruNode)
    <3>1. n + 1 \in 0 .. limit /\ n + 1 # 0 /\ (n + 1) - 1 = n /\ n <= limit
      BY <2>1
    <3>2. CASE i = -1
      <4>1. f[n + 1][i] = <<>>
        BY <1>2, <3>1, <3>2
      <4>2. <<>> \in Seq(LruNode)
        OBVIOUS
      <4> QED BY <4>1, <4>2
    <3>3. CASE i # -1
      <4>1. i \in LruNode /\ t.node[i][link] \in LruIndex
        BY <1>3, <3>3
      <4>2. f[n][t.node[i][link]] \in Seq(LruNode)
        BY <1>5, <3>1, <4>1
      <4>3. f[n + 1][i] = <<i>> \o f[(n + 1) - 1][t.node[i][link]]
        BY <1>2, <3>1, <3>3
      <4> QED BY <3>1, <4>1, <4>2, <4>3
    <3> QED BY <3>2, <3>3
  <2> QED BY <2>1
<1>6. \A n \in Nat : n \in S
  <2> HIDE DEF S
  <2> QED BY <1>4, <1>5, NaturalInduction
<1>7. LruWalk(t, from, link, limit) \in Seq(LruNode)
  <2>1. limit \in S
    <3> HIDE DEF S
    <3> QED BY <1>6
  <2> QED BY <1>1, <2>1
<1>8. from = -1 \/ limit = 0 => f[limit][from] = <<>>
  <2>1. limit \in 0 .. limit
    OBVIOUS
  <2> QED BY <1>2, <2>1
<1> QED BY <1>1, <1>7, <1>8

LEMMA LruChainFromType ==
    ASSUME NEW t \in LruTables, NEW b \in LruHeads, NEW from \in LruIndex, NEW n \in Nat
    PROVE  /\ LruChainFrom(t, b, from, n) \in Seq(LruNode)
           /\ from = -1 \/ ~ (t.bucket[b].count > n) => LruChainFrom(t, b, from, n) = <<>>
<1>1. t.bucket[b].count \in Int
  BY DEF LruTables
<1>2. PICK limit : limit = IF t.bucket[b].count > n THEN t.bucket[b].count - n ELSE 0
  OBVIOUS
<1>3. limit \in Nat /\ (~ (t.bucket[b].count > n) => limit = 0)
  BY <1>1, <1>2
<1>4. LruChainFrom(t, b, from, n) = LruWalk(t, from, "next", limit)
  BY <1>2 DEF LruChainFrom
<1> QED BY <1>3, <1>4, LruWalkType, LruLinkNames

(* A search finds a node or none.                                          *)
LEMMA LruFindType ==
    ASSUME NEW t \in LruTables, NEW v \in LruValues
    PROVE  LruFindNode(t, v) \in LruIndex /\ LruFind(t, v) \in LruTables
<1> DEFINE wanted == {j \in LruNode : t.node[j].code = LruKey(v) /\ t.node[j].val = v}
<1>1. PICK i : i = LruFindNode(t, v)
  OBVIOUS
<1>2. i \in LruIndex
  <2>1. PICK b : b = LruBucket(LruKey(v))
    OBVIOUS
  <2>2. b \in LruHeads
    BY <2>1, LruKeyCode
  <2>3. t.bucket[b].head \in LruIndex /\ 0 \in Nat
    BY <2>2 DEF LruTables
  <2>4. LruChain(t, b) \in Seq(LruNode)
    BY <2>2, <2>3, LruChainFromType DEF LruChain
  <2>5. i = LruFirst(LruChain(t, b), wanted)
    BY <1>1, <2>1 DEF LruFindNode
  <2>6. wanted \in SUBSET LruNode
    OBVIOUS
  <2> HIDE DEF wanted
  <2> QED BY <2>4, <2>5, <2>6, LruFirstFound DEF LruIndex
<1>3. LruFind(t, v) \in LruTables
  <2>1. CASE i = -1 \/ t.head = i
    BY <1>1, <2>1 DEF LruFind
  <2>2. CASE ~ (i = -1 \/ t.head = i)
    <3>1. i \in LruNode
      BY <1>2, <2>2 DEF LruIndex
    <3>2. PICK m : m = LruDrop(t, i)
      OBVIOUS
    <3>3. m \in LruTables
      BY <3>1, <3>2, LruDropFacts DEF LruDropped
    <3>4. LruToFront(m, i) \in LruTables
      BY <3>1, <3>3, LruToFrontFacts DEF LruFronted
    <3>5. LruFind(t, v) = LruToFront(m, i)
      BY <1>1, <2>2, <3>2 DEF LruFind
    <3> QED BY <3>4, <3>5
  <2> QED BY <2>1, <2>2
<1> QED BY <1>1, <1>2, <1>3

(* A node is removed.                                                      *)
LEMMA LruRemoveType ==
    ASSUME NEW t \in LruTables, NEW i \in LruNode, NEW code \in LruCodes
    PROVE  LruRemoveNode(t, i, code) \in LruTables
<1>1. LruBucket(code) \in LruHeads
  BY LruBucketOf
<1> QED BY <1>1, LruRemoveFacts DEF LruUnhangs

(* The table is made.                                                      *)
LruMade(t, bucket) ==
    /\ t \in LruTables
    /\ t.free = 0 /\ t.head = -1 /\ t.tail = -1 /\ t.item = 0 /\ t.bucket = bucket
    /\ \A i \in LruNode :
         /\ t.node[i].next = IF i + 1 < LruMax THEN i + 1 ELSE -1
         /\ t.node[i].prev = i - 1
         /\ t.node[i].valid = FALSE

LEMMA LruMakeType ==
    ASSUME NEW node \in [LruNode -> LruNodes],
           NEW bucket \in [LruHeads -> [count : Int, head : LruIndex]],
           NEW t, t = LruMakeTable(node, bucket)
    PROVE  LruMade(t, bucket)
<1> DEFINE nx(i) == IF i + 1 < LruMax THEN i + 1 ELSE -1
           nd == [i \in LruNode |-> [node[i] EXCEPT !.valid = FALSE, !.next = nx(i),
                                                    !.prev = i - 1]]
<1>1. t = [free |-> 0, head |-> -1, tail |-> -1, item |-> 0, node |-> nd,
           bucket |-> bucket]
  BY DEF LruMakeTable
<1>2. ASSUME NEW i \in LruNode
      PROVE  /\ nd[i] \in LruNodes /\ nd[i].next = nx(i) /\ nd[i].prev = i - 1
             /\ nd[i].valid = FALSE
  <2>1. nx(i) \in LruIndex /\ i - 1 \in LruIndex
    BY LruNodeNumbers DEF LruIndex
  <2>2. PICK j, k : j = nx(i) /\ k = i - 1
    OBVIOUS
  <2>3. nd[i] = [node[i] EXCEPT !.valid = FALSE, !.next = j, !.prev = k]
    BY <2>2
  <2> HIDE DEF nd, nx
  <2>4. node[i] \in LruNodes /\ j \in LruIndex /\ k \in LruIndex
    BY <2>1, <2>2
  <2>5. nd[i] \in LruNodes /\ nd[i].next = j /\ nd[i].prev = k /\ nd[i].valid = FALSE
    BY <2>3, <2>4 DEF LruNodes
  <2> QED BY <2>2, <2>5
<1>3. nd \in [LruNode -> LruNodes]
  <2> DEFINE e(i) == [node[i] EXCEPT !.valid = FALSE, !.next = nx(i), !.prev = i - 1]
  <2>1. ASSUME NEW i \in LruNode PROVE e(i) \in LruNodes
    <3>1. nd[i] = e(i)
      OBVIOUS
    <3> HIDE DEF nd, e
    <3> QED BY <1>2, <3>1
  <2>2. nd = [i \in LruNode |-> e(i)]
    OBVIOUS
  <2> HIDE DEF nd, e
  <2> QED BY <2>1, <2>2
<1>4. 0 \in LruIndex /\ -1 \in LruIndex
  BY LruNodeNumbers DEF LruIndex
<1>5. t.node = nd
  <2> HIDE DEF nd
  <2> QED BY <1>1
<1> HIDE DEF nd
<1>6. t \in LruTables
  BY <1>1, <1>3, <1>4 DEF LruTables
<1>7. t.free = 0 /\ t.head = -1 /\ t.tail = -1 /\ t.item = 0 /\ t.bucket = bucket
  BY <1>1
<1> QED BY <1>2, <1>5, <1>6, <1>7 DEF LruMade

(* The contents of a node that was never used.                             *)
LEMMA LruZeroValue == LruZero \in LruValues
<1>1. \E v \in LruValues : \A w \in LruValues : v <= w
  BY LruHashTableAssumption, LeastNatural
<1> QED BY <1>1 DEF LruZero

(* Calls: those that go on with a node have one.                           *)
LruCalls == [op : {"none", "insert", "remove", "erase"},
             step : {"none", "link", "evict", "free", "alloc", "scan"},
             node : LruIndex, val : LruValues, copy : BOOLEAN, at : Nat]

LruTyped ==
    /\ lruTab \in LruTables /\ lruCall \in LruCalls
    /\ lruCall.step \in {"link", "evict", "free", "scan"} => lruCall.node \in LruNode
    /\ lruCall.step = "alloc" => lruTab.free \in LruNode

LruTypes ==
    /\ LruTyped
    /\ lruLost \in 0 .. LruMaxLost /\ lruAfter \in 0 .. LruMaxAfter + 1

(* No call is under way.                                                   *)
LEMMA LruIdleCall ==
    /\ LruIdle \in LruCalls /\ LruIdle.op = "none" /\ LruIdle.step = "none"
BY LruZeroValue DEF LruIdle, LruCalls, LruIndex

LEMMA LruIdleTyped ==
    ASSUME lruTab' \in LruTables, lruCall' = LruIdle
    PROVE  LruTyped'
BY LruIdleCall DEF LruTyped

(* What is kept of the types of the table and of the call, whatever an     *)
(* erase has done to them: sht_insert_multi ...                            *)
LEMMA LruInsertMultiTyped ==
    ASSUME LruTyped, lruCall = LruIdle, NEW v \in LruValues, NEW copy \in BOOLEAN,
           LruInsertMulti(lruTab, v, copy)
    PROVE  LruTyped'
<1>1. lruTab \in LruTables /\ lruTab.free \in LruIndex /\ lruTab.tail \in LruIndex
  BY DEF LruTyped, LruTables
<1>2. CASE lruTab.free # -1
  <2>1. PICK i : i = lruTab.free
    OBVIOUS
  <2>2. i \in LruNode
    BY <1>1, <1>2, <2>1 DEF LruIndex
  <2>3. lruTab' = LruAllocNode(lruTab)
        /\ lruCall' = [op |-> "insert", step |-> "link", node |-> i, val |-> v,
                       copy |-> copy, at |-> 0]
    BY <1>2, <2>1 DEF LruInsertMulti
  <2>4. lruTab' \in LruTables
    BY <1>1, <2>1, <2>2, <2>3, LruAllocFacts DEF LruAllocates
  <2>5. lruCall' \in LruCalls /\ lruCall'.step = "link" /\ lruCall'.node = i
    BY <2>2, <2>3 DEF LruCalls, LruIndex
  <2> QED BY <2>2, <2>4, <2>5 DEF LruTyped
<1>3. CASE lruTab.free = -1 /\ lruTab.tail = -1
  BY <1>1, <1>3, LruIdleTyped DEF LruInsertMulti
<1>4. CASE lruTab.free = -1 /\ lruTab.tail # -1
  <2>1. PICK i : i = lruTab.tail
    OBVIOUS
  <2>2. i \in LruNode
    BY <1>1, <1>4, <2>1 DEF LruIndex
  <2>3. PICK code : code = lruTab.node[i].code
    OBVIOUS
  <2>4. code \in LruCodes
    BY <1>1, <2>2, <2>3 DEF LruTables, LruNodes
  <2>5. lruTab' = LruRemoveNode(lruTab, i, code)
        /\ lruCall' = [op |-> "insert", step |-> "evict", node |-> i, val |-> v,
                       copy |-> copy, at |-> 0]
    BY <1>4, <2>1, <2>3 DEF LruInsertMulti
  <2>6. lruTab' \in LruTables
    BY <1>1, <2>2, <2>4, <2>5, LruRemoveType
  <2>7. lruCall' \in LruCalls /\ lruCall'.step = "evict" /\ lruCall'.node = i
    BY <2>2, <2>5 DEF LruCalls, LruIndex
  <2> QED BY <2>2, <2>6, <2>7 DEF LruTyped
<1> QED BY <1>2, <1>3, <1>4

(* ... the first half of a removal ...                                     *)
LEMMA LruBeginRemoveTyped ==
    ASSUME LruTyped, NEW i \in LruNode, NEW code \in LruCodes, LruBeginRemove(i, code)
    PROVE  LruTyped'
<1>1. lruTab' \in LruTables
  BY LruRemoveType DEF LruTyped, LruBeginRemove
<1>2. lruCall' = [LruIdle EXCEPT !.op = "remove", !.step = "free", !.node = i]
  BY DEF LruBeginRemove
<1>3. lruCall' \in LruCalls /\ lruCall'.step = "free" /\ lruCall'.node = i
  BY <1>2, LruZeroValue DEF LruIdle, LruCalls, LruIndex
<1> QED BY <1>1, <1>3 DEF LruTyped

(* ... and the search of erase.                                            *)
LEMMA LruEraseFromTyped ==
    ASSUME LruTyped, NEW v \in LruValues, NEW from \in LruIndex, NEW n \in Nat,
           LruEraseFrom(v, from, n)
    PROVE  LruTyped'
<1> DEFINE wanted == {j \in LruNode : lruTab.node[j].code = LruKey(v)}
<1>1. PICK b, rest, k :
        /\ b = LruBucket(LruKey(v))
        /\ rest = LruChainFrom(lruTab, LruBucket(LruKey(v)), from, n)
        /\ k = LruPlace(LruChainFrom(lruTab, LruBucket(LruKey(v)), from, n), wanted)
  OBVIOUS
<1>2. /\ k = 0 => lruTab' = lruTab /\ lruCall' = LruIdle
      /\ k # 0 => /\ lruTab' = LruRemoveNode(lruTab, rest[k], LruKey(v))
                  /\ lruCall' = [op |-> "erase", step |-> "free", node |-> rest[k],
                                 val |-> v, copy |-> FALSE, at |-> n + k]
  BY <1>1 DEF LruEraseFrom
<1>3. lruTab \in LruTables /\ LruKey(v) \in LruCodes /\ b \in LruHeads
  BY <1>1, LruKeyCode DEF LruTyped
<1>4. rest \in Seq(LruNode)
  BY <1>1, <1>3, LruChainFromType
<1>5. wanted \in SUBSET LruNode
  OBVIOUS
<1>6. CASE k = 0
  BY <1>2, <1>3, <1>6, LruIdleTyped
<1>7. CASE k # 0
  <2>1. k \in DOMAIN rest
    <3> HIDE DEF wanted
    <3> QED BY <1>1, <1>4, <1>5, <1>7, LruPlaceFound
  <2>2. PICK i : i = rest[k]
    OBVIOUS
  <2>3. i \in LruNode /\ n + k \in Nat
    BY <1>4, <2>1, <2>2
  <2>4. lruTab' \in LruTables
    BY <1>2, <1>3, <1>7, <2>2, <2>3, LruRemoveType
  <2>5. PICK a : a = n + k
    OBVIOUS
  <2>6. lruCall' = [op |-> "erase", step |-> "free", node |-> i, val |-> v,
                    copy |-> FALSE, at |-> a] /\ a \in Nat
    BY <1>2, <1>7, <2>2, <2>3, <2>5
  <2> HIDE DEF wanted
  <2>7. lruCall' \in LruCalls /\ lruCall'.step = "free" /\ lruCall'.node = i
    BY <2>3, <2>6 DEF LruCalls, LruIndex
  <2> QED BY <2>3, <2>4, <2>7 DEF LruTyped
<1> QED BY <1>6, <1>7

(* Every step keeps the types.                                             *)
LEMMA LruTypedNext ==
    ASSUME LruTyped, LruNext
    PROVE  LruTyped'
<1>1. lruTab \in LruTables /\ lruCall \in LruCalls
  BY DEF LruTyped
<1>2. ASSUME NEW v \in LruValues, LruFindNode(lruTab, v) # -1,
             lruTab' = LruFind(lruTab, v), lruCall = LruIdle, UNCHANGED lruCall
      PROVE  LruTyped'
  BY <1>1, <1>2, LruFindType, LruIdleTyped
<1>3. ASSUME NEW v \in LruValues, LruInsertUnique(v) PROVE LruTyped'
  <2>1. lruCall = LruIdle
    BY <1>3 DEF LruInsertUnique, LruBegin
  <2>2. CASE LruFindNode(lruTab, v) # -1
    BY <1>2, <1>3, <2>1, <2>2 DEF LruInsertUnique
  <2>3. CASE LruFindNode(lruTab, v) = -1
    <3>1. LruInsertMulti(lruTab, v, TRUE)
      BY <1>3, <2>3 DEF LruInsertUnique
    <3> QED BY <2>1, <3>1, LruInsertMultiTyped
  <2> QED BY <2>2, <2>3
<1>4. ASSUME NEW v \in LruValues, LruInsertEqual(v) PROVE LruTyped'
  BY <1>4, LruInsertMultiTyped DEF LruInsertEqual, LruBegin
<1>5. ASSUME NEW v \in LruValues, LruFindOrInsert(v) PROVE LruTyped'
  BY <1>3, <1>5 DEF LruFindOrInsert
<1>6. ASSUME NEW v \in LruValues, LruSearch(v) PROVE LruTyped'
  BY <1>1, <1>6, LruFindType, LruIdleTyped DEF LruSearch, LruBegin
<1>7. ASSUME NEW v \in LruValues, LruRemove(v) PROVE LruTyped'
  <2>1. PICK i : i = LruFindNode(lruTab, v)
    OBVIOUS
  <2>2. i # -1 /\ LruBeginRemove(i, LruKey(v))
    BY <1>7, <2>1 DEF LruRemove
  <2>3. i \in LruNode
    BY <1>1, <2>1, <2>2, LruFindType DEF LruIndex
  <2> QED BY <2>2, <2>3, LruKeyCode, LruBeginRemoveTyped
<1>8. ASSUME NEW v \in LruValues, LruErase(v) PROVE LruTyped'
  <2>1. PICK h : h = lruTab.bucket[LruBucket(LruKey(v))].head
    OBVIOUS
  <2>2. h \in LruIndex
    BY <1>1, <2>1, LruKeyCode DEF LruTables
  <2>3. LruEraseFrom(v, h, 0)
    BY <1>8, <2>1 DEF LruErase
  <2>4. 0 \in Nat
    OBVIOUS
  <2> QED BY <2>2, <2>3, <2>4, LruEraseFromTyped
<1>9. ASSUME NEW i \in LruNode, LruEraseAt(i) PROVE LruTyped'
  <2>1. PICK code : code = lruTab.node[i].code
    OBVIOUS
  <2>2. code \in LruCodes
    BY <1>1, <2>1 DEF LruTables, LruNodes
  <2>3. LruBeginRemove(i, code)
    BY <1>9, <2>1 DEF LruEraseAt
  <2> QED BY <2>2, <2>3, LruBeginRemoveTyped
<1>10. CASE LruFreed
  <2>1. PICK i : i = lruCall.node
    OBVIOUS
  <2>2. i \in LruNode /\ lruTab' = LruFreeNode(lruTab, i)
    BY <1>10, <2>1 DEF LruFreed, LruTyped
  <2>3. lruTab' \in LruTables /\ lruTab'.free = i
    BY <1>1, <2>2, LruFreeFacts DEF LruGivesBack
  <2>4. CASE lruCall.op = "insert"
    <3>1. lruCall' = [lruCall EXCEPT !.step = "alloc"]
      BY <1>10, <2>4 DEF LruFreed
    <3>2. lruCall' \in LruCalls /\ lruCall'.step = "alloc"
      BY <1>1, <3>1 DEF LruCalls
    <3> QED BY <2>2, <2>3, <3>2 DEF LruTyped
  <2>5. CASE lruCall.op = "erase"
    <3>1. lruCall' = [lruCall EXCEPT !.step = "scan"]
      BY <1>10, <2>5 DEF LruFreed
    <3>2. lruCall' \in LruCalls /\ lruCall'.step = "scan" /\ lruCall'.node = i
      BY <1>1, <2>1, <3>1 DEF LruCalls
    <3> QED BY <2>2, <2>3, <3>2 DEF LruTyped
  <2>6. CASE lruCall.op \notin {"insert", "erase"}
    <3>1. lruCall' = LruIdle
      BY <1>10, <2>6 DEF LruFreed
    <3> QED BY <2>3, <3>1, LruIdleTyped
  <2> QED BY <2>4, <2>5, <2>6
<1>11. CASE LruScan
  <2>1. PICK v, from, n : /\ v = lruCall.val /\ from = lruTab.node[lruCall.node].next
                          /\ n = lruCall.at
    OBVIOUS
  <2>2. lruCall.node \in LruNode
    BY <1>11 DEF LruScan, LruTyped
  <2>3. v \in LruValues /\ from \in LruIndex /\ n \in Nat
    BY <1>1, <2>1, <2>2 DEF LruTables, LruNodes, LruCalls
  <2>4. LruEraseFrom(v, from, n)
    BY <1>11, <2>1 DEF LruScan
  <2> QED BY <2>3, <2>4, LruEraseFromTyped
<1>12. CASE LruAlloc
  <2>1. PICK i : i = lruTab.free
    OBVIOUS
  <2>2. i \in LruNode /\ lruTab' = LruAllocNode(lruTab)
        /\ lruCall' = [lruCall EXCEPT !.step = "link", !.node = i]
    BY <1>12, <2>1 DEF LruAlloc, LruTyped
  <2>3. lruTab' \in LruTables
    BY <1>1, <2>1, <2>2, LruAllocFacts DEF LruAllocates
  <2>4. lruCall' \in LruCalls /\ lruCall'.step = "link" /\ lruCall'.node = i
    BY <1>1, <2>2 DEF LruCalls, LruIndex
  <2> QED BY <2>2, <2>3, <2>4 DEF LruTyped
<1>13. CASE LruLinked
  <2>1. PICK i, v, code : i = lruCall.node /\ v = lruCall.val /\ code = LruKey(v)
    OBVIOUS
  <2>2. i \in LruNode
    BY <1>13, <2>1 DEF LruLinked, LruTyped
  <2>3. v \in LruValues
    BY <1>1, <2>1 DEF LruCalls
  <2>4. code \in LruCodes /\ LruBucket(code) \in LruHeads
    BY <2>1, <2>3, LruKeyCode
  <2>5. PICK m : m = LruInsertNode(lruTab, i, code)
    OBVIOUS
  <2>6. m \in LruTables
    <3>1. PICK b : b = LruBucket(code)
      OBVIOUS
    <3>2. PICK first : first = IF lruTab.bucket[b].count > 0
                                 THEN lruTab.bucket[b].head ELSE -1
      OBVIOUS
    <3>3. LruHangs(lruTab, m, i, code, b, first)
      BY <1>1, <2>2, <2>4, <2>5, <3>1, <3>2, LruInsertFacts
    <3> QED BY <3>3 DEF LruHangs
  <2>7. PICK t2 : t2 = [m EXCEPT !.node[i].val = v]
    OBVIOUS
  <2>8. t2 \in LruTables
    <3>1. PICK nd : nd = [m.node EXCEPT ![i].val = v]
      OBVIOUS
    <3>2. nd \in [LruNode -> LruNodes]
      BY <2>2, <2>3, <2>6, <3>1 DEF LruTables, LruNodes
    <3>3. t2 = [m EXCEPT !.node = nd]
      BY <2>6, <2>7, <3>1 DEF LruTables
    <3> QED BY <2>6, <3>2, <3>3 DEF LruTables
  <2>9. lruTab' \in {m, t2} /\ lruCall' = LruIdle
    BY <1>13, <2>1, <2>5, <2>7 DEF LruLinked
  <2> QED BY <2>6, <2>8, <2>9, LruIdleTyped
<1>14. CASE LruKilled
  <2>1. PICK t2 : t2 = LruMakeTable(lruTab.node, lruTab.bucket)
    OBVIOUS
  <2>2. /\ lruTab.node \in [LruNode -> LruNodes]
        /\ lruTab.bucket \in [LruHeads -> [count : Int, head : LruIndex]]
    BY <1>1 DEF LruTables
  <2>3. t2 \in LruTables
    BY <2>1, <2>2, LruMakeType DEF LruMade
  <2>4. lruTab' \in {t2, lruTab} /\ lruCall' = LruIdle
    BY <1>14, <2>1 DEF LruKilled
  <2> QED BY <1>1, <2>3, <2>4, LruIdleTyped
<1> QED BY <1>3, <1>4, <1>5, <1>6, <1>7, <1>8, <1>9, <1>10, <1>11, <1>12, <1>13, <1>14
    DEF LruNext

(* The histories.                                                          *)
LEMMA LruTypesNext ==
    ASSUME LruTypes, [LruNext]_lruVars
    PROVE  LruTypes'
<1>1. CASE UNCHANGED lruVars
  BY <1>1 DEF lruVars, LruTypes, LruTyped
<1>2. CASE LruNext
  <2>1. LruTyped'
    BY <1>2, LruTypedNext DEF LruTypes
  <2>2. LruMaxLost \in Nat /\ LruMaxAfter \in Nat /\ lruLost \in 0 .. LruMaxLost
        /\ lruAfter \in 0 .. LruMaxAfter + 1
    BY LruHashTableAssumption DEF LruTypes
  <2>3. ASSUME NEW harm, LruBegin(harm)
        PROVE  lruLost' \in 0 .. LruMaxLost /\ lruAfter' \in 0 .. LruMaxAfter + 1
    BY <2>2, <2>3 DEF LruBegin
  <2>4. lruLost' \in 0 .. LruMaxLost /\ lruAfter' \in 0 .. LruMaxAfter + 1
    <3>1. ASSUME NEW v \in LruValues,
                 \/ LruInsertUnique(v) \/ LruInsertEqual(v) \/ LruFindOrInsert(v)
                 \/ LruSearch(v) \/ LruRemove(v) \/ LruErase(v)
          PROVE  lruLost' \in 0 .. LruMaxLost /\ lruAfter' \in 0 .. LruMaxAfter + 1
      <4>1. LruBegin(FALSE)
        BY <3>1 DEF LruInsertUnique, LruInsertEqual, LruFindOrInsert, LruSearch,
                    LruRemove, LruErase
      <4> QED BY <2>3, <4>1
    <3>2. ASSUME NEW i \in LruNode, LruEraseAt(i)
          PROVE  lruLost' \in 0 .. LruMaxLost /\ lruAfter' \in 0 .. LruMaxAfter + 1
      BY <2>3, <3>2 DEF LruEraseAt
    <3>3. CASE LruFreed \/ LruAlloc \/ LruLinked
      BY <2>2, <3>3 DEF LruFreed, LruAlloc, LruLinked
    <3>4. CASE LruScan
      BY <2>2, <3>4 DEF LruScan
    <3>5. CASE LruKilled
      BY <2>2, <3>5 DEF LruKilled
    <3> QED BY <1>2, <3>1, <3>2, <3>3, <3>4, <3>5 DEF LruNext
  <2> QED BY <2>1, <2>4 DEF LruTypes
<1> QED BY <1>1, <1>2

(* Damage is never undone.                                                 *)
LEMMA LruDamageStays ==
    ASSUME LruTypes, [LruNext]_lruVars, LruDamaged
    PROVE  lruAfter' > 0
<1>1. lruAfter \in Nat /\ lruAfter > 0
  BY DEF LruTypes, LruDamaged
<1>2. ASSUME NEW harm, LruBegin(harm) PROVE lruAfter' > 0
  BY <1>1, <1>2 DEF LruBegin, LruDamaged
<1>3. ASSUME NEW v \in LruValues,
             \/ LruInsertUnique(v) \/ LruInsertEqual(v) \/ LruFindOrInsert(v)
             \/ LruSearch(v) \/ LruRemove(v) \/ LruErase(v)
      PROVE  lruAfter' > 0
  <2>1. LruBegin(FALSE)
    BY <1>3 DEF LruInsertUnique, LruInsertEqual, LruFindOrInsert, LruSearch,
                LruRemove, LruErase
  <2> QED BY <1>2, <2>1
<1>4. ASSUME NEW i \in LruNode, LruEraseAt(i) PROVE lruAfter' > 0
  BY <1>2, <1>4 DEF LruEraseAt
<1>5. CASE LruFreed \/ LruAlloc \/ LruLinked \/ LruKilled \/ UNCHANGED lruVars
  BY <1>1, <1>5 DEF LruFreed, LruAlloc, LruLinked, LruKilled, lruVars
<1>6. CASE LruScan
  BY <1>1, <1>6 DEF LruScan, LruDamaged
<1> QED BY <1>3, <1>4, <1>5, <1>6 DEF LruNext

-----------------------------------------------------------------------------
(* The invariant: until an erase damages it, the table has its shape, and  *)
(* iItem counts the nodes in use, those lost, and the one that a call      *)
(* under way holds, which is in neither chain.  After it has freed a node  *)
(* a call finds this node, or another, at the head of the free chain.      *)
LruHeldBy(call) == call.step \in {"link", "evict", "free"}

LruHasNode(t, u, call) ==
    /\ call.node \in LruNode /\ t.node[call.node].valid
    /\ call.node \notin LruMembers(u)
    /\ \/ call.op = "insert" /\ call.step \in {"link", "evict"}
       \/ call.op \in {"remove", "erase"} /\ call.step = "free"

LruUnderWay(t, u, call) ==
    \/ LruHasNode(t, u, call)
    \/ call.op = "insert" /\ call.step = "alloc" /\ t.free # -1
    \/ /\ call.op = "erase" /\ call.step = "scan"
       /\ t.free # -1 /\ t.free = call.node

LruState(t, call, lost, u, f, c) ==
    /\ c \in [LruHeads -> Seq(LruNode)]
    /\ LruShape(t, u, f, c)
    /\ t.item = Len(u) + lost + (IF LruHeldBy(call) THEN 1 ELSE 0)
    /\ call = LruIdle \/ LruUnderWay(t, u, call)

LruHolds(t, call, lost) ==
    LruState(t, call, lost, LruUsedOf(t), LruWalk(t, t.free, "next", LruMax),
             [b \in LruHeads |-> LruChain(t, b)])

LruInv == LruTypes /\ (~ LruDamaged => LruHolds(lruTab, lruCall, lruLost))

(* The lists of the shape are those the walks read.                        *)
LEMMA LruHoldsIf ==
    ASSUME NEW t, NEW call, NEW lost, NEW u, NEW f, NEW c,
           LruState(t, call, lost, u, f, c)
    PROVE  LruHolds(t, call, lost)
<1>1. LruShape(t, u, f, c) /\ c \in [LruHeads -> Seq(LruNode)]
  BY DEF LruState
<1>2. LruReads(t, u, f, c)
  BY <1>1, LruShapeReads
<1>3. c = [b \in LruHeads |-> LruChain(t, b)]
  BY <1>1, <1>2 DEF LruReads
<1>4. LruUsedOf(t) = u /\ LruWalk(t, t.free, "next", LruMax) = f
  BY <1>2 DEF LruReads
<1> QED BY <1>3, <1>4 DEF LruHolds

(* What LruCache knows of the call.                                        *)
LEMMA LruDoing ==
    ASSUME NEW t, NEW call \in LruCalls, NEW lost, NEW u, NEW f, NEW c,
           LruState(t, call, lost, u, f, c)
    PROVE  call.op = "none" <=> call = LruIdle
BY LruIdleCall DEF LruState, LruUnderWay, LruHasNode

-----------------------------------------------------------------------------
(* What one step is to keep: the invariant, and the promise of LruCache.   *)
LruPromised == [LruPromise!Next]_<<LruEntries, lruLost, lruCall.op, LruDamaged>>

LruKeeps == LruInv' /\ LruPromised

(* A step that does no damage ...                                          *)
LruQuiet == LruInv /\ LruTypes' /\ lruAfter = 0 /\ lruAfter' = 0

LEMMA LruQuietStep ==
    ASSUME LruQuiet,
           \/ LruPromise!Touch \/ LruPromise!BeginInsert \/ LruPromise!Insert
           \/ LruPromise!BeginRemove \/ LruPromise!Remove \/ LruPromise!Killed
    PROVE  LruPromised
<1>1. LruDamaged' = LruDamaged
  BY DEF LruDamaged, LruQuiet
<1> QED BY <1>1 DEF LruPromise!Next, LruPromised

LEMMA LruQuietStutter ==
    ASSUME LruQuiet, LruEntries' = LruEntries, lruLost' = lruLost,
           lruCall'.op = lruCall.op
    PROVE  LruPromised
<1>1. LruDamaged' = LruDamaged
  BY DEF LruDamaged, LruQuiet
<1> QED BY <1>1 DEF LruPromised

(* ... and one that may.                                                   *)
LEMMA LruHarm ==
    ASSUME LruTypes', lruAfter' > 0, lruAfter > 0 \/ LruPromise!Damage
    PROVE  LruKeeps
<1>1. LruDamaged' = TRUE
  BY DEF LruDamaged
<1>2. LruInv'
  BY <1>1 DEF LruInv
<1>3. LruPromised
  BY <1>1 DEF LruPromised, LruPromise!Next, LruDamaged
<1> QED BY <1>2, <1>3 DEF LruKeeps

(* The invariant after a step, from the lists of the new table.            *)
LEMMA LruArrive ==
    ASSUME LruQuiet, NEW u, NEW f, NEW c,
           LruState(lruTab', lruCall', lruLost', u, f, c)
    PROVE  LruInv' /\ LruEntries' = LruEntriesOf(lruTab', u)
<1>1. LruHolds(lruTab', lruCall', lruLost')
  BY LruHoldsIf
<1>2. LruShape(lruTab', u, f, c)
  BY DEF LruState
<1>3. LruUsedOf(lruTab') = u
  BY <1>2, LruShapeReads DEF LruReads
<1>4. LruInv'
  BY <1>1 DEF LruInv, LruQuiet
<1>5. LruEntries' = LruEntriesOf(lruTab', u)
  BY <1>3 DEF LruEntries, LruUsed, LruEntriesOf, LruEntryAt
<1> QED BY <1>4, <1>5

(* The lists of the table before a step.                                   *)
LEMMA LruDepart ==
    ASSUME LruInv, lruAfter = 0
    PROVE  \E u, f, c : /\ LruState(lruTab, lruCall, lruLost, u, f, c)
                        /\ LruEntries = LruEntriesOf(lruTab, u)
                        /\ Len(LruEntries) = Len(u) /\ DOMAIN LruEntries = DOMAIN u
                        /\ LruEntries \in Seq(LruEntryValues)
<1>1. PICK u, f, c : LruState(lruTab, lruCall, lruLost, u, f, c)
  BY DEF LruInv, LruHolds, LruDamaged
<1>2. LruShape(lruTab, u, f, c) /\ lruTab \in LruTables /\ u \in Seq(LruNode)
  BY <1>1 DEF LruState, LruShape, LruUsedShape
<1>3. LruEntries = LruEntriesOf(lruTab, u)
  BY <1>2, LruEntriesRead
<1>4. LruEntries \in Seq(LruEntryValues) /\ Len(LruEntries) = Len(u)
  BY <1>2, <1>3, LruEntriesType
<1>5. DOMAIN LruEntries = DOMAIN u
  BY <1>2, <1>4
<1> QED BY <1>1, <1>3, <1>4, <1>5

(* What the counter says about the lists.                                  *)
LEMMA LruCounts ==
    ASSUME NEW t, NEW call, NEW lost \in Nat, NEW u, NEW f, NEW c,
           LruState(t, call, lost, u, f, c)
    PROVE  /\ t.item = LruMax - Len(f)
           /\ LruHeldBy(call) => t.item = Len(u) + lost + 1
           /\ ~ LruHeldBy(call) => t.item = Len(u) + lost
           /\ Len(u) \in Nat /\ Len(f) \in Nat /\ LruMax \in Nat
           /\ t.free = -1 <=> Len(f) = 0
           /\ t.tail = -1 <=> Len(u) = 0
<1>1. /\ LruShape(t, u, f, c)
      /\ t.item = Len(u) + lost + (IF LruHeldBy(call) THEN 1 ELSE 0)
  BY DEF LruState
<1>2. /\ t.item = LruMax - Len(f) /\ u \in Seq(LruNode) /\ f \in Seq(LruNode)
      /\ t.free = LruNth(f, 1) /\ t.tail = LruNth(u, Len(u))
  BY <1>1 DEF LruShape, LruFreeShape, LruUsedShape
<1>3. Len(u) \in Nat /\ Len(f) \in Nat
  BY <1>2
<1>4. t.free = -1 <=> Len(f) = 0
  BY <1>2, LruNodeNumbers DEF LruNth
<1>5. t.tail = -1 <=> Len(u) = 0
  BY <1>2, LruNodeNumbers DEF LruNth
<1>6. CASE LruHeldBy(call)
  <2>1. t.item = Len(u) + lost + 1
    BY <1>1, <1>6
  <2> QED BY <1>2, <1>3, <1>4, <1>5, <1>6, <2>1, LruNodeNumbers
<1>7. CASE ~ LruHeldBy(call)
  <2>1. t.item = Len(u) + lost + 0
    BY <1>1, <1>7
  <2>2. t.item = Len(u) + lost
    BY <1>3, <2>1
  <2> QED BY <1>2, <1>3, <1>4, <1>5, <1>7, <2>2, LruNodeNumbers
<1> QED BY <1>6, <1>7

(* A search.                                                               *)
LEMMA LruSearchKeeps ==
    ASSUME LruQuiet, NEW v \in LruValues, lruCall = LruIdle,
           lruTab' = LruFind(lruTab, v), UNCHANGED <<lruCall, lruLost>>
    PROVE  LruKeeps
<1>1. PICK u, f, c : /\ LruState(lruTab, lruCall, lruLost, u, f, c)
                     /\ LruEntries = LruEntriesOf(lruTab, u)
                     /\ DOMAIN LruEntries = DOMAIN u
  BY LruDepart DEF LruQuiet
<1>3. PICK i : i = LruFindNode(lruTab, v)
  OBVIOUS
<1>4. LruShape(lruTab, u, f, c) /\ lruTab \in LruTables /\ u \in Seq(LruNode)
  BY <1>1 DEF LruState, LruShape, LruUsedShape
<1>5. CASE i = -1
  <2>1. lruTab' = lruTab
    BY <1>3, <1>5 DEF LruFind
  <2>2. LruState(lruTab', lruCall', lruLost', u, f, c)
    BY <1>1, <2>1
  <2>3. LruInv' /\ LruEntries' = LruEntriesOf(lruTab', u)
    BY <2>2, LruArrive
  <2> QED BY <1>1, <2>1, <2>3, LruQuietStutter DEF LruKeeps
<1>6. CASE i # -1
  <2>1. PICK p \in DOMAIN u : LruFinds(lruTab, lruTab', v, i, p, u, f, c)
    BY <1>3, <1>4, <1>6, LruFindFacts
  <2> DEFINE w == LeftOut(u, p)
             x == InFront(w, i)
  <2>2. /\ u[p] = i /\ LruShape(lruTab', x, f, c) /\ Len(x) = Len(u)
        /\ LruSameContents(lruTab, lruTab')
    BY <2>1 DEF LruFinds
  <2>3. lruTab' \in LruTables /\ lruTab'.item = LruMax - Len(f)
        /\ lruTab.item = LruMax - Len(f)
    BY <1>4, <2>2 DEF LruShape, LruFreeShape
  <2>4. LruState(lruTab', lruCall', lruLost', x, f, c)
    <3> HIDE DEF x
    <3> QED BY <1>1, <2>2, <2>3 DEF LruState
  <2>5. LruInv' /\ LruEntries' = LruEntriesOf(lruTab', x)
    <3> HIDE DEF x
    <3> QED BY <2>4, LruArrive
  <2>6. i \in LruNode /\ \A k \in LruMembers(u) : k \in LruNode
    BY <1>4, <2>2, LruMembersNodes
  <2>7. LruSameEntries(lruTab, lruTab', u)
    BY <2>2, <2>6 DEF LruSameEntries, LruSameContents
  <2>8. w \in Seq(LruNode)
    BY <1>4, LeftOutElements
  <2>9. LruEntriesOf(lruTab', x)
          = InFront(LruEntriesOf(lruTab', w), LruEntryAt(lruTab', i))
    <3>1. LruSameEntries(lruTab', lruTab', w)
      BY DEF LruSameEntries
    <3> HIDE DEF w
    <3> QED BY <2>3, <2>6, <2>8, <3>1, LruEntriesInFront
  <2>10. LruEntriesOf(lruTab', w) = LeftOut(LruEntries, p)
    BY <1>1, <1>4, <2>3, <2>7, LruEntriesLeftOut
  <2>11. LruEntryAt(lruTab', i) = LruEntries[p]
    <3>1. LruEntriesOf(lruTab, u)[p] = LruEntryAt(lruTab, u[p])
      BY DEF LruEntriesOf
    <3>2. LruEntryAt(lruTab', i) = LruEntryAt(lruTab, i)
      BY <2>2, <2>6 DEF LruEntryAt, LruSameContents
    <3> QED BY <1>1, <2>2, <3>1, <3>2
  <2>12. LruEntries' = InFront(LeftOut(LruEntries, p), LruEntries[p])
    BY <2>5, <2>9, <2>10, <2>11
  <2>13. LruPromise!Touch
    <3>1. p \in DOMAIN LruEntries /\ lruCall.op = "none" /\ lruCall'.op = lruCall.op
          /\ lruLost' = lruLost
      BY <1>1, LruIdleCall
    <3> QED BY <2>12, <3>1 DEF LruPromise!Touch, LruPromise!Without, InFront, LeftOut
  <2> QED BY <2>5, <2>13, LruQuietStep DEF LruKeeps
<1> QED BY <1>5, <1>6

(* The first half of a removal.                                            *)
LEMMA LruBeginRemoveKeeps ==
    ASSUME LruQuiet, lruCall = LruIdle, NEW i \in LruMembers(LruUsed),
           lruTab' = LruRemoveNode(lruTab, i, lruTab.node[i].code),
           lruCall'.op \in {"remove", "erase"}, lruCall'.step = "free",
           lruCall'.node = i, UNCHANGED lruLost
    PROVE  LruKeeps
<1>1. PICK u, f, c : /\ LruState(lruTab, lruCall, lruLost, u, f, c)
                     /\ LruEntries = LruEntriesOf(lruTab, u)
                     /\ DOMAIN LruEntries = DOMAIN u
  BY LruDepart DEF LruQuiet
<1>2. /\ LruShape(lruTab, u, f, c) /\ lruTab \in LruTables /\ u \in Seq(LruNode)
      /\ c \in [LruHeads -> Seq(LruNode)]
  BY <1>1 DEF LruState, LruShape, LruUsedShape
<1>3. LruUsed = u
  BY <1>2, LruShapeReads DEF LruReads, LruUsed
<1>4. PICK p \in DOMAIN u : u[p] = i
  BY <1>3 DEF LruMembers
<1>5. PICK code : code = lruTab.node[i].code
  OBVIOUS
<1>6. i \in LruNode /\ \A k \in LruMembers(u) : k \in LruNode
  BY <1>2, <1>3, LruMembersNodes
<1>7. code \in LruCodes
  BY <1>2, <1>5, <1>6 DEF LruTables, LruNodes
<1>8. PICK b : b = LruBucket(code)
  OBVIOUS
<1>9. b \in LruHeads
  BY <1>7, <1>8, LruBucketOf
<1>10. lruTab' = LruRemoveNode(lruTab, i, code)
  BY <1>5
<1> DEFINE w == LeftOut(u, p)
<1>11. /\ \E q \in DOMAIN c[b] :
            LruShape(lruTab', w, f, [c EXCEPT ![b] = LeftOut(c[b], q)])
       /\ lruTab.node[i].valid
       /\ Len(w) = Len(u) - 1
       /\ i \notin LruMembers(w)
       /\ LruSameContents(lruTab, lruTab')
  <2>1. LruRemoves(lruTab, lruTab', u, f, c, p, i, b)
    BY <1>2, <1>4, <1>5, <1>8, <1>9, <1>10, LruRemoveShape
  <2> QED BY <2>1 DEF LruRemoves
<1>12. PICK q \in DOMAIN c[b] :
         LruShape(lruTab', w, f, [c EXCEPT ![b] = LeftOut(c[b], q)])
  BY <1>11
<1>13. PICK d : d = [c EXCEPT ![b] = LeftOut(c[b], q)]
  OBVIOUS
<1>14. d \in [LruHeads -> Seq(LruNode)]
  <2>1. c[b] \in Seq(LruNode)
    BY <1>2, <1>9
  <2>2. LeftOut(c[b], q) \in Seq(LruNode)
    BY <2>1, LeftOutElements
  <2> QED BY <1>2, <1>13, <2>2
<1>15. lruTab' \in LruTables /\ lruTab'.item = lruTab.item
  BY <1>2, <1>12 DEF LruShape, LruFreeShape
<1>16. LruHeldBy(lruCall') /\ ~ LruHeldBy(lruCall) /\ lruCall.op = "none"
  BY LruIdleCall DEF LruHeldBy
<1>18. LruState(lruTab', lruCall', lruLost', w, f, d)
  <2>1. lruTab'.item = Len(w) + lruLost' + 1
    <3>1. lruTab.item = Len(u) + lruLost /\ lruLost \in Nat
      BY <1>1, <1>16 DEF LruState, LruQuiet, LruInv, LruTypes
    <3>2. Len(u) \in Nat
      BY <1>2
    <3> HIDE DEF w
    <3> QED BY <1>11, <1>15, <3>1, <3>2
  <2>2. LruUnderWay(lruTab', w, lruCall')
    BY <1>6, <1>11 DEF LruUnderWay, LruHasNode, LruSameContents
  <2>3. LruShape(lruTab', w, f, d)
    BY <1>12, <1>13
  <2> HIDE DEF w
  <2> QED BY <1>14, <1>16, <2>1, <2>2, <2>3 DEF LruState
<1>19. LruInv' /\ LruEntries' = LruEntriesOf(lruTab', w)
  <2> HIDE DEF w
  <2> QED BY <1>18, LruArrive
<1>20. LruEntries' = LeftOut(LruEntries, p)
  <2>1. LruSameEntries(lruTab, lruTab', u)
    BY <1>6, <1>11 DEF LruSameEntries, LruSameContents
  <2> QED BY <1>1, <1>2, <1>15, <1>19, <2>1, LruEntriesLeftOut
<1>21. LruPromise!BeginRemove
  <2>1. p \in DOMAIN LruEntries /\ lruLost' = lruLost
    BY <1>1
  <2> QED BY <1>16, <1>20, <2>1 DEF LruPromise!BeginRemove, LruPromise!Without, LeftOut
<1> QED BY <1>19, <1>21, LruQuietStep DEF LruKeeps

(* sht_insert_multi takes a free node ...                                  *)
LEMMA LruTakeFreeKeeps ==
    ASSUME LruQuiet, lruCall = LruIdle, NEW v \in LruValues, NEW copy \in BOOLEAN,
           lruTab.free # -1, LruInsertMulti(lruTab, v, copy),
           UNCHANGED lruLost
    PROVE  LruKeeps
<1>1. PICK u, f, c : /\ LruState(lruTab, lruCall, lruLost, u, f, c)
                     /\ LruEntries = LruEntriesOf(lruTab, u)
                     /\ Len(LruEntries) = Len(u)
  BY LruDepart DEF LruQuiet
<1>2. /\ LruShape(lruTab, u, f, c) /\ lruTab \in LruTables
      /\ c \in [LruHeads -> Seq(LruNode)] /\ f \in Seq(LruNode)
  BY <1>1 DEF LruState, LruShape, LruFreeShape
<1>3. PICK i : i = lruTab.free
  OBVIOUS
<1>4. /\ lruTab' = LruAllocNode(lruTab)
      /\ lruCall' = [op |-> "insert", step |-> "link", node |-> i, val |-> v,
                     copy |-> copy, at |-> 0]
  BY <1>3 DEF LruInsertMulti
<1> DEFINE g == LeftOut(f, 1)
<1>5. /\ LruShape(lruTab', u, g, c)
      /\ i \in LruNode /\ lruTab'.node[i].valid /\ i \notin LruMembers(u)
      /\ Len(g) = Len(f) - 1
      /\ \A k \in LruMembers(u) : lruTab'.node[k].code = lruTab.node[k].code
                               /\ lruTab'.node[k].val = lruTab.node[k].val
  <2>1. LruTakes(lruTab, lruTab', u, f, c, i)
    BY <1>2, <1>3, <1>4, LruAllocShape
  <2> QED BY <2>1 DEF LruTakes
<1> HIDE DEF g
<1>6. lruLost \in Nat /\ lruLost' = lruLost
  BY DEF LruQuiet, LruInv, LruTypes
<1>7. /\ lruTab.item = LruMax - Len(f) /\ lruTab.item = Len(u) + lruLost
      /\ Len(u) \in Nat /\ Len(f) \in Nat /\ LruMax \in Nat /\ Len(f) # 0
  <2>1. ~ LruHeldBy(lruCall)
    BY LruIdleCall DEF LruHeldBy
  <2> QED BY <1>1, <1>6, <2>1, LruCounts
<1>8. lruTab'.item = LruMax - Len(g) /\ lruTab' \in LruTables
  BY <1>5 DEF LruShape, LruFreeShape
<1>9. /\ lruCall'.op = "insert" /\ lruCall'.step = "link" /\ lruCall'.node = i
      /\ LruHeldBy(lruCall')
  BY <1>4 DEF LruHeldBy
<1>10. LruState(lruTab', lruCall', lruLost', u, g, c)
  <2>1. lruTab'.item = Len(u) + lruLost' + 1
    BY <1>5, <1>6, <1>7, <1>8
  <2>2. LruUnderWay(lruTab', u, lruCall')
    BY <1>5, <1>9 DEF LruUnderWay, LruHasNode
  <2> QED BY <1>2, <1>5, <1>9, <2>1, <2>2 DEF LruState
<1>11. LruInv' /\ LruEntries' = LruEntriesOf(lruTab', u)
  BY <1>10, LruArrive
<1>12. LruEntries' = LruEntries
  <2>1. LruSameEntries(lruTab, lruTab', u)
    BY <1>5 DEF LruSameEntries
  <2> QED BY <1>1, <1>11, <2>1, LruEntriesKept
<1>13. LruPromise!BeginInsert
  <2>1. lruCall.op = "none" /\ lruCall'.op = "insert"
    BY <1>9, LruIdleCall
  <2>2. ~ (Len(LruEntries) + lruLost = LruMax)
    BY <1>1, <1>6, <1>7
  <2> QED BY <1>6, <1>12, <2>1, <2>2 DEF LruPromise!BeginInsert, LruPromise!Full
<1> QED BY <1>11, <1>13, LruQuietStep DEF LruKeeps

(* ... or, if there is none, the one used longest ago ...                  *)
LEMMA LruEvictKeeps ==
    ASSUME LruQuiet, lruCall = LruIdle, NEW v \in LruValues, NEW copy \in BOOLEAN,
           lruTab.free = -1, lruTab.tail # -1, LruInsertMulti(lruTab, v, copy),
           UNCHANGED lruLost
    PROVE  LruKeeps
<1>1. PICK u, f, c : /\ LruState(lruTab, lruCall, lruLost, u, f, c)
                     /\ LruEntries = LruEntriesOf(lruTab, u)
                     /\ Len(LruEntries) = Len(u)
                     /\ LruEntries \in Seq(LruEntryValues)
  BY LruDepart DEF LruQuiet
<1>2. /\ LruShape(lruTab, u, f, c) /\ lruTab \in LruTables
      /\ c \in [LruHeads -> Seq(LruNode)] /\ u \in Seq(LruNode)
      /\ lruTab.tail = LruNth(u, Len(u))
  BY <1>1 DEF LruState, LruShape, LruUsedShape
<1>3. PICK i : i = lruTab.tail
  OBVIOUS
<1>4. PICK p : p = Len(u)
  OBVIOUS
<1>5. p \in DOMAIN u /\ u[p] = i /\ u # <<>> /\ p \in Nat
  BY <1>2, <1>3, <1>4 DEF LruNth
<1>6. PICK code : code = lruTab.node[i].code
  OBVIOUS
<1>7. /\ lruTab' = LruRemoveNode(lruTab, i, code)
      /\ lruCall' = [op |-> "insert", step |-> "evict", node |-> i, val |-> v,
                     copy |-> copy, at |-> 0]
  BY <1>3, <1>6 DEF LruInsertMulti
<1>8. i \in LruNode /\ \A k \in LruMembers(u) : k \in LruNode
  BY <1>2, <1>5, LruMembersNodes
<1>9. code \in LruCodes
  BY <1>2, <1>6, <1>8 DEF LruTables, LruNodes
<1>10. PICK b : b = LruBucket(code)
  OBVIOUS
<1>11. b \in LruHeads
  BY <1>9, <1>10, LruBucketOf
<1> DEFINE w == LeftOut(u, p)
<1>12. /\ \E q \in DOMAIN c[b] :
            LruShape(lruTab', w, f, [c EXCEPT ![b] = LeftOut(c[b], q)])
       /\ lruTab.node[i].valid
       /\ Len(w) = Len(u) - 1
       /\ i \notin LruMembers(w)
       /\ LruSameContents(lruTab, lruTab')
  <2>1. LruRemoves(lruTab, lruTab', u, f, c, p, i, b)
    BY <1>2, <1>5, <1>6, <1>7, <1>10, <1>11, LruRemoveShape
  <2> QED BY <2>1 DEF LruRemoves
<1>13. PICK q \in DOMAIN c[b] :
         LruShape(lruTab', w, f, [c EXCEPT ![b] = LeftOut(c[b], q)])
  BY <1>12
<1>14. PICK d : d = [c EXCEPT ![b] = LeftOut(c[b], q)]
  OBVIOUS
<1>15. d \in [LruHeads -> Seq(LruNode)]
  <2>1. c[b] \in Seq(LruNode)
    BY <1>2, <1>11
  <2>2. LeftOut(c[b], q) \in Seq(LruNode)
    BY <2>1, LeftOutElements
  <2> QED BY <1>2, <1>14, <2>2
<1>16. lruTab' \in LruTables /\ lruTab'.item = lruTab.item
  BY <1>2, <1>13 DEF LruShape, LruFreeShape
<1>17. /\ lruCall'.op = "insert" /\ lruCall'.step = "evict" /\ lruCall'.node = i
       /\ LruHeldBy(lruCall')
  BY <1>7 DEF LruHeldBy
<1>18. lruLost \in Nat /\ lruLost' = lruLost
  BY DEF LruQuiet, LruInv, LruTypes
<1>19. /\ lruTab.item = LruMax - Len(f) /\ lruTab.item = Len(u) + lruLost
       /\ Len(u) \in Nat /\ Len(f) \in Nat /\ LruMax \in Nat /\ Len(f) = 0
  <2>1. ~ LruHeldBy(lruCall)
    BY LruIdleCall DEF LruHeldBy
  <2> QED BY <1>1, <1>18, <2>1, LruCounts
<1>20. LruState(lruTab', lruCall', lruLost', w, f, d)
  <2>1. lruTab'.item = Len(w) + lruLost' + 1
    <3> HIDE DEF w
    <3> QED BY <1>12, <1>16, <1>18, <1>19
  <2>2. LruUnderWay(lruTab', w, lruCall')
    BY <1>8, <1>12, <1>17 DEF LruUnderWay, LruHasNode, LruSameContents
  <2>3. LruShape(lruTab', w, f, d)
    BY <1>13, <1>14
  <2> HIDE DEF w
  <2> QED BY <1>15, <1>17, <2>1, <2>2, <2>3 DEF LruState
<1>21. LruInv' /\ LruEntries' = LruEntriesOf(lruTab', w)
  <2> HIDE DEF w
  <2> QED BY <1>20, LruArrive
<1>22. LruEntries' = SubSeq(LruEntries, 1, Len(LruEntries) - 1)
  <2>1. LruSameEntries(lruTab, lruTab', u)
    BY <1>8, <1>12 DEF LruSameEntries, LruSameContents
  <2>2. LruEntries' = LeftOut(LruEntries, p)
    BY <1>1, <1>2, <1>5, <1>16, <1>21, <2>1, LruEntriesLeftOut
  <2>3. LruEntries # <<>> /\ p = Len(LruEntries)
    BY <1>1, <1>4, <1>5
  <2> QED BY <1>1, <2>2, <2>3, LastLeftOut
<1>23. LruPromise!BeginInsert
  <2>1. lruCall.op = "none" /\ lruCall'.op = "insert"
    BY <1>17, LruIdleCall
  <2>2. Len(LruEntries) + lruLost = LruMax
    BY <1>1, <1>18, <1>19
  <2> QED BY <1>18, <1>22, <2>1, <2>2 DEF LruPromise!BeginInsert, LruPromise!Full
<1> QED BY <1>21, <1>23, LruQuietStep DEF LruKeeps

(* ... and has nothing to take if every node is lost.                      *)
LEMMA LruStutterKeeps ==
    ASSUME LruQuiet, UNCHANGED <<lruTab, lruCall, lruLost>>
    PROVE  LruKeeps
<1>1. LruInv'
  BY DEF LruInv, LruQuiet, LruDamaged
<1>2. LruEntries' = LruEntries
  BY DEF LruEntries, LruUsed
<1> QED BY <1>1, <1>2, LruQuietStutter DEF LruKeeps

(* sht_insert_multi.                                                       *)
LEMMA LruInsertMultiKeeps ==
    ASSUME LruQuiet, lruCall = LruIdle, NEW v \in LruValues, NEW copy \in BOOLEAN,
           LruInsertMulti(lruTab, v, copy), UNCHANGED lruLost
    PROVE  LruKeeps
<1>1. CASE lruTab.free # -1
  BY <1>1, LruTakeFreeKeeps
<1>2. CASE lruTab.free = -1 /\ lruTab.tail # -1
  BY <1>2, LruEvictKeeps
<1>3. CASE lruTab.free = -1 /\ lruTab.tail = -1
  <2>1. UNCHANGED <<lruTab, lruCall, lruLost>>
    BY <1>3 DEF LruInsertMulti
  <2> QED BY <2>1, LruStutterKeeps
<1> QED BY <1>1, <1>2, <1>3

(* A call that holds a node.                                               *)
LEMMA LruHolding ==
    ASSUME LruQuiet, LruHeldBy(lruCall)
    PROVE  \E u, f, c :
             /\ LruState(lruTab, lruCall, lruLost, u, f, c)
             /\ LruEntries = LruEntriesOf(lruTab, u)
             /\ Len(LruEntries) = Len(u)
             /\ LruHasNode(lruTab, u, lruCall)
             /\ lruTab.item = LruMax - Len(f) /\ lruTab.item = Len(u) + lruLost + 1
             /\ Len(u) \in Nat /\ Len(f) \in Nat /\ LruMax \in Nat /\ lruLost \in Nat
             /\ LruShape(lruTab, u, f, c) /\ lruTab \in LruTables
             /\ c \in [LruHeads -> Seq(LruNode)]
             /\ f \in Seq(LruNode) /\ u \in Seq(LruNode)
<1>1. PICK u, f, c : /\ LruState(lruTab, lruCall, lruLost, u, f, c)
                     /\ LruEntries = LruEntriesOf(lruTab, u)
                     /\ Len(LruEntries) = Len(u)
  BY LruDepart DEF LruQuiet
<1>2. lruCall # LruIdle /\ lruLost \in Nat
  BY LruIdleCall DEF LruQuiet, LruInv, LruTypes, LruHeldBy
<1>3. LruHasNode(lruTab, u, lruCall)
  BY <1>1, <1>2 DEF LruState, LruUnderWay, LruHeldBy
<1>4. /\ LruShape(lruTab, u, f, c) /\ lruTab \in LruTables
      /\ c \in [LruHeads -> Seq(LruNode)]
      /\ f \in Seq(LruNode) /\ u \in Seq(LruNode)
  BY <1>1 DEF LruState, LruShape, LruFreeShape, LruUsedShape
<1>5. /\ lruTab.item = LruMax - Len(f) /\ lruTab.item = Len(u) + lruLost + 1
      /\ Len(u) \in Nat /\ Len(f) \in Nat /\ LruMax \in Nat
  BY <1>1, <1>2, LruCounts
<1> QED BY <1>1, <1>2, <1>3, <1>4, <1>5

(* sht_free_node_i: a removal is over, an eviction is to allocate a node,  *)
(* and erase looks for more.                                               *)
LEMMA LruFreedKeeps ==
    ASSUME LruQuiet, LruFreed
    PROVE  LruKeeps
<1>1. lruCall.step \in {"free", "evict"} /\ lruLost' = lruLost /\ LruHeldBy(lruCall)
  BY DEF LruFreed, LruHeldBy
<1>2. PICK u, f, c :
             /\ LruState(lruTab, lruCall, lruLost, u, f, c)
             /\ LruEntries = LruEntriesOf(lruTab, u)
             /\ Len(LruEntries) = Len(u)
             /\ LruHasNode(lruTab, u, lruCall)
             /\ lruTab.item = LruMax - Len(f) /\ lruTab.item = Len(u) + lruLost + 1
             /\ Len(u) \in Nat /\ Len(f) \in Nat /\ LruMax \in Nat /\ lruLost \in Nat
             /\ LruShape(lruTab, u, f, c) /\ lruTab \in LruTables
             /\ c \in [LruHeads -> Seq(LruNode)]
             /\ f \in Seq(LruNode) /\ u \in Seq(LruNode)
  BY <1>1, LruHolding
<1>3. /\ lruTab.item = LruMax - Len(f) /\ lruTab.item = Len(u) + lruLost + 1
      /\ Len(u) \in Nat /\ Len(f) \in Nat /\ LruMax \in Nat /\ lruLost \in Nat
  BY <1>2
<1>4. PICK i : i = lruCall.node
  OBVIOUS
<1>5. i \in LruNode /\ lruTab.node[i].valid /\ i \notin LruMembers(u)
  BY <1>2, <1>4 DEF LruHasNode
<1>6. lruTab' = LruFreeNode(lruTab, i)
  BY <1>4 DEF LruFreed
<1> DEFINE g == InFront(f, i)
<1>7. /\ LruShape(lruTab', u, g, c) /\ Len(g) = Len(f) + 1 /\ lruTab'.free = i
      /\ \A k \in LruMembers(u) : lruTab'.node[k].code = lruTab.node[k].code
                               /\ lruTab'.node[k].val = lruTab.node[k].val
  BY <1>2, <1>5, <1>6, LruFreedShape
<1> HIDE DEF g
<1>8. lruTab'.free # -1
  BY <1>5, <1>7, LruNodeNumbers
<1>9. lruTab'.item = Len(u) + lruLost' + 0
  <2>1. lruTab'.item = LruMax - Len(g)
    BY <1>7 DEF LruShape, LruFreeShape
  <2>2. Len(g) = Len(f) + 1
    BY <1>7
  <2> QED BY <1>1, <1>3, <2>1, <2>2
<1>10. lruCall \in LruCalls
  BY DEF LruQuiet, LruInv, LruTypes, LruTyped
<1>11. ASSUME ~ LruHeldBy(lruCall'),
              lruCall' = LruIdle \/ LruUnderWay(lruTab', u, lruCall')
       PROVE  LruInv' /\ LruEntries' = LruEntries
  <2>1. LruState(lruTab', lruCall', lruLost', u, g, c)
    BY <1>2, <1>7, <1>9, <1>11 DEF LruState
  <2>2. LruInv' /\ LruEntries' = LruEntriesOf(lruTab', u)
    BY <2>1, LruArrive
  <2>3. LruSameEntries(lruTab, lruTab', u)
    BY <1>7 DEF LruSameEntries
  <2>4. LruEntries' = LruEntries
    BY <1>2, <2>2, <2>3, LruEntriesKept
  <2> QED BY <2>2, <2>4
<1>12. CASE lruCall.op = "remove"
  <2>1. lruCall' = LruIdle /\ ~ LruHeldBy(lruCall') /\ lruCall'.op = "none"
    BY <1>12, LruIdleCall DEF LruFreed, LruHeldBy
  <2>2. LruInv' /\ LruEntries' = LruEntries
    BY <1>11, <2>1
  <2>3. LruPromise!Remove
    BY <1>1, <1>12, <2>1, <2>2 DEF LruPromise!Remove
  <2> QED BY <2>2, <2>3, LruQuietStep DEF LruKeeps
<1>13. CASE lruCall.op = "insert"
  <2>1. lruCall' = [lruCall EXCEPT !.step = "alloc"]
    BY <1>13 DEF LruFreed
  <2>2. lruCall'.op = "insert" /\ lruCall'.step = "alloc" /\ ~ LruHeldBy(lruCall')
    BY <1>10, <1>13, <2>1 DEF LruCalls, LruHeldBy
  <2>3. LruUnderWay(lruTab', u, lruCall')
    BY <1>8, <2>2 DEF LruUnderWay
  <2>4. LruInv' /\ LruEntries' = LruEntries
    BY <1>11, <2>2, <2>3
  <2> QED BY <1>1, <1>13, <2>2, <2>4, LruQuietStutter DEF LruKeeps
<1>14. CASE lruCall.op = "erase"
  <2>1. lruCall' = [lruCall EXCEPT !.step = "scan"]
    BY <1>14 DEF LruFreed
  <2>2. /\ lruCall'.op = "erase" /\ lruCall'.step = "scan" /\ ~ LruHeldBy(lruCall')
        /\ lruCall'.node = i
    BY <1>4, <1>10, <1>14, <2>1 DEF LruCalls, LruHeldBy
  <2>3. LruUnderWay(lruTab', u, lruCall')
    BY <1>7, <1>8, <2>2 DEF LruUnderWay
  <2>4. LruInv' /\ LruEntries' = LruEntries
    BY <1>11, <2>2, <2>3
  <2> QED BY <1>1, <1>14, <2>2, <2>4, LruQuietStutter DEF LruKeeps
<1>15. lruCall.op \in {"remove", "insert", "erase"}
  BY <1>2 DEF LruHasNode
<1> QED BY <1>12, <1>13, <1>14, <1>15

(* sht_alloc_node_i, after an eviction.                                    *)
LEMMA LruAllocKeeps ==
    ASSUME LruQuiet, LruAlloc
    PROVE  LruKeeps
<1>1. lruCall.step = "alloc" /\ lruLost' = lruLost /\ ~ LruHeldBy(lruCall)
  BY DEF LruAlloc, LruHeldBy
<1>2. PICK u, f, c : /\ LruState(lruTab, lruCall, lruLost, u, f, c)
                     /\ LruEntries = LruEntriesOf(lruTab, u)
  BY LruDepart DEF LruQuiet
<1>3. lruCall # LruIdle
  BY <1>1, LruIdleCall
<1>4. lruCall.op = "insert" /\ lruTab.free # -1
  BY <1>1, <1>2, <1>3 DEF LruState, LruUnderWay, LruHasNode
<1>5. /\ LruShape(lruTab, u, f, c) /\ lruTab \in LruTables
      /\ c \in [LruHeads -> Seq(LruNode)] /\ f \in Seq(LruNode)
  BY <1>2 DEF LruState, LruShape, LruFreeShape
<1>6. PICK i : i = lruTab.free
  OBVIOUS
<1>7. /\ lruTab' = LruAllocNode(lruTab)
      /\ lruCall' = [lruCall EXCEPT !.step = "link", !.node = i]
  BY <1>6 DEF LruAlloc
<1> DEFINE g == LeftOut(f, 1)
<1>8. /\ LruShape(lruTab', u, g, c)
      /\ i \in LruNode /\ lruTab'.node[i].valid /\ i \notin LruMembers(u)
      /\ Len(g) = Len(f) - 1
      /\ \A k \in LruMembers(u) : lruTab'.node[k].code = lruTab.node[k].code
                               /\ lruTab'.node[k].val = lruTab.node[k].val
  <2>1. LruTakes(lruTab, lruTab', u, f, c, i)
    BY <1>4, <1>5, <1>6, <1>7, LruAllocShape
  <2> QED BY <2>1 DEF LruTakes
<1> HIDE DEF g
<1>9. lruLost \in Nat /\ lruCall \in LruCalls
  BY DEF LruQuiet, LruInv, LruTypes, LruTyped
<1>10. /\ lruTab.item = LruMax - Len(f) /\ lruTab.item = Len(u) + lruLost
       /\ Len(u) \in Nat /\ Len(f) \in Nat /\ LruMax \in Nat
  BY <1>1, <1>2, <1>9, LruCounts
<1>11. lruTab'.item = LruMax - Len(g) /\ lruTab' \in LruTables
  BY <1>8 DEF LruShape, LruFreeShape
<1>12. /\ lruCall'.op = "insert" /\ lruCall'.step = "link" /\ lruCall'.node = i
       /\ LruHeldBy(lruCall')
  BY <1>4, <1>7, <1>9 DEF LruCalls, LruHeldBy
<1>13. LruState(lruTab', lruCall', lruLost', u, g, c)
  <2>1. lruTab'.item = Len(u) + lruLost' + 1
    <3>1. Len(g) = Len(f) - 1
      BY <1>8
    <3> QED BY <1>1, <1>10, <1>9, <1>11, <3>1
  <2>2. LruUnderWay(lruTab', u, lruCall')
    BY <1>8, <1>12 DEF LruUnderWay, LruHasNode
  <2> QED BY <1>5, <1>8, <1>12, <2>1, <2>2 DEF LruState
<1>14. LruInv' /\ LruEntries' = LruEntriesOf(lruTab', u)
  BY <1>13, LruArrive
<1>15. LruEntries' = LruEntries
  <2>1. LruSameEntries(lruTab, lruTab', u)
    BY <1>8 DEF LruSameEntries
  <2> QED BY <1>2, <1>14, <2>1, LruEntriesKept
<1> QED BY <1>1, <1>4, <1>12, <1>14, <1>15, LruQuietStutter DEF LruKeeps

(* erase goes on: it ends, or comes to a free node, which damages the      *)
(* table; nodes have been left in the bucket then.                         *)
LEMMA LruScanKeeps ==
    ASSUME LruInv, LruTypes', lruAfter = 0, LruScan
    PROVE  LruKeeps
<1>1. lruCall.step = "scan" /\ lruLost' = lruLost /\ ~ LruHeldBy(lruCall)
  BY DEF LruScan, LruHeldBy
<1>2. PICK u, f, c : /\ LruState(lruTab, lruCall, lruLost, u, f, c)
                     /\ LruEntries \in Seq(LruEntryValues)
                     /\ Len(LruEntries) = Len(u)
  BY LruDepart
<1>3. lruCall # LruIdle
  BY <1>1, LruIdleCall
<1>4. lruCall.op = "erase" /\ lruTab.free # -1 /\ lruTab.free = lruCall.node
  BY <1>1, <1>2, <1>3 DEF LruState, LruUnderWay, LruHasNode
<1>5. CASE lruCall' = LruIdle
  <2>1. lruAfter' = 0
    BY <1>5 DEF LruScan, LruDamaged
  <2>2. LruQuiet
    BY <2>1 DEF LruQuiet
  <2>3. lruTab' = lruTab
    <3>1. lruTab' = lruTab \/ lruCall'.op = "erase"
      BY DEF LruScan, LruEraseFrom
    <3> QED BY <1>5, <3>1, LruIdleCall
  <2>4. LruState(lruTab', lruCall', lruLost', u, f, c)
    <3>1. ~ LruHeldBy(lruCall')
      BY <1>5, LruIdleCall DEF LruHeldBy
    <3> QED BY <1>1, <1>2, <1>5, <2>3, <3>1 DEF LruState
  <2>5. LruInv'
    BY <2>2, <2>4, LruArrive
  <2>6. LruEntries' = LruEntries
    BY <2>3 DEF LruEntries, LruUsed
  <2>7. LruPromise!Remove
    BY <1>1, <1>4, <1>5, <2>6, LruIdleCall DEF LruPromise!Remove
  <2> QED BY <2>2, <2>5, <2>7, LruQuietStep DEF LruKeeps
<1>6. CASE lruCall' # LruIdle
  <2>1. lruAfter' > 0
    BY <1>6 DEF LruScan, LruDamaged
  <2>2. /\ LruShape(lruTab, u, f, c) /\ lruTab \in LruTables
        /\ u \in Seq(LruNode) /\ f \in Seq(LruNode)
        /\ lruTab.free = LruNth(f, 1) /\ LruDll(lruTab.node, "next", "prev", f)
    BY <1>2 DEF LruState, LruShape, LruUsedShape, LruFreeShape
  <2>3. PICK v, from, n, b : /\ v = lruCall.val /\ n = lruCall.at
                             /\ from = lruTab.node[lruCall.node].next
                             /\ b = LruBucket(LruKey(lruCall.val))
    OBVIOUS
  <2>4. lruCall \in LruCalls /\ lruLost \in Nat
    BY DEF LruInv, LruTypes, LruTyped
  <2>5. v \in LruValues /\ n \in Nat /\ b \in LruHeads
    BY <2>3, <2>4, LruKeyCode DEF LruCalls
  <2>6. 1 \in DOMAIN f /\ f[1] = lruCall.node /\ f[1] \in LruNode
    BY <1>4, <2>2 DEF LruNth
  <2>7. from = LruNth(f, 2)
    <3>1. lruTab.node[f[1]]["next"] = LruNth(f, 1 + 1)
      BY <2>2, <2>6 DEF LruDll
    <3> QED BY <2>3, <2>6, <3>1
  <2>8. from \in LruIndex
    BY <2>2, <2>3, <2>6 DEF LruTables, LruNodes
  <2>9. LruChainFrom(lruTab, b, from, n) # <<>>
    <3>1. SUFFICES ASSUME LruChainFrom(lruTab, b, from, n) = <<>> PROVE FALSE
      OBVIOUS
    <3>2. LruEraseFrom(v, from, n)
      BY <2>3 DEF LruScan
    <3> DEFINE wanted == {j \in LruNode : lruTab.node[j].code = LruKey(v)}
    <3>3. LruPlace(<<>>, wanted) = 0
      BY DEF LruPlace
    <3> HIDE DEF wanted
    <3>4. LruPlace(LruChainFrom(lruTab, LruBucket(LruKey(v)), from, n), wanted) = 0
      BY <2>3, <3>1, <3>3
    <3>5. lruCall' = LruIdle
      BY <3>2, <3>4 DEF LruEraseFrom, wanted
    <3> QED BY <1>6, <3>5
  <2>10. from # -1 /\ lruTab.bucket[b].count > n
    BY <2>2, <2>5, <2>8, <2>9, LruChainFromType
  <2>11. Len(f) \in Nat /\ Len(f) >= 2
    BY <2>2, <2>7, <2>10 DEF LruNth
  <2>12. u # <<>>
    <3>1. LruBucketShape(lruTab, b, c[b])
      BY <2>2, <2>5 DEF LruShape
    <3>2. PICK s : s = c[b]
      OBVIOUS
    <3>3. s \in Seq(LruNode) /\ Len(s) = lruTab.bucket[b].count
      BY <3>1, <3>2 DEF LruBucketShape
    <3>4. Len(s) > n
      BY <2>10, <3>3
    <3>5. Len(s) > 0
      BY <2>5, <3>3, <3>4
    <3>6. s[1] \in LruMembers(s) /\ s[1] \in LruNode
      BY <3>3, <3>5, LruMembersNodes
    <3>7. s[1] \in LruMembers(u)
      BY <2>2, <2>5, <3>2, <3>6 DEF LruShape, LruPlaced
    <3> QED BY <3>7 DEF LruMembers
  <2>13. /\ lruTab.item = LruMax - Len(f) /\ lruTab.item = Len(u) + lruLost
         /\ Len(u) \in Nat /\ LruMax \in Nat
    BY <1>1, <1>2, <2>4, LruCounts
  <2>14. LruPromise!Damage
    <3>1. Len(LruEntries) + lruLost + 1 < LruMax
      BY <1>2, <2>4, <2>11, <2>13
    <3>2. LruEntries # <<>>
      <4>1. Len(u) # 0
        BY <2>2, <2>12
      <4> QED BY <1>2, <4>1
    <3> QED BY <1>4, <3>1, <3>2 DEF LruPromise!Damage
  <2> QED BY <2>1, <2>14, LruHarm
<1> QED BY <1>5, <1>6

(* The contents of a node are copied into it.                              *)
LEMMA LruCopyShape ==
    ASSUME NEW t, NEW u, NEW f, NEW c, LruShape(t, u, f, c), NEW i \in LruNode,
           NEW v \in LruValues, NEW t2, t2 = [t EXCEPT !.node[i].val = v]
    PROVE  /\ LruShape(t2, u, f, c) /\ t2.item = t.item
           /\ \A k \in LruNode : /\ t2.node[k].code = t.node[k].code
                                 /\ k # i => t2.node[k].val = t.node[k].val
<1>1. t \in LruTables /\ t.node \in [LruNode -> LruNodes] /\ t.node[i] \in LruNodes
  BY DEF LruShape, LruTables
<1>2. PICK n : n = [t.node[i] EXCEPT !.val = v]
  OBVIOUS
<1>3. /\ n \in LruNodes /\ n.code = t.node[i].code /\ n.valid = t.node[i].valid
      /\ n.next = t.node[i].next /\ n.prev = t.node[i].prev
      /\ n.lruNext = t.node[i].lruNext /\ n.lruPrev = t.node[i].lruPrev
  BY <1>1, <1>2 DEF LruNodes
<1>4. t2 = [t EXCEPT !.node = [t.node EXCEPT ![i] = n]]
  BY <1>1, <1>2 DEF LruTables
<1>5. /\ t2.free = t.free /\ t2.head = t.head /\ t2.tail = t.tail /\ t2.item = t.item
      /\ t2.bucket = t.bucket /\ t2.node = [t.node EXCEPT ![i] = n]
      /\ t2 \in LruTables
  BY <1>1, <1>3, <1>4 DEF LruTables
<1>6. t2.node[i] = n /\ \A k \in LruNode : k # i => t2.node[k] = t.node[k]
  BY <1>1, <1>5
<1>7. \A k \in LruNode :
        /\ t2.node[k].code = t.node[k].code /\ t2.node[k].valid = t.node[k].valid
        /\ t2.node[k].next = t.node[k].next /\ t2.node[k].prev = t.node[k].prev
        /\ t2.node[k].lruNext = t.node[k].lruNext
        /\ t2.node[k].lruPrev = t.node[k].lruPrev
        /\ k # i => t2.node[k].val = t.node[k].val
  BY <1>3, <1>6
<1>8. LruUsedShape(t2, u)
  <2>1. LruUsedShape(t, u)
    BY DEF LruShape
  <2>2. \A k \in LruMembers(u) : /\ t2.node[k].lruNext = t.node[k].lruNext
                                /\ t2.node[k].lruPrev = t.node[k].lruPrev
    BY <1>7, <2>1, LruMembersNodes DEF LruUsedShape
  <2>3. LruDll(t2.node, "lruNext", "lruPrev", u)
    BY <2>1, <2>2, LruSameChain DEF LruUsedShape
  <2> QED BY <1>5, <2>1, <2>3 DEF LruUsedShape
<1>9. LruFreeShape(t2, f)
  <2>1. LruFreeShape(t, f)
    BY DEF LruShape
  <2>2. \A k \in LruMembers(f) : /\ t2.node[k].next = t.node[k].next
                                /\ t2.node[k].prev = t.node[k].prev
    BY <1>7, <2>1, LruMembersNodes DEF LruFreeShape
  <2>3. LruDll(t2.node, "next", "prev", f)
    BY <2>1, <2>2, LruSameChain DEF LruFreeShape
  <2> QED BY <1>5, <2>1, <2>3 DEF LruFreeShape
<1>10. ASSUME NEW b \in LruHeads PROVE LruBucketShape(t2, b, c[b])
  <2>1. LruBucketShape(t, b, c[b])
    BY DEF LruShape
  <2>2. \A k \in LruMembers(c[b]) : /\ t2.node[k].next = t.node[k].next
                                   /\ t2.node[k].prev = t.node[k].prev
    BY <1>7, <2>1, LruMembersNodes DEF LruBucketShape
  <2>3. LruDll(t2.node, "next", "prev", c[b])
    BY <2>1, <2>2, LruSameChain DEF LruBucketShape
  <2> QED BY <1>5, <2>1, <2>3 DEF LruBucketShape
<1>11. LruPlaced(t2, u, f, c)
  BY <1>7 DEF LruShape, LruPlaced
<1>12. LruShape(t2, u, f, c)
  BY <1>5, <1>8, <1>9, <1>10, <1>11 DEF LruShape
<1> QED BY <1>5, <1>7, <1>12

(* sht_insert_i.                                                           *)
LEMMA LruLinkedKeeps ==
    ASSUME LruQuiet, LruLinked
    PROVE  LruKeeps
<1>1. /\ lruCall.step = "link" /\ lruLost' = lruLost /\ LruHeldBy(lruCall)
      /\ lruCall' = LruIdle
  BY DEF LruLinked, LruHeldBy
<1>2. PICK u, f, c :
             /\ LruState(lruTab, lruCall, lruLost, u, f, c)
             /\ LruEntries = LruEntriesOf(lruTab, u)
             /\ Len(LruEntries) = Len(u)
             /\ LruHasNode(lruTab, u, lruCall)
             /\ lruTab.item = LruMax - Len(f) /\ lruTab.item = Len(u) + lruLost + 1
             /\ Len(u) \in Nat /\ Len(f) \in Nat /\ LruMax \in Nat /\ lruLost \in Nat
             /\ LruShape(lruTab, u, f, c) /\ lruTab \in LruTables
             /\ c \in [LruHeads -> Seq(LruNode)]
             /\ f \in Seq(LruNode) /\ u \in Seq(LruNode)
  BY <1>1, LruHolding
<1>3. /\ lruTab.item = LruMax - Len(f) /\ lruTab.item = Len(u) + lruLost + 1
      /\ Len(u) \in Nat /\ Len(f) \in Nat /\ LruMax \in Nat /\ lruLost \in Nat
  BY <1>2
<1>4. PICK i, v, code : i = lruCall.node /\ v = lruCall.val /\ code = LruKey(v)
  OBVIOUS
<1>5. /\ i \in LruNode /\ lruTab.node[i].valid /\ i \notin LruMembers(u)
      /\ lruCall.op = "insert"
  BY <1>1, <1>2, <1>4 DEF LruHasNode
<1>6. v \in LruValues
  BY <1>4 DEF LruQuiet, LruInv, LruTypes, LruTyped, LruCalls
<1>7. code \in LruCodes
  BY <1>4, <1>6, LruKeyCode
<1>8. PICK b : b = LruBucket(code)
  OBVIOUS
<1>9. b \in LruHeads
  BY <1>7, <1>8, LruBucketOf
<1>10. PICK m : m = LruInsertNode(lruTab, i, code)
  OBVIOUS
<1>11. PICK d : d = [c EXCEPT ![b] = InFront(c[b], i)]
  OBVIOUS
<1> DEFINE x == InFront(u, i)
<1>12. /\ LruShape(m, x, f, d) /\ Len(x) = Len(u) + 1 /\ m.node[i].code = code
       /\ \A k \in LruNode : m.node[k].val = lruTab.node[k].val
       /\ \A k \in LruMembers(u) : m.node[k].code = lruTab.node[k].code
  <2>1. LruInserts(lruTab, m, u, f, c, i, code, b)
    BY <1>2, <1>5, <1>7, <1>8, <1>9, <1>10, LruInsertShape
  <2> QED BY <1>11, <2>1 DEF LruInserts
<1>13. d \in [LruHeads -> Seq(LruNode)]
  <2>1. c[b] \in Seq(LruNode)
    BY <1>2, <1>9
  <2>2. InFront(c[b], i) \in Seq(LruNode)
    BY <1>5, <2>1, InFrontElements
  <2> QED BY <1>2, <1>11, <2>2
<1>14. /\ LruShape(lruTab', x, f, d)
       /\ \A k \in LruMembers(u) : lruTab'.node[k].code = lruTab.node[k].code
                                /\ lruTab'.node[k].val = lruTab.node[k].val
  <2>1. \A k \in LruMembers(u) : k \in LruNode /\ k # i
    BY <1>2, <1>5, LruMembersNodes
  <2>2. CASE lruCall.copy
    <3>1. lruTab' = [m EXCEPT !.node[i].val = v]
      BY <1>4, <1>10, <2>2 DEF LruLinked
    <3>2. /\ LruShape(lruTab', x, f, d)
          /\ \A k \in LruNode : /\ lruTab'.node[k].code = m.node[k].code
                                /\ k # i => lruTab'.node[k].val = m.node[k].val
      <4> HIDE DEF x
      <4> QED BY <1>5, <1>6, <1>12, <3>1, LruCopyShape
    <3> QED BY <1>12, <2>1, <3>2
  <2>3. CASE ~ lruCall.copy
    <3>1. lruTab' = m
      BY <1>4, <1>10, <2>3 DEF LruLinked
    <3> QED BY <1>12, <2>1, <3>1
  <2> QED BY <2>2, <2>3
<1>15. lruTab'.item = LruMax - Len(f) /\ lruTab' \in LruTables
  BY <1>14 DEF LruShape, LruFreeShape
<1>16. LruState(lruTab', lruCall', lruLost', x, f, d)
  <2> HIDE DEF x
  <2>1. lruTab'.item = Len(x) + lruLost + 0
    <3>1. Len(x) = Len(u) + 1
      BY <1>12
    <3>2. lruTab'.item = LruMax - Len(f)
      BY <1>15
    <3> QED BY <1>3, <3>1, <3>2
  <2>2. ~ LruHeldBy(lruCall')
    BY <1>1, LruIdleCall DEF LruHeldBy
  <2> QED BY <1>1, <1>13, <1>14, <2>1, <2>2 DEF LruState
<1>17. LruInv' /\ LruEntries' = LruEntriesOf(lruTab', x)
  <2> HIDE DEF x
  <2> QED BY <1>16, LruArrive
<1>18. PICK e : e = LruEntryAt(lruTab', i)
  OBVIOUS
<1>19. LruEntries' = InFront(LruEntries, e) /\ e \in LruEntryValues
  <2>1. LruSameEntries(lruTab, lruTab', u)
    BY <1>14 DEF LruSameEntries
  <2>2. /\ LruEntriesOf(lruTab', x) = InFront(LruEntriesOf(lruTab, u), e)
        /\ e \in LruEntryValues
    BY <1>2, <1>5, <1>15, <1>18, <2>1, LruEntriesInFront
  <2> QED BY <1>2, <1>17, <2>2
<1>20. LruPromise!Insert
  <2>1. lruCall'.op = "none"
    BY <1>1, LruIdleCall
  <2>2. ~ (Len(LruEntries) + lruLost = LruMax)
    BY <1>2
  <2> QED BY <1>1, <1>5, <1>19, <2>1, <2>2
      DEF LruPromise!Insert, LruPromise!Full, InFront, LruEntryValues
<1> QED BY <1>17, <1>20, LruQuietStep DEF LruKeeps

(* What a killed process held is lost.  The table has no more nodes in use *)
(* than it has room for, and is not made anew.                             *)
LEMMA LruKilledKeeps ==
    ASSUME LruQuiet, LruKilled
    PROVE  LruKeeps
<1>1. PICK u, f, c : /\ LruState(lruTab, lruCall, lruLost, u, f, c)
                     /\ LruEntries = LruEntriesOf(lruTab, u)
  BY LruDepart DEF LruQuiet
<1>2. lruLost \in Nat /\ lruCall \in LruCalls
  BY DEF LruQuiet, LruInv, LruTypes, LruTyped
<1>3. /\ lruTab.item = LruMax - Len(f) /\ Len(f) \in Nat /\ LruMax \in Nat
      /\ LruHeldBy(lruCall) => lruTab.item = Len(u) + lruLost + 1
      /\ ~ LruHeldBy(lruCall) => lruTab.item = Len(u) + lruLost
      /\ Len(u) \in Nat
  BY <1>1, <1>2, LruCounts
<1>4. ~ (lruTab.item > LruMax)
  BY <1>3
<1>5. /\ lruCall # LruIdle /\ lruCall' = LruIdle /\ lruTab' = lruTab
      /\ lruLost' = IF LruHeldBy(lruCall) THEN lruLost + 1 ELSE lruLost
  BY <1>4 DEF LruKilled, LruHeld, LruHeldBy
<1>6. LruState(lruTab', lruCall', lruLost', u, f, c)
  <2>1. lruTab'.item = Len(u) + lruLost' + 0
    BY <1>2, <1>3, <1>5
  <2>2. ~ LruHeldBy(lruCall')
    BY <1>5, LruIdleCall DEF LruHeldBy
  <2> QED BY <1>1, <1>5, <2>1, <2>2 DEF LruState
<1>7. LruInv'
  BY <1>6, LruArrive
<1>8. LruEntries' = LruEntries
  BY <1>5 DEF LruEntries, LruUsed
<1>9. LruPromise!Killed
  <2>1. lruCall.op # "none"
    BY <1>1, <1>2, <1>5, LruDoing
  <2>2. lruCall'.op = "none" /\ lruLost' \in {lruLost, lruLost + 1}
    BY <1>5, LruIdleCall
  <2> QED BY <1>8, <2>1, <2>2 DEF LruPromise!Killed
<1> QED BY <1>7, <1>9, LruQuietStep DEF LruKeeps

-----------------------------------------------------------------------------
(* The theorems. A new table has its shape.                                *)
LEMMA LruInitInv == LruInit => LruInv
<1> SUFFICES ASSUME LruInit PROVE LruInv
  OBVIOUS
<1> DEFINE f == [k \in 1 .. LruMax |-> k - 1]
           c == [b \in LruHeads |-> <<>>]
<1>1. PICK t : t = LruEmpty
  OBVIOUS
<1>2. /\ t.free = 0 /\ t.head = -1 /\ t.tail = -1 /\ t.item = 0
      /\ \A b \in LruHeads : t.bucket[b] = [count |-> 0, head |-> 0]
      /\ t \in LruTables
      /\ \A i \in LruNode :
           /\ t.node[i].next = (IF i + 1 < LruMax THEN i + 1 ELSE -1)
           /\ t.node[i].prev = i - 1 /\ t.node[i].valid = FALSE
  <2>1. PICK n : n = [next |-> 0, prev |-> 0, lruNext |-> 0, lruPrev |-> 0, code |-> 0,
                      valid |-> FALSE, val |-> LruZero]
    OBVIOUS
  <2>2. PICK nd, h : nd = [i \in LruNode |-> n]
                     /\ h = [b \in LruHeads |-> [count |-> 0, head |-> 0]]
    OBVIOUS
  <2>3. 0 \in LruIndex /\ 0 \in LruCodes
    BY LruNodeNumbers DEF LruIndex, LruCodes
  <2>4. n \in LruNodes
    BY <2>1, <2>3, LruZeroValue DEF LruNodes
  <2>5. nd \in [LruNode -> LruNodes] /\ h \in [LruHeads -> [count : Int, head : LruIndex]]
    BY <2>2, <2>3, <2>4
  <2>6. t = LruMakeTable(nd, h)
    BY <1>1, <2>1, <2>2 DEF LruEmpty, LruHeads
  <2>7. LruMade(t, h)
    BY <2>5, <2>6, LruMakeType
  <2> HIDE DEF f, c
  <2> QED BY <2>2, <2>7 DEF LruMade
<1>3. \A i \in LruNode :
           /\ t.node[i].next = (IF i + 1 < LruMax THEN i + 1 ELSE -1)
           /\ t.node[i].prev = i - 1 /\ t.node[i].valid = FALSE
  BY <1>2
<1>4. t \in LruTables
  BY <1>2
<1>5. /\ f \in Seq(LruNode) /\ Len(f) = LruMax /\ DOMAIN f = 1 .. LruMax
      /\ \A k \in 1 .. LruMax : f[k] = k - 1
  <2>1. f \in [1 .. LruMax -> LruNode]
    BY LruNodeNumbers
  <2> QED BY <2>1, LruNodeNumbers
<1> HIDE DEF f
<1>6. LruDistinct(f)
  BY <1>5, LruNodeNumbers DEF LruDistinct
<1>7. LruMembers(f) = LruNode
  <2>1. ASSUME NEW i \in LruNode PROVE i \in LruMembers(f)
    <3>1. i + 1 \in 1 .. LruMax /\ (i + 1) - 1 = i
      BY LruNodeNumbers
    <3>2. f[i + 1] = i
      BY <1>5, <3>1
    <3> QED BY <1>5, <3>1, <3>2 DEF LruMembers
  <2> QED BY <1>5, <2>1, LruMembersNodes
<1>8. LruDll(t.node, "next", "prev", f)
  <2>1. ASSUME NEW k \in DOMAIN f
        PROVE  /\ t.node[f[k]]["next"] = LruNth(f, k + 1)
               /\ t.node[f[k]]["prev"] = LruNth(f, k - 1)
    <3>1. f[k] = k - 1 /\ k - 1 \in LruNode /\ k \in 1 .. LruMax
      BY <1>5, LruNodeNumbers
    <3>2. /\ t.node[k - 1]["next"] = (IF (k - 1) + 1 < LruMax THEN (k - 1) + 1 ELSE -1)
          /\ t.node[k - 1]["prev"] = (k - 1) - 1
      BY <1>3, <3>1
    <3>3. LruNth(f, k + 1) = IF (k - 1) + 1 < LruMax THEN (k - 1) + 1 ELSE -1
      BY <1>5, <3>1, LruNodeNumbers DEF LruNth
    <3>4. LruNth(f, k - 1) = (k - 1) - 1
      BY <1>5, <3>1, LruNodeNumbers DEF LruNth
    <3> QED BY <3>1, <3>2, <3>3, <3>4
  <2> QED BY <2>1 DEF LruDll
<1>9. LruFreeShape(t, f)
  <2>1. LruNth(f, 1) = 0
    BY <1>5, LruNodeNumbers DEF LruNth
  <2>2. t.item = LruMax - Len(f)
    BY <1>2, <1>5, LruNodeNumbers
  <2> QED BY <1>2, <1>5, <1>6, <1>8, <2>1, <2>2 DEF LruFreeShape
<1>10. LruMembers(<<>>) = {} /\ <<>> \in Seq(LruNode) /\ Len(<<>>) = 0
  BY DEF LruMembers
<1>11. LruUsedShape(t, <<>>)
  BY <1>2 DEF LruUsedShape, LruDistinct, LruDll, LruNth
<1>12. ASSUME NEW b \in LruHeads PROVE LruBucketShape(t, b, c[b])
  BY <1>2 DEF LruBucketShape, LruDistinct, LruDll, LruNth
<1>13. LruPlaced(t, <<>>, f, c)
  BY <1>2, <1>3, <1>7, <1>10 DEF LruPlaced
<1>14. c \in [LruHeads -> Seq(LruNode)]
  BY <1>10
<1> HIDE DEF c
<1>15. LruState(t, LruIdle, 0, <<>>, f, c)
  <2>1. t.item = Len(<<>>) + 0 + 0
    BY <1>2, <1>10
  <2>2. ~ LruHeldBy(LruIdle)
    BY LruIdleCall DEF LruHeldBy
  <2> QED BY <1>4, <1>9, <1>11, <1>12, <1>13, <1>14, <2>1, <2>2 DEF LruState, LruShape
<1>16. LruHolds(t, LruIdle, 0)
  BY <1>15, LruHoldsIf
<1>17. 0 \in 0 .. LruMaxLost /\ 0 \in 0 .. LruMaxAfter + 1
  BY LruHashTableAssumption
<1>18. LruTypes
  BY <1>1, <1>4, <1>17, LruIdleCall DEF LruInit, LruTypes, LruTyped
<1> QED BY <1>1, <1>16, <1>18 DEF LruInit, LruInv

(* It is an empty cache.                                                   *)
LEMMA LruInitPromise == LruInit => LruPromise!Init
<1> SUFFICES ASSUME LruInit PROVE LruPromise!Init
  OBVIOUS
<1>1. LruInv /\ lruAfter = 0 /\ LruDamaged = FALSE
  BY LruInitInv DEF LruInit, LruDamaged
<1>2. PICK u, f, c : /\ LruState(lruTab, lruCall, lruLost, u, f, c)
                     /\ LruEntries \in Seq(LruEntryValues)
                     /\ Len(LruEntries) = Len(u)
  BY <1>1, LruDepart
<1>3. lruTab.item = 0 /\ lruLost = 0 /\ lruCall = LruIdle
  BY DEF LruInit, LruEmpty, LruMakeTable
<1>4. 0 \in Nat /\ ~ LruHeldBy(lruCall)
  BY <1>3, LruIdleCall DEF LruHeldBy
<1>5. lruTab.item = Len(u) + 0 /\ Len(u) \in Nat
  BY <1>2, <1>3, <1>4, LruCounts
<1>6. LruEntries = <<>>
  BY <1>2, <1>3, <1>5
<1> QED BY <1>1, <1>3, <1>6, LruIdleCall DEF LruPromise!Init

(* Every step keeps the invariant, and is one of LruCache or changes       *)
(* nothing that LruCache knows of.                                         *)
LEMMA LruInsertUniqueKeeps ==
    ASSUME LruQuiet, NEW v \in LruValues, LruInsertUnique(v)
    PROVE  LruKeeps
<1>1. lruCall = LruIdle /\ UNCHANGED lruLost
  BY DEF LruInsertUnique, LruBegin
<1>2. CASE LruFindNode(lruTab, v) # -1
  <2>1. lruTab' = LruFind(lruTab, v) /\ UNCHANGED <<lruCall, lruLost>>
    BY <1>1, <1>2 DEF LruInsertUnique
  <2> QED BY <1>1, <2>1, LruSearchKeeps
<1>3. CASE LruFindNode(lruTab, v) = -1
  <2>1. LruInsertMulti(lruTab, v, TRUE)
    BY <1>3 DEF LruInsertUnique
  <2> QED BY <1>1, <2>1, LruInsertMultiKeeps
<1> QED BY <1>2, <1>3

(* What remove and erase ask of the call.                                  *)
LEMMA LruBeginRemoveCall ==
    ASSUME NEW i, NEW code, LruBeginRemove(i, code)
    PROVE  /\ lruTab' = LruRemoveNode(lruTab, i, code)
           /\ lruCall'.op = "remove" /\ lruCall'.step = "free" /\ lruCall'.node = i
BY DEF LruBeginRemove, LruIdle

(* remove.                                                                 *)
LEMMA LruRemoveKeeps ==
    ASSUME LruQuiet, NEW v \in LruValues, LruRemove(v)
    PROVE  LruKeeps
<1>1. PICK u, f, c : LruState(lruTab, lruCall, lruLost, u, f, c)
  BY LruDepart DEF LruQuiet
<1>2. LruShape(lruTab, u, f, c)
  BY <1>1 DEF LruState
<1>3. PICK i : i = LruFindNode(lruTab, v)
  OBVIOUS
<1>4. /\ lruCall = LruIdle /\ i # -1 /\ LruBeginRemove(i, LruKey(v))
      /\ UNCHANGED lruLost
  BY <1>3 DEF LruRemove, LruBegin
<1>5. \E p \in DOMAIN u : LruFinds(lruTab, LruFind(lruTab, v), v, i, p, u, f, c)
  BY <1>2, <1>3, <1>4, LruFindFacts
<1>6. i \in LruMembers(u) /\ lruTab.node[i].code = LruKey(v)
  BY <1>5 DEF LruFinds, LruMembers
<1>7. LruUsed = u
  BY <1>2, LruShapeReads DEF LruReads, LruUsed
<1>8. /\ lruTab' = LruRemoveNode(lruTab, i, lruTab.node[i].code)
      /\ lruCall'.op = "remove" /\ lruCall'.step = "free" /\ lruCall'.node = i
  BY <1>4, <1>6, LruBeginRemoveCall
<1> QED BY <1>4, <1>6, <1>7, <1>8, LruBeginRemoveKeeps

(* erase, by key and by iterator.                                          *)
LEMMA LruEraseKeeps ==
    ASSUME LruQuiet, NEW v \in LruValues, LruErase(v)
    PROVE  LruKeeps
<1>1. PICK u, f, c : LruState(lruTab, lruCall, lruLost, u, f, c)
  BY LruDepart DEF LruQuiet
<1>2. LruShape(lruTab, u, f, c)
  BY <1>1 DEF LruState
<1>3. LruUsed = u
  BY <1>2, LruShapeReads DEF LruReads, LruUsed
<1> DEFINE wanted == {j \in LruNode : lruTab.node[j].code = LruKey(v)}
<1>4. PICK b, h, rest, k :
        /\ b = LruBucket(LruKey(v)) /\ h = lruTab.bucket[LruBucket(LruKey(v))].head
        /\ rest = LruChain(lruTab, LruBucket(LruKey(v)))
        /\ k = LruPlace(LruChain(lruTab, LruBucket(LruKey(v))), wanted)
  OBVIOUS
<1>5. b \in LruHeads
  BY <1>4, LruKeyCode
<1>6. rest = c[b] /\ rest \in Seq(LruNode)
  <2>1. LruChain(lruTab, b) = c[b]
    BY <1>2, <1>5, LruShapeReads DEF LruReads
  <2>2. c[b] \in Seq(LruNode)
    BY <1>2, <1>5 DEF LruShape, LruBucketShape
  <2> QED BY <1>4, <2>1, <2>2
<1>7. lruCall = LruIdle /\ UNCHANGED lruLost /\ LruEraseFrom(v, h, 0)
  BY <1>4 DEF LruErase, LruBegin
<1>8. rest = LruChainFrom(lruTab, LruBucket(LruKey(v)), h, 0)
  BY <1>4 DEF LruChain
<1>9. /\ k = 0 => lruTab' = lruTab /\ lruCall' = LruIdle
      /\ k # 0 => /\ lruTab' = LruRemoveNode(lruTab, rest[k], LruKey(v))
                  /\ lruCall'.op = "erase" /\ lruCall'.step = "free"
                  /\ lruCall'.node = rest[k]
  <2>1. k = LruPlace(LruChainFrom(lruTab, LruBucket(LruKey(v)), h, 0), wanted)
    <3> HIDE DEF wanted
    <3> QED BY <1>4, <1>8
  <2> QED BY <1>7, <1>8, <2>1 DEF LruEraseFrom
<1>10. CASE k = 0
  <2>1. UNCHANGED <<lruTab, lruCall, lruLost>>
    BY <1>7, <1>9, <1>10
  <2> QED BY <2>1, LruStutterKeeps
<1>11. CASE k # 0
  <2>1. k \in DOMAIN rest /\ rest[k] \in wanted
    <3>1. wanted \in SUBSET LruNode
      OBVIOUS
    <3> HIDE DEF wanted
    <3> QED BY <1>4, <1>6, <1>11, <3>1, LruPlaceFound
  <2>2. PICK i : i = rest[k]
    OBVIOUS
  <2>3. i \in LruNode /\ lruTab.node[i].code = LruKey(v)
    BY <2>1, <2>2
  <2> HIDE DEF wanted
  <2>4. i \in LruMembers(c[b])
    BY <1>6, <2>1, <2>2 DEF LruMembers
  <2>5. i \in LruMembers(u)
    BY <1>2, <1>5, <2>3, <2>4 DEF LruShape, LruPlaced
  <2>6. /\ lruTab' = LruRemoveNode(lruTab, i, lruTab.node[i].code)
        /\ lruCall'.op = "erase" /\ lruCall'.step = "free" /\ lruCall'.node = i
    BY <1>9, <1>11, <2>2, <2>3
  <2> QED BY <1>3, <1>7, <2>5, <2>6, LruBeginRemoveKeeps
<1> QED BY <1>10, <1>11

(* A valid node that is not in use is one lost with a killed process.      *)
LEMMA LruSomeLost ==
    ASSUME LruInv, lruAfter = 0, lruCall = LruIdle,
           NEW i \in LruNode, lruTab.node[i].valid, i \notin LruMembers(LruUsed)
    PROVE  lruLost > 0
<1>1. PICK u, f, c : LruState(lruTab, lruCall, lruLost, u, f, c)
  BY LruDepart
<1>2. /\ LruShape(lruTab, u, f, c) /\ u \in Seq(LruNode) /\ f \in Seq(LruNode)
      /\ LruDistinct(u) /\ LruDistinct(f)
  BY <1>1 DEF LruState, LruShape, LruUsedShape, LruFreeShape
<1>3. LruUsed = u
  BY <1>2, LruShapeReads DEF LruReads, LruUsed
<1>4. i \notin LruMembers(u) /\ i \notin LruMembers(f)
  BY <1>2, <1>3 DEF LruShape, LruPlaced
<1>5. LruMembers(u) \subseteq LruNode /\ LruMembers(f) \subseteq LruNode
  BY <1>2, LruMembersNodes
<1>6. LruMembers(u) \cap LruMembers(f) = {}
  BY <1>2, <1>5 DEF LruShape, LruPlaced
<1>7. /\ IsFiniteSet(LruMembers(u)) /\ Cardinality(LruMembers(u)) = Len(u)
      /\ IsFiniteSet(LruMembers(f)) /\ Cardinality(LruMembers(f)) = Len(f)
  BY <1>2, DistinctCardinality
<1>8. PICK S : S = LruMembers(u) \cup LruMembers(f)
  OBVIOUS
<1>9. Cardinality(S) = Len(u) + Len(f)
  <2>1. Cardinality(S) = Cardinality(LruMembers(u)) + Cardinality(LruMembers(f))
    BY <1>6, <1>7, <1>8, DisjointCardinality
  <2> QED BY <1>7, <2>1
<1>10. S \subseteq LruNode \ {i}
  BY <1>4, <1>5, <1>8
<1>11. IsFiniteSet(LruNode \ {i}) /\ Cardinality(LruNode \ {i}) = LruMax - 1
  BY LruNodesFinite, FS_RemoveElement
<1>12. Cardinality(S) <= LruMax - 1
  BY <1>10, <1>11, FS_Subset
<1>13. lruLost \in Nat /\ ~ LruHeldBy(lruCall)
  BY LruIdleCall DEF LruInv, LruTypes, LruHeldBy
<1>14. /\ lruTab.item = LruMax - Len(f) /\ lruTab.item = Len(u) + lruLost
       /\ Len(u) \in Nat /\ Len(f) \in Nat /\ LruMax \in Nat
  BY <1>1, <1>13, LruCounts
<1> QED BY <1>9, <1>12, <1>13, <1>14

LEMMA LruEraseAtKeeps ==
    ASSUME LruInv, LruTypes', lruAfter = 0, NEW i \in LruNode, LruEraseAt(i)
    PROVE  LruKeeps
<1>1. lruCall = LruIdle /\ UNCHANGED lruLost
  BY DEF LruEraseAt, LruBegin
<1>2. CASE i \in LruMembers(LruUsed)
  <2>1. lruAfter' = 0
    BY <1>2 DEF LruEraseAt, LruBegin, LruDamaged
  <2>2. LruQuiet
    BY <2>1 DEF LruQuiet
  <2>3. /\ lruTab' = LruRemoveNode(lruTab, i, lruTab.node[i].code)
        /\ lruCall'.op = "remove" /\ lruCall'.step = "free" /\ lruCall'.node = i
    BY LruBeginRemoveCall DEF LruEraseAt
  <2> QED BY <1>1, <1>2, <2>2, <2>3, LruBeginRemoveKeeps
<1>3. CASE i \notin LruMembers(LruUsed)
  <2>1. lruAfter' > 0
    BY <1>3 DEF LruEraseAt, LruBegin
  <2>2. lruLost > 0
    BY <1>1, <1>3, LruSomeLost DEF LruEraseAt
  <2>3. LruPromise!Damage
    BY <1>1, <2>2, LruIdleCall DEF LruPromise!Damage
  <2> QED BY <2>1, <2>3, LruHarm
<1> QED BY <1>2, <1>3

(* Every step.                                                             *)
LEMMA LruStepKeeps ==
    ASSUME LruInv, [LruNext]_lruVars
    PROVE  LruKeeps
<1>1. LruTypes /\ LruTypes'
  BY LruTypesNext DEF LruInv
<1>2. CASE LruDamaged
  <2>1. lruAfter' > 0 /\ lruAfter > 0
    BY <1>1, <1>2, LruDamageStays DEF LruDamaged
  <2> QED BY <1>1, <2>1, LruHarm
<1>3. CASE ~ LruDamaged
  <2>1. lruAfter = 0
    BY <1>1, <1>3 DEF LruTypes, LruDamaged
  <2>2. ASSUME LruBegin(FALSE) PROVE LruQuiet
    BY <1>1, <1>3, <2>1, <2>2 DEF LruQuiet, LruBegin
  <2>3. ASSUME lruAfter' = lruAfter PROVE LruQuiet
    BY <1>1, <2>1, <2>3 DEF LruQuiet
  <2>4. ASSUME NEW v \in LruValues, LruInsertUnique(v) \/ LruFindOrInsert(v)
        PROVE  LruKeeps
    <3>1. LruInsertUnique(v) /\ LruQuiet
      BY <2>2, <2>4 DEF LruFindOrInsert, LruInsertUnique
    <3> QED BY <3>1, LruInsertUniqueKeeps
  <2>5. ASSUME NEW v \in LruValues, LruInsertEqual(v) PROVE LruKeeps
    <3>1. LruQuiet /\ lruCall = LruIdle /\ LruInsertMulti(lruTab, v, FALSE)
          /\ UNCHANGED lruLost
      BY <2>2, <2>5 DEF LruInsertEqual, LruBegin
    <3> QED BY <3>1, LruInsertMultiKeeps
  <2>6. ASSUME NEW v \in LruValues, LruSearch(v) PROVE LruKeeps
    <3>1. LruQuiet /\ lruCall = LruIdle /\ lruTab' = LruFind(lruTab, v)
          /\ UNCHANGED <<lruCall, lruLost>>
      BY <2>2, <2>6 DEF LruSearch, LruBegin
    <3> QED BY <3>1, LruSearchKeeps
  <2>7. ASSUME NEW v \in LruValues, LruRemove(v) PROVE LruKeeps
    BY <2>2, <2>7, LruRemoveKeeps DEF LruRemove
  <2>8. ASSUME NEW v \in LruValues, LruErase(v) PROVE LruKeeps
    BY <2>2, <2>8, LruEraseKeeps DEF LruErase
  <2>9. ASSUME NEW i \in LruNode, LruEraseAt(i) PROVE LruKeeps
    BY <1>1, <2>1, <2>9, LruEraseAtKeeps
  <2>10. CASE LruFreed
    BY <2>3, <2>10, LruFreedKeeps DEF LruFreed
  <2>11. CASE LruScan
    BY <1>1, <2>1, <2>11, LruScanKeeps
  <2>12. CASE LruAlloc
    BY <2>3, <2>12, LruAllocKeeps DEF LruAlloc
  <2>13. CASE LruLinked
    BY <2>3, <2>13, LruLinkedKeeps DEF LruLinked
  <2>14. CASE LruKilled
    BY <2>3, <2>14, LruKilledKeeps DEF LruKilled
  <2>15. CASE UNCHANGED lruVars
    <3>1. UNCHANGED <<lruTab, lruCall, lruLost>> /\ LruQuiet
      BY <2>3, <2>15 DEF lruVars
    <3> QED BY <3>1, LruStutterKeeps
  <2> QED BY <2>4, <2>5, <2>6, <2>7, <2>8, <2>9, <2>10, <2>11, <2>12, <2>13, <2>14,
             <2>15 DEF LruNext
<1> QED BY <1>2, <1>3

(* The shape of the table is invariant.                                    *)
LEMMA LruInvariant == LruSpec => []LruInv
<1>1. LruInit => LruInv
  BY LruInitInv
<1>2. LruInv /\ [LruNext]_lruVars => LruInv'
  BY LruStepKeeps DEF LruKeeps
<1> QED BY <1>1, <1>2, PTL DEF LruSpec

(* The table keeps the promise of LruCache: whatever the calls, and        *)
(* wherever a process is killed, an entry disappears only if it is         *)
(* removed, or is the one used longest ago of a full table, until one of   *)
(* the two erases damages the table; and that takes a node lost with a     *)
(* killed process, or an erase that leaves entries in its bucket while     *)
(* nodes are free (CLruHashTableEx.hpp:487-529, :1064-1107).               *)
THEOREM LruTableKeepsPromise == LruSpec => LruKeepsPromise
<1>1. LruInit => LruPromise!Init
  BY LruInitPromise
<1>2. LruInv /\ [LruNext]_lruVars
        => [LruPromise!Next]_<<LruEntries, lruLost, lruCall.op, LruDamaged>>
  BY LruStepKeeps DEF LruKeeps, LruPromised
<1> QED BY <1>1, <1>2, LruInvariant, PTL DEF LruSpec, LruKeepsPromise, LruPromise!Spec

(* The types are part of the invariant.                                    *)
LEMMA LruInvTypes == LruInv => LruTypeOK
<1> SUFFICES ASSUME LruInv PROVE LruTypeOK
  OBVIOUS
<1>1. lruTab \in LruTables /\ lruCall \in LruCalls
  BY DEF LruInv, LruTypes, LruTyped
<1>2. /\ {lruTab.free, lruTab.head, lruTab.tail} \subseteq LruIndex
      /\ lruTab.node \in [LruNode -> LruNodes] /\ lruTab.item \in Int
      /\ lruTab.bucket \in [LruHeads -> [count : Int, head : LruIndex]]
  BY <1>1 DEF LruTables
<1> QED BY <1>1, <1>2 DEF LruTypeOK, LruInv, LruTypes, LruCalls, LruHeads, LruNodes

(* A table of that shape is sound.                                         *)
LEMMA LruInvSound == LruInv => LruSound
<1> SUFFICES ASSUME LruInv, ~ LruDamaged PROVE LruSound
  BY DEF LruSound
<1>1. PICK u, f, c : LruState(lruTab, lruCall, lruLost, u, f, c)
  <2>1. lruAfter = 0
    BY DEF LruInv, LruTypes, LruDamaged
  <2> QED BY <2>1, LruDepart
<1>2. /\ LruShape(lruTab, u, f, c) /\ lruTab \in LruTables
      /\ f \in Seq(LruNode) /\ LruDistinct(f) /\ lruTab.item = LruMax - Len(f)
      /\ u \in Seq(LruNode) /\ LruDistinct(u)
      /\ \A b \in LruHeads : LruBucketShape(lruTab, b, c[b])
      /\ LruPlaced(lruTab, u, f, c)
  BY <1>1 DEF LruState, LruShape, LruFreeShape, LruUsedShape
<1>3. LruReads(lruTab, u, f, c)
  BY <1>2, LruShapeReads
<1>4. /\ LruUsed = u /\ LruFree = f
      /\ LruWalk(lruTab, lruTab.tail, "lruPrev", LruMax) = LruReversed(u)
      /\ \A b \in LruHeads : LruChain(lruTab, b) = c[b]
  BY <1>3 DEF LruReads, LruUsed, LruFree
<1>5. ASSUME NEW b \in LruHeads
      PROVE  /\ LruMembers(LruChain(lruTab, b)) =
                  {i \in LruMembers(LruUsed) : LruBucket(lruTab.node[i].code) = b}
             /\ Len(LruChain(lruTab, b)) = lruTab.bucket[b].count
  <2>1. LruBucketShape(lruTab, b, c[b]) /\ LruChain(lruTab, b) = c[b]
    BY <1>2, <1>4
  <2>2. \A i \in LruMembers(c[b]) : i \in LruNode
    BY <2>1, LruMembersNodes DEF LruBucketShape
  <2>3. \A i \in LruMembers(u) : i \in LruNode
    BY <1>2, LruMembersNodes
  <2>4. LruMembers(c[b]) = {i \in LruMembers(u) : LruBucket(lruTab.node[i].code) = b}
    BY <1>2, <2>2, <2>3 DEF LruPlaced
  <2> QED BY <1>4, <2>1, <2>4 DEF LruBucketShape
<1>6. /\ Len(LruReversed(u)) = Len(u)
      /\ \A k \in DOMAIN LruReversed(u) :
           LruReversed(u)[k] = u[Len(LruReversed(u)) + 1 - k]
  <2>1. /\ Len(u) \in Nat /\ DOMAIN u = 1 .. Len(u)
        /\ \A k \in 1 .. Len(u) : u[k] \in LruNode
    BY <1>2
  <2>2. PICK r : r = LruReversed(u)
    OBVIOUS
  <2>3. r = [k \in 1 .. Len(u) |-> u[Len(u) + 1 - k]]
    BY <2>2 DEF LruReversed
  <2>4. \A k \in 1 .. Len(u) : Len(u) + 1 - k \in 1 .. Len(u)
    BY <2>1
  <2>5. r \in [1 .. Len(u) -> LruNode]
    BY <2>1, <2>3, <2>4
  <2>6. Len(r) = Len(u) /\ DOMAIN r = 1 .. Len(u)
    BY <2>1, <2>5
  <2> QED BY <2>2, <2>3, <2>6
<1>7. /\ LruMembers(f) = {i \in LruNode : ~ lruTab.node[i].valid}
      /\ LruMembers(u) \cap LruMembers(f) = {}
  <2>1. /\ \A i \in LruMembers(f) : i \in LruNode
        /\ \A i \in LruMembers(u) : i \in LruNode
    BY <1>2, LruMembersNodes
  <2> QED BY <1>2, <2>1 DEF LruPlaced
<1>8. lruTab.item = LruMax - Cardinality(LruMembers(f))
  BY <1>2, DistinctCardinality
<1>9. lruTab.item = Cardinality(LruMembers(u))
                      + (IF LruHeld THEN lruLost + 1 ELSE lruLost)
  <2>1. lruLost \in Nat
    BY DEF LruInv, LruTypes
  <2>2. /\ LruHeldBy(lruCall) => lruTab.item = Len(u) + lruLost + 1
        /\ ~ LruHeldBy(lruCall) => lruTab.item = Len(u) + lruLost
        /\ Len(u) \in Nat
    BY <1>1, <2>1, LruCounts
  <2>3. Cardinality(LruMembers(u)) = Len(u)
    BY <1>2, DistinctCardinality
  <2>4. LruHeld <=> LruHeldBy(lruCall)
    BY DEF LruHeld, LruHeldBy
  <2>5. CASE LruHeld
    BY <2>1, <2>2, <2>3, <2>4, <2>5
  <2>6. CASE ~ LruHeld
    BY <2>1, <2>2, <2>3, <2>4, <2>6
  <2> QED BY <2>5, <2>6
<1>10. ASSUME NEW v \in LruValues, LruFindNode(lruTab, v) # -1
       PROVE  \E p \in DOMAIN u :
                /\ u[p] = LruFindNode(lruTab, v)
                /\ LruUsedOf(LruFind(lruTab, v)) =
                     <<LruFindNode(lruTab, v)>> \o (SubSeq(u, 1, p - 1)
                                                    \o SubSeq(u, p + 1, Len(u)))
  <2>1. PICK i : i = LruFindNode(lruTab, v)
    OBVIOUS
  <2>2. PICK p \in DOMAIN u : LruFinds(lruTab, LruFind(lruTab, v), v, i, p, u, f, c)
    BY <1>2, <1>10, <2>1, LruFindFacts
  <2>3. /\ u[p] = i
        /\ LruShape(LruFind(lruTab, v), InFront(LeftOut(u, p), i), f, c)
    BY <2>2 DEF LruFinds
  <2>4. LruUsedOf(LruFind(lruTab, v)) = InFront(LeftOut(u, p), i)
    BY <2>3, LruShapeReads DEF LruReads
  <2> QED BY <2>1, <2>3, <2>4 DEF InFront, LeftOut
<1>11. PICK r : r = LruReversed(u)
  OBVIOUS
<1>12. LruWalk(lruTab, lruTab.tail, "lruPrev", LruMax) = r
  BY <1>4, <1>11
<1>13. Len(r) = Len(u) /\ \A k \in DOMAIN r : r[k] = u[Len(r) + 1 - k]
  BY <1>6, <1>11
<1>14. 0 .. LruBuckets - 1 = LruHeads
  BY DEF LruHeads
<1> QED BY <1>4, <1>5, <1>7, <1>8, <1>9, <1>10, <1>12, <1>13, <1>14 DEF LruSound

(* Whatever the calls, and wherever a process is killed, every node of     *)
(* the table is where it should be, and each process killed while its call *)
(* holds a node, and no other, costs the table one, until one of the two   *)
(* erases damages the table (CLruHashTableEx.hpp:487-529, :749-848,        *)
(* :976-983, :1003-1032).                                                  *)
THEOREM LruTableSound == LruSpec => [](LruTypeOK /\ LruSound)
BY LruInvariant, LruInvTypes, LruInvSound, PTL
=============================================================================
