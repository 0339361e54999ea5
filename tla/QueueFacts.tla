----------------------------- MODULE QueueFacts -----------------------------
(***************************************************************************)
(* Facts about queues and counts that the proofs about several components  *)
(* need: what the elements of a queue are after one has been added or      *)
(* taken, and how often a value is in it.                                  *)
(***************************************************************************)
EXTENDS Naturals, Sequences, FiniteSets, FiniteSetTheorems, FunctionTheorems,
        WellFoundedInduction, TLAPS

(* What the end of a queue looks like after an element has been added.     *)
LEMMA AppendElements ==
    ASSUME NEW S, NEW s \in Seq(S), NEW x \in S
    PROVE  /\ Append(s, x) \in Seq(S)
           /\ Len(Append(s, x)) = Len(s) + 1
           /\ \A i \in DOMAIN Append(s, x) :
                \/ Append(s, x)[i] = x
                \/ i \in DOMAIN s /\ Append(s, x)[i] = s[i]
<1>1. DOMAIN Append(s, x) = 1 .. Len(s) + 1 /\ DOMAIN s = 1 .. Len(s)
  OBVIOUS
<1>2. ASSUME NEW i \in 1 .. Len(s) + 1
      PROVE  Append(s, x)[i] = x \/ (i \in 1 .. Len(s) /\ Append(s, x)[i] = s[i])
  OBVIOUS
<1> QED BY <1>1, <1>2

(* What is left of a queue when its first element has been taken.          *)
LEMMA TailElements ==
    ASSUME NEW S, NEW s \in Seq(S), s # <<>>
    PROVE  /\ Head(s) = s[1]
           /\ 1 \in DOMAIN s
           /\ Head(s) \in S
           /\ Tail(s) \in Seq(S)
           /\ Len(Tail(s)) = Len(s) - 1
           /\ \A i \in DOMAIN Tail(s) : i + 1 \in DOMAIN s /\ Tail(s)[i] = s[i + 1]
<1>1. Len(s) \in Nat /\ Len(s) >= 1 /\ DOMAIN s = 1 .. Len(s)
  OBVIOUS
<1>2. Tail(s) \in Seq(S) /\ Len(Tail(s)) = Len(s) - 1 /\ DOMAIN Tail(s) = 1 .. Len(s) - 1
  BY <1>1
<1>3. \A i \in 1 .. Len(s) - 1 : Tail(s)[i] = s[i + 1]
  BY <1>1
<1> QED BY <1>1, <1>2, <1>3

(* An element of a concatenation comes from one of the two.                *)
LEMMA CatElements ==
    ASSUME NEW S, NEW s \in Seq(S), NEW t \in Seq(S), NEW i \in DOMAIN (s \o t)
    PROVE  \/ i \in DOMAIN s /\ (s \o t)[i] = s[i]
           \/ \E j \in DOMAIN t : (s \o t)[i] = t[j]
<1>1. /\ Len(s) \in Nat /\ DOMAIN s = 1 .. Len(s)
      /\ Len(t) \in Nat /\ DOMAIN t = 1 .. Len(t)
      /\ DOMAIN (s \o t) = 1 .. Len(s) + Len(t)
  OBVIOUS
<1>2. CASE i <= Len(s)
  BY <1>1, <1>2
<1>3. CASE i > Len(s)
  <2>1. i - Len(s) \in DOMAIN t
    BY <1>1, <1>3
  <2>2. (s \o t)[i] = t[i - Len(s)]
    BY <1>1, <1>3
  <2> QED BY <2>1, <2>2
<1> QED BY <1>1, <1>2, <1>3

-----------------------------------------------------------------------------
(* Facts about counts.                                                     *)

(* The places of a value in a queue.                                       *)
Places(s, x) == {i \in DOMAIN s : s[i] = x}

LEMMA PlacesFinite ==
    ASSUME NEW S, NEW s \in Seq(S), NEW x
    PROVE  IsFiniteSet(Places(s, x)) /\ Cardinality(Places(s, x)) \in Nat
<1>1. DOMAIN s = 1 .. Len(s) /\ Len(s) \in Nat
  OBVIOUS
<1>2. IsFiniteSet(1 .. Len(s))
  BY <1>1, FS_Interval
<1> QED BY <1>1, <1>2, FS_Subset, FS_CardinalityType DEF Places

(* A value that is added is in the queue once more, the others as often.   *)
LEMMA PlacesAppend ==
    ASSUME NEW S, NEW s \in Seq(S), NEW y \in S, NEW x
    PROVE  Cardinality(Places(Append(s, y), x))
             = Cardinality(Places(s, x)) + (IF x = y THEN 1 ELSE 0)
<1>1. /\ DOMAIN s = 1 .. Len(s) /\ Len(s) \in Nat
      /\ DOMAIN Append(s, y) = 1 .. Len(s) + 1
      /\ \A i \in DOMAIN s : Append(s, y)[i] = s[i]
      /\ Append(s, y)[Len(s) + 1] = y
  OBVIOUS
<1>2. CASE x = y
  <2>1. /\ Places(Append(s, y), x) = Places(s, x) \cup {Len(s) + 1}
        /\ Len(s) + 1 \notin Places(s, x)
    BY <1>1, <1>2 DEF Places
  <2> QED BY <1>2, <2>1, PlacesFinite, FS_AddElement
<1>3. CASE x # y
  <2>1. Places(Append(s, y), x) = Places(s, x)
    BY <1>1, <1>3 DEF Places
  <2> QED BY <1>3, <2>1, PlacesFinite
<1> QED BY <1>2, <1>3

(* A value that is taken is in the queue once less, the others as often.   *)
LEMMA PlacesTail ==
    ASSUME NEW S, NEW s \in Seq(S), s # <<>>, NEW x
    PROVE  Cardinality(Places(Tail(s), x))
             = Cardinality(Places(s, x)) - (IF x = Head(s) THEN 1 ELSE 0)
<1> DEFINE T == Places(Tail(s), x)
           P == Places(s, x) \ {1}
           f == [i \in T |-> i + 1]
<1>1. /\ Head(s) = s[1]
      /\ 1 \in DOMAIN s
      /\ Tail(s) \in Seq(S)
      /\ Len(Tail(s)) = Len(s) - 1
      /\ \A i \in DOMAIN Tail(s) : i + 1 \in DOMAIN s /\ Tail(s)[i] = s[i + 1]
  BY TailElements
<1>2. /\ DOMAIN s = 1 .. Len(s) /\ Len(s) \in Nat
      /\ DOMAIN Tail(s) = 1 .. Len(s) - 1
  BY <1>1
<1>3. f \in [T -> P]
  BY <1>1, <1>2 DEF Places
<1>4. \A i, j \in T : f[i] = f[j] => i = j
  BY <1>2 DEF Places
<1>5. ASSUME NEW p \in P PROVE \E i \in T : f[i] = p
  <2>1. p \in 2 .. Len(s) /\ s[p] = x
    BY <1>2 DEF Places
  <2>2. p - 1 \in DOMAIN Tail(s) /\ Tail(s)[p - 1] = x
    BY <1>1, <1>2, <2>1
  <2>3. p - 1 \in T /\ f[p - 1] = p
    BY <2>1, <2>2 DEF Places
  <2> QED BY <2>3
<1>6. ExistsBijection(T, P)
  <2> HIDE DEF T, P, f
  <2> QED BY <1>3, <1>4, <1>5, Fun_IsBij DEF ExistsBijection
<1>7. Cardinality(T) = Cardinality(P)
  BY <1>1, <1>6, PlacesFinite, FS_Bijection
<1>8. 1 \in Places(s, x) <=> x = Head(s)
  BY <1>1 DEF Places
<1>9. Cardinality(P) = Cardinality(Places(s, x)) - (IF x = Head(s) THEN 1 ELSE 0)
  <2>1. IsFiniteSet(Places(s, x)) /\ Cardinality(Places(s, x)) \in Nat
    BY PlacesFinite
  <2>2. Cardinality(Places(s, x) \ {1}) =
          IF 1 \in Places(s, x) THEN Cardinality(Places(s, x)) - 1
                                ELSE Cardinality(Places(s, x))
    BY <2>1, FS_RemoveElement
  <2> QED BY <1>8, <2>1, <2>2
<1> QED BY <1>7, <1>9

(* A value that is in a queue is so at least once.                         *)
LEMMA PlacesSome ==
    ASSUME NEW S, NEW s \in Seq(S), NEW x
    PROVE  (\E i \in DOMAIN s : s[i] = x) <=> Cardinality(Places(s, x)) >= 1
<1>1. IsFiniteSet(Places(s, x)) /\ Cardinality(Places(s, x)) \in Nat
  BY PlacesFinite
<1>2. Cardinality(Places(s, x)) = 0 <=> Places(s, x) = {}
  BY <1>1, FS_EmptySet
<1>3. Places(s, x) # {} <=> \E i \in DOMAIN s : s[i] = x
  BY DEF Places
<1> QED BY <1>1, <1>2, <1>3

(* A set whose elements carry a tag is as large as without it.             *)
LEMMA TaggedCardinality ==
    ASSUME NEW S, IsFiniteSet(S), NEW tag
    PROVE  /\ IsFiniteSet({<<tag, x>> : x \in S})
           /\ Cardinality({<<tag, x>> : x \in S}) = Cardinality(S)
<1> DEFINE T == {<<tag, x>> : x \in S}
           f == [x \in S |-> <<tag, x>>]
<1>1. f \in [S -> T]
  OBVIOUS
<1>2. \A x, y \in S : f[x] = f[y] => x = y
  OBVIOUS
<1>3. ASSUME NEW t \in T PROVE \E x \in S : f[x] = t
  OBVIOUS
<1>4. ExistsBijection(S, T)
  <2> HIDE DEF T, f
  <2> QED BY <1>1, <1>2, <1>3, Fun_IsBij DEF ExistsBijection
<1> QED BY <1>4, FS_Bijection

(* Of sets with different tags, the sizes add up.                          *)
LEMMA DisjointCardinality ==
    ASSUME NEW S, IsFiniteSet(S), NEW T, IsFiniteSet(T), S \cap T = {}
    PROVE  /\ IsFiniteSet(S \cup T)
           /\ Cardinality(S \cup T) = Cardinality(S) + Cardinality(T)
<1>1. Cardinality(S \cap T) = 0
  BY FS_EmptySet
<1>2. Cardinality(S) \in Nat /\ Cardinality(T) \in Nat
  BY FS_CardinalityType
<1>3. /\ IsFiniteSet(S \cup T)
      /\ Cardinality(S \cup T) =
            Cardinality(S) + Cardinality(T) - Cardinality(S \cap T)
  BY FS_Union
<1> QED BY <1>1, <1>2, <1>3

(* A set of naturals that is not empty has a least element.                *)
LEMMA LeastNatural ==
    ASSUME NEW T, T \subseteq Nat, T # {}
    PROVE  \E x \in T : \A y \in T : x <= y
<1>1. PICK x \in T : \A y \in T : ~ (<<y, x>> \in OpToRel(<, Nat))
  BY NatLessThanWellFounded, WFMin
<1>2. \A y \in T : ~ (y < x)
  BY <1>1 DEF OpToRel
<1> QED BY <1>2

(* Sets that differ in at most one element.                                *)
LEMMA OneMoved ==
    ASSUME NEW A, IsFiniteSet(A), NEW B, NEW w,
           \A v : v # w => (v \in A <=> v \in B)
    PROVE  /\ IsFiniteSet(B) /\ Cardinality(A) \in Nat /\ Cardinality(B) \in Nat
           /\ Cardinality(B) = Cardinality(A) - (IF w \in A THEN 1 ELSE 0)
                                              + (IF w \in B THEN 1 ELSE 0)
<1>1. Cardinality(A) \in Nat
  BY FS_CardinalityType
<1>2. CASE w \in A /\ w \notin B
  <2>1. B = A \ {w}
    BY <1>2
  <2>2. IsFiniteSet(B) /\ Cardinality(B) = Cardinality(A) - 1
    BY <1>2, <2>1, FS_RemoveElement
  <2> QED BY <1>1, <1>2, <2>2, FS_CardinalityType
<1>3. CASE w \notin A /\ w \in B
  <2>1. B = A \cup {w}
    BY <1>3
  <2>2. IsFiniteSet(B) /\ Cardinality(B) = Cardinality(A) + 1
    BY <1>3, <2>1, FS_AddElement
  <2> QED BY <1>1, <1>3, <2>2, FS_CardinalityType
<1>4. CASE w \in A <=> w \in B
  <2>1. A = B
    BY <1>4
  <2> QED BY <1>1, <1>4, <2>1
<1> QED BY <1>2, <1>3, <1>4

(* A sequence with one more element in front, or with one left out.        *)
InFront(s, i) == <<i>> \o s
LeftOut(s, p) == SubSeq(s, 1, p - 1) \o SubSeq(s, p + 1, Len(s))

(* Induction, for a set.                                                   *)
LEMMA NaturalInduction ==
    ASSUME NEW S, 0 \in S, \A n \in Nat : n \in S => n + 1 \in S
    PROVE  \A n \in Nat : n \in S
<1> DEFINE T == Nat \ S
<1> SUFFICES ASSUME T # {} PROVE FALSE
  OBVIOUS
<1>1. PICK n \in T : \A m \in T : n <= m
  BY LeastNatural
<1>2. n \in Nat /\ n # 0
  OBVIOUS
<1>3. n - 1 \in Nat /\ n - 1 \notin T
  BY <1>1, <1>2
<1> QED BY <1>2, <1>3

LEMMA InFrontElements ==
    ASSUME NEW S, NEW s \in Seq(S), NEW i \in S
    PROVE  /\ InFront(s, i) \in Seq(S)
           /\ Len(InFront(s, i)) = Len(s) + 1
           /\ DOMAIN InFront(s, i) = 1 .. Len(s) + 1
           /\ DOMAIN s = 1 .. Len(s) /\ Len(s) \in Nat
           /\ InFront(s, i)[1] = i
           /\ \A k \in DOMAIN s : InFront(s, i)[k + 1] = s[k]
           /\ \A k \in DOMAIN InFront(s, i) : k # 1 =>
                k - 1 \in DOMAIN s /\ InFront(s, i)[k] = s[k - 1]
BY DEF InFront

LEMMA LeftOutElements ==
    ASSUME NEW S, NEW s \in Seq(S), NEW p \in DOMAIN s
    PROVE  /\ LeftOut(s, p) \in Seq(S)
           /\ Len(LeftOut(s, p)) = Len(s) - 1
           /\ DOMAIN LeftOut(s, p) = 1 .. Len(s) - 1
           /\ DOMAIN s = 1 .. Len(s) /\ Len(s) \in Nat /\ p \in 1 .. Len(s)
           /\ \A k \in 1 .. Len(s) - 1 :
                LeftOut(s, p)[k] = IF k < p THEN s[k] ELSE s[k + 1]
<1>1. DOMAIN s = 1 .. Len(s) /\ Len(s) \in Nat /\ p \in 1 .. Len(s)
  OBVIOUS
<1>2. LeftOut(s, p) \in Seq(S) /\ Len(LeftOut(s, p)) = Len(s) - 1
  BY DEF LeftOut
<1>3. ASSUME NEW k \in 1 .. Len(s) - 1, k < p
      PROVE  LeftOut(s, p)[k] = s[k]
  BY <1>3 DEF LeftOut
<1>4. ASSUME NEW k \in 1 .. Len(s) - 1, ~ (k < p)
      PROVE  LeftOut(s, p)[k] = s[k + 1]
  BY <1>4 DEF LeftOut
<1>5. DOMAIN LeftOut(s, p) = 1 .. Len(s) - 1
  BY <1>1, <1>2
<1> QED BY <1>1, <1>2, <1>3, <1>4, <1>5

(* Sequences with the same elements are the same.                          *)
LEMMA SameSequence ==
    ASSUME NEW S, NEW a \in Seq(S), NEW b \in Seq(S), Len(a) = Len(b),
           \A k \in 1 .. Len(a) : a[k] = b[k]
    PROVE  a = b
<1>1. DOMAIN a = 1 .. Len(a) /\ DOMAIN b = 1 .. Len(a)
  OBVIOUS
<1>2. a = [k \in 1 .. Len(a) |-> a[k]] /\ b = [k \in 1 .. Len(a) |-> b[k]]
  BY <1>1
<1> QED BY <1>2

(* A suffix, and the one that is longer by an element.                     *)
LEMMA SuffixStep ==
    ASSUME NEW S, NEW s \in Seq(S), NEW k \in DOMAIN s
    PROVE  <<s[k]>> \o SubSeq(s, k + 1, Len(s)) = SubSeq(s, k, Len(s))
<1> DEFINE a == <<s[k]>> \o SubSeq(s, k + 1, Len(s))
           b == SubSeq(s, k, Len(s))
<1>1. k \in 1 .. Len(s) /\ s[k] \in S
  OBVIOUS
<1>2. b \in Seq(S) /\ Len(b) = Len(s) + 1 - k
  BY <1>1
<1>3. \A j \in 1 .. Len(s) + 1 - k : b[j] = s[k + j - 1]
  BY <1>1
<1>4. a \in Seq(S) /\ Len(a) = Len(s) + 1 - k
  BY <1>1
<1>5. ASSUME NEW j \in 1 .. Len(s) + 1 - k PROVE a[j] = s[k + j - 1]
  <2>1. CASE j = 1
    BY <1>1, <2>1
  <2>2. CASE j # 1
    <3>1. a[j] = SubSeq(s, k + 1, Len(s))[j - 1]
      BY <1>1, <2>2
    <3>2. SubSeq(s, k + 1, Len(s))[j - 1] = s[k + j - 1]
      BY <1>1, <2>2
    <3> QED BY <3>1, <3>2
  <2> QED BY <2>1, <2>2
<1> HIDE DEF a, b
<1>6. a = b
  BY <1>2, <1>3, <1>4, <1>5, SameSequence
<1> QED BY <1>6 DEF a, b

LEMMA FrontAgain ==
    ASSUME NEW S, NEW s \in Seq(S), s # <<>>
    PROVE  InFront(LeftOut(s, 1), s[1]) = s
<1>1. 1 \in DOMAIN s /\ s[1] \in S /\ Len(s) \in Nat /\ Len(s) >= 1
  OBVIOUS
<1> DEFINE w == LeftOut(s, 1)
<1>2. /\ w \in Seq(S) /\ Len(w) = Len(s) - 1 /\ DOMAIN w = 1 .. Len(s) - 1
      /\ \A k \in 1 .. Len(s) - 1 : w[k] = IF k < 1 THEN s[k] ELSE s[k + 1]
  BY <1>1, LeftOutElements, Zenon
<1> HIDE DEF w
<1>3. PICK x : x = s[1]
  OBVIOUS
<1> DEFINE a == InFront(w, x)
<1>4. x \in S /\ w \in Seq(S)
  BY <1>1, <1>2, <1>3
<1>5. /\ a \in Seq(S) /\ Len(a) = Len(w) + 1 /\ a[1] = x
  BY <1>4, InFrontElements
<1>6. \A k \in DOMAIN a : k # 1 => k - 1 \in DOMAIN w /\ a[k] = w[k - 1]
  BY <1>4, InFrontElements
<1> HIDE DEF a
<1>7. ASSUME NEW k \in 1 .. Len(a) PROVE a[k] = s[k]
  <2>1. CASE k = 1
    BY <1>5, <1>3, <2>1
  <2>2. CASE k # 1
    <3>1. k \in DOMAIN a /\ k - 1 \in 1 .. Len(s) - 1 /\ ~ (k - 1 < 1) /\ (k - 1) + 1 = k
      BY <1>1, <1>2, <1>5, <2>2
    <3>2. a[k] = w[k - 1] /\ w[k - 1] = s[(k - 1) + 1]
      BY <1>2, <1>6, <2>2, <3>1
    <3> QED BY <3>1, <3>2
  <2> QED BY <2>1, <2>2
<1>8. Len(a) = Len(s)
  BY <1>1, <1>2, <1>5
<1>9. a = s
  BY <1>5, <1>7, <1>8, SameSequence
<1> QED BY <1>9, <1>3 DEF a, w

LEMMA LastLeftOut ==
    ASSUME NEW S, NEW s \in Seq(S), s # <<>>
    PROVE  LeftOut(s, Len(s)) = SubSeq(s, 1, Len(s) - 1)
<1>1. Len(s) \in Nat /\ Len(s) >= 1
  OBVIOUS
<1>2. SubSeq(s, Len(s) + 1, Len(s)) = <<>>
  BY <1>1
<1>3. SubSeq(s, 1, Len(s) - 1) \in Seq(S)
  BY <1>1
<1>4. SubSeq(s, 1, Len(s) - 1) \o <<>> = SubSeq(s, 1, Len(s) - 1)
  BY <1>3
<1> QED BY <1>2, <1>4 DEF LeftOut
=============================================================================
