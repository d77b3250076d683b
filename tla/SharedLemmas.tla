---------------------------- MODULE SharedLemmas ----------------------------
(***************************************************************************)
(* Facts that the proofs share.                                            *)
(*                                                                         *)
(* The queues of the code: what insertion at the tail, taking the head and *)
(* ngx_queue_remove() make of the elements of a queue in which nothing is  *)
(* linked twice, and of the number of elements of some kind.               *)
(*                                                                         *)
(* The operators of UvHandle: they keep the types, and                     *)
(* loop->active_handles the number of handles that are active and          *)
(* referenced.                                                             *)
(***************************************************************************)
EXTENDS UvHandle, TLAPS, WellFoundedInduction, SequenceTheorems,
        FiniteSetTheorems

(* A non-empty set of natural numbers has a least element.                 *)
LEMMA MinIsElement ==
  ASSUME NEW I \in SUBSET Nat, I # {}
  PROVE  Min(I) \in I /\ \A i \in I : Min(I) <= i
<1> DEFINE R == OpToRel(<, Nat)
<1>1. IsWellFoundedOn(R, Nat)
  BY NatLessThanWellFounded, Zenon
<1>2. ASSUME NEW x \in Nat, NEW y \in Nat, y < x PROVE <<y, x>> \in R
  BY <1>2, SMT DEF OpToRel
<1> HIDE DEF R
<1>3. PICK x \in I : \A y \in I : ~(<<y, x>> \in R)
  BY <1>1, WFMin, Zenon
<1>4. ASSUME NEW y \in I PROVE x <= y
  <2>1. x \in Nat /\ y \in Nat
    OBVIOUS
  <2>2. ~(y < x)
    BY <1>2, <1>3, <2>1, Zenon
  <2> QED BY <2>1, <2>2
<1> QED BY <1>4 DEF Min

-----------------------------------------------------------------------------
(* The elements of a queue are of the type of the queue.                   *)
LEMMA QueueElements ==
  ASSUME NEW S, NEW q \in Seq(S)
  PROVE  /\ ToSet(q) \subseteq S
         /\ \A x : x \in ToSet(q) <=> \E i \in 1..Len(q) : q[i] = x
         /\ q = <<>> <=> ToSet(q) = {}
<1>1. /\ DOMAIN q = 1..Len(q) /\ Len(q) \in Nat
      /\ \A i \in 1..Len(q) : q[i] \in S
  BY LenProperties, ElementOfSeq
<1>2. q # <<>> => Len(q) > 0
  BY EmptySeq, <1>1
<1>3. q # <<>> => q[1] \in ToSet(q)
  BY <1>1, <1>2 DEF ToSet
<1>4. ToSet(q) \subseteq S
  BY <1>1 DEF ToSet
<1>5. \A x : x \in ToSet(q) <=> \E i \in 1..Len(q) : q[i] = x
  BY <1>1 DEF ToSet
<1>6. q = <<>> => ToSet(q) = {}
  BY <1>5, EmptySeq
<1> QED BY <1>3, <1>4, <1>5, <1>6

(* Insertion at the tail of an element that is not in the queue.           *)
LEMMA AppendElements ==
  ASSUME NEW S, NEW q \in Seq(S), NEW t \in S
  PROVE  /\ Append(q, t) \in Seq(S)
         /\ ToSet(Append(q, t)) = ToSet(q) \cup {t}
         /\ IsInjective(q) /\ t \notin ToSet(q) => IsInjective(Append(q, t))
<1> DEFINE a == Append(q, t)
<1>1. /\ a \in Seq(S) /\ Len(a) = Len(q) + 1
      /\ \A i \in 1..Len(q) : a[i] = q[i]
      /\ a[Len(q) + 1] = t
  BY AppendProperties
<1>2. /\ DOMAIN q = 1..Len(q) /\ Len(q) \in Nat
      /\ DOMAIN a = 1..Len(q) + 1
  BY <1>1, LenProperties
<1> HIDE DEF a
<1>3. ToSet(a) = ToSet(q) \cup {t}
  <2>1. ASSUME NEW i \in DOMAIN a PROVE a[i] \in ToSet(q) \cup {t}
    BY <1>1, <1>2 DEF ToSet
  <2>2. ASSUME NEW i \in DOMAIN q PROVE q[i] \in ToSet(a)
    BY <1>1, <1>2 DEF ToSet
  <2>3. t \in ToSet(a)
    BY <1>1, <1>2 DEF ToSet
  <2> QED BY <2>1, <2>2, <2>3 DEF ToSet
<1>4. ASSUME IsInjective(q), t \notin ToSet(q) PROVE IsInjective(a)
  <2> SUFFICES ASSUME NEW i \in DOMAIN a, NEW j \in DOMAIN a, a[i] = a[j]
               PROVE  i = j
    BY DEF IsInjective
  <2>1. ASSUME NEW k \in DOMAIN q PROVE q[k] # t
    BY <1>4, <2>1 DEF ToSet
  <2> QED BY <1>1, <1>2, <1>4, <2>1 DEF IsInjective
<1> QED BY <1>1, <1>3, <1>4 DEF a

(* Taking the head.                                                        *)
LEMMA TailElements ==
  ASSUME NEW S, NEW q \in Seq(S), q # <<>>
  PROVE  /\ Head(q) \in S /\ Tail(q) \in Seq(S)
         /\ ToSet(q) = ToSet(Tail(q)) \cup {Head(q)}
         /\ IsInjective(q) => IsInjective(Tail(q)) /\ Head(q) \notin ToSet(Tail(q))
<1> DEFINE t == Tail(q)
<1>1. /\ Head(q) \in S /\ t \in Seq(S) /\ Len(t) = Len(q) - 1
      /\ \A i \in 1..Len(t) : t[i] = q[i + 1]
  BY HeadTailProperties
<1>2. /\ DOMAIN q = 1..Len(q) /\ Len(q) \in Nat /\ Len(q) > 0
      /\ DOMAIN t = 1..Len(q) - 1
  BY <1>1, LenProperties, EmptySeq
<1>3. Head(q) = q[1]
  OBVIOUS
<1> HIDE DEF t
<1>4. ToSet(q) = ToSet(t) \cup {q[1]}
  <2>1. ASSUME NEW i \in DOMAIN q, i # 1 PROVE q[i] \in ToSet(t)
    <3>1. i - 1 \in DOMAIN t /\ t[i - 1] = q[i]
      BY <1>1, <1>2, <2>1
    <3> QED BY <3>1 DEF ToSet
  <2>2. ASSUME NEW i \in DOMAIN t PROVE t[i] \in ToSet(q)
    BY <1>1, <1>2 DEF ToSet
  <2>3. q[1] \in ToSet(q)
    BY <1>2 DEF ToSet
  <2> QED BY <2>1, <2>2, <2>3 DEF ToSet
<1>5. ASSUME IsInjective(q) PROVE IsInjective(t) /\ q[1] \notin ToSet(t)
  <2>0. ASSUME NEW i \in DOMAIN t
        PROVE  i \in Int /\ i + 1 \in DOMAIN q /\ i + 1 # 1 /\ t[i] = q[i + 1]
    BY <1>1, <1>2
  <2>1. IsInjective(t)
    <3>1. ASSUME NEW i \in DOMAIN t, NEW j \in DOMAIN t, t[i] = t[j] PROVE i = j
      <4>1. q[i + 1] = q[j + 1] /\ i + 1 \in DOMAIN q /\ j + 1 \in DOMAIN q
        BY <2>0, <3>1
      <4>2. i + 1 = j + 1
        BY <1>5, <4>1 DEF IsInjective
      <4> QED BY <2>0, <4>2
    <3> QED BY <3>1 DEF IsInjective
  <2>2. ASSUME NEW i \in DOMAIN t PROVE t[i] # q[1]
    <3>1. 1 \in DOMAIN q
      BY <1>2
    <3> QED BY <1>5, <2>0, <3>1 DEF IsInjective
  <2> QED BY <2>1, <2>2 DEF ToSet
<1> QED BY <1>1, <1>3, <1>4, <1>5 DEF t

(* Unlinking the element at position k.                                    *)
LEMMA RemoveAtPositions ==
  ASSUME NEW S, NEW q \in Seq(S), NEW k \in 1..Len(q)
  PROVE  /\ RemoveAt(q, k) \in Seq(S)
         /\ Len(RemoveAt(q, k)) = Len(q) - 1
         /\ \A i \in 1..Len(q) - 1 :
              RemoveAt(q, k)[i] = IF i < k THEN q[i] ELSE q[i + 1]
<1>1. RemoveAt(q, k) = SubSeq(q, 1, k-1) \o SubSeq(q, k+1, Len(q))
  BY DEF RemoveAt
<1>2. k \in 1..Len(q)
  OBVIOUS
<1> DEFINE a == SubSeq(q, 1, k-1)
           b == SubSeq(q, k+1, Len(q))
<1>3. Len(q) \in Nat /\ \A i \in 1..Len(q) : q[i] \in S
  BY LenProperties, ElementOfSeq
<1>4. /\ a \in Seq(S) /\ Len(a) = k - 1
      /\ \A i \in 1..k-1 : a[i] = q[i]
  BY <1>2, <1>3, SubSeqProperties
<1>5. /\ b \in Seq(S) /\ Len(b) = Len(q) - k
      /\ \A i \in 1..Len(q)-k : b[i] = q[i + k]
  <2> DEFINE m == k + 1
  <2>1. /\ m \in Int /\ Len(q) \in Int
        /\ \A i \in m..Len(q) : q[i] \in S
    BY <1>2, <1>3
  <2>2. b = SubSeq(q, m, Len(q))
    OBVIOUS
  <2>3. k \in Nat /\ Len(q) \in Nat /\ k <= Len(q) /\ m = k + 1
    BY <1>2, <1>3
  <2> HIDE DEF b, m
  <2>4. /\ b \in Seq(S)
        /\ Len(b) = IF m <= Len(q) THEN Len(q)-m+1 ELSE 0
        /\ \A i \in 1..Len(q)-m+1 : b[i] = q[m+i-1]
    BY <2>1, <2>2, SubSeqProperties
  <2>5. Len(b) = Len(q) - k
    BY <2>3, <2>4
  <2>6. ASSUME NEW i \in 1..Len(q)-k PROVE b[i] = q[i + k]
    <3>1. m+i-1 = i + k /\ i \in 1..Len(q)-m+1
      BY <2>3
    <3> QED BY <2>4, <3>1
  <2> QED BY <2>4, <2>5, <2>6
<1> HIDE DEF a, b
<1>6. /\ a \o b \in Seq(S)
      /\ Len(a \o b) = Len(a) + Len(b)
      /\ \A i \in 1..Len(a) + Len(b) :
           (a \o b)[i] = IF i <= Len(a) THEN a[i] ELSE b[i - Len(a)]
  BY <1>4, <1>5, ConcatProperties
<1>7. Len(a) + Len(b) = Len(q) - 1
  BY <1>2, <1>3, <1>4, <1>5
<1>8. ASSUME NEW i \in 1..Len(q) - 1
       PROVE  (a \o b)[i] = IF i < k THEN q[i] ELSE q[i + 1]
  <2>1. (a \o b)[i] = IF i <= k - 1 THEN a[i] ELSE b[i - (k - 1)]
    BY <1>4, <1>6, <1>7
  <2>2. CASE i < k
    BY <1>2, <1>3, <1>4, <2>1, <2>2
  <2>3. CASE ~(i < k)
    <3>1. i - (k - 1) \in 1..Len(q)-k /\ ~(i <= k - 1)
      BY <1>2, <1>3, <2>3
    <3>2. i - (k - 1) + k = i + 1
      BY <1>2, <1>3
    <3> QED BY <1>5, <2>1, <2>3, <3>1, <3>2
  <2> QED BY <2>2, <2>3
<1> QED BY <1>1, <1>2, <1>6, <1>7, <1>8 DEF a, b

(* ngx_queue_remove(): the queue without the first occurrence.             *)
LEMMA RemoveFirstAt ==
  ASSUME NEW S, NEW q \in Seq(S), NEW t, t \in ToSet(q)
  PROVE  \E k \in 1..Len(q) :
           /\ q[k] = t
           /\ RemoveFirst(q, t) = RemoveAt(q, k)
<1> DEFINE I == {i \in 1..Len(q) : q[i] = t}
           k == SelectInSeq(q, LAMBDA v : v = t)
<1>1. \E i \in 1..Len(q) : q[i] = t
  BY QueueElements
<1>2. k = Min(I)
  BY <1>1 DEF SelectInSeq
<1>3. k \in I
  <2>1. I \in SUBSET Nat /\ I # {}
    BY <1>1
  <2>2. Min(I) \in I
    BY <2>1, MinIsElement, Zenon
  <2> QED BY <1>2, <2>2
<1>4. RemoveFirst(q, t) = RemoveAt(q, k)
  BY <1>1 DEF RemoveFirst
<1>5. k \in 1..Len(q) /\ q[k] = t
  BY <1>3
<1> HIDE DEF k, I
<1> QED BY <1>4, <1>5

(* It leaves the other elements, in their order.                           *)
LEMMA RemoveFirstElements ==
  ASSUME NEW S, NEW q \in Seq(S), NEW t
  PROVE  /\ RemoveFirst(q, t) \in Seq(S)
         /\ t \notin ToSet(q) => RemoveFirst(q, t) = q
         /\ ToSet(RemoveFirst(q, t)) \subseteq ToSet(q)
         /\ IsInjective(q) =>
              /\ IsInjective(RemoveFirst(q, t))
              /\ ToSet(RemoveFirst(q, t)) = ToSet(q) \ {t}
<1> DEFINE r == RemoveFirst(q, t)
<1>1. CASE t \notin ToSet(q)
  <2>1. ~\E i \in 1..Len(q) : q[i] = t
    BY <1>1, QueueElements
  <2>2. r = q
    BY <2>1 DEF RemoveFirst
  <2> QED BY <1>1, <2>2
<1>2. CASE t \in ToSet(q)
  <2> PICK k \in 1..Len(q) : q[k] = t /\ r = RemoveAt(q, k)
    BY <1>2, RemoveFirstAt
  <2> HIDE DEF r
  <2>0. /\ r \in Seq(S) /\ Len(r) = Len(q) - 1
        /\ \A i \in 1..Len(q) - 1 : r[i] = IF i < k THEN q[i] ELSE q[i + 1]
    BY RemoveAtPositions
  <2>1. /\ DOMAIN q = 1..Len(q) /\ Len(q) \in Nat
        /\ DOMAIN r = 1..Len(q) - 1
    BY <2>0, LenProperties
  <2> DEFINE at(i) == IF i < k THEN i ELSE i + 1
  <2>8. ASSUME NEW i \in DOMAIN r
        PROVE  at(i) \in DOMAIN q /\ at(i) # k /\ r[i] = q[at(i)]
    BY <2>0, <2>1
  <2>2. ASSUME NEW i \in DOMAIN r PROVE r[i] \in ToSet(q)
    <3>1. r[i] = q[at(i)] /\ at(i) \in DOMAIN q
      BY <2>8
    <3> QED BY <3>1 DEF ToSet
  <2>3. ASSUME IsInjective(q) PROVE IsInjective(r)
    <3>1. ASSUME NEW i \in DOMAIN r, NEW j \in DOMAIN r, r[i] = r[j] PROVE i = j
      <4>1. q[at(i)] = q[at(j)] /\ at(i) \in DOMAIN q /\ at(j) \in DOMAIN q
        BY <2>8, <3>1
      <4>2. at(i) = at(j)
        BY <2>3, <4>1 DEF IsInjective
      <4> QED BY <2>1, <4>2
    <3> QED BY <3>1 DEF IsInjective
  <2>4. ASSUME IsInjective(q) PROVE t \notin ToSet(r)
    <3>1. ASSUME NEW i \in DOMAIN r PROVE r[i] # t
      <4>1. k \in DOMAIN q /\ q[k] = t
        BY <2>1
      <4> QED BY <2>4, <2>8, <4>1 DEF IsInjective
    <3> QED BY <3>1 DEF ToSet
  <2>5. ASSUME NEW i \in DOMAIN q, q[i] # t PROVE q[i] \in ToSet(r)
    <3>1. CASE i < k
      <4>1. i \in DOMAIN r /\ r[i] = q[i]
        BY <2>0, <2>1, <3>1
      <4> QED BY <4>1 DEF ToSet
    <3>2. CASE ~(i < k)
      <4>1. i # k
        BY <2>5
      <4>2. i - 1 \in DOMAIN r /\ r[i - 1] = q[i]
        BY <2>0, <2>1, <3>2, <4>1
      <4> QED BY <4>2 DEF ToSet
    <3> QED BY <3>1, <3>2
  <2>6. ToSet(r) \subseteq ToSet(q)
    BY <2>2 DEF ToSet
  <2>7. ToSet(q) \ {t} \subseteq ToSet(r)
    BY <2>5 DEF ToSet
  <2> QED BY <1>2, <2>0, <2>3, <2>4, <2>6, <2>7 DEF r
<1> QED BY <1>1, <1>2

(* What is put before the head of a list.                                  *)
LEMMA PushElements ==
  ASSUME NEW S, NEW q \in Seq(S), NEW t \in S
  PROVE  /\ <<t>> \o q \in Seq(S)
         /\ ToSet(<<t>> \o q) = ToSet(q) \cup {t}
         /\ IsInjective(q) /\ t \notin ToSet(q) => IsInjective(<<t>> \o q)
<1> DEFINE a == <<t>> \o q
<1>1. /\ a \in Seq(S) /\ Len(a) = Len(q) + 1 /\ Len(q) \in Nat
      /\ a[1] = t /\ \A i \in 1..Len(q) : a[i + 1] = q[i]
  OBVIOUS
<1>2. /\ DOMAIN q = 1..Len(q) /\ DOMAIN a = 1..Len(q) + 1
  BY <1>1, LenProperties
<1> HIDE DEF a
<1>3. ASSUME NEW i \in DOMAIN a
      PROVE  i = 1 \/ (i - 1 \in DOMAIN q /\ a[i] = q[i - 1])
  BY <1>1, <1>2
<1>4. ToSet(a) = ToSet(q) \cup {t}
  <2>1. ASSUME NEW x \in ToSet(a) PROVE x \in ToSet(q) \cup {t}
    BY <1>1, <1>3, <2>1 DEF ToSet
  <2>2. t \in ToSet(a)
    BY <1>1, <1>2 DEF ToSet
  <2>3. ASSUME NEW i \in DOMAIN q PROVE q[i] \in ToSet(a)
    <3>1. i + 1 \in DOMAIN a /\ a[i + 1] = q[i]
      BY <1>1, <1>2
    <3> QED BY <3>1 DEF ToSet
  <2>4. ToSet(q) \subseteq ToSet(a)
    BY <2>3 DEF ToSet
  <2> QED BY <2>1, <2>2, <2>4
<1>5. ASSUME IsInjective(q), t \notin ToSet(q) PROVE IsInjective(a)
  <2>1. ASSUME NEW i \in DOMAIN q PROVE q[i] # t
    BY <1>5, <2>1 DEF ToSet
  <2>2. SUFFICES ASSUME NEW i \in DOMAIN a, NEW j \in DOMAIN a, a[i] = a[j]
                 PROVE  i = j
    BY DEF IsInjective
  <2>3. i = 1 <=> j = 1
    BY <1>1, <1>3, <2>1, <2>2
  <2>4. ASSUME i # 1 PROVE i = j
    <3>1. i - 1 \in DOMAIN q /\ j - 1 \in DOMAIN q /\ q[i - 1] = q[j - 1]
      BY <1>3, <2>2, <2>3, <2>4
    <3>2. i - 1 = j - 1
      BY <1>5, <3>1 DEF IsInjective
    <3> QED BY <1>2, <3>2
  <2> QED BY <2>3, <2>4
<1> QED BY <1>1, <1>4, <1>5 DEF a

-----------------------------------------------------------------------------
(* Two queues p and q, of which p is served first.                         *)
LEMMA JoinedElements ==
  ASSUME NEW S, NEW p \in Seq(S), NEW q \in Seq(S)
  PROVE  /\ p \o q \in Seq(S)
         /\ ToSet(p \o q) = ToSet(p) \cup ToSet(q)
         /\ p \o q = <<>> <=> p = <<>> /\ q = <<>>
<1> DEFINE r == p \o q
<1>1. /\ DOMAIN p = 1..Len(p) /\ Len(p) \in Nat /\ DOMAIN q = 1..Len(q) /\ Len(q) \in Nat
  BY LenProperties
<1>2. /\ r \in Seq(S) /\ Len(r) = Len(p) + Len(q)
      /\ \A i \in 1..Len(p) + Len(q) : r[i] = IF i <= Len(p) THEN p[i] ELSE q[i - Len(p)]
  BY ConcatProperties
<1> HIDE DEF r
<1>3. DOMAIN r = 1..Len(p) + Len(q)
  BY <1>2, LenProperties
<1>4. ASSUME NEW i \in DOMAIN p PROVE i \in DOMAIN r /\ r[i] = p[i]
  BY <1>1, <1>2, <1>3
<1>5. ASSUME NEW i \in DOMAIN q PROVE i + Len(p) \in DOMAIN r /\ r[i + Len(p)] = q[i]
  <2>1. i \in 1..Len(q)
    BY <1>1
  <2>2. i + Len(p) \in 1..Len(p) + Len(q) /\ ~(i + Len(p) <= Len(p))
    BY <1>1, <2>1
  <2>3. (i + Len(p)) - Len(p) = i
    BY <1>1, <2>1
  <2> QED BY <1>2, <1>3, <2>2, <2>3
<1>6. ASSUME NEW i \in DOMAIN r PROVE r[i] \in ToSet(p) \cup ToSet(q)
  <2>1. CASE i <= Len(p)
    <3>1. i \in DOMAIN p /\ r[i] = p[i]
      BY <1>1, <1>2, <1>3, <2>1
    <3> QED BY <3>1 DEF ToSet
  <2>2. CASE ~(i <= Len(p))
    <3>1. i - Len(p) \in DOMAIN q /\ r[i] = q[i - Len(p)]
      BY <1>1, <1>2, <1>3, <2>2
    <3> QED BY <3>1 DEF ToSet
  <2> QED BY <2>1, <2>2
<1>7. ToSet(p) \subseteq ToSet(r) /\ ToSet(q) \subseteq ToSet(r)
  <2>1. ASSUME NEW x \in ToSet(p) PROVE x \in ToSet(r)
    <3>1. PICK i \in DOMAIN p : x = p[i]
      BY DEF ToSet
    <3> QED BY <1>4, <3>1 DEF ToSet
  <2>2. ASSUME NEW x \in ToSet(q) PROVE x \in ToSet(r)
    <3>1. PICK i \in DOMAIN q : x = q[i]
      BY DEF ToSet
    <3>2. i + Len(p) \in DOMAIN r /\ r[i + Len(p)] = x
      BY <1>5, <3>1
    <3> QED BY <3>2 DEF ToSet
  <2> QED BY <2>1, <2>2
<1>8. ToSet(r) \subseteq ToSet(p) \cup ToSet(q)
  BY <1>6 DEF ToSet
<1>9. r = <<>> <=> p = <<>> /\ q = <<>>
  BY ConcatEqualIffEmpty DEF r
<1> QED BY <1>2, <1>7, <1>8, <1>9 DEF r

(* One more is the last of all, ...                                        *)
LEMMA JoinedAppend ==
  ASSUME NEW S, NEW p \in Seq(S), NEW q \in Seq(S), NEW t \in S
  PROVE  /\ p \o Append(q, t) = Append(p \o q, t)
         /\ p \o Append(q, t) = (p \o q) \o <<t>>
<1>1. p \o q \in Seq(S)
  BY ConcatProperties
<1>2. Append(q, t) = q \o <<t>> /\ Append(p \o q, t) = (p \o q) \o <<t>>
  BY <1>1, AppendIsConcat
<1>3. <<t>> \in Seq(S)
  OBVIOUS
<1>4. (p \o q) \o <<t>> = p \o (q \o <<t>>)
  BY <1>3, ConcatAssociative
<1> QED BY <1>2, <1>4

(* ... the first of p is the first of all, ...                             *)
LEMMA JoinedTail ==
  ASSUME NEW S, NEW p \in Seq(S), NEW q \in Seq(S), p # <<>>
  PROVE  /\ Head(p \o q) = Head(p)
         /\ Tail(p \o q) = Tail(p) \o q
<1>1. Tail(p) \in Seq(S) /\ Head(p) \in S /\ <<Head(p)>> \in Seq(S)
  BY HeadTailProperties
<1>2. Len(p) \in Nat \ {0}
  BY EmptySeq
<1>3. p = <<Head(p)>> \o Tail(p)
  <2>1. SubSeq(p, 1, Len(p)) = <<p[1]>> \o SubSeq(p, 2, Len(p))
    BY <1>2, SubSeqRecursiveFirst
  <2>2. SubSeq(p, 1, Len(p)) = p
    BY SubSeqFull
  <2>3. Head(p) = p[1] /\ Tail(p) = SubSeq(p, 2, Len(p))
    BY <1>2, <2>2, HeadTailOfSubSeq
  <2> QED BY <2>1, <2>2, <2>3
<1>4. p \o q = <<Head(p)>> \o (Tail(p) \o q)
  BY <1>1, <1>3, ConcatAssociative
<1>5. Tail(p) \o q \in Seq(S)
  BY <1>1, ConcatProperties
<1>6. ASSUME NEW u \in Seq(S), NEW t \in S
      PROVE  Head(<<t>> \o u) = t /\ Tail(<<t>> \o u) = u
  <2> DEFINE v == <<t>> \o u
  <2>1. /\ v \in Seq(S) /\ Len(v) = 1 + Len(u) /\ Len(u) \in Nat
        /\ \A i \in 1..1 + Len(u) : v[i] = IF i <= 1 THEN <<t>>[i] ELSE u[i - 1]
    <3>1. <<t>> \in Seq(S) /\ Len(<<t>>) = 1
      OBVIOUS
    <3> QED BY <3>1, ConcatProperties, LenProperties
  <2> HIDE DEF v
  <2>2. v # <<>>
    BY <2>1, EmptySeq
  <2>3. /\ Tail(v) \in Seq(S) /\ Len(Tail(v)) = Len(v) - 1
        /\ \A i \in 1..Len(Tail(v)) : Tail(v)[i] = v[i + 1]
    BY <2>1, <2>2, HeadTailProperties
  <2>4. ASSUME NEW i \in 1..Len(u) PROVE Tail(v)[i] = u[i]
    <3>1. i + 1 \in 1..1 + Len(u) /\ ~(i + 1 <= 1) /\ (i + 1) - 1 = i
      BY <2>1
    <3> QED BY <2>1, <2>3, <3>1
  <2>5. Len(Tail(v)) = Len(u)
    BY <2>1, <2>3
  <2>6. Tail(v) = u
    BY <2>3, <2>4, <2>5, SeqEqual
  <2>7. Head(v) = v[1] /\ v[1] = t
    BY <2>1, <2>2
  <2> QED BY <2>6, <2>7 DEF v
<1> QED BY <1>1, <1>4, <1>5, <1>6

(* ... and the first n of q are next to p.                                 *)
FirstOf(q, n) == SubSeq(q, 1, n)
RestOf(q, n)  == SubSeq(q, n + 1, Len(q))

LEMMA JoinedMove ==
  ASSUME NEW S, NEW p \in Seq(S), NEW q \in Seq(S), NEW n \in 0..Len(q)
  PROVE  /\ RestOf(q, n) \in Seq(S) /\ p \o FirstOf(q, n) \in Seq(S)
         /\ (p \o FirstOf(q, n)) \o RestOf(q, n) = p \o q
<1> DEFINE a == SubSeq(q, 1, n)
           b == SubSeq(q, n + 1, Len(q))
<1>1. Len(q) \in Nat /\ \A i \in 1..Len(q) : q[i] \in S
  BY LenProperties, ElementOfSeq
<1>2. a \in Seq(S)
  BY <1>1, SubSeqProperties
<1>3. b \in Seq(S)
  BY <1>1, SubSeqProperties
<1>4. a \o b = q
  <2>1. /\ 1 \in 1..Len(q) + 1 /\ n \in 1 - 1..Len(q) /\ Len(q) \in n..Len(q)
    BY <1>1
  <2>2. a \o b = SubSeq(q, 1, Len(q))
    BY <2>1, ConcatAdjacentSubSeq
  <2> QED BY <2>2, SubSeqFull
<1> HIDE DEF a, b
<1>5. p \o a \in Seq(S)
  BY <1>2, ConcatProperties
<1>6. (p \o a) \o b = p \o q
  <2>1. (p \o a) \o b = p \o (a \o b)
    BY <1>2, <1>3, ConcatAssociative
  <2> QED BY <1>4, <2>1, Zenon
<1> QED BY <1>3, <1>5, <1>6, Zenon DEF a, b, FirstOf, RestOf

-----------------------------------------------------------------------------
(* How often an element is in a queue in which nothing is linked twice.    *)
LEMMA OccursOnce ==
  ASSUME NEW S, NEW q \in Seq(S), IsInjective(q), NEW r
  PROVE  Cardinality({i \in DOMAIN q : q[i] = r})
           = IF r \in ToSet(q) THEN 1 ELSE 0
<1> DEFINE at == {i \in DOMAIN q : q[i] = r}
<1>1. CASE r \in ToSet(q)
  <2>1. PICK i \in DOMAIN q : q[i] = r
    BY <1>1 DEF ToSet
  <2>2. at = {i}
    BY <2>1 DEF IsInjective
  <2> QED BY <1>1, <2>2, FS_Singleton
<1>2. CASE r \notin ToSet(q)
  <2>1. at = {}
    BY <1>2 DEF ToSet
  <2> QED BY <1>2, <2>1, FS_EmptySet
<1> QED BY <1>1, <1>2

(* Where the elements of K are in a queue, and how many.                   *)
PositionsOf(q, K) == {i \in DOMAIN q : q[i] \in K}
HowMany(q, K)   == Cardinality(PositionsOf(q, K))

LEMMA PositionsAreFinite ==
  ASSUME NEW S, NEW q \in Seq(S), NEW K
  PROVE  /\ IsFiniteSet(PositionsOf(q, K))
         /\ HowMany(q, K) \in Nat
         /\ HowMany(q, K) = 0 <=> ToSet(q) \cap K = {}
<1>1. DOMAIN q = 1..Len(q) /\ Len(q) \in Nat
  BY LenProperties
<1>2. IsFiniteSet(1..Len(q)) /\ PositionsOf(q, K) \in SUBSET (1..Len(q))
  BY <1>1, FS_Interval DEF PositionsOf
<1>3. IsFiniteSet(PositionsOf(q, K))
  BY <1>2, FS_Subset
<1>4. HowMany(q, K) \in Nat /\ (HowMany(q, K) = 0 <=> PositionsOf(q, K) = {})
  BY <1>3, FS_CardinalityType, FS_EmptySet DEF HowMany
<1>5. PositionsOf(q, K) = {} <=> ToSet(q) \cap K = {}
  BY DEF PositionsOf, ToSet
<1> QED BY <1>3, <1>4, <1>5

LEMMA NoneInEmpty ==
  ASSUME NEW K
  PROVE  HowMany(<<>>, K) = 0
<1>1. PositionsOf(<<>>, K) = {}
  BY DEF PositionsOf
<1> QED BY <1>1, FS_EmptySet DEF HowMany

LEMMA HowManyAppended ==
  ASSUME NEW S, NEW q \in Seq(S), NEW t \in S, NEW K
  PROVE  HowMany(Append(q, t), K)
           = IF t \in K THEN HowMany(q, K) + 1 ELSE HowMany(q, K)
<1> DEFINE a == Append(q, t)
<1>1. /\ a \in Seq(S) /\ Len(a) = Len(q) + 1
      /\ \A i \in 1..Len(q) : a[i] = q[i]
      /\ a[Len(q) + 1] = t
  BY AppendProperties
<1>2. /\ DOMAIN q = 1..Len(q) /\ Len(q) \in Nat
      /\ DOMAIN a = 1..Len(q) + 1
  BY <1>1, LenProperties
<1> HIDE DEF a
<1>3. PositionsOf(a, K) = IF t \in K THEN PositionsOf(q, K) \cup {Len(q) + 1}
                        ELSE PositionsOf(q, K)
  BY <1>1, <1>2 DEF PositionsOf
<1>4. Len(q) + 1 \notin PositionsOf(q, K)
  BY <1>2 DEF PositionsOf
<1>5. IsFiniteSet(PositionsOf(q, K))
  BY PositionsAreFinite
<1>6. HowMany(a, K) = IF t \in K THEN HowMany(q, K) + 1 ELSE HowMany(q, K)
  BY <1>3, <1>4, <1>5, FS_AddElement DEF HowMany
<1> QED BY <1>6 DEF a

LEMMA HowManyInTail ==
  ASSUME NEW S, NEW q \in Seq(S), q # <<>>, NEW K
  PROVE  HowMany(q, K) = IF Head(q) \in K THEN HowMany(Tail(q), K) + 1
                         ELSE HowMany(Tail(q), K)
<1> DEFINE t == Tail(q)
<1>1. /\ Head(q) \in S /\ t \in Seq(S) /\ Len(t) = Len(q) - 1
      /\ \A i \in 1..Len(t) : t[i] = q[i + 1]
  BY HeadTailProperties
<1>2. /\ DOMAIN q = 1..Len(q) /\ Len(q) \in Nat /\ Len(q) > 0
      /\ DOMAIN t = 1..Len(q) - 1
  BY <1>1, LenProperties, EmptySeq
<1>3. Head(q) = q[1]
  BY HeadTailProperties
<1> HIDE DEF t
<1> DEFINE P == PositionsOf(t, K)
           f == [i \in P |-> i + 1]
           T == {i + 1 : i \in P}
<1>4. f \in Bijection(P, T)
  <2>1. P \subseteq Nat
    BY <1>2 DEF PositionsOf
  <2> HIDE DEF P
  <2>2. f \in [P -> T] /\ \A y \in T : \E i \in P : f[i] = y
    OBVIOUS
  <2>3. IsInjective(f)
    BY <2>1 DEF IsInjective
  <2> QED BY <2>2, <2>3 DEF Bijection, Injection, Surjection
<1>5. IsFiniteSet(P)
  BY <1>1, PositionsAreFinite
<1>6. IsFiniteSet(T) /\ Cardinality(T) = Cardinality(P)
  <2>1. ExistsBijection(P, T)
    BY <1>4 DEF ExistsBijection
  <2> HIDE DEF P, T, f
  <2> QED BY <1>5, <2>1, FS_Bijection
<1>7. PositionsOf(q, K) = IF Head(q) \in K THEN T \cup {1} ELSE T
  <2>1. ASSUME NEW i \in DOMAIN q, i # 1, q[i] \in K PROVE i \in T
    <3>1. i - 1 \in P /\ i = (i - 1) + 1
      BY <1>1, <1>2, <2>1 DEF PositionsOf
    <3> QED BY <3>1
  <2>2. ASSUME NEW i \in T PROVE i \in DOMAIN q /\ i # 1 /\ q[i] \in K
    BY <1>1, <1>2, <2>2 DEF PositionsOf
  <2>3. 1 \in DOMAIN q
    BY <1>2
  <2> QED BY <1>3, <2>1, <2>2, <2>3 DEF PositionsOf
<1>8. 1 \notin T
  BY <1>2 DEF PositionsOf
<1>9. Cardinality(T \cup {1}) = Cardinality(T) + 1
  <2> HIDE DEF T
  <2> QED BY <1>6, <1>8, FS_AddElement
<1>10. Cardinality(P) \in Nat
  BY <1>5, FS_CardinalityType
<1> HIDE DEF T, P
<1>11. HowMany(q, K) = IF Head(q) \in K THEN Cardinality(P) + 1 ELSE Cardinality(P)
  BY <1>6, <1>7, <1>9 DEF HowMany
<1> QED BY <1>11 DEF HowMany, P, t

-----------------------------------------------------------------------------
(* What keeps uv_run() going.                                              *)
KeepingAlive(H, S) == {h \in S : {"active", "ref"} \subseteq H.flags[h]}

HandleRecords(S) ==
  [flags : [S -> SUBSET Flags], count : Int, closing : Seq(S), doomed : Seq(S)]

CountsItsHandles(H, S) ==
  /\ H \in HandlesOf(S)
  /\ H.count = Cardinality(KeepingAlive(H, S))

(* H with other flags for h, and with the count that goes with them.       *)
Reflagged(H, S, h, f, R) ==
  /\ CountsItsHandles(R, S)
  /\ R.flags = [H.flags EXCEPT ![h] = f]
  /\ R.closing = H.closing /\ R.doomed = H.doomed

LEMMA HoldingIsFinite ==
  ASSUME NEW S, IsFiniteSet(S), NEW H
  PROVE  /\ IsFiniteSet(KeepingAlive(H, S))
         /\ Cardinality(KeepingAlive(H, S)) \in 0..Cardinality(S)
<1>1. KeepingAlive(H, S) \in SUBSET S
  BY DEF KeepingAlive
<1>2. /\ IsFiniteSet(KeepingAlive(H, S))
      /\ Cardinality(KeepingAlive(H, S)) <= Cardinality(S)
  BY <1>1, FS_Subset
<1>3. Cardinality(KeepingAlive(H, S)) \in Nat /\ Cardinality(S) \in Nat
  BY <1>2, FS_CardinalityType
<1> QED BY <1>2, <1>3

(* The count of a record whose flags differ for one handle.                *)
LEMMA OneFlagChanges ==
  ASSUME NEW S, IsFiniteSet(S), NEW H, CountsItsHandles(H, S),
         NEW h \in S, NEW f \in SUBSET Flags, NEW R,
         R \in HandleRecords(S),
         R.flags = [H.flags EXCEPT ![h] = f],
         R.closing = H.closing, R.doomed = H.doomed,
         LET was == {"active", "ref"} \subseteq H.flags[h]
             is  == {"active", "ref"} \subseteq f
         IN R.count = IF is = was THEN H.count
                      ELSE IF is THEN H.count + 1 ELSE H.count - 1
  PROVE  Reflagged(H, S, h, f, R)
<1>1. /\ H.flags \in [S -> SUBSET Flags]
      /\ H.closing \in Seq(S) /\ H.doomed \in Seq(S)
      /\ H.count = Cardinality(KeepingAlive(H, S))
  BY DEF CountsItsHandles, HandlesOf
<1>2. /\ R.flags = [H.flags EXCEPT ![h] = f]
      /\ R.flags \in [S -> SUBSET Flags]
      /\ R.closing = H.closing /\ R.doomed = H.doomed
  BY <1>1 DEF HandleRecords
<1>3. KeepingAlive(R, S) = IF {"active", "ref"} \subseteq f
                      THEN KeepingAlive(H, S) \cup {h} ELSE KeepingAlive(H, S) \ {h}
  BY <1>1, <1>2 DEF KeepingAlive
<1>4. h \in KeepingAlive(H, S) <=> {"active", "ref"} \subseteq H.flags[h]
  BY DEF KeepingAlive
<1>5. /\ IsFiniteSet(KeepingAlive(H, S)) /\ Cardinality(KeepingAlive(H, S)) \in Nat
  BY HoldingIsFinite, FS_CardinalityType
<1>6. /\ Cardinality(KeepingAlive(H, S) \cup {h})
           = IF h \in KeepingAlive(H, S) THEN Cardinality(KeepingAlive(H, S))
             ELSE Cardinality(KeepingAlive(H, S)) + 1
      /\ Cardinality(KeepingAlive(H, S) \ {h})
           = IF h \in KeepingAlive(H, S) THEN Cardinality(KeepingAlive(H, S)) - 1
             ELSE Cardinality(KeepingAlive(H, S))
  BY <1>5, FS_AddElement, FS_RemoveElement
<1>7. R.count = Cardinality(KeepingAlive(R, S))
  BY <1>1, <1>3, <1>4, <1>6
<1>8. R.count \in 0..Cardinality(S)
  BY <1>7, HoldingIsFinite
<1>9. R \in HandlesOf(S)
  BY <1>1, <1>2, <1>8 DEF HandlesOf, HandleRecords
<1> QED BY <1>2, <1>7, <1>9 DEF CountsItsHandles, Reflagged

LEMMA FreshCounts ==
  ASSUME NEW S, IsFiniteSet(S)
  PROVE  CountsItsHandles(Fresh(S), S)
<1>1. KeepingAlive(Fresh(S), S) = {}
  BY DEF KeepingAlive, Fresh
<1>2. Cardinality(KeepingAlive(Fresh(S), S)) = 0
  BY <1>1, FS_EmptySet
<1>3. 0 \in 0..Cardinality(S)
  BY FS_CardinalityType
<1> QED BY <1>2, <1>3 DEF CountsItsHandles, HandlesOf, Fresh, Flags

-----------------------------------------------------------------------------
(* The operators on the flags of a handle.                                 *)
LEMMA RaiseSets ==
  ASSUME NEW S, NEW H \in HandleRecords(S), NEW h \in S, NEW c \in Flags
  PROVE  LET R == Raise(H, h, c)
         IN /\ R \in HandleRecords(S)
            /\ R.flags = [H.flags EXCEPT ![h] = @ \cup {c}]
            /\ R.count = H.count /\ R.closing = H.closing
            /\ R.doomed = H.doomed
BY DEF HandleRecords, Raise

LEMMA LowerSets ==
  ASSUME NEW S, NEW H \in HandleRecords(S), NEW h \in S, NEW c \in Flags
  PROVE  LET R == Lower(H, h, c)
         IN /\ R \in HandleRecords(S)
            /\ R.flags = [H.flags EXCEPT ![h] = @ \ {c}]
            /\ R.count = H.count /\ R.closing = H.closing
            /\ R.doomed = H.doomed
BY DEF HandleRecords, Lower

LEMMA CountSets ==
  ASSUME NEW S, NEW H \in HandleRecords(S), NEW n \in Int
  PROVE  LET R == [H EXCEPT !.count = n]
         IN /\ R \in HandleRecords(S) /\ R.flags = H.flags
            /\ R.count = n /\ R.closing = H.closing
            /\ R.doomed = H.doomed
BY DEF HandleRecords

LEMMA FlagsOfOthers ==
  ASSUME NEW S, NEW H, CountsItsHandles(H, S), NEW h \in S, NEW f, NEW R,
         Reflagged(H, S, h, f, R)
  PROVE  /\ R.flags[h] = f /\ \A g \in S : g # h => R.flags[g] = H.flags[g]
         /\ CountsItsHandles(R, S)
         /\ R.closing = H.closing /\ R.doomed = H.doomed
<1>1. R.flags[h] = f /\ \A g \in S : g # h => R.flags[g] = H.flags[g]
  BY DEF Reflagged, CountsItsHandles, HandlesOf
<1> QED BY <1>1 DEF Reflagged

(* A flag that counts is given.                                            *)
LEMMA RaisedOnceCounts ==
  ASSUME NEW S, IsFiniteSet(S), NEW H, CountsItsHandles(H, S), NEW h \in S,
         NEW c \in {"active", "ref"}
  PROVE  LET A == Raise(H, h, c)
         IN Reflagged(H, S, h, H.flags[h] \cup {c},
                      IF c \in H.flags[h] THEN H
                      ELSE [A EXCEPT !.count = Counted(A, h, 1)])
<1> DEFINE f == H.flags[h] \cup {c}
           A == Raise(H, h, c)
           n == Counted(A, h, 1)
           R == IF c \in H.flags[h] THEN H ELSE [A EXCEPT !.count = n]
<1>1. /\ H \in HandleRecords(S) /\ f \in SUBSET Flags
      /\ H.flags \in [S -> SUBSET Flags]
  <2>1. H \in HandlesOf(S)
    BY DEF CountsItsHandles
  <2>2. 0..Cardinality(S) \subseteq Int
    OBVIOUS
  <2> QED BY <2>1, <2>2 DEF HandlesOf, HandleRecords, Flags
<1>2. c \in Flags /\ H.count \in Int
  BY <1>1 DEF Flags, HandleRecords
<1>3. /\ A \in HandleRecords(S) /\ A.flags = [H.flags EXCEPT ![h] = f]
      /\ A.count = H.count /\ A.closing = H.closing
      /\ A.doomed = H.doomed
  BY <1>1, <1>2, RaiseSets
<1>4. A.flags[h] = f
  BY <1>1, <1>3
<1> HIDE DEF A
<1>5. n = (IF {"active", "ref"} \subseteq f THEN H.count + 1 ELSE H.count) /\ n \in Int
  BY <1>2, <1>3, <1>4 DEF Counted
<1>6. R = IF c \in H.flags[h] THEN H ELSE [A EXCEPT !.count = n]
  OBVIOUS
<1> HIDE DEF n, R, f
<1>7. ASSUME c \in H.flags[h] PROVE Reflagged(H, S, h, f, R)
  <2>1. R = H /\ f = H.flags[h]
    BY <1>6, <1>7 DEF f
  <2>2. R.flags = [H.flags EXCEPT ![h] = f]
    BY <1>1, <2>1
  <2> QED BY <1>1, <2>1, <2>2, OneFlagChanges DEF R, f
<1>8. ASSUME c \notin H.flags[h] PROVE Reflagged(H, S, h, f, R)
  <2>1. R = [A EXCEPT !.count = n]
    BY <1>6, <1>8
  <2>2. /\ R \in HandleRecords(S) /\ R.flags = [H.flags EXCEPT ![h] = f]
        /\ R.count = n /\ R.closing = H.closing /\ R.doomed = H.doomed
    BY <1>3, <1>5, <2>1, CountSets
  <2>3. ~({"active", "ref"} \subseteq H.flags[h])
    BY <1>8
  <2> QED BY <1>1, <1>5, <2>2, <2>3, OneFlagChanges DEF R, f
<1>9. Reflagged(H, S, h, f, R)
  BY <1>7, <1>8 DEF f
<1> QED BY <1>9 DEF R, f, n, A

LEMMA StartedCounts ==
  ASSUME NEW S, IsFiniteSet(S), NEW H, CountsItsHandles(H, S), NEW h \in S
  PROVE  Reflagged(H, S, h, H.flags[h] \cup {"active"}, Started(H, h))
BY RaisedOnceCounts DEF Started

LEMMA ReffedCounts ==
  ASSUME NEW S, IsFiniteSet(S), NEW H, CountsItsHandles(H, S), NEW h \in S
  PROVE  Reflagged(H, S, h, H.flags[h] \cup {"ref"}, Reffed(H, h))
BY RaisedOnceCounts DEF Reffed

(* A flag that counts is taken away.                                       *)
LEMMA LoweredCounts ==
  ASSUME NEW S, IsFiniteSet(S), NEW H, CountsItsHandles(H, S), NEW h \in S,
         NEW c \in {"active", "ref"}
  PROVE  Reflagged(H, S, h, H.flags[h] \ {c},
                   Lower([H EXCEPT !.count = Counted(H, h, -1)], h, c))
<1> DEFINE f == H.flags[h] \ {c}
           n == Counted(H, h, -1)
           A == [H EXCEPT !.count = n]
           R == Lower(A, h, c)
<1>1. /\ H \in HandleRecords(S) /\ f \in SUBSET Flags
      /\ H.flags \in [S -> SUBSET Flags]
  <2>1. H \in HandlesOf(S)
    BY DEF CountsItsHandles
  <2>2. 0..Cardinality(S) \subseteq Int
    OBVIOUS
  <2> QED BY <2>1, <2>2 DEF HandlesOf, HandleRecords, Flags
<1>2. c \in Flags /\ H.count \in Int
  BY <1>1 DEF Flags, HandleRecords
<1>3. n = (IF {"active", "ref"} \subseteq H.flags[h] THEN H.count - 1 ELSE H.count) /\ n \in Int
  BY <1>2 DEF Counted
<1> HIDE DEF n
<1>4. /\ A \in HandleRecords(S) /\ A.flags = H.flags
      /\ A.count = n /\ A.closing = H.closing /\ A.doomed = H.doomed
  BY <1>1, <1>3, CountSets
<1> HIDE DEF A
<1>5. /\ R \in HandleRecords(S) /\ R.flags = [H.flags EXCEPT ![h] = f]
      /\ R.count = n /\ R.closing = H.closing /\ R.doomed = H.doomed
  BY <1>2, <1>4, LowerSets
<1>6. ~({"active", "ref"} \subseteq f)
  OBVIOUS
<1> HIDE DEF R, f
<1>7. Reflagged(H, S, h, f, R)
  BY <1>1, <1>3, <1>5, <1>6, OneFlagChanges
<1> QED BY <1>7 DEF f, R, A, n

LEMMA StoppedCounts ==
  ASSUME NEW S, IsFiniteSet(S), NEW H, CountsItsHandles(H, S), NEW h \in S
  PROVE  Reflagged(H, S, h, H.flags[h] \ {"active"}, Stopped(H, h))
BY LoweredCounts DEF Stopped

LEMMA UnreffedCounts ==
  ASSUME NEW S, IsFiniteSet(S), NEW H, CountsItsHandles(H, S), NEW h \in S
  PROVE  Reflagged(H, S, h, H.flags[h] \ {"ref"}, Unreffed(H, h))
BY LoweredCounts DEF Unreffed

(* A flag that does not count.                                             *)
LEMMA RaisedCounts ==
  ASSUME NEW S, IsFiniteSet(S), NEW H, CountsItsHandles(H, S), NEW h \in S,
         NEW c \in {"closing", "closed"}
  PROVE  Reflagged(H, S, h, H.flags[h] \cup {c}, Raise(H, h, c))
<1> DEFINE f == H.flags[h] \cup {c}
           R == Raise(H, h, c)
<1>1. /\ H \in HandlesOf(S) /\ f \in SUBSET Flags
      /\ H.flags[h] \in SUBSET Flags
  BY DEF CountsItsHandles, HandlesOf, Flags
<1>2. /\ R \in HandleRecords(S)
      /\ R.flags = [H.flags EXCEPT ![h] = f]
      /\ R.closing = H.closing /\ R.doomed = H.doomed
      /\ R.count = H.count
  BY <1>1 DEF HandlesOf, HandleRecords, Raise
<1>3. {"active", "ref"} \subseteq H.flags[h] <=> {"active", "ref"} \subseteq f
  OBVIOUS
<1> HIDE DEF f, R
<1> QED BY <1>1, <1>2, <1>3, OneFlagChanges DEF f, R

(* uv_*_init() on memory that was closed: it is not referenced.            *)
LEMMA InitializedCounts ==
  ASSUME NEW S, IsFiniteSet(S), NEW H, CountsItsHandles(H, S), NEW h \in S,
         "ref" \notin H.flags[h]
  PROVE  Reflagged(H, S, h, {"ref"}, Initialized(H, h))
<1> DEFINE R == Initialized(H, h)
<1>1. H \in HandlesOf(S) /\ {"ref"} \in SUBSET Flags
  BY DEF CountsItsHandles, HandlesOf, Flags
<1>2. /\ R \in HandleRecords(S)
      /\ R.flags = [H.flags EXCEPT ![h] = {"ref"}]
      /\ R.closing = H.closing /\ R.doomed = H.doomed
      /\ R.count = H.count
  BY <1>1 DEF HandlesOf, HandleRecords, Initialized
<1> HIDE DEF R
<1> QED BY <1>1, <1>2, OneFlagChanges DEF R

-----------------------------------------------------------------------------
(* The operators on the lists of handles to be closed.                     *)
LEMMA MovedCounts ==
  ASSUME NEW S, NEW H, CountsItsHandles(H, S), NEW R \in HandleRecords(S),
         R.flags = H.flags, R.count = H.count
  PROVE  CountsItsHandles(R, S)
<1>1. KeepingAlive(R, S) = KeepingAlive(H, S)
  BY DEF KeepingAlive
<1>2. R \in HandlesOf(S)
  BY DEF CountsItsHandles, HandlesOf, HandleRecords
<1> QED BY <1>1, <1>2 DEF CountsItsHandles

LEMMA PendingCounts ==
  ASSUME NEW S, NEW H, CountsItsHandles(H, S), NEW h \in S
  PROVE  LET R == MakeClosePending(H, h)
         IN /\ CountsItsHandles(R, S)
            /\ R.flags = H.flags /\ R.doomed = H.doomed
            /\ ToSet(R.closing) = ToSet(H.closing) \cup {h}
            /\ IsInjective(H.closing) /\ h \notin ToSet(H.closing) =>
                 IsInjective(R.closing)
<1> DEFINE c == <<h>> \o H.closing
<1>1. H \in HandlesOf(S)
  BY DEF CountsItsHandles
<1>2. /\ c \in Seq(S) /\ ToSet(c) = ToSet(H.closing) \cup {h}
      /\ IsInjective(H.closing) /\ h \notin ToSet(H.closing) => IsInjective(c)
  BY <1>1, PushElements DEF HandlesOf
<1> DEFINE R == MakeClosePending(H, h)
<1>3. R = [H EXCEPT !.closing = c]
  BY DEF MakeClosePending
<1> HIDE DEF c, R
<1>4. /\ R \in HandleRecords(S) /\ R.flags = H.flags /\ R.count = H.count
      /\ R.closing = c /\ R.doomed = H.doomed
  BY <1>1, <1>2, <1>3 DEF HandlesOf, HandleRecords
<1>5. CountsItsHandles(R, S)
  BY <1>4, MovedCounts
<1> QED BY <1>2, <1>4, <1>5 DEF c, R

(* A handle is put on the list to be closed, or not.                       *)
ListedIf(A, S, h, D, R) ==
  /\ CountsItsHandles(R, S) /\ R.flags = A.flags /\ R.doomed = A.doomed
  /\ ToSet(R.closing) = IF D THEN ToSet(A.closing) \cup {h} ELSE ToSet(A.closing)
  /\ IsInjective(R.closing)

LEMMA PendingIf ==
  ASSUME NEW S, NEW A, CountsItsHandles(A, S), IsInjective(A.closing),
         NEW h \in S, h \notin ToSet(A.closing), NEW D \in BOOLEAN,
         NEW R, R = IF D THEN MakeClosePending(A, h) ELSE A
  PROVE  ListedIf(A, S, h, D, R)
<1> USE DEF ListedIf
<1>1. CASE D
  <2> DEFINE M == MakeClosePending(A, h)
  <2>1. /\ CountsItsHandles(M, S) /\ M.flags = A.flags /\ M.doomed = A.doomed
        /\ ToSet(M.closing) = ToSet(A.closing) \cup {h}
        /\ IsInjective(M.closing)
    BY PendingCounts
  <2>2. R = M
    BY <1>1
  <2> HIDE DEF M
  <2> QED BY <1>1, <2>1, <2>2
<1>2. CASE ~D
  BY <1>2
<1> QED BY <1>1, <1>2

LEMMA TakenCounts ==
  ASSUME NEW S, NEW H, CountsItsHandles(H, S)
  PROVE  LET R == TakeClosing(H)
         IN /\ CountsItsHandles(R, S)
            /\ R.flags = H.flags /\ R.doomed = H.closing /\ R.closing = <<>>
<1>1. H \in HandlesOf(S)
  BY DEF CountsItsHandles
<1> DEFINE R == TakeClosing(H)
           n == <<>>
<1>2. H \in HandleRecords(S) /\ n \in Seq(S)
  BY <1>1 DEF HandlesOf, HandleRecords
<1>3. R = [H EXCEPT !.doomed = H.closing, !.closing = n]
  BY DEF TakeClosing
<1> HIDE DEF R, n
<1>4. /\ R \in HandleRecords(S) /\ R.flags = H.flags /\ R.count = H.count
      /\ R.closing = n /\ R.doomed = H.closing
  BY <1>2, <1>3 DEF HandleRecords
<1>5. CountsItsHandles(R, S)
  BY <1>4, MovedCounts
<1> QED BY <1>4, <1>5 DEF R, n

LEMMA FinishedCounts ==
  ASSUME NEW S, IsFiniteSet(S), NEW H, CountsItsHandles(H, S),
         H.doomed # <<>>
  PROVE  LET R == FinishClose(H)
             p == Head(H.doomed)
         IN /\ p \in S
            /\ CountsItsHandles(R, S)
            /\ R.flags = [H.flags EXCEPT ![p] = (@ \cup {"closed"}) \ {"ref"}]
            /\ R.doomed = Tail(H.doomed) /\ R.closing = H.closing
<1> DEFINE p == Head(H.doomed)
           d == Tail(H.doomed)
           A == [H EXCEPT !.doomed = d]
           B == Raise(A, p, "closed")
           R == Unreffed(B, p)
<1>1. H \in HandlesOf(S) /\ H.flags \in [S -> SUBSET Flags]
  BY DEF CountsItsHandles, HandlesOf
<1>2. p \in S /\ d \in Seq(S) /\ H \in HandleRecords(S)
  BY <1>1, TailElements DEF HandlesOf, HandleRecords
<1> HIDE DEF d
<1>3. /\ A \in HandleRecords(S) /\ A.flags = H.flags /\ A.count = H.count
      /\ A.closing = H.closing /\ A.doomed = d
  BY <1>2 DEF HandleRecords
<1>4. /\ CountsItsHandles(A, S) /\ A.flags = H.flags
      /\ A.closing = H.closing /\ A.doomed = d
  <2> HIDE DEF A, p
  <2> QED BY <1>3, MovedCounts
<1> HIDE DEF A
<1>5. Reflagged(A, S, p, A.flags[p] \cup {"closed"}, B)
  <2> HIDE DEF p
  <2> QED BY <1>2, <1>4, RaisedCounts
<1> HIDE DEF B
<1>6. CountsItsHandles(B, S)
  BY <1>5 DEF Reflagged
<1>7. Reflagged(B, S, p, B.flags[p] \ {"ref"}, R)
  <2> HIDE DEF p
  <2> QED BY <1>2, <1>6, UnreffedCounts
<1>8. R = FinishClose(H)
  BY DEF FinishClose, A, B, d
<1> HIDE DEF R, p
<1>9. /\ R.closing = H.closing /\ R.doomed = Tail(H.doomed)
      /\ CountsItsHandles(R, S)
  BY <1>4, <1>5, <1>7 DEF Reflagged, d
<1>10. R.flags = [H.flags EXCEPT ![p] = (@ \cup {"closed"}) \ {"ref"}]
  BY <1>1, <1>2, <1>4, <1>5, <1>7 DEF Reflagged
<1> QED BY <1>2, <1>8, <1>9, <1>10 DEF p

(* How often a handle is to be called back.                                *)
LEMMA CallsOnce ==
  ASSUME NEW S, NEW H, H \in HandlesOf(S), NEW h,
         IsInjective(H.closing), IsInjective(H.doomed),
         ToSet(H.closing) \cap ToSet(H.doomed) = {}
  PROVE  CloseCalls(H, h) =
           IF h \in ToSet(H.closing) \cup ToSet(H.doomed) THEN 1 ELSE 0
<1>1. H.closing \in Seq(S) /\ H.doomed \in Seq(S)
  BY DEF HandlesOf
<1>2. /\ Cardinality({i \in DOMAIN H.closing : H.closing[i] = h})
           = IF h \in ToSet(H.closing) THEN 1 ELSE 0
      /\ Cardinality({i \in DOMAIN H.doomed : H.doomed[i] = h})
           = IF h \in ToSet(H.doomed) THEN 1 ELSE 0
  BY <1>1, OccursOnce
<1> QED BY <1>2 DEF CloseCalls

-----------------------------------------------------------------------------
(* The handles of a loop in the states between the calls of a program: the *)
(* flags fit together, and uv_close() has put those and only those that    *)
(* are closing on one of the lists.                                        *)
FlagsFit(H, S) ==
  \A h \in S :
     /\ IsClosed(H, h) => ~IsUsable(H, h) /\ "ref" \notin H.flags[h]
     /\ IsActive(H, h) => IsUsable(H, h)

ListsFit(H, S) ==
  /\ IsInjective(H.closing) /\ IsInjective(H.doomed)
  /\ ToSet(H.closing) \cap ToSet(H.doomed) = {}
  /\ \A h \in S :
        h \in ToSet(H.closing) \cup ToSet(H.doomed) <=> IsClosing(H, h)

HandlesFit(H, S) ==
  /\ IsFiniteSet(S) /\ CountsItsHandles(H, S)
  /\ FlagsFit(H, S) /\ ListsFit(H, S)

(* R is H with the flags f for h.                                          *)
FitsWith(H, S, h, f, R) ==
  /\ HandlesFit(R, S)
  /\ R.flags[h] = f /\ \A g \in S : g # h => R.flags[g] = H.flags[g]
  /\ R.closing = H.closing /\ R.doomed = H.doomed

LEMMA FitTypes ==
  ASSUME NEW S, NEW H, HandlesFit(H, S), NEW h \in S
  PROVE  /\ H.flags \in [S -> SUBSET Flags] /\ H.flags[h] \in SUBSET Flags
         /\ H.closing \in Seq(S) /\ H.doomed \in Seq(S)
BY DEF HandlesFit, CountsItsHandles, HandlesOf

(* uv__handle_start()                                                      *)
LEMMA StartedFits ==
  ASSUME NEW S, NEW H, HandlesFit(H, S), NEW h \in S, IsUsable(H, h)
  PROVE  FitsWith(H, S, h, H.flags[h] \cup {"active"}, Started(H, h))
<1> DEFINE f == H.flags[h] \cup {"active"}
           R == Started(H, h)
<1>1. Reflagged(H, S, h, f, R) /\ CountsItsHandles(H, S)
  BY StartedCounts DEF HandlesFit
<1> HIDE DEF R, f
<1>2. /\ R.flags[h] = f /\ \A g \in S : g # h => R.flags[g] = H.flags[g]
      /\ CountsItsHandles(R, S)
      /\ R.closing = H.closing /\ R.doomed = H.doomed
  BY <1>1, FlagsOfOthers
<1>3. FlagsFit(R, S)
  BY <1>2 DEF HandlesFit, FlagsFit, IsClosed, IsUsable, IsActive, f
<1>4. ListsFit(R, S)
  BY <1>2 DEF HandlesFit, ListsFit, IsClosing, IsUsable, f
<1> QED BY <1>2, <1>3, <1>4 DEF FitsWith, HandlesFit, R, f

(* uv__handle_stop(), uv__handle_unref()                                   *)
LEMMA LoweredFits ==
  ASSUME NEW S, NEW H, HandlesFit(H, S), NEW h \in S, NEW c \in {"active", "ref"},
         NEW R, Reflagged(H, S, h, H.flags[h] \ {c}, R)
  PROVE  FitsWith(H, S, h, H.flags[h] \ {c}, R)
<1> DEFINE f == H.flags[h] \ {c}
<1> HIDE DEF f
<1>1. /\ R.flags[h] = f /\ \A g \in S : g # h => R.flags[g] = H.flags[g]
      /\ CountsItsHandles(R, S)
      /\ R.closing = H.closing /\ R.doomed = H.doomed
  BY FlagsOfOthers DEF f, HandlesFit
<1>2. FlagsFit(R, S)
  BY <1>1 DEF HandlesFit, FlagsFit, IsClosed, IsUsable, IsActive, f
<1>3. ListsFit(R, S)
  BY <1>1 DEF HandlesFit, ListsFit, IsClosing, f
<1> QED BY <1>1, <1>2, <1>3 DEF FitsWith, HandlesFit, f

LEMMA StoppedFits ==
  ASSUME NEW S, NEW H, HandlesFit(H, S), NEW h \in S
  PROVE  FitsWith(H, S, h, H.flags[h] \ {"active"}, Stopped(H, h))
<1>1. Reflagged(H, S, h, H.flags[h] \ {"active"}, Stopped(H, h))
  BY StoppedCounts DEF HandlesFit
<1> QED BY <1>1, LoweredFits

LEMMA UnreffedFits ==
  ASSUME NEW S, NEW H, HandlesFit(H, S), NEW h \in S
  PROVE  FitsWith(H, S, h, H.flags[h] \ {"ref"}, Unreffed(H, h))
<1>1. Reflagged(H, S, h, H.flags[h] \ {"ref"}, Unreffed(H, h))
  BY UnreffedCounts DEF HandlesFit
<1> QED BY <1>1, LoweredFits

(* uv__handle_ref()                                                        *)
LEMMA ReffedFits ==
  ASSUME NEW S, NEW H, HandlesFit(H, S), NEW h \in S, ~IsClosed(H, h)
  PROVE  FitsWith(H, S, h, H.flags[h] \cup {"ref"}, Reffed(H, h))
<1> DEFINE f == H.flags[h] \cup {"ref"}
           R == Reffed(H, h)
<1>1. Reflagged(H, S, h, f, R) /\ CountsItsHandles(H, S)
  BY ReffedCounts DEF HandlesFit
<1> HIDE DEF R, f
<1>2. /\ R.flags[h] = f /\ \A g \in S : g # h => R.flags[g] = H.flags[g]
      /\ CountsItsHandles(R, S)
      /\ R.closing = H.closing /\ R.doomed = H.doomed
  BY <1>1, FlagsOfOthers
<1>3. FlagsFit(R, S)
  BY <1>2 DEF HandlesFit, FlagsFit, IsClosed, IsUsable, IsActive, f
<1>4. ListsFit(R, S)
  BY <1>2 DEF HandlesFit, ListsFit, IsClosing, f
<1> QED BY <1>2, <1>3, <1>4 DEF FitsWith, HandlesFit, R, f

(* uv_*_init(), on memory that was never used or of a closed handle        *)
LEMMA InitializedFits ==
  ASSUME NEW S, NEW H, HandlesFit(H, S), NEW h \in S,
         ~IsClosing(H, h), "ref" \notin H.flags[h]
  PROVE  FitsWith(H, S, h, {"ref"}, Initialized(H, h))
<1> DEFINE R == Initialized(H, h)
<1>1. Reflagged(H, S, h, {"ref"}, R) /\ CountsItsHandles(H, S)
  BY InitializedCounts DEF HandlesFit
<1> HIDE DEF R
<1>2. /\ R.flags[h] = {"ref"} /\ \A g \in S : g # h => R.flags[g] = H.flags[g]
      /\ CountsItsHandles(R, S)
      /\ R.closing = H.closing /\ R.doomed = H.doomed
  BY <1>1, FlagsOfOthers
<1>3. FlagsFit(R, S)
  BY <1>2 DEF HandlesFit, FlagsFit, IsClosed, IsUsable, IsActive
<1>4. ListsFit(R, S)
  BY <1>2 DEF HandlesFit, ListsFit, IsClosing
<1> QED BY <1>2, <1>3, <1>4 DEF FitsWith, HandlesFit, R

(* The flags of a closed handle are cleared.                               *)
LEMMA ClearedFits ==
  ASSUME NEW S, NEW H, HandlesFit(H, S), NEW h \in S, IsClosed(H, h)
  PROVE  FitsWith(H, S, h, {}, [H EXCEPT !.flags[h] = {}])
<1> DEFINE R == [H EXCEPT !.flags[h] = {}]
<1>1. /\ CountsItsHandles(H, S) /\ IsFiniteSet(S) /\ "ref" \notin H.flags[h]
      /\ H \in HandleRecords(S)
  BY DEF HandlesFit, FlagsFit, CountsItsHandles, HandlesOf, HandleRecords
<1>2. /\ R \in HandleRecords(S) /\ R.flags = [H.flags EXCEPT ![h] = {}]
      /\ R.closing = H.closing /\ R.doomed = H.doomed /\ R.count = H.count
  BY <1>1 DEF HandleRecords
<1> HIDE DEF R
<1>3. Reflagged(H, S, h, {}, R)
  BY <1>1, <1>2, OneFlagChanges
<1>4. /\ R.flags[h] = {} /\ \A g \in S : g # h => R.flags[g] = H.flags[g]
      /\ CountsItsHandles(R, S)
      /\ R.closing = H.closing /\ R.doomed = H.doomed
  BY <1>1, <1>3, FlagsOfOthers
<1>5. FlagsFit(R, S)
  BY <1>4 DEF HandlesFit, FlagsFit, IsClosed, IsUsable, IsActive
<1>6. ListsFit(R, S)
  BY <1>4 DEF HandlesFit, ListsFit, IsClosing, IsClosed
<1> QED BY <1>1, <1>4, <1>5, <1>6 DEF FitsWith, HandlesFit, R

(* uv_close(), for a type that only has to stop the handle                 *)
LEMMA ClosingFits ==
  ASSUME NEW S, NEW H, HandlesFit(H, S), NEW h \in S, IsUsable(H, h)
  PROVE  LET R == MakeClosePending(Stopped(Closing(H, h), h), h)
         IN /\ HandlesFit(R, S) /\ R.doomed = H.doomed
            /\ R.flags[h] = (H.flags[h] \cup {"closing"}) \ {"active"}
            /\ \A g \in S : g # h => R.flags[g] = H.flags[g]
<1> DEFINE C == Closing(H, h)
           A == Stopped(C, h)
           R == MakeClosePending(A, h)
<1>1. /\ Reflagged(H, S, h, H.flags[h] \cup {"closing"}, C)
      /\ CountsItsHandles(H, S) /\ IsFiniteSet(S)
  BY RaisedCounts DEF Closing, HandlesFit
<1> HIDE DEF C
<1>2. /\ C.flags[h] = H.flags[h] \cup {"closing"}
      /\ \A g \in S : g # h => C.flags[g] = H.flags[g]
      /\ CountsItsHandles(C, S)
      /\ C.closing = H.closing /\ C.doomed = H.doomed
  BY <1>1, FlagsOfOthers
<1>3. Reflagged(C, S, h, C.flags[h] \ {"active"}, A)
  BY <1>1, <1>2, StoppedCounts
<1> HIDE DEF A
<1>4. /\ A.flags[h] = C.flags[h] \ {"active"}
      /\ \A g \in S : g # h => A.flags[g] = C.flags[g]
      /\ CountsItsHandles(A, S)
      /\ A.closing = C.closing /\ A.doomed = C.doomed
  BY <1>2, <1>3, FlagsOfOthers
<1>5. h \notin ToSet(H.closing) /\ h \notin ToSet(H.doomed) /\ ~IsClosed(H, h)
  BY DEF HandlesFit, ListsFit, FlagsFit, IsClosing, IsUsable
<1>6. /\ CountsItsHandles(R, S)
      /\ R.flags = A.flags /\ R.doomed = A.doomed
      /\ ToSet(R.closing) = ToSet(A.closing) \cup {h}
      /\ IsInjective(A.closing) /\ h \notin ToSet(A.closing) => IsInjective(R.closing)
  BY <1>4, PendingCounts
<1> HIDE DEF R
<1>7. /\ R.flags[h] = (H.flags[h] \cup {"closing"}) \ {"active"}
      /\ \A g \in S : g # h => R.flags[g] = H.flags[g]
      /\ R.doomed = H.doomed
      /\ ToSet(R.closing) = ToSet(H.closing) \cup {h}
  BY <1>2, <1>4, <1>6
<1>8. IsInjective(R.closing)
  BY <1>2, <1>4, <1>5, <1>6 DEF HandlesFit, ListsFit
<1>9. FlagsFit(R, S)
  BY <1>5, <1>7 DEF HandlesFit, FlagsFit, IsClosed, IsUsable, IsActive
<1>10. ListsFit(R, S)
  BY <1>5, <1>7, <1>8 DEF HandlesFit, ListsFit, IsClosing, IsClosed
<1> QED BY <1>1, <1>6, <1>7, <1>9, <1>10 DEF HandlesFit, R, A, C

(* uv__run_closing_handles() takes the list.                               *)
LEMMA TakenFits ==
  ASSUME NEW S, NEW H, HandlesFit(H, S), H.doomed = <<>>
  PROVE  HandlesFit(TakeClosing(H), S) /\ TakeClosing(H).flags = H.flags
<1> DEFINE R == TakeClosing(H)
<1>1. /\ CountsItsHandles(R, S)
      /\ R.flags = H.flags /\ R.doomed = H.closing /\ R.closing = H.doomed
  BY TakenCounts DEF HandlesFit
<1> HIDE DEF R
<1>2. FlagsFit(R, S) /\ ListsFit(R, S)
  BY <1>1 DEF HandlesFit, FlagsFit, ListsFit, IsClosing, IsClosed, IsUsable, IsActive
<1> QED BY <1>1, <1>2 DEF HandlesFit, R

(* uv__finish_close()                                                      *)
FinishedWith(H, S, p, R) ==
  /\ p = Head(H.doomed) /\ IsClosing(H, p)
  /\ R.flags[p] = (H.flags[p] \cup {"closed"}) \ {"ref"}
  /\ \A g \in S : g # p => R.flags[g] = H.flags[g]

LEMMA FinishedFits ==
  ASSUME NEW S, NEW H, HandlesFit(H, S), H.doomed # <<>>
  PROVE  /\ HandlesFit(FinishClose(H), S) /\ Head(H.doomed) \in S
         /\ FinishedWith(H, S, Head(H.doomed), FinishClose(H))
<1> DEFINE R == FinishClose(H)
           p == Head(H.doomed)
<1>1. /\ CountsItsHandles(H, S) /\ IsFiniteSet(S)
      /\ H.flags \in [S -> SUBSET Flags] /\ H.doomed \in Seq(S)
  BY DEF HandlesFit, CountsItsHandles, HandlesOf
<1>2. /\ p \in S /\ CountsItsHandles(R, S)
      /\ R.flags = [H.flags EXCEPT ![p] = (@ \cup {"closed"}) \ {"ref"}]
      /\ R.doomed = Tail(H.doomed) /\ R.closing = H.closing
  BY <1>1, FinishedCounts
<1>3. /\ ToSet(H.doomed) = ToSet(Tail(H.doomed)) \cup {p}
      /\ IsInjective(H.doomed) =>
           IsInjective(Tail(H.doomed)) /\ p \notin ToSet(Tail(H.doomed))
  BY <1>1, TailElements
<1> HIDE DEF R, p
<1>4. /\ R.flags[p] = (H.flags[p] \cup {"closed"}) \ {"ref"}
      /\ \A g \in S : g # p => R.flags[g] = H.flags[g]
  BY <1>1, <1>2
<1>5. IsClosing(H, p)
  BY <1>2, <1>3 DEF HandlesFit, ListsFit
<1>6. FlagsFit(R, S)
  BY <1>4, <1>5 DEF HandlesFit, FlagsFit, IsClosed, IsUsable, IsActive, IsClosing
<1>7. ListsFit(R, S)
  <2>1. /\ IsInjective(R.closing) /\ IsInjective(R.doomed)
        /\ ToSet(R.closing) \cap ToSet(R.doomed) = {}
        /\ ToSet(R.closing) \cup ToSet(R.doomed)
             = (ToSet(H.closing) \cup ToSet(H.doomed)) \ {p}
    BY <1>2, <1>3 DEF HandlesFit, ListsFit
  <2> QED BY <1>2, <1>4, <1>5, <2>1 DEF HandlesFit, ListsFit, IsClosing
<1>8. HandlesFit(R, S)
  BY <1>1, <1>2, <1>6, <1>7 DEF HandlesFit
<1>9. FinishedWith(H, S, p, R)
  BY <1>4, <1>5 DEF FinishedWith, p
<1> QED BY <1>2, <1>8, <1>9 DEF R, p

LEMMA SomeHandleIsFinished ==
  ASSUME NEW S, NEW H, HandlesFit(H, S), H.doomed # <<>>, NEW R, R = FinishClose(H)
  PROVE  HandlesFit(R, S) /\ \E p \in S : FinishedWith(H, S, p, R)
BY FinishedFits

(* A handle is to be called back once from uv_close() until it is closed.  *)
LEMMA FitsCallOnce ==
  ASSUME NEW S, NEW H, HandlesFit(H, S), NEW h \in S
  PROVE  CloseCalls(H, h) = IF IsClosing(H, h) THEN 1 ELSE 0
BY CallsOnce DEF HandlesFit, ListsFit, CountsItsHandles
=============================================================================
