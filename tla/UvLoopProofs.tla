---------------------------- MODULE UvLoopProofs ----------------------------
(***************************************************************************)
(* Proofs about UvLoop for every set of handles, every bound and every     *)
(* program.                                                                *)
(*                                                                         *)
(* The argument is about the links of ngx-queue.h.  The sentinel of a      *)
(* queue and the active handles of its kind form a ring, and there are     *)
(* numbers for the nodes that grow along it up to the sentinel.  A foreach *)
(* follows the links from its cursor to the sentinel over handles stopped  *)
(* since it began, whose links are old, and then over a last part of the   *)
(* ring; the numbers grow along that way too.  A watcher that has to be    *)
(* called back is on it.                                                   *)
(***************************************************************************)
EXTENDS UvLoop, SharedLemmas

-----------------------------------------------------------------------------
(* The links n and p lead back and forth between the nodes of R.           *)
TwoWay(n, p, R) ==
  \A x \in R : /\ n[x] \in R /\ p[n[x]] = x
               /\ p[x] \in R /\ n[p[x]] = x

(* n leads each node of S but the last one, k, to the next one.            *)
InOrder(n, pos, S, k) ==
  /\ k \in S
  /\ \A x \in S : x # k => n[x] \in S /\ pos[x] < pos[k] /\ pos[x] < pos[n[x]]
  /\ \A x, y \in S : x # k => pos[y] <= pos[x] \/ pos[n[x]] <= pos[y]
  /\ \A x, y \in S : pos[x] = pos[y] => x = y

(* Other numbers: only for the nodes in X; in Shifted so that the nodes    *)
(* outside of R come before h, with x the last of them; in Moved so that x *)
(* takes the place of k, which goes behind it.                             *)
SameBut(N, X, pos, pos2) == \A y \in N : y \notin X => pos2[y] = pos[y]

Shifted(N, R, x, h, pos, pos2) ==
  /\ \A y \in R : pos2[y] = pos[y]
  /\ \A y \in N : y \notin R => pos2[y] = (pos[y] - pos[x]) + (pos[h] - 1)

Moved(N, x, k, pos, pos2) ==
  /\ pos2[x] = pos[k] /\ pos2[k] = pos[k] + 1
  /\ SameBut(N, {x, k}, pos, pos2)

(* The new links m and o after ngx_queue_insert_tail().                    *)
Appended(n, p, x, k, m, o) ==
  /\ m = [n EXCEPT ![x] = n[p[k]], ![p[k]] = x]
  /\ o = [p EXCEPT ![n[p[k]]] = x, ![x] = p[k]]

(* R is the queue of the sentinel k.                                       *)
Ring(n, p, pos, R, k) ==
  /\ TwoWay(n, p, R)
  /\ InOrder(n, pos, R, k)
  /\ \A y \in R : pos[n[k]] <= pos[y]

(* W is what a foreach over it still has ahead, from c on.                 *)
Walk(n, pos, R, W, k, c) ==
  /\ InOrder(n, pos, W, k)
  /\ c \in W /\ \A y \in W : pos[c] <= pos[y]
  /\ \A x \in W \cap R, y \in W : pos[x] <= pos[y] => y \in R
  /\ \A x \in W \cap R, y \in R : pos[x] <= pos[y] => y \in W

-----------------------------------------------------------------------------
(* ngx_queue_insert_head()                                                 *)
LEMMA HeadIsInserted ==
  ASSUME NEW N, NEW n \in [N -> N], NEW p \in [N -> N], NEW pos \in [N -> Int],
         NEW R \in SUBSET N, NEW k \in N, Ring(n, p, pos, R, k),
         NEW x \in N, x \notin R, NEW pos2 \in [N -> Int],
         \A y \in R : pos2[y] = pos[y], pos2[x] = pos[n[k]] - 1,
         NEW m, m = [n EXCEPT ![x] = n[k], ![k] = x],
         NEW o, o = [p EXCEPT ![n[k]] = x, ![x] = k]
  PROVE  Ring(m, o, pos2, R \cup {x}, k)
<1> DEFINE T == R \cup {x}
<1>1. /\ k \in R /\ n[k] \in R /\ x # k /\ x # n[k]
      /\ \A y \in R : n[y] \in N /\ p[y] \in N /\ pos[y] \in Int
      /\ m[x] = n[k] /\ m[k] = x /\ \A y \in R : y # k => m[y] = n[y]
      /\ o[n[k]] = x /\ o[x] = k /\ \A y \in R : y # n[k] => o[y] = p[y]
  BY DEF Ring, InOrder, TwoWay
<1>2. TwoWay(m, o, T)
  <2> SUFFICES ASSUME NEW y \in T
               PROVE  /\ m[y] \in T /\ o[m[y]] = y
                      /\ o[y] \in T /\ m[o[y]] = y
    BY DEF TwoWay
  <2>1. CASE y = x
    BY <1>1, <2>1
  <2>2. CASE y \in R
    <3>1. /\ n[y] \in R /\ p[n[y]] = y /\ p[y] \in R /\ n[p[y]] = y
          /\ p[n[k]] = k
      BY <1>1, <2>2 DEF Ring, TwoWay
    <3>2. m[y] \in T /\ o[m[y]] = y
      BY <1>1, <2>2, <3>1
    <3>3. o[y] \in T /\ m[o[y]] = y
      BY <1>1, <2>2, <3>1
    <3> QED BY <3>2, <3>3
  <2> QED BY <2>1, <2>2
<1>3. InOrder(m, pos2, T, k)
  <2>1. /\ \A y \in R : y # k => n[y] \in R /\ pos[y] < pos[k] /\ pos[y] < pos[n[y]]
        /\ \A y, z \in R : y # k => pos[z] <= pos[y] \/ pos[n[y]] <= pos[z]
        /\ \A y, z \in R : pos[y] = pos[z] => y = z
        /\ \A y \in R : pos[n[k]] <= pos[y]
    BY DEF Ring, InOrder
  <2>2. \A y \in T : y # k => m[y] \in T /\ pos2[y] < pos2[k] /\ pos2[y] < pos2[m[y]]
    BY <1>1, <2>1
  <2>3. \A y, z \in T : y # k => pos2[z] <= pos2[y] \/ pos2[m[y]] <= pos2[z]
    BY <1>1, <2>1
  <2>4. \A y, z \in T : pos2[y] = pos2[z] => y = z
    BY <1>1, <2>1
  <2> QED BY <1>1, <2>2, <2>3, <2>4 DEF InOrder
<1>4. \A y \in T : pos2[m[k]] <= pos2[y]
  BY <1>1 DEF Ring
<1> QED BY <1>2, <1>3, <1>4 DEF Ring

(* ngx_queue_remove()                                                      *)
LEMMA NodeIsRemoved ==
  ASSUME NEW N, NEW n \in [N -> N], NEW p \in [N -> N], NEW pos \in [N -> Int],
         NEW R \in SUBSET N, NEW k \in N, Ring(n, p, pos, R, k),
         NEW x \in R, x # k,
         NEW m, m = [n EXCEPT ![p[x]] = n[x]],
         NEW o, o = [p EXCEPT ![n[x]] = p[x]]
  PROVE  Ring(m, o, pos, R \ {x}, k)
<1> DEFINE T == R \ {x}
<1>1. /\ k \in R /\ n[x] \in R /\ p[x] \in R /\ n[p[x]] = x /\ p[n[x]] = x
      /\ \A y \in R : n[y] \in N /\ p[y] \in N /\ pos[y] \in Int
      /\ m[p[x]] = n[x] /\ \A y \in R : y # p[x] => m[y] = n[y]
      /\ o[n[x]] = p[x] /\ \A y \in R : y # n[x] => o[y] = p[y]
      /\ pos[x] < pos[n[x]]
  BY DEF Ring, InOrder, TwoWay
<1>2. n[x] # x /\ p[x] # x
  BY <1>1
<1>3. TwoWay(m, o, T)
  <2> SUFFICES ASSUME NEW y \in T
               PROVE  /\ m[y] \in T /\ o[m[y]] = y
                      /\ o[y] \in T /\ m[o[y]] = y
    BY DEF TwoWay
  <2>1. /\ n[y] \in R /\ p[n[y]] = y /\ p[y] \in R /\ n[p[y]] = y
    BY DEF Ring, TwoWay
  <2>2. m[y] \in T /\ o[m[y]] = y
    BY <1>1, <1>2, <2>1
  <2>3. o[y] \in T /\ m[o[y]] = y
    BY <1>1, <1>2, <2>1
  <2> QED BY <2>2, <2>3
<1>4. InOrder(m, pos, T, k)
  <2>1. /\ \A y \in R : y # k => n[y] \in R /\ pos[y] < pos[k] /\ pos[y] < pos[n[y]]
        /\ \A y, z \in R : y # k => pos[z] <= pos[y] \/ pos[n[y]] <= pos[z]
        /\ \A y, z \in R : pos[y] = pos[z] => y = z
        /\ \A y \in R : n[y] = x => y = p[x]
    BY DEF Ring, InOrder, TwoWay
  <2>2. \A y \in T : y # k => m[y] \in T /\ pos[y] < pos[k] /\ pos[y] < pos[m[y]]
    BY <1>1, <1>2, <2>1
  <2>3. ASSUME NEW y \in T, NEW z \in T, y # k
        PROVE  pos[z] <= pos[y] \/ pos[m[y]] <= pos[z]
    <3>1. CASE y = p[x]
      <4>1. pos[z] <= pos[y] \/ pos[x] <= pos[z]
        BY <1>1, <2>1, <2>3, <3>1
      <4>2. pos[z] # pos[x]
        BY <2>1
      <4>3. pos[z] <= pos[x] \/ pos[n[x]] <= pos[z]
        BY <2>1
      <4> QED BY <1>1, <3>1, <4>1, <4>2, <4>3
    <3>2. CASE y # p[x]
      BY <1>1, <2>1, <2>3, <3>2
    <3> QED BY <3>1, <3>2
  <2> QED BY <1>1, <2>1, <2>2, <2>3 DEF InOrder
<1>5. \A y \in T : pos[m[k]] <= pos[y]
  <2>1. \A y \in R : pos[n[k]] <= pos[y]
    BY DEF Ring
  <2>2. \A y \in R : pos[y] <= pos[x] \/ pos[n[x]] <= pos[y]
    BY DEF Ring, InOrder
  <2>3. \A y, z \in R : pos[y] = pos[z] => y = z
    BY DEF Ring, InOrder
  <2>4. CASE p[x] = k
    <3>1. m[k] = n[x] /\ n[k] = x
      BY <1>1, <2>4
    <3>2. ASSUME NEW y \in T PROVE pos[n[x]] <= pos[y]
      <4>1. pos[x] <= pos[y] /\ pos[x] # pos[y]
        BY <2>1, <2>3, <3>1
      <4> QED BY <1>1, <2>2, <4>1
    <3> QED BY <3>1, <3>2
  <2>5. CASE p[x] # k
    BY <1>1, <2>1, <2>5
  <2> QED BY <2>4, <2>5
<1> QED BY <1>3, <1>4, <1>5 DEF Ring

(* ngx_queue_insert_tail()                                                 *)
LEMMA TailIsInserted ==
  ASSUME NEW N, NEW n \in [N -> N], NEW p \in [N -> N], NEW pos \in [N -> Int],
         NEW R \in SUBSET N, NEW k \in N, Ring(n, p, pos, R, k),
         NEW x \in N, x \notin R,
         NEW pos2 \in [N -> Int], Moved(N, x, k, pos, pos2),
         NEW m, NEW o, Appended(n, p, x, k, m, o)
  PROVE  Ring(m, o, pos2, R \cup {x}, k)
<1> DEFINE T == R \cup {x}
<1>1. /\ k \in R /\ p[k] \in R /\ n[p[k]] = k /\ x # k /\ x # p[k]
      /\ \A y \in R : n[y] \in N /\ p[y] \in N /\ pos[y] \in Int
      /\ m[x] = k /\ m[p[k]] = x /\ \A y \in R : y # p[k] => m[y] = n[y]
      /\ o[k] = x /\ o[x] = p[k] /\ \A y \in R : y # k => o[y] = p[y]
      /\ pos2[x] = pos[k] /\ pos2[k] = pos[k] + 1
      /\ \A y \in R : y # k => pos2[y] = pos[y]
  BY DEF Ring, InOrder, TwoWay, Appended, Moved, SameBut
<1>2. TwoWay(m, o, T)
  <2> SUFFICES ASSUME NEW y \in T
               PROVE  /\ m[y] \in T /\ o[m[y]] = y
                      /\ o[y] \in T /\ m[o[y]] = y
    BY DEF TwoWay
  <2>1. CASE y = x
    BY <1>1, <2>1
  <2>2. CASE y \in R
    <3>1. /\ n[y] \in R /\ p[n[y]] = y /\ p[y] \in R /\ n[p[y]] = y
      BY <2>2 DEF Ring, TwoWay
    <3>2. m[y] \in T /\ o[m[y]] = y
      BY <1>1, <2>2, <3>1
    <3>3. o[y] \in T /\ m[o[y]] = y
      BY <1>1, <2>2, <3>1
    <3> QED BY <3>2, <3>3
  <2> QED BY <2>1, <2>2
<1>3. /\ \A y \in R : y # k => n[y] \in R /\ pos[y] < pos[k] /\ pos[y] < pos[n[y]]
      /\ \A y, z \in R : y # k => pos[z] <= pos[y] \/ pos[n[y]] <= pos[z]
      /\ \A y, z \in R : pos[y] = pos[z] => y = z
      /\ \A y \in R : n[y] = k => y = p[k]
      /\ \A y \in R : pos[n[k]] <= pos[y]
  BY DEF Ring, InOrder, TwoWay
<1>4. InOrder(m, pos2, T, k)
  <2>1. \A y \in T : y # k => m[y] \in T /\ pos2[y] < pos2[k] /\ pos2[y] < pos2[m[y]]
    BY <1>1, <1>3
  <2>2. ASSUME NEW y \in T, NEW z \in T, y # k
        PROVE  pos2[z] <= pos2[y] \/ pos2[m[y]] <= pos2[z]
    <3>1. CASE y = x
      BY <1>1, <1>3, <3>1
    <3>2. CASE y \in R /\ y = p[k]
      BY <1>1, <1>3, <2>2, <3>2
    <3>3. CASE y \in R /\ y # p[k]
      <4>1. m[y] = n[y] /\ n[y] \in R /\ n[y] # k /\ pos2[n[y]] = pos[n[y]]
        BY <1>1, <1>3, <2>2, <3>3
      <4> QED BY <1>1, <1>3, <2>2, <3>3, <4>1
    <3> QED BY <3>1, <3>2, <3>3
  <2>3. \A y, z \in T : pos2[y] = pos2[z] => y = z
    BY <1>1, <1>3
  <2> QED BY <1>1, <2>1, <2>2, <2>3 DEF InOrder
<1>5. \A y \in T : pos2[m[k]] <= pos2[y]
  <2>1. CASE p[k] = k
    <3>1. n[k] = k /\ m[k] = x
      BY <1>1, <2>1
    <3>2. \A y \in R : y = k
      BY <1>1, <1>3, <3>1
    <3> QED BY <1>1, <3>1, <3>2
  <2>2. CASE p[k] # k
    <3>1. m[k] = n[k] /\ n[k] # k /\ n[k] \in R
      BY <1>1, <2>2 DEF Ring, TwoWay
    <3>2. pos2[n[k]] = pos[n[k]] /\ pos[n[k]] < pos[k]
      BY <1>1, <1>3, <3>1
    <3> QED BY <1>1, <1>3, <3>1, <3>2
  <2> QED BY <2>1, <2>2
<1> QED BY <1>2, <1>4, <1>5 DEF Ring

(* What does not touch the nodes of a queue leaves it as it is.            *)
LEMMA RingIsKept ==
  ASSUME NEW n, NEW p, NEW pos, NEW R, NEW k, Ring(n, p, pos, R, k),
         NEW m, NEW o, \A y \in R : m[y] = n[y] /\ o[y] = p[y]
  PROVE  Ring(m, o, pos, R, k)
BY DEF Ring, TwoWay, InOrder

(* ngx_queue_empty()                                                       *)
LEMMA EmptyRing ==
  ASSUME NEW N, NEW n \in [N -> N], NEW p \in [N -> N], NEW pos \in [N -> Int],
         NEW R \in SUBSET N, NEW k \in N, Ring(n, p, pos, R, k),
         n[k] = k \/ p[k] = k
  PROVE  R = {k}
<1>1. n[k] = k /\ k \in R
  BY DEF Ring, TwoWay, InOrder
<1>2. \A y \in R : y # k => pos[y] < pos[k] /\ pos[k] <= pos[y]
  BY <1>1 DEF Ring, InOrder
<1>3. \A y \in R : pos[y] \in Int /\ pos[k] \in Int
  OBVIOUS
<1> QED BY <1>1, <1>2, <1>3

-----------------------------------------------------------------------------
(* ngx_queue_foreach() begins: q = ngx_queue_head(h).                      *)
LEMMA WalkBegins ==
  ASSUME NEW n, NEW p, NEW pos, NEW R, NEW k, Ring(n, p, pos, R, k)
  PROVE  Walk(n, pos, R, R, k, n[k])
BY DEF Ring, TwoWay, InOrder, Walk

(* q = ngx_queue_next(q)                                                   *)
LEMMA WalkGoesOn ==
  ASSUME NEW N, NEW n \in [N -> N], NEW pos \in [N -> Int],
         NEW R \in SUBSET N, NEW W \in SUBSET N, NEW k \in N, NEW c \in N,
         Walk(n, pos, R, W, k, c), c # k
  PROVE  Walk(n, pos, R, W \ {c}, k, n[c])
<1> DEFINE V == W \ {c}
<1>1. /\ k \in W /\ c \in W
      /\ \A x \in W : pos[x] \in Int /\ n[x] \in N /\ pos[c] <= pos[x]
      /\ \A x \in W : x # k => n[x] \in W /\ pos[x] < pos[k] /\ pos[x] < pos[n[x]]
      /\ \A x, y \in W : x # k => pos[y] <= pos[x] \/ pos[n[x]] <= pos[y]
      /\ \A x, y \in W : pos[x] = pos[y] => x = y
  BY DEF Walk, InOrder
<1>2. \A x \in W : x # k => n[x] # c
  BY <1>1
<1>3. InOrder(n, pos, V, k)
  BY <1>1, <1>2 DEF InOrder
<1>4. n[c] \in V
  BY <1>1, <1>2
<1>5. ASSUME NEW y \in V PROVE pos[n[c]] <= pos[y]
  <2>1. pos[c] <= pos[y] /\ pos[c] # pos[y] /\ pos[c] \in Int /\ pos[y] \in Int
    BY <1>1
  <2>2. pos[y] <= pos[c] \/ pos[n[c]] <= pos[y]
    BY <1>1
  <2> QED BY <2>1, <2>2
<1>6. /\ \A x \in V \cap R, y \in V : pos[x] <= pos[y] => y \in R
      /\ \A x \in V \cap R, y \in R : pos[x] <= pos[y] => y \in V
  <2>1. /\ \A x \in W \cap R, y \in W : pos[x] <= pos[y] => y \in R
        /\ \A x \in W \cap R, y \in R : pos[x] <= pos[y] => y \in W
    BY DEF Walk
  <2>2. ASSUME NEW x \in V PROVE ~ (pos[x] <= pos[c])
    BY <1>1
  <2> QED BY <2>1, <2>2
<1> QED BY <1>3, <1>4, <1>5, <1>6 DEF Walk

LEMMA WalkIsKept ==
  ASSUME NEW n, NEW pos, NEW R, NEW W, NEW k, NEW c, Walk(n, pos, R, W, k, c),
         NEW m, \A y \in W : y # k => m[y] = n[y]
  PROVE  Walk(m, pos, R, W, k, c)
BY DEF Walk, InOrder

(* A handle is stopped.  If the node before it is not ahead of the walk,   *)
(* or is one that was stopped earlier, the walk comes by its old link.     *)
WalkGoesBy(m, pos, R, W, x, k, c) ==
  \E V \in SUBSET W : W \ {x} \subseteq V /\ Walk(m, pos, R \ {x}, V, k, c)

LEMMA WalkAfterRemoval ==
  ASSUME NEW N, NEW n \in [N -> N], NEW p \in [N -> N], NEW pos \in [N -> Int],
         NEW R \in SUBSET N, NEW W \in SUBSET N, NEW k \in N, NEW c \in N,
         Ring(n, p, pos, R, k), Walk(n, pos, R, W, k, c),
         NEW x \in R, x # k,
         NEW m, m = [n EXCEPT ![p[x]] = n[x]]
  PROVE  WalkGoesBy(m, pos, R, W, x, k, c)
<1>1. /\ k \in W /\ c \in W
      /\ \A y \in W : pos[y] \in Int /\ n[y] \in N /\ pos[c] <= pos[y]
      /\ \A y \in W : y # k => n[y] \in W /\ pos[y] < pos[k] /\ pos[y] < pos[n[y]]
      /\ \A y, z \in W : y # k => pos[z] <= pos[y] \/ pos[n[y]] <= pos[z]
      /\ \A y, z \in W : pos[y] = pos[z] => y = z
      /\ \A y \in W \cap R, z \in W : pos[y] <= pos[z] => z \in R
      /\ \A y \in W \cap R, z \in R : pos[y] <= pos[z] => z \in W
  BY DEF Walk, InOrder
<1>2. /\ p[x] \in R /\ n[p[x]] = x /\ n[x] \in R
      /\ \A y \in N : y # p[x] => m[y] = n[y]
      /\ m[p[x]] = n[x]
      /\ \A y \in R : pos[y] \in Int
      /\ pos[x] < pos[n[x]]
  BY DEF Ring, TwoWay, InOrder
<1>3. CASE p[x] \in W /\ p[x] # k
  <2> DEFINE V == W \ {x}
  <2>1. /\ x \in W /\ n[x] \in W /\ pos[p[x]] < pos[x] /\ c # x /\ n[x] # x
        /\ p[x] # x
    BY <1>1, <1>2, <1>3
  <2>2. \A y \in W : y # k /\ n[y] = x => y = p[x]
    <3>1. ASSUME NEW y \in W, y # k, n[y] = x, y # p[x] PROVE FALSE
      <4>1. /\ pos[y] < pos[x] /\ pos[y] # pos[p[x]]
        BY <1>1, <1>3, <3>1
      <4>2. pos[y] <= pos[p[x]] \/ pos[x] <= pos[y]
        BY <1>1, <1>2, <1>3
      <4>3. pos[p[x]] <= pos[y] \/ pos[x] <= pos[p[x]]
        BY <1>1, <1>3, <3>1
      <4>4. pos[y] \in Int /\ pos[x] \in Int /\ pos[p[x]] \in Int
        BY <1>1, <1>3, <2>1
      <4>5. pos[p[x]] < pos[x]
        BY <2>1
      <4> QED BY <4>1, <4>2, <4>3, <4>4, <4>5
    <3> QED BY <3>1
  <2>3. \A y \in V : y # k => m[y] \in V /\ pos[y] < pos[k] /\ pos[y] < pos[m[y]]
    <3>1. ASSUME NEW y \in V, y # k, y = p[x]
          PROVE  m[y] \in V /\ pos[y] < pos[k] /\ pos[y] < pos[m[y]]
      BY <1>1, <1>2, <2>1, <3>1
    <3>2. ASSUME NEW y \in V, y # k, y # p[x]
          PROVE  m[y] \in V /\ pos[y] < pos[k] /\ pos[y] < pos[m[y]]
      BY <1>1, <1>2, <2>2, <3>2
    <3> QED BY <3>1, <3>2
  <2>4. ASSUME NEW y \in V, NEW z \in V, y # k
        PROVE  pos[z] <= pos[y] \/ pos[m[y]] <= pos[z]
    <3>1. CASE y = p[x]
      <4>1. pos[z] <= pos[y] \/ pos[x] <= pos[z]
        BY <1>1, <1>2, <2>4, <3>1
      <4>2. pos[z] # pos[x] /\ (pos[z] <= pos[x] \/ pos[n[x]] <= pos[z])
        BY <1>1, <2>1
      <4>3. pos[z] \in Int /\ pos[x] \in Int /\ m[y] = n[x]
        BY <1>2, <3>1
      <4> QED BY <4>1, <4>2, <4>3
    <3>2. CASE y # p[x]
      BY <1>1, <1>2, <2>4, <3>2
    <3> QED BY <3>1, <3>2
  <2>5. InOrder(m, pos, V, k)
    BY <1>1, <2>3, <2>4 DEF InOrder
  <2>6. Walk(m, pos, R \ {x}, V, k, c)
    BY <1>1, <2>1, <2>5 DEF Walk
  <2> QED BY <2>6 DEF WalkGoesBy
<1>4. CASE ~ (p[x] \in W /\ p[x] # k)
  <2>1. \A y \in W : y # k => m[y] = n[y]
    BY <1>2, <1>4
  <2>2. InOrder(m, pos, W, k)
    BY <1>1, <2>1 DEF InOrder
  <2>3. ASSUME NEW y \in W \cap (R \ {x}), NEW z \in W, pos[y] <= pos[z]
        PROVE  z \in R \ {x}
    <3>1. SUFFICES ASSUME z = x PROVE FALSE
      BY <1>1, <2>3
    <3>2. pos[y] # pos[x]
      BY <1>1, <2>3, <3>1
    <3>3. y # k /\ p[x] # k
      <4>1. y # k
        BY <1>1, <2>3, <3>1
      <4>2. p[x] = k => pos[x] <= pos[y]
        <5>1. SUFFICES ASSUME p[x] = k PROVE pos[x] <= pos[y]
          OBVIOUS
        <5>2. n[k] = x /\ y \in R
          BY <1>2, <2>3, <5>1
        <5> QED BY <5>2 DEF Ring
      <4>3. pos[y] \in Int /\ pos[x] \in Int
        BY <1>2, <2>3
      <4> QED BY <2>3, <3>1, <3>2, <4>1, <4>2, <4>3
    <3>4. pos[y] <= pos[p[x]] \/ pos[x] <= pos[y]
      BY <1>2, <3>3 DEF Ring, InOrder
    <3>5. p[x] \in W
      <4>1. ASSUME pos[x] <= pos[y] PROVE FALSE
        <5>1. pos[x] \in Int /\ pos[y] \in Int /\ pos[y] <= pos[x]
          BY <1>2, <2>3, <3>1
        <5> QED BY <3>2, <4>1, <5>1
      <4>2. pos[y] <= pos[p[x]] /\ p[x] \in R /\ y \in W \cap R
        BY <1>2, <2>3, <3>4, <4>1
      <4> QED BY <1>1, <4>2
    <3> QED BY <1>4, <3>3, <3>5
  <2>4. Walk(m, pos, R \ {x}, W, k, c)
    BY <1>1, <2>2, <2>3 DEF Walk
  <2> QED BY <2>4 DEF WalkGoesBy
<1> QED BY <1>3, <1>4

(* A watcher is started that is not ahead of the walk.                     *)
LEMMA WalkAfterStart ==
  ASSUME NEW N, NEW n \in [N -> N], NEW p \in [N -> N], NEW pos \in [N -> Int],
         NEW R \in SUBSET N, NEW W \in SUBSET N, NEW k \in N, NEW c \in N,
         Ring(n, p, pos, R, k), Walk(n, pos, R, W, k, c),
         NEW x \in N, x \notin R, x \notin W,
         NEW m, m = [n EXCEPT ![x] = n[k], ![k] = x],
         NEW pos2 \in [N -> Int], pos2[x] = pos[n[k]] - 1,
         SameBut(N, {x}, pos, pos2)
  PROVE  Walk(m, pos2, R \cup {x}, W, k, c)
<1>1. /\ \A y \in W : y # k => m[y] = n[y]
      /\ \A y \in W \cup R : pos2[y] = pos[y] /\ pos[y] \in Int
      /\ pos2[x] = pos[n[k]] - 1
  BY DEF SameBut
<1>2. k \in R /\ \A y \in R : pos[n[k]] <= pos[y] /\ n[k] \in R
  BY DEF Ring, TwoWay, InOrder
<1>3. \A y \in R : pos2[x] < pos2[y]
  BY <1>1, <1>2
<1>4. InOrder(m, pos2, W, k)
  <2>1. InOrder(n, pos, W, k)
    BY DEF Walk
  <2> QED BY <1>1, <2>1 DEF InOrder
<1>5. c \in W /\ \A y \in W : pos2[c] <= pos2[y]
  BY <1>1 DEF Walk
<1>6. \A y \in W \cap (R \cup {x}) : y \in R
  OBVIOUS
<1>7. \A y \in W \cap (R \cup {x}), z \in W : pos2[y] <= pos2[z] => z \in R \cup {x}
  BY <1>1, <1>6 DEF Walk
<1>8. ASSUME NEW y \in W \cap (R \cup {x}), NEW z \in R \cup {x}, pos2[y] <= pos2[z]
      PROVE  z \in W
  <2>1. z # x
    BY <1>1, <1>2, <1>3, <1>6, <1>8
  <2> QED BY <1>1, <1>6, <1>8, <2>1 DEF Walk
<1> QED BY <1>4, <1>5, <1>7, <1>8 DEF Walk

(* A watcher is started again that the walk was going to come by although  *)
(* it was stopped: from there the walk begins anew.                        *)
WalkBeginsAnew(m, pos2, R, W, x, k, c) ==
  \E V \in SUBSET (W \cup R) :
     R \cup {x} \subseteq V /\ Walk(m, pos2, R \cup {x}, V, k, c)

LEMMA WalkAfterRestart ==
  ASSUME NEW N, NEW n \in [N -> N], NEW p \in [N -> N], NEW pos \in [N -> Int],
         NEW R \in SUBSET N, NEW W \in SUBSET N, NEW k \in N, NEW c \in N,
         Ring(n, p, pos, R, k), Walk(n, pos, R, W, k, c),
         NEW x \in N, x \in W, x \notin R,
         NEW m, m = [n EXCEPT ![x] = n[k], ![k] = x],
         NEW pos2 \in [N -> Int], Shifted(N, R, x, n[k], pos, pos2)
  PROVE  WalkBeginsAnew(m, pos2, R, W, x, k, c)
<1> DEFINE D == {y \in W : y \notin R /\ pos[y] <= pos[x]}
           V == D \cup R
           T == R \cup {x}
<1>1. /\ c \in W
      /\ \A y \in W : pos[y] \in Int /\ n[y] \in N /\ pos[c] <= pos[y]
      /\ \A y \in W : y # k => n[y] \in W /\ pos[y] < pos[k] /\ pos[y] < pos[n[y]]
      /\ \A y, z \in W : y # k => pos[z] <= pos[y] \/ pos[n[y]] <= pos[z]
      /\ \A y, z \in W : pos[y] = pos[z] => y = z
      /\ \A y \in W \cap R, z \in W : pos[y] <= pos[z] => z \in R
  BY DEF Walk, InOrder
<1>2. /\ k \in R /\ n[k] \in R
      /\ \A y \in R : pos[y] \in Int /\ n[y] \in N /\ pos[n[k]] <= pos[y]
      /\ \A y \in R : y # k => n[y] \in R /\ pos[y] < pos[k] /\ pos[y] < pos[n[y]]
      /\ \A y, z \in R : y # k => pos[z] <= pos[y] \/ pos[n[y]] <= pos[z]
      /\ \A y, z \in R : pos[y] = pos[z] => y = z
  BY DEF Ring, TwoWay, InOrder
<1>3. /\ x # k /\ x \in D
      /\ m[x] = n[k] /\ \A y \in N : y # x /\ y # k => m[y] = n[y]
  BY <1>1, <1>2
<1>4. /\ \A y \in R : pos2[y] = pos[y]
      /\ \A y \in D : pos2[y] = (pos[y] - pos[x]) + (pos[n[k]] - 1)
      /\ \A y \in D : pos2[y] \in Int /\ pos2[y] <= pos2[x]
      /\ pos2[x] = pos[n[k]] - 1
  BY <1>1, <1>2, <1>3 DEF Shifted
<1>5. \A y \in D, z \in R : pos2[y] < pos2[z]
  BY <1>2, <1>4
<1>6. \A y \in D : y # x => n[y] \in D
  <2> SUFFICES ASSUME NEW y \in D, y # x PROVE n[y] \in D
    OBVIOUS
  <2>1. y # k /\ n[y] \in W /\ pos[y] # pos[x]
    BY <1>1, <1>2
  <2>2. pos[n[y]] <= pos[x]
    <3>1. pos[x] <= pos[y] \/ pos[n[y]] <= pos[x]
      BY <1>1, <2>1
    <3>2. pos[y] <= pos[x] /\ pos[y] \in Int /\ pos[x] \in Int
      BY <1>1
    <3> QED BY <2>1, <3>1, <3>2
  <2> QED BY <1>1, <2>1, <2>2
<1>7. \A y \in V : y # k => m[y] \in V /\ pos2[y] < pos2[k] /\ pos2[y] < pos2[m[y]]
  <2> SUFFICES ASSUME NEW y \in V, y # k
               PROVE  m[y] \in V /\ pos2[y] < pos2[k] /\ pos2[y] < pos2[m[y]]
    OBVIOUS
  <2>1. CASE y = x
    BY <1>2, <1>3, <1>5, <2>1
  <2>2. CASE y \in D /\ y # x
    <3>1. m[y] = n[y] /\ n[y] \in D /\ pos[y] < pos[n[y]] /\ pos[n[y]] \in Int
      BY <1>1, <1>2, <1>3, <1>6, <2>2
    <3>2. pos2[y] < pos2[n[y]]
      <4>1. /\ pos2[y] = (pos[y] - pos[x]) + (pos[n[k]] - 1)
            /\ pos2[n[y]] = (pos[n[y]] - pos[x]) + (pos[n[k]] - 1)
        BY <1>4, <2>2, <3>1
      <4>2. pos[y] \in Int /\ pos[x] \in Int /\ pos[n[k]] \in Int
        BY <1>1, <1>2, <2>2
      <4> QED BY <3>1, <4>1, <4>2
    <3> QED BY <1>2, <1>5, <2>2, <3>1, <3>2
  <2>3. CASE y \in R
    BY <1>2, <1>3, <1>4, <2>3
  <2> QED BY <2>1, <2>2, <2>3
<1>8. ASSUME NEW y \in V, NEW z \in V, y # k
      PROVE  pos2[z] <= pos2[y] \/ pos2[m[y]] <= pos2[z]
  <2>1. CASE y = x
    <3>1. CASE z \in D
      BY <1>4, <2>1, <3>1
    <3>2. CASE z \in R
      BY <1>2, <1>3, <1>4, <2>1, <3>2
    <3> QED BY <3>1, <3>2
  <2>2. CASE y \in D /\ y # x
    <3>1. m[y] = n[y] /\ n[y] \in D
      BY <1>2, <1>3, <1>6, <2>2
    <3>2. CASE z \in D
      <4>1. pos[z] <= pos[y] \/ pos[n[y]] <= pos[z]
        BY <1>1, <1>8, <2>2, <3>2
      <4>2. /\ pos2[y] = (pos[y] - pos[x]) + (pos[n[k]] - 1)
            /\ pos2[z] = (pos[z] - pos[x]) + (pos[n[k]] - 1)
            /\ pos2[n[y]] = (pos[n[y]] - pos[x]) + (pos[n[k]] - 1)
        BY <1>4, <2>2, <3>1, <3>2
      <4>3. /\ pos[y] \in Int /\ pos[x] \in Int /\ pos[n[k]] \in Int
            /\ pos[z] \in Int /\ pos[n[y]] \in Int
        BY <1>1, <1>2, <2>2, <3>1, <3>2
      <4> QED BY <3>1, <4>1, <4>2, <4>3
    <3>3. CASE z \in R
      BY <1>2, <1>4, <1>5, <3>1, <3>3
    <3> QED BY <3>2, <3>3
  <2>3. CASE y \in R
    <3>1. m[y] = n[y] /\ n[y] \in R
      BY <1>2, <1>3, <1>8, <2>3
    <3>2. CASE z \in D
      BY <1>2, <1>4, <1>5, <2>3, <3>2
    <3>3. CASE z \in R
      BY <1>2, <1>4, <1>8, <2>3, <3>1, <3>3
    <3> QED BY <3>2, <3>3
  <2> QED BY <2>1, <2>2, <2>3
<1>9. ASSUME NEW y \in V, NEW z \in V, pos2[y] = pos2[z] PROVE y = z
  <2>1. CASE y \in D /\ z \in D
    <3>1. /\ pos2[y] = (pos[y] - pos[x]) + (pos[n[k]] - 1)
          /\ pos2[z] = (pos[z] - pos[x]) + (pos[n[k]] - 1)
      BY <1>4, <2>1
    <3>2. /\ pos[y] \in Int /\ pos[x] \in Int /\ pos[n[k]] \in Int /\ pos[z] \in Int
      BY <1>1, <1>2, <2>1
    <3>3. pos[y] = pos[z]
      <4> DEFINE a == pos[y]
                 b == pos[z]
                 c1 == pos[x]
                 h == pos[n[k]]
      <4>1. /\ a \in Int /\ b \in Int /\ c1 \in Int /\ h \in Int
            /\ (a - c1) + (h - 1) = (b - c1) + (h - 1)
        BY <1>9, <3>1, <3>2
      <4> HIDE DEF a, b, c1, h
      <4>2. a = b
        BY <4>1
      <4> QED BY <4>2 DEF a, b
    <3> QED BY <1>1, <2>1, <3>3
  <2>2. CASE y \in R /\ z \in R
    BY <1>2, <1>4, <1>9, <2>2
  <2>3. CASE y \in D /\ z \in R
    BY <1>2, <1>4, <1>5, <1>9, <2>3
  <2>4. CASE y \in R /\ z \in D
    BY <1>2, <1>4, <1>5, <1>9, <2>4
  <2> QED BY <2>1, <2>2, <2>3, <2>4
<1>10. InOrder(m, pos2, V, k)
  BY <1>2, <1>7, <1>8, <1>9 DEF InOrder
<1>11. c \in D
  BY <1>1
<1>12. ASSUME NEW y \in V PROVE pos2[c] <= pos2[y]
  <2>1. CASE y \in D
    <3>1. /\ pos2[y] = (pos[y] - pos[x]) + (pos[n[k]] - 1)
          /\ pos2[c] = (pos[c] - pos[x]) + (pos[n[k]] - 1)
      BY <1>4, <1>11, <2>1
    <3>2. /\ pos[y] \in Int /\ pos[x] \in Int /\ pos[n[k]] \in Int /\ pos[c] \in Int
          /\ pos[c] <= pos[y]
      BY <1>1, <1>2, <2>1
    <3> QED BY <3>1, <3>2
  <2>2. CASE y \in R
    BY <1>2, <1>4, <1>5, <1>11, <2>2
  <2> QED BY <2>1, <2>2
<1>13. ASSUME NEW y \in V \cap T, NEW z \in V, pos2[y] <= pos2[z] PROVE z \in T
  <2>1. SUFFICES ASSUME z \in D, z # x PROVE FALSE
    BY <1>13
  <2>2. pos2[z] < pos2[x]
    <3>1. /\ pos2[z] = (pos[z] - pos[x]) + (pos[n[k]] - 1)
          /\ pos2[x] = pos[n[k]] - 1
      BY <1>4, <2>1
    <3>2. /\ pos[z] \in Int /\ pos[x] \in Int /\ pos[n[k]] \in Int
          /\ pos[z] <= pos[x] /\ pos[z] # pos[x]
      BY <1>1, <1>2, <2>1
    <3>3. (pos[z] - pos[x]) + (pos[n[k]] - 1) < pos[n[k]] - 1
      <4> DEFINE a == pos[z]
                 b == pos[x]
                 h == pos[n[k]]
      <4>1. a \in Int /\ b \in Int /\ h \in Int /\ a <= b /\ a # b
        BY <3>2
      <4> HIDE DEF a, b, h
      <4>2. (a - b) + (h - 1) < h - 1
        BY <4>1
      <4> QED BY <4>2 DEF a, b, h
    <3>4. (pos[z] - pos[x]) + (pos[n[k]] - 1) \in Int /\ pos[n[k]] - 1 \in Int
      BY <3>2
    <3> QED BY <3>1, <3>3, <3>4
  <2>3. pos2[z] < pos2[y]
    BY <1>3, <1>5, <2>1, <2>2
  <2> QED BY <1>2, <1>3, <1>4, <1>13, <2>1, <2>3
<1>14. Walk(m, pos2, T, V, k, c)
  BY <1>3, <1>10, <1>11, <1>12, <1>13 DEF Walk
<1>15. V \in SUBSET (W \cup R) /\ R \cup {x} \subseteq V
  BY <1>3
<1> HIDE DEF V
<1> QED BY <1>14, <1>15 DEF WalkBeginsAnew

(* A handle is linked at the end of the queue that is walked.              *)
WalkGoesFurther(m, pos2, R, W, x, k, c) ==
  \E V \in SUBSET (W \cup {x}) :
     W \subseteq V /\ Walk(m, pos2, R \cup {x}, V, k, c)

LEMMA WalkAfterAppend ==
  ASSUME NEW N, NEW n \in [N -> N], NEW p \in [N -> N], NEW pos \in [N -> Int],
         NEW R \in SUBSET N, NEW W \in SUBSET N, NEW k \in N, NEW c \in N,
         Ring(n, p, pos, R, k), Walk(n, pos, R, W, k, c),
         NEW x \in N, x \notin R, x \notin W,
         NEW m, NEW o, Appended(n, p, x, k, m, o),
         NEW pos2 \in [N -> Int], Moved(N, x, k, pos, pos2)
  PROVE  WalkGoesFurther(m, pos2, R, W, x, k, c)
<1> DEFINE T == R \cup {x}
<1>1. /\ c \in W /\ k \in W
      /\ \A y \in W : pos[y] \in Int /\ n[y] \in N /\ pos[c] <= pos[y]
      /\ \A y \in W : y # k => n[y] \in W /\ pos[y] < pos[k] /\ pos[y] < pos[n[y]]
      /\ \A y, z \in W : y # k => pos[z] <= pos[y] \/ pos[n[y]] <= pos[z]
      /\ \A y, z \in W : pos[y] = pos[z] => y = z
      /\ \A y \in W \cap R, z \in W : pos[y] <= pos[z] => z \in R
      /\ \A y \in W \cap R, z \in R : pos[y] <= pos[z] => z \in W
  BY DEF Walk, InOrder
<1>2. /\ k \in R /\ p[k] \in R /\ n[p[k]] = k
      /\ \A y \in R : pos[y] \in Int /\ n[y] \in N
      /\ \A y \in R : y # k => n[y] \in R /\ pos[y] < pos[k] /\ pos[y] < pos[n[y]]
      /\ \A y, z \in R : y # k => pos[z] <= pos[y] \/ pos[n[y]] <= pos[z]
  BY DEF Ring, TwoWay, InOrder
<1>3. /\ m[x] = k /\ m[p[k]] = x /\ \A y \in N : y # x /\ y # p[k] => m[y] = n[y]
      /\ x # k /\ x # p[k]
  BY <1>2 DEF Appended
<1>4. /\ pos2[x] = pos[k] /\ pos2[k] = pos[k] + 1
      /\ \A y \in N : y # k /\ y # x => pos2[y] = pos[y]
  BY <1>3 DEF SameBut, Moved
<1>5. CASE p[k] \in W /\ p[k] # k
  <2> DEFINE V == W \cup {x}
  <2>1. \A y \in W : y # k /\ n[y] = k => y = p[k]
    <3>1. ASSUME NEW y \in W, y # k, n[y] = k, y # p[k] PROVE FALSE
      <4>1. pos[y] # pos[p[k]]
        BY <1>1, <1>5, <3>1
      <4>2. pos[p[k]] <= pos[y] \/ pos[k] <= pos[p[k]]
        BY <1>1, <1>5, <3>1
      <4>3. pos[y] <= pos[p[k]] \/ pos[k] <= pos[y]
        BY <1>1, <1>2, <1>5
      <4>4. pos[y] < pos[k] /\ pos[p[k]] < pos[k]
        BY <1>1, <1>5, <3>1
      <4>5. pos[y] \in Int /\ pos[p[k]] \in Int /\ pos[k] \in Int
        BY <1>1, <1>5
      <4> QED BY <4>1, <4>2, <4>3, <4>4, <4>5
    <3> QED BY <3>1
  <2>2. ASSUME NEW y \in V, y # k
        PROVE  m[y] \in V /\ pos2[y] < pos2[k] /\ pos2[y] < pos2[m[y]]
    <3>1. CASE y = x
      BY <1>1, <1>3, <1>4, <3>1
    <3>2. CASE y \in W /\ y = p[k]
      BY <1>1, <1>3, <1>4, <2>2, <3>2
    <3>3. CASE y \in W /\ y # p[k]
      <4>1. m[y] = n[y] /\ n[y] \in W /\ n[y] # k /\ n[y] # x
        BY <1>1, <1>3, <2>1, <2>2, <3>3
      <4> QED BY <1>1, <1>4, <2>2, <3>3, <4>1
    <3> QED BY <3>1, <3>2, <3>3
  <2>3. ASSUME NEW y \in V, NEW z \in V, y # k
        PROVE  pos2[z] <= pos2[y] \/ pos2[m[y]] <= pos2[z]
    <3>1. CASE y = x
      BY <1>1, <1>3, <1>4, <3>1
    <3>2. CASE y \in W /\ y = p[k]
      <4>1. pos2[m[y]] = pos[k] /\ pos2[y] = pos[y]
        BY <1>3, <1>4, <2>3, <3>2
      <4>2. CASE z \in W /\ z # k
        <5>1. pos[z] <= pos[y] \/ pos[k] <= pos[z]
          BY <1>1, <1>2, <2>3, <3>2, <4>2
        <5> QED BY <1>4, <4>1, <4>2, <5>1
      <4>3. CASE z = k \/ z = x
        BY <1>1, <1>4, <4>1, <4>3
      <4> QED BY <4>2, <4>3
    <3>3. CASE y \in W /\ y # p[k]
      <4>1. m[y] = n[y] /\ n[y] \in W /\ n[y] # k /\ n[y] # x
        BY <1>1, <1>3, <2>1, <2>3, <3>3
      <4>2. pos2[m[y]] = pos[n[y]] /\ pos2[y] = pos[y] /\ pos[n[y]] < pos[k]
        BY <1>1, <1>4, <2>3, <3>3, <4>1
      <4>3. CASE z \in W /\ z # k
        BY <1>1, <1>4, <2>3, <3>3, <4>2, <4>3
      <4>4. CASE z = k \/ z = x
        BY <1>1, <1>4, <4>1, <4>2, <4>4
      <4> QED BY <4>3, <4>4
    <3> QED BY <3>1, <3>2, <3>3
  <2>4. ASSUME NEW y \in V, NEW z \in V, pos2[y] = pos2[z] PROVE y = z
    BY <1>1, <1>4, <2>4
  <2>5. InOrder(m, pos2, V, k)
    BY <1>1, <2>2, <2>3, <2>4 DEF InOrder
  <2>6. c # k /\ c # x
    BY <1>1, <1>5
  <2>7. ASSUME NEW y \in V PROVE pos2[c] <= pos2[y]
    BY <1>1, <1>4, <2>6
  <2>8. ASSUME NEW y \in V \cap T, NEW z \in V, pos2[y] <= pos2[z] PROVE z \in T
    BY <1>1, <1>2, <1>4, <2>8
  <2>9. ASSUME NEW y \in V \cap T, NEW z \in T, pos2[y] <= pos2[z] PROVE z \in V
    BY <1>1, <1>2, <1>4, <2>9
  <2>10. Walk(m, pos2, T, V, k, c)
    BY <1>1, <2>5, <2>7, <2>8, <2>9 DEF Walk
  <2> QED BY <2>10 DEF WalkGoesFurther
<1>6. CASE ~ (p[k] \in W /\ p[k] # k)
  <2>1. \A y \in W : y # k => m[y] = n[y]
    BY <1>3, <1>6
  <2>2. \A y \in W \cap R : y = k
    <3>1. ASSUME NEW y \in W \cap R, y # k PROVE FALSE
      <4>1. p[k] # k
        BY <1>1, <1>2, <3>1, EmptyRing
      <4>2. pos[y] <= pos[p[k]] \/ pos[k] <= pos[y]
        BY <1>2, <4>1
      <4>3. pos[y] <= pos[p[k]]
        BY <1>1, <3>1, <4>2
      <4> QED BY <1>1, <1>2, <1>6, <3>1, <4>1, <4>3
    <3> QED BY <3>1
  <2>3. ASSUME NEW y \in W, y # k
        PROVE  m[y] \in W /\ pos2[y] < pos2[k] /\ pos2[y] < pos2[m[y]]
    <3>1. m[y] = n[y] /\ n[y] \in W /\ pos2[y] = pos[y]
      BY <1>1, <1>4, <2>1, <2>3
    <3> QED BY <1>1, <1>4, <2>3, <3>1
  <2>4. ASSUME NEW y \in W, NEW z \in W, y # k
        PROVE  pos2[z] <= pos2[y] \/ pos2[m[y]] <= pos2[z]
    <3>1. m[y] = n[y] /\ n[y] \in W /\ pos2[y] = pos[y]
      BY <1>1, <1>4, <2>1, <2>4
    <3>2. pos[z] <= pos[y] \/ pos[n[y]] <= pos[z]
      BY <1>1, <2>4
    <3>3. CASE z = k
      BY <1>1, <1>4, <3>1, <3>3
    <3>4. CASE z # k
      BY <1>1, <1>4, <2>4, <3>1, <3>2, <3>4
    <3> QED BY <3>3, <3>4
  <2>5. ASSUME NEW y \in W, NEW z \in W, pos2[y] = pos2[z] PROVE y = z
    BY <1>1, <1>4, <2>5
  <2>6. InOrder(m, pos2, W, k)
    BY <1>1, <2>3, <2>4, <2>5 DEF InOrder
  <2>7. ASSUME NEW y \in W PROVE pos2[c] <= pos2[y]
    BY <1>1, <1>4
  <2>8. ASSUME NEW y \in W \cap T, NEW z \in W, pos2[y] <= pos2[z] PROVE z \in T
    BY <1>1, <1>2, <1>4, <2>2, <2>8
  <2>9. ASSUME NEW y \in W \cap T, NEW z \in T, pos2[y] <= pos2[z] PROVE z \in W
    BY <1>1, <1>2, <1>4, <2>2, <2>9
  <2>10. Walk(m, pos2, T, W, k, c)
    BY <1>1, <2>6, <2>7, <2>8, <2>9 DEF Walk
  <2> QED BY <2>10 DEF WalkGoesFurther
<1> QED BY <1>5, <1>6

-----------------------------------------------------------------------------
(* The handles of the loop; an async handle is active until it is closed.  *)
AsyncsRun(H) == \A h \in Asyncs : IsUsable(H, h) => IsActive(H, h)

HandlesOK(H) == HandlesFit(H, Handles) /\ AsyncsRun(H)

(* R is H with the flags f for h.                                          *)
Turned(H, h, f, R) ==
  /\ HandlesOK(R)
  /\ R.flags[h] = f /\ \A g \in Handles : g # h => R.flags[g] = H.flags[g]
  /\ R.closing = H.closing /\ R.doomed = H.doomed

LEMMA TurnedFits ==
  ASSUME NEW H, HandlesOK(H), NEW h \in Handles, NEW f, NEW R,
         FitsWith(H, Handles, h, f, R),
         h \in Asyncs => "active" \in f \/ "closing" \in f
  PROVE  Turned(H, h, f, R)
<1>1. Asyncs \subseteq Handles
  BY DEF Asyncs, Of
<1>2. AsyncsRun(R)
  BY <1>1 DEF FitsWith, HandlesOK, AsyncsRun, IsUsable, IsActive
<1> QED BY <1>2 DEF FitsWith, Turned, HandlesOK

(* uv__handle_start(), uv__handle_stop(), uv__handle_ref() and             *)
(* uv__handle_unref().                                                     *)
LEMMA HandleIsStarted ==
  ASSUME NEW H, HandlesOK(H), NEW h \in Handles, IsUsable(H, h)
  PROVE  Turned(H, h, H.flags[h] \cup {"active"}, Started(H, h))
<1>1. FitsWith(H, Handles, h, H.flags[h] \cup {"active"}, Started(H, h))
  BY StartedFits DEF HandlesOK
<1> QED BY <1>1, TurnedFits

LEMMA HandleIsStopped ==
  ASSUME NEW H, HandlesOK(H), NEW h \in Handles, h \notin Asyncs
  PROVE  Turned(H, h, H.flags[h] \ {"active"}, Stopped(H, h))
<1>1. FitsWith(H, Handles, h, H.flags[h] \ {"active"}, Stopped(H, h))
  BY StoppedFits DEF HandlesOK
<1> QED BY <1>1, TurnedFits

LEMMA HandleIsReffed ==
  ASSUME NEW H, HandlesOK(H), NEW h \in Handles, ~IsClosed(H, h)
  PROVE  /\ Turned(H, h, H.flags[h] \cup {"ref"}, Reffed(H, h))
         /\ Turned(H, h, H.flags[h] \ {"ref"}, Unreffed(H, h))
<1>1. /\ FitsWith(H, Handles, h, H.flags[h] \cup {"ref"}, Reffed(H, h))
      /\ FitsWith(H, Handles, h, H.flags[h] \ {"ref"}, Unreffed(H, h))
  BY ReffedFits, UnreffedFits DEF HandlesOK
<1>2. h \in Asyncs => "active" \in H.flags[h] \/ "closing" \in H.flags[h]
  BY DEF HandlesOK, AsyncsRun, IsUsable, IsActive
<1> QED BY <1>1, <1>2, TurnedFits

(* uv_timer_start(), uv_timer_again()                                      *)
LEMMA TimerIsRestarted ==
  ASSUME NEW H, HandlesOK(H), NEW t \in Timers, IsUsable(H, t)
  PROVE  Turned(H, t, H.flags[t] \cup {"active"}, Started(Stopped(H, t), t))
<1> DEFINE A == Stopped(H, t)
           R == Started(A, t)
<1>1. t \in Handles /\ t \notin Asyncs
  BY DEF Timers, Asyncs, Of
<1>2. Turned(H, t, H.flags[t] \ {"active"}, A)
  BY <1>1, HandleIsStopped
<1> HIDE DEF A
<1>3. HandlesOK(A) /\ IsUsable(A, t)
  BY <1>2 DEF Turned, IsUsable
<1>4. Turned(A, t, A.flags[t] \cup {"active"}, R)
  BY <1>1, <1>3, HandleIsStarted
<1> HIDE DEF R
<1>5. R.flags[t] = H.flags[t] \cup {"active"}
  BY <1>2, <1>4 DEF Turned
<1> QED BY <1>2, <1>4, <1>5 DEF Turned, A, R

(* uv_close()                                                              *)
LEMMA HandleIsClosing ==
  ASSUME NEW H, HandlesOK(H), NEW h \in Handles, IsUsable(H, h)
  PROVE  LET R == MakeClosePending(Stopped(Closing(H, h), h), h)
         IN /\ HandlesOK(R) /\ R.doomed = H.doomed
            /\ R.flags[h] = (H.flags[h] \cup {"closing"}) \ {"active"}
            /\ \A g \in Handles : g # h => R.flags[g] = H.flags[g]
<1> DEFINE R == MakeClosePending(Stopped(Closing(H, h), h), h)
<1>1. /\ HandlesFit(R, Handles) /\ R.doomed = H.doomed
      /\ R.flags[h] = (H.flags[h] \cup {"closing"}) \ {"active"}
      /\ \A g \in Handles : g # h => R.flags[g] = H.flags[g]
  BY ClosingFits DEF HandlesOK
<1> HIDE DEF R
<1>2. AsyncsRun(R)
  BY <1>1 DEF HandlesOK, AsyncsRun, IsUsable, IsActive, Asyncs, Of
<1> QED BY <1>1, <1>2 DEF HandlesOK, R

(* uv_async_init() and the uv_*_init() of the others, on a closed handle   *)
LEMMA HandleIsInitialized ==
  ASSUME NEW H, HandlesOK(H), NEW h \in Handles, IsClosed(H, h)
  PROVE  /\ h \notin Asyncs => Turned(H, h, {"ref"}, Initialized(H, h))
         /\ h \in Asyncs =>
              Turned(H, h, {"ref", "active"}, Started(Initialized(H, h), h))
<1> DEFINE A == Initialized(H, h)
           R == Started(A, h)
<1>1. "ref" \notin H.flags[h] /\ ~IsClosing(H, h)
  BY DEF HandlesOK, HandlesFit, FlagsFit, IsClosing, IsClosed
<1>2. FitsWith(H, Handles, h, {"ref"}, A)
  BY <1>1, InitializedFits DEF HandlesOK
<1>3. h \notin Asyncs => Turned(H, h, {"ref"}, A)
  BY <1>2, TurnedFits
<1> HIDE DEF A
<1>4. HandlesFit(A, Handles) /\ A.flags[h] = {"ref"} /\ IsUsable(A, h)
  BY <1>2 DEF FitsWith, IsUsable
<1>5. FitsWith(A, Handles, h, A.flags[h] \cup {"active"}, R)
  BY <1>4, StartedFits
<1> HIDE DEF R
<1>6. FitsWith(H, Handles, h, {"ref", "active"}, R)
  BY <1>2, <1>4, <1>5 DEF FitsWith
<1>7. Turned(H, h, {"ref", "active"}, R)
  BY <1>6, TurnedFits
<1> QED BY <1>3, <1>7 DEF R, A

(* uv__run_closing_handles() takes the list.                               *)
LEMMA ListIsTaken ==
  ASSUME NEW H, HandlesOK(H), H.doomed = <<>>
  PROVE  LET R == TakeClosing(H)
         IN HandlesOK(R) /\ R.flags = H.flags
BY TakenFits DEF HandlesOK, AsyncsRun, IsUsable, IsActive

(* uv__finish_close()                                                      *)
LEMMA HandleIsClosed ==
  ASSUME NEW H, HandlesOK(H), H.doomed # <<>>
  PROVE  LET R == FinishClose(H)
             p == Head(H.doomed)
         IN /\ HandlesOK(R)
            /\ p \in Handles /\ IsClosing(H, p)
            /\ R.flags[p] = (H.flags[p] \cup {"closed"}) \ {"ref"}
            /\ \A g \in Handles : g # p => R.flags[g] = H.flags[g]
<1> DEFINE R == FinishClose(H)
           p == Head(H.doomed)
<1>1. /\ HandlesFit(R, Handles) /\ p \in Handles /\ IsClosing(H, p)
      /\ R.flags[p] = (H.flags[p] \cup {"closed"}) \ {"ref"}
      /\ \A g \in Handles : g # p => R.flags[g] = H.flags[g]
  <2>1. HandlesFit(H, Handles) /\ H.doomed # <<>>
    BY DEF HandlesOK
  <2>2. HandlesFit(R, Handles) /\ p \in Handles /\ FinishedWith(H, Handles, p, R)
    BY <2>1, FinishedFits
  <2> QED BY <2>2 DEF FinishedWith
<1> HIDE DEF R, p
<1>2. AsyncsRun(R)
  BY <1>1 DEF HandlesOK, AsyncsRun, IsClosing, IsUsable, IsActive, Asyncs, Of
<1> QED BY <1>1, <1>2 DEF HandlesOK, R, p

-----------------------------------------------------------------------------
(* The queue of a sentinel, and the foreach over it if there is one.       *)
Own(k)  == {k} \cup Of({k})
Live(k) == {k} \cup {h \in Of({k}) : Active(h)}

(* What the foreach has yet to call back.                                  *)
Due(k) ==
  IF k = "async" THEN {a \in pending : Usable(a) /\ ~pipe /\ sender # a}
                 ELSE stayed \ ran

OnItsWay(pos, W, k) ==
  /\ Walk(nxt, pos, Live(k), W, k, cursor)
  /\ \A h \in W \cap Handles : ~Closed(h)
  /\ Due(k) \subseteq W \cap Live(k)
  /\ user => cursor # k /\ cursor \notin Due(k)
  /\ k # "async" /\ ~rejoined => ran \cap W \subseteq IF user THEN {cursor} ELSE {}

Queue(k) ==
  \E pos \in [Nodes -> Int] :
    /\ Ring(nxt, prv, pos, Live(k), k)
    /\ phase = k => \E W \in SUBSET Own(k) : OnItsWay(pos, W, k)

(* uv__io_poll() waits for what there is to wait for.                      *)
SleepsWell ==
  IF phase = "poll"
  THEN /\ ~user
       /\ timeout # 0 =>
            /\ hs.closing = <<>>
            /\ \A h \in Handles : Active(h) =>
                 /\ Kind[h] # "idle"
                 /\ Kind[h] = "timer" => timeout \in 1..left[h]
  ELSE timeout # -1

SendsAreSeen ==
  \A a \in pending : Usable(a) => pipe \/ sender = a \/ phase = "async"

IInv ==
  /\ TypeOK
  /\ HandlesOK(hs)
  /\ phase # "closing" => hs.doomed = <<>>
  /\ \A k \in Sentinels : Queue(k)
  /\ SleepsWell
  /\ SendsAreSeen

LEMMA NodesOfQueues ==
  /\ Sentinels \subseteq Nodes
  /\ \A k \in Sentinels : Own(k) \subseteq Nodes /\ Own(k) \cap Handles = Of({k})
  /\ \A k \in Sentinels, j \in Sentinels : j # k => Own(k) \cap Own(j) = {}
  /\ \A h \in Watchers : Kind[h] \in WatcherKinds /\ h \in Of({Kind[h]}) /\ h \in Handles
  /\ \A a \in Asyncs : Kind[a] = "async" /\ a \in Of({"async"}) /\ a \in Handles
  /\ WatcherKinds \subseteq Sentinels /\ "async" \in Sentinels
  /\ Watchers \cap Asyncs = {} /\ Timers \cap Nodes = {}
  /\ Watchers \cup Asyncs \cup Timers = Handles
BY LoopAssumption
   DEF Nodes, Sentinels, WatcherKinds, Own, Of, Watchers, Asyncs, Timers

(* What does not concern a queue leaves it and its foreach as they are.    *)
LEMMA QueueIsKept ==
  ASSUME NEW k \in Sentinels, Queue(k),
         \A x \in Own(k) : nxt'[x] = nxt[x] /\ prv'[x] = prv[x],
         \A h \in Of({k}) : IsActive(hs', h) <=> IsActive(hs, h),
         phase' = k =>
           /\ phase = k /\ cursor' = cursor /\ user' = user /\ ran' = ran
           /\ rejoined => rejoined'
           /\ Due(k)' \subseteq Due(k)
           /\ \A h \in Of({k}) : IsClosed(hs', h) => IsClosed(hs, h)
  PROVE  Queue(k)'
<1>1. Live(k)' = Live(k) /\ Live(k) \subseteq Own(k)
  BY DEF Live, Own, Active
<1>2. PICK pos \in [Nodes -> Int] :
        /\ Ring(nxt, prv, pos, Live(k), k)
        /\ phase = k => \E W \in SUBSET Own(k) : OnItsWay(pos, W, k)
  BY DEF Queue
<1>3. Ring(nxt', prv', pos, Live(k)', k)
  BY <1>1, <1>2, RingIsKept
<1>4. CASE phase' = k
  <2>1. PICK W \in SUBSET Own(k) : OnItsWay(pos, W, k)
    BY <1>2, <1>4
  <2>2. Walk(nxt, pos, Live(k), W, k, cursor)
    BY <2>1 DEF OnItsWay
  <2>3. Walk(nxt', pos, Live(k)', W, k, cursor')
    <3>1. Walk(nxt', pos, Live(k), W, k, cursor)
      BY <2>2, WalkIsKept
    <3> QED BY <1>1, <1>4, <3>1
  <2>4. W \cap Handles \subseteq Of({k})
    BY NodesOfQueues
  <2>5. OnItsWay(pos, W, k)'
    <3>1. \A h \in W \cap Handles : ~Closed(h)'
      BY <1>4, <2>1, <2>4 DEF OnItsWay, Closed
    <3>2. Due(k)' \subseteq W \cap Live(k)'
      BY <1>1, <1>4, <2>1 DEF OnItsWay
    <3>3. user' => cursor' # k /\ cursor' \notin Due(k)'
      BY <1>4, <2>1 DEF OnItsWay
    <3>4. k # "async" /\ ~rejoined' =>
            ran' \cap W \subseteq IF user' THEN {cursor'} ELSE {}
      BY <1>4, <2>1 DEF OnItsWay
    <3> QED BY <2>3, <3>1, <3>2, <3>3, <3>4 DEF OnItsWay
  <2> QED BY <1>3, <2>5 DEF Queue
<1>5. CASE phase' # k
  BY <1>3, <1>5 DEF Queue
<1> QED BY <1>4, <1>5

(* ngx_queue_foreach() is over.                                            *)
LEMMA PassIsOver ==
  ASSUME TypeOK, phase \in Sentinels, Queue(phase), ~More
  PROVE  Due(phase) = {}
<1> DEFINE k == phase
<1>1. PICK pos \in [Nodes -> Int], W \in SUBSET Own(k) :
        Ring(nxt, prv, pos, Live(k), k) /\ OnItsWay(pos, W, k)
  BY DEF Queue
<1>2. /\ Walk(nxt, pos, Live(k), W, k, cursor) /\ Due(k) \subseteq W \cap Live(k)
      /\ nxt \in [Nodes -> Nodes] /\ prv \in [Nodes -> Nodes]
      /\ Live(k) \in SUBSET Nodes /\ W \in SUBSET Nodes /\ k \in Nodes
  BY <1>1, NodesOfQueues DEF OnItsWay, TypeOK, Live, Own
<1>3. k \notin Due(k)
  BY NodesOfQueues, LoopAssumption DEF Due, TypeOK
<1>4. CASE prv[k] = k
  <2>1. Live(k) = {k}
    BY <1>1, <1>2, <1>4, EmptyRing
  <2> QED BY <1>2, <1>3, <2>1
<1>5. CASE cursor = k
  <2>1. W = {k}
    BY <1>2, <1>5 DEF Walk, InOrder
  <2> QED BY <1>2, <1>3, <2>1
<1> QED BY <1>4, <1>5 DEF More

(* ngx_queue_foreach() begins.                                             *)
LEMMA PassBegins ==
  ASSUME TypeOK, HandlesOK(hs), \A k \in Sentinels : Queue(k),
         NEW j \in Sentinels, StartPass(j), UNCHANGED <<hs, nxt, prv, pending>>,
         ~user'
  PROVE  \A k \in Sentinels : Queue(k)'
<1> SUFFICES ASSUME NEW k \in Sentinels PROVE Queue(k)'
  OBVIOUS
<1>1. CASE k # j
  <2>1. phase' # k
    BY <1>1 DEF StartPass
  <2> QED BY <2>1, QueueIsKept
<1>2. CASE k = j
  <2>1. PICK pos \in [Nodes -> Int] : Ring(nxt, prv, pos, Live(k), k)
    BY DEF Queue
  <2> DEFINE W == Live(k)
  <2>2. Live(k)' = W /\ W \in SUBSET Own(k)
    BY DEF Live, Own, Active
  <2>3. Ring(nxt', prv', pos, Live(k)', k)
    BY <2>1, <2>2
  <2>4. Walk(nxt', pos, Live(k)', W, k, cursor')
    BY <1>2, <2>1, <2>2, WalkBegins DEF StartPass
  <2>5. \A h \in W \cap Handles : ~Closed(h)'
    BY LoopAssumption DEF Live, Active, Closed, HandlesOK, HandlesFit, FlagsFit, Of
  <2>6. Due(k)' \subseteq W
    <3>1. CASE k = "async"
      <4>1. Due(k)' \subseteq {a \in pending : IsUsable(hs, a)}
        BY <3>1 DEF Due, Usable
      <4>2. \A a \in pending : IsUsable(hs, a) => a \in W
        BY <3>1, NodesOfQueues DEF TypeOK, HandlesOK, HandlesFit, AsyncsRun, Live, Active
      <4> QED BY <4>1, <4>2
    <3>2. CASE k # "async"
      BY <1>2, <3>2, NodesOfQueues DEF Due, StartPass, Live, Active, Of
    <3> QED BY <3>1, <3>2
  <2>7. OnItsWay(pos, W, k)'
    BY <2>2, <2>4, <2>5, <2>6 DEF OnItsWay, StartPass
  <2> QED BY <2>2, <2>3, <2>7 DEF Queue
<1> QED BY <1>1, <1>2

(* The callback of the watcher at the cursor is called ...                 *)
LEMMA CallKeepsQueues ==
  ASSUME TypeOK, \A k \in Sentinels : Queue(k),
         phase \in Sentinels, cursor # phase, user',
         UNCHANGED <<hs, nxt, prv, phase, cursor, pipe, sender, stayed, rejoined>>,
         pending' = IF phase = "async" THEN pending \ {cursor} ELSE pending,
         ran' = ran \cup {cursor}
  PROVE  \A k \in Sentinels : Queue(k)'
<1> SUFFICES ASSUME NEW k \in Sentinels PROVE Queue(k)'
  OBVIOUS
<1>1. CASE k # phase
  BY <1>1, QueueIsKept
<1>2. CASE k = phase
  <2>1. PICK pos \in [Nodes -> Int], W \in SUBSET Own(k) :
          Ring(nxt, prv, pos, Live(k), k) /\ OnItsWay(pos, W, k)
    BY <1>2 DEF Queue
  <2>2. Live(k)' = Live(k)
    BY DEF Live, Active
  <2>3. Due(k)' \subseteq Due(k) \ {cursor}
    BY <1>2 DEF Due, Usable
  <2>4. k # "async" /\ ~rejoined => ran \cap W \subseteq {cursor}
    BY <2>1 DEF OnItsWay
  <2>5. OnItsWay(pos, W, k)'
    BY <1>2, <2>1, <2>2, <2>3, <2>4 DEF OnItsWay, Closed
  <2> QED BY <2>1, <2>2, <2>5 DEF Queue
<1> QED BY <1>1, <1>2

(* ... or the walk goes on: a watcher is called back once and no more,     *)
(* even if the way leads over the old links of watchers that have stopped. *)
LEMMA NextKeepsQueues ==
  ASSUME TypeOK, \A k \in Sentinels : Queue(k),
         phase \in Sentinels, cursor # phase, ~user', cursor' = nxt[cursor],
         user \/ (cursor \notin pending /\ phase = "async"),
         UNCHANGED <<hs, nxt, prv, phase, pipe, sender, pending, stayed, rejoined,
                     ran>>
  PROVE  \A k \in Sentinels : Queue(k)'
<1> SUFFICES ASSUME NEW k \in Sentinels PROVE Queue(k)'
  OBVIOUS
<1>1. CASE k # phase
  BY <1>1, QueueIsKept
<1>2. CASE k = phase
  <2>1. PICK pos \in [Nodes -> Int], W \in SUBSET Own(k) :
          Ring(nxt, prv, pos, Live(k), k) /\ OnItsWay(pos, W, k)
    BY <1>2 DEF Queue
  <2>6. PICK V \in SUBSET Own(k) : V = W \ {cursor}
    OBVIOUS
  <2>2. Live(k)' = Live(k) /\ Due(k)' = Due(k) /\ cursor \notin Due(k)
    BY <1>2, <2>1 DEF Live, Active, Due, Usable, OnItsWay
  <2>3. Walk(nxt, pos, Live(k), V, k, nxt[cursor])
    <3>1. /\ Walk(nxt, pos, Live(k), W, k, cursor)
          /\ nxt \in [Nodes -> Nodes] /\ cursor \in Nodes
          /\ Live(k) \in SUBSET Nodes /\ W \in SUBSET Nodes /\ k \in Nodes
      BY <2>1, NodesOfQueues DEF OnItsWay, TypeOK, Live, Own
    <3> QED BY <1>2, <2>6, <3>1, WalkGoesOn
  <2>4. k # "async" /\ ~rejoined => ran \cap V = {}
    BY <1>2, <2>1, <2>6 DEF OnItsWay
  <2>5. OnItsWay(pos, V, k)'
    <3>1. Walk(nxt', pos, Live(k)', V, k, cursor')
      BY <2>2, <2>3
    <3>2. \A h \in V \cap Handles : ~Closed(h)'
      BY <2>1, <2>6 DEF OnItsWay, Closed
    <3>3. Due(k)' \subseteq V \cap Live(k)'
      BY <2>1, <2>2, <2>6 DEF OnItsWay
    <3>4. k # "async" /\ ~rejoined' => ran' \cap V \subseteq IF user' THEN {cursor'} ELSE {}
      BY <2>4
    <3> QED BY <3>1, <3>2, <3>3, <3>4 DEF OnItsWay
  <2> QED BY <2>1, <2>2, <2>5 DEF Queue
<1> QED BY <1>1, <1>2

-----------------------------------------------------------------------------
(* The links change for one queue.                                         *)
LEMMA QueueOf ==
  ASSUME TypeOK, NEW j \in Sentinels, Queue(j)
  PROVE  /\ nxt \in [Nodes -> Nodes] /\ prv \in [Nodes -> Nodes] /\ cursor \in Nodes
         /\ j \in Nodes /\ Live(j) \in SUBSET Nodes /\ Live(j) \subseteq Own(j)
         /\ Own(j) \subseteq Nodes
         /\ \A x \in Live(j) : nxt[x] \in Live(j) /\ prv[x] \in Live(j)
         /\ j \in Live(j)
<1>1. PICK pos : Ring(nxt, prv, pos, Live(j), j)
  BY DEF Queue
<1>2. Live(j) \subseteq Own(j) /\ Own(j) \subseteq Nodes /\ j \in Live(j)
  BY NodesOfQueues DEF Live, Own
<1> QED BY <1>1, <1>2 DEF TypeOK, Ring, TwoWay, Own

LEMMA StartKeepsQueues ==
  ASSUME TypeOK, HandlesOK(hs), \A k \in Sentinels : Queue(k),
         NEW x \in Watchers, ~Active(x), Usable(x),
         SetQueues(InsertHead(Queues, Kind[x], x)),
         hs'.flags[x] = hs.flags[x] \cup {"active"},
         \A g \in Handles : g # x => hs'.flags[g] = hs.flags[g],
         rejoined' = (rejoined \/ (Kind[x] = phase /\ ~Active(cursor))),
         UNCHANGED <<phase, cursor, user, pending, pipe, sender, stayed, ran>>
  PROVE  \A k \in Sentinels : Queue(k)'
<1> SUFFICES ASSUME NEW k \in Sentinels PROVE Queue(k)'
  OBVIOUS
<1> DEFINE j == Kind[x]
<1>1. /\ j \in Sentinels /\ j # "async" /\ x \in Of({j}) /\ x \in Handles
      /\ x \in Nodes /\ x \notin Live(j) /\ ~IsClosed(hs, x)
  <2>1. j \in WatcherKinds /\ x \in Of({j}) /\ x \in Handles
    BY NodesOfQueues
  <2>2. j \in Sentinels /\ j # "async"
    BY <2>1 DEF Sentinels, WatcherKinds
  <2>3. x \in Nodes /\ x \notin Sentinels
    BY <2>1, LoopAssumption DEF Nodes
  <2>4. x \notin Live(j)
    BY <2>2, <2>3 DEF Live
  <2>5. ~IsClosed(hs, x)
    BY <2>1 DEF HandlesOK, HandlesFit, FlagsFit, Usable
  <2> QED BY <2>1, <2>2, <2>3, <2>4, <2>5
<1>2. /\ nxt' = [nxt EXCEPT ![x] = nxt[j], ![j] = x]
      /\ prv' = [prv EXCEPT ![nxt[j]] = x, ![x] = j]
  BY DEF SetQueues, Queues, InsertHead, InsertAfter
<1>3. /\ \A h \in Handles : IsActive(hs', h) <=> IsActive(hs, h) \/ h = x
      /\ \A h \in Handles : IsClosed(hs', h) <=> IsClosed(hs, h)
      /\ \A h \in Handles : IsUsable(hs', h) <=> IsUsable(hs, h)
  BY DEF IsActive, IsClosed, IsUsable
<1>4. \A i \in Sentinels : Due(i)' = Due(i)
  <2>1. \A a \in pending : IsUsable(hs', a) <=> IsUsable(hs, a)
    BY <1>3, NodesOfQueues DEF TypeOK
  <2> QED BY <2>1 DEF Due, Usable
<1>5. CASE k # j
  <2>1. nxt[j] \in Own(j) /\ j \in Own(j) /\ x \in Own(j)
    BY <1>1, QueueOf DEF Own
  <2>2. Own(j) \cap Own(k) = {} /\ Own(k) \subseteq Nodes /\ Of({k}) \subseteq Handles
        /\ x \notin Of({k})
    BY <1>1, <1>5, NodesOfQueues DEF Of
  <2>3. \A y \in Own(k) : nxt'[y] = nxt[y] /\ prv'[y] = prv[y]
    BY <1>2, <2>1, <2>2 DEF TypeOK
  <2>4. \A h \in Of({k}) : IsActive(hs', h) <=> IsActive(hs, h)
    BY <1>3, <2>2
  <2>5. \A h \in Of({k}) : IsClosed(hs', h) => IsClosed(hs, h)
    BY <1>3, <2>2
  <2> QED BY <1>4, <2>3, <2>4, <2>5, QueueIsKept
<1>6. CASE k = j
  <2>1. PICK pos \in [Nodes -> Int] :
          /\ Ring(nxt, prv, pos, Live(k), k)
          /\ phase = k => \E W \in SUBSET Own(k) : OnItsWay(pos, W, k)
    BY DEF Queue
  <2>2. Live(k)' = Live(k) \cup {x}
    BY <1>1, <1>3, <1>6 DEF Live, Active, Of
  <2>3. /\ nxt \in [Nodes -> Nodes] /\ prv \in [Nodes -> Nodes] /\ cursor \in Nodes
        /\ k \in Nodes /\ Live(k) \in SUBSET Nodes /\ nxt[k] \in Live(k)
        /\ Own(k) \subseteq Nodes /\ Live(k) \subseteq Own(k) /\ x \in Own(k)
    BY <1>1, <1>6, QueueOf DEF Own
  <2>4. \A h \in Live(k) \cap Handles : ~IsClosed(hs, h)
    BY <1>6, LoopAssumption DEF Live, HandlesOK, HandlesFit, FlagsFit, Active, Of
  <2>7. /\ nxt' = [nxt EXCEPT ![x] = nxt[k], ![k] = x]
        /\ prv' = [prv EXCEPT ![nxt[k]] = x, ![x] = k]
        /\ x \in Nodes /\ x \notin Live(k)
    BY <1>1, <1>2, <1>6
  <2>5. ASSUME phase = k, NEW W \in SUBSET Own(k), OnItsWay(pos, W, k), x \in W
        PROVE  Queue(k)'
    <3>1. PICK pos2 \in [Nodes -> Int] :
            Shifted(Nodes, Live(k), x, nxt[k], pos, pos2)
      <4> DEFINE F == [y \in Nodes |-> IF y \in Live(k) THEN pos[y]
                                       ELSE (pos[y] - pos[x]) + (pos[nxt[k]] - 1)]
      <4>1. nxt[k] \in Nodes /\ x \in Nodes
        BY <2>3, <2>7
      <4>2. pos[x] \in Int /\ pos[nxt[k]] \in Int
        BY <4>1
      <4>3. F \in [Nodes -> Int]
        BY <4>2
      <4>4. Shifted(Nodes, Live(k), x, nxt[k], pos, F)
        BY <2>3 DEF Shifted
      <4> HIDE DEF F
      <4> QED BY <4>3, <4>4
    <3>2. /\ pos2[x] = pos[nxt[k]] - 1
          /\ \A y \in Live(k) : pos2[y] = pos[y]
      BY <1>1, <1>6, <2>3, <2>7, <3>1 DEF Shifted
    <3>3. Ring(nxt', prv', pos2, Live(k)', k)
      <4>1. Ring(nxt', prv', pos2, Live(k) \cup {x}, k)
        BY <2>1, <2>3, <2>7, <3>2, HeadIsInserted
      <4> QED BY <2>2, <4>1
    <3>4. Walk(nxt, pos, Live(k), W, k, cursor) /\ W \in SUBSET Nodes
      BY <2>3, <2>5 DEF OnItsWay
    <3>5. PICK V \in SUBSET (W \cup Live(k)) :
            /\ Live(k) \cup {x} \subseteq V
            /\ Walk(nxt', pos2, Live(k) \cup {x}, V, k, cursor)
      <4>1. Ring(nxt, prv, pos, Live(k), k) /\ x \in W
        BY <2>1, <2>5
      <4>2. /\ nxt \in [Nodes -> Nodes] /\ prv \in [Nodes -> Nodes]
            /\ Live(k) \in SUBSET Nodes /\ W \in SUBSET Nodes
            /\ k \in Nodes /\ cursor \in Nodes /\ x \in Nodes /\ x \notin Live(k)
            /\ Walk(nxt, pos, Live(k), W, k, cursor)
            /\ nxt' = [nxt EXCEPT ![x] = nxt[k], ![k] = x]
            /\ Shifted(Nodes, Live(k), x, nxt[k], pos, pos2)
        BY <2>3, <2>7, <3>1, <3>4
      <4>3. /\ pos \in [Nodes -> Int] /\ pos2 \in [Nodes -> Int]
            /\ x \in W
        BY <2>5, <3>1
      <4>4. WalkBeginsAnew(nxt', pos2, Live(k), W, x, k, cursor)
        BY <4>1, <4>2, <4>3, WalkAfterRestart
      <4> QED BY <4>4 DEF WalkBeginsAnew
    <3>6. cursor \notin Live(k)
      BY <1>1, <1>6, <2>3, <2>5, <3>4 DEF Walk
    <3>7. cursor # k /\ cursor \in Own(k) /\ rejoined'
      <4>1. cursor # k /\ cursor \in Own(k)
        BY <3>4, <3>6, <2>5 DEF Live, Walk
      <4> QED BY <1>6, <2>5, <3>6, <4>1 DEF Live, Own
    <3>8. OnItsWay(pos2, V, k)'
      <4>1. Walk(nxt', pos2, Live(k)', V, k, cursor')
        BY <2>2, <3>5
      <4>2. \A h \in V \cap Handles : ~IsClosed(hs', h)
        BY <1>3, <2>4, <2>5, <3>5 DEF OnItsWay, Closed
      <4>3. Due(k)' \subseteq V \cap Live(k)'
        BY <1>4, <2>2, <2>5, <3>5 DEF OnItsWay
      <4>4. user' => cursor' # k /\ cursor' \notin Due(k)'
        BY <1>4, <2>5 DEF OnItsWay
      <4> QED BY <3>7, <4>1, <4>2, <4>3, <4>4 DEF OnItsWay, Closed
    <3>9. V \in SUBSET Own(k)
      BY <2>3, <3>5
    <3> QED BY <3>3, <3>8, <3>9 DEF Queue
  <2>6. ASSUME \A W \in SUBSET Own(k) :
                  phase = k /\ OnItsWay(pos, W, k) => x \notin W
        PROVE  Queue(k)'
    <3>1. PICK pos2 \in [Nodes -> Int] :
            pos2[x] = pos[nxt[k]] - 1 /\ SameBut(Nodes, {x}, pos, pos2)
      <4>1. nxt[k] \in Nodes /\ x \in Nodes
        BY <2>3, <2>7
      <4>2. pos[nxt[k]] - 1 \in Int
        BY <4>1
      <4>3. [pos EXCEPT ![x] = pos[nxt[k]] - 1] \in [Nodes -> Int]
        BY <4>2
      <4> QED BY <4>1, <4>3 DEF SameBut
    <3>2. /\ pos2[x] = pos[nxt[k]] - 1
          /\ \A y \in Live(k) : pos2[y] = pos[y]
      BY <1>1, <1>6, <2>3, <2>7, <3>1 DEF SameBut
    <3>3. Ring(nxt', prv', pos2, Live(k)', k)
      <4>1. Ring(nxt', prv', pos2, Live(k) \cup {x}, k)
        BY <2>1, <2>3, <2>7, <3>2, HeadIsInserted
      <4> QED BY <2>2, <4>1
    <3>4. ASSUME phase' = k PROVE \E W \in SUBSET Own(k) : OnItsWay(pos2, W, k)'
      <4>1. PICK W \in SUBSET Own(k) : OnItsWay(pos, W, k)
        BY <2>1, <3>4
      <4>2. Walk(nxt, pos, Live(k), W, k, cursor) /\ W \in SUBSET Nodes /\ x \notin W
        BY <2>3, <2>6, <3>4, <4>1 DEF OnItsWay
      <4>3. Walk(nxt', pos2, Live(k) \cup {x}, W, k, cursor)
        BY <2>1, <2>3, <2>7, <3>1, <4>2, WalkAfterStart
      <4>4. OnItsWay(pos2, W, k)'
        <5>1. \A h \in W \cap Handles : ~IsClosed(hs', h)
          BY <1>3, <4>1 DEF OnItsWay, Closed
        <5>2. Due(k)' \subseteq W \cap Live(k)'
          BY <1>4, <2>2, <4>1 DEF OnItsWay
        <5>3. user' => cursor' # k /\ cursor' \notin Due(k)'
          BY <1>4, <4>1 DEF OnItsWay
        <5>4. k # "async" /\ ~rejoined' =>
                 ran' \cap W \subseteq IF user' THEN {cursor'} ELSE {}
          BY <4>1 DEF OnItsWay
        <5> QED BY <2>2, <4>3, <5>1, <5>2, <5>3, <5>4 DEF OnItsWay, Closed
      <4> QED BY <4>4
    <3> QED BY <3>3, <3>4 DEF Queue
  <2> QED BY <2>5, <2>6
<1> QED BY <1>5, <1>6

LEMMA StopKeepsQueues ==
  ASSUME TypeOK, \A k \in Sentinels : Queue(k),
         NEW j \in Sentinels, NEW x \in Of({j}), Active(x),
         SetQueues(Removed(Queues, x)),
         ~IsActive(hs', x), IsClosed(hs', x) => IsClosed(hs, x),
         j = "async" => ~IsUsable(hs', x),
         \A g \in Handles : g # x => hs'.flags[g] = hs.flags[g],
         stayed' = stayed \ {x},
         UNCHANGED <<phase, cursor, user, pending, pipe, sender, ran, rejoined>>
  PROVE  \A k \in Sentinels : Queue(k)'
<1> SUFFICES ASSUME NEW k \in Sentinels PROVE Queue(k)'
  OBVIOUS
<1>1. /\ x \in Handles /\ x # j /\ x \in Live(j) /\ x \in Nodes
      /\ j \in Nodes /\ Own(j) \subseteq Nodes
      /\ nxt[x] \in Own(j) /\ prv[x] \in Own(j)
  <2>1. x \in Handles /\ x # j /\ x \in Live(j)
    BY LoopAssumption DEF Of, Live
  <2> QED BY <2>1, QueueOf
<1>2. /\ nxt' = [nxt EXCEPT ![prv[x]] = nxt[x]]
      /\ prv' = [prv EXCEPT ![nxt[x]] = prv[x]]
  BY DEF SetQueues, Queues, Removed
<1>3. /\ \A h \in Handles : IsActive(hs', h) <=> IsActive(hs, h) /\ h # x
      /\ \A h \in Handles : IsClosed(hs', h) => IsClosed(hs, h)
      /\ \A h \in Handles : h # x /\ IsUsable(hs', h) => IsUsable(hs, h)
  BY DEF IsActive, IsClosed, IsUsable
<1>4. ASSUME NEW i \in Sentinels PROVE Due(i)' \subseteq Due(i) \ {x}
  <2>1. CASE i = "async"
    <3>1. ASSUME NEW a \in pending, IsUsable(hs', a) PROVE a # x /\ IsUsable(hs, a)
      <4>1. a \in Handles /\ Kind[a] = "async"
        BY NodesOfQueues DEF TypeOK
      <4>2. a # x
        BY <3>1, <4>1 DEF Of
      <4> QED BY <1>3, <3>1, <4>1, <4>2
    <3> QED BY <2>1, <3>1 DEF Due, Usable
  <2>2. CASE i # "async"
    BY <2>2 DEF Due
  <2> QED BY <2>1, <2>2
<1>5. CASE k # j
  <2>1. Own(j) \cap Own(k) = {} /\ Own(k) \subseteq Nodes /\ Of({k}) \subseteq Own(k)
        /\ Of({k}) \subseteq Handles /\ x \in Own(j)
    BY <1>5, NodesOfQueues DEF Of, Own
  <2>2. \A y \in Own(k) : nxt'[y] = nxt[y] /\ prv'[y] = prv[y]
    BY <1>1, <1>2, <2>1 DEF TypeOK
  <2>3. \A h \in Of({k}) : IsActive(hs', h) <=> IsActive(hs, h)
    BY <1>3, <2>1
  <2>4. \A h \in Of({k}) : IsClosed(hs', h) => IsClosed(hs, h)
    BY <1>3, <2>1
  <2>5. Due(k)' \subseteq Due(k)
    BY <1>4
  <2> QED BY <2>2, <2>3, <2>4, <2>5, QueueIsKept
<1>6. CASE k = j
  <2>1. PICK pos \in [Nodes -> Int] :
          /\ Ring(nxt, prv, pos, Live(k), k)
          /\ phase = k => \E W \in SUBSET Own(k) : OnItsWay(pos, W, k)
    BY DEF Queue
  <2>2. Live(k)' = Live(k) \ {x}
    BY <1>1, <1>3, <1>6 DEF Live, Active, Of
  <2>3. /\ nxt \in [Nodes -> Nodes] /\ prv \in [Nodes -> Nodes] /\ cursor \in Nodes
        /\ k \in Nodes /\ Live(k) \in SUBSET Nodes /\ Own(k) \subseteq Nodes
        /\ x \in Live(k) /\ x # k
    BY <1>1, <1>6, QueueOf
  <2>4. Ring(nxt', prv', pos, Live(k)', k)
    <3>1. Ring(nxt', prv', pos, Live(k) \ {x}, k)
      BY <1>2, <2>1, <2>3, NodeIsRemoved
    <3> QED BY <2>2, <3>1
  <2>5. ASSUME phase' = k PROVE \E V \in SUBSET Own(k) : OnItsWay(pos, V, k)'
    <3>1. PICK W \in SUBSET Own(k) : OnItsWay(pos, W, k)
      BY <2>1, <2>5
    <3>2. /\ W \in SUBSET Nodes /\ Walk(nxt, pos, Live(k), W, k, cursor)
          /\ Ring(nxt, prv, pos, Live(k), k)
          /\ nxt' = [nxt EXCEPT ![prv[x]] = nxt[x]]
      BY <1>2, <2>1, <2>3, <3>1 DEF OnItsWay
    <3>3. WalkGoesBy(nxt', pos, Live(k), W, x, k, cursor)
      BY <2>3, <3>2, WalkAfterRemoval
    <3>4. PICK V \in SUBSET W :
            W \ {x} \subseteq V /\ Walk(nxt', pos, Live(k) \ {x}, V, k, cursor)
      BY <3>3 DEF WalkGoesBy
    <3>5. OnItsWay(pos, V, k)'
      <4>1. Walk(nxt', pos, Live(k)', V, k, cursor')
        BY <2>2, <3>4
      <4>2. \A h \in V \cap Handles : ~IsClosed(hs', h)
        BY <1>3, <3>1, <3>4 DEF OnItsWay, Closed
      <4>3. Due(k)' \subseteq V \cap Live(k)'
        BY <1>4, <2>2, <3>1, <3>4 DEF OnItsWay
      <4>4. user' => cursor' # k /\ cursor' \notin Due(k)'
        BY <1>4, <3>1 DEF OnItsWay
      <4>5. k # "async" /\ ~rejoined' =>
               ran' \cap V \subseteq IF user' THEN {cursor'} ELSE {}
        BY <3>1, <3>4 DEF OnItsWay
      <4> QED BY <4>1, <4>2, <4>3, <4>4, <4>5 DEF OnItsWay, Closed
    <3>6. V \in SUBSET Own(k)
      BY <3>4
    <3> QED BY <3>5, <3>6
  <2> QED BY <2>4, <2>5 DEF Queue
<1> QED BY <1>5, <1>6

LEMMA AppendKeepsQueues ==
  ASSUME TypeOK, HandlesOK(hs), \A k \in Sentinels : Queue(k),
         NEW x \in Asyncs, Closed(x),
         SetQueues(InsertTail(Queues, "async", x)),
         hs'.flags[x] = {"ref", "active"}, pending' = pending \ {x},
         \A g \in Handles : g # x => hs'.flags[g] = hs.flags[g],
         UNCHANGED <<phase, cursor, user, pipe, sender, stayed, ran, rejoined>>
  PROVE  \A k \in Sentinels : Queue(k)'
<1> SUFFICES ASSUME NEW k \in Sentinels PROVE Queue(k)'
  OBVIOUS
<1> DEFINE j == "async"
<1>1. /\ j \in Sentinels /\ x \in Of({j}) /\ x \in Handles /\ x \in Nodes
      /\ x \notin Live(j) /\ x \in Own(j) /\ x # j
  <2>1. j \in Sentinels /\ x \in Of({j}) /\ x \in Handles /\ x \in Nodes
    BY NodesOfQueues DEF Nodes
  <2>2. ~IsActive(hs, x)
    BY <2>1 DEF HandlesOK, HandlesFit, FlagsFit, Closed
  <2> QED BY <2>1, <2>2, LoopAssumption DEF Live, Active, Own
<1>2. /\ nxt' = [nxt EXCEPT ![x] = nxt[prv[j]], ![prv[j]] = x]
      /\ prv' = [prv EXCEPT ![nxt[prv[j]]] = x, ![x] = prv[j]]
  BY DEF SetQueues, Queues, InsertTail, InsertAfter
<1>3. /\ \A h \in Handles : IsActive(hs', h) <=> IsActive(hs, h) \/ h = x
      /\ \A h \in Handles : IsClosed(hs', h) => IsClosed(hs, h)
      /\ ~IsClosed(hs', x)
      /\ \A h \in Handles : h # x /\ IsUsable(hs', h) => IsUsable(hs, h)
  BY DEF IsActive, IsClosed, IsUsable
<1>4. ASSUME NEW i \in Sentinels PROVE Due(i)' \subseteq Due(i)
  <2>1. \A a \in pending' : a \in pending /\ a \in Handles /\ a # x
    BY NodesOfQueues DEF TypeOK
  <2> QED BY <1>3, <2>1 DEF Due, Usable
<1>5. CASE k # j
  <2>1. /\ nxt[prv[j]] \in Own(j) /\ prv[j] \in Own(j)
    BY <1>1, QueueOf
  <2>2. Own(j) \cap Own(k) = {} /\ Own(k) \subseteq Nodes /\ Of({k}) \subseteq Own(k)
        /\ Of({k}) \subseteq Handles
    BY <1>1, <1>5, NodesOfQueues DEF Of, Own
  <2>3. \A y \in Own(k) : nxt'[y] = nxt[y] /\ prv'[y] = prv[y]
    BY <1>1, <1>2, <2>1, <2>2 DEF TypeOK
  <2>4. \A h \in Of({k}) : IsActive(hs', h) <=> IsActive(hs, h)
    BY <1>1, <1>3, <2>2
  <2>5. \A h \in Of({k}) : IsClosed(hs', h) => IsClosed(hs, h)
    BY <1>3, <2>2
  <2>6. Due(k)' \subseteq Due(k)
    BY <1>4
  <2> QED BY <2>3, <2>4, <2>5, <2>6, QueueIsKept
<1>6. CASE k = j
  <2>1. PICK pos \in [Nodes -> Int] :
          /\ Ring(nxt, prv, pos, Live(k), k)
          /\ phase = k => \E W \in SUBSET Own(k) : OnItsWay(pos, W, k)
    BY DEF Queue
  <2>2. Live(k)' = Live(k) \cup {x}
    BY <1>1, <1>3, <1>6 DEF Live, Active, Of
  <2>3. /\ nxt \in [Nodes -> Nodes] /\ prv \in [Nodes -> Nodes] /\ cursor \in Nodes
        /\ k \in Nodes /\ Live(k) \in SUBSET Nodes /\ Own(k) \subseteq Nodes
        /\ k \in Live(k) /\ x \in Nodes /\ x \notin Live(k) /\ x # k
    BY <1>1, <1>6, QueueOf
  <2>7. Appended(nxt, prv, x, k, nxt', prv')
    BY <1>2, <1>6 DEF Appended
  <2>4. PICK pos2 \in [Nodes -> Int] : Moved(Nodes, x, k, pos, pos2)
    <3>1. pos[k] \in Int /\ pos[k] + 1 \in Int
      BY <2>3
    <3>2. [pos EXCEPT ![x] = pos[k], ![k] = pos[k] + 1] \in [Nodes -> Int]
      BY <3>1
    <3> QED BY <2>3, <3>2 DEF SameBut, Moved
  <2>5. Ring(nxt', prv', pos2, Live(k)', k)
    <3>1. Ring(nxt', prv', pos2, Live(k) \cup {x}, k)
      BY <2>1, <2>3, <2>4, <2>7, TailIsInserted
    <3> QED BY <2>2, <3>1
  <2>6. ASSUME phase' = k PROVE \E V \in SUBSET Own(k) : OnItsWay(pos2, V, k)'
    <3>1. PICK W \in SUBSET Own(k) : OnItsWay(pos, W, k)
      BY <2>1, <2>6
    <3>2. /\ W \in SUBSET Nodes /\ Walk(nxt, pos, Live(k), W, k, cursor)
          /\ Ring(nxt, prv, pos, Live(k), k) /\ x \notin W
      BY <1>1, <2>1, <2>3, <3>1 DEF OnItsWay
    <3>3. WalkGoesFurther(nxt', pos2, Live(k), W, x, k, cursor)
      BY <2>3, <2>4, <2>7, <3>2, WalkAfterAppend
    <3>4. PICK V \in SUBSET (W \cup {x}) :
            W \subseteq V /\ Walk(nxt', pos2, Live(k) \cup {x}, V, k, cursor)
      BY <3>3 DEF WalkGoesFurther
    <3>5. OnItsWay(pos2, V, k)'
      <4>1. Walk(nxt', pos2, Live(k)', V, k, cursor')
        BY <2>2, <3>4
      <4>2. \A h \in V \cap Handles : ~IsClosed(hs', h)
        BY <1>3, <3>1, <3>4 DEF OnItsWay, Closed
      <4>3. Due(k)' \subseteq V \cap Live(k)'
        BY <1>4, <2>2, <3>1, <3>4 DEF OnItsWay
      <4>4. user' => cursor' # k /\ cursor' \notin Due(k)'
        BY <1>4, <3>1 DEF OnItsWay
      <4> QED BY <1>6, <4>1, <4>2, <4>3, <4>4 DEF OnItsWay, Closed
    <3>6. V \in SUBSET Own(k)
      BY <1>1, <1>6, <3>4
    <3> QED BY <3>5, <3>6
  <2> QED BY <2>5, <2>6 DEF Queue
<1> QED BY <1>5, <1>6

(* What leaves the links alone.                                            *)
LEMMA QueuesAreKept ==
  ASSUME \A k \in Sentinels : Queue(k), UNCHANGED <<nxt, prv>>,
         \A h \in Watchers \cup Asyncs : IsActive(hs', h) <=> IsActive(hs, h),
         phase' \in Sentinels =>
           /\ UNCHANGED <<phase, cursor, user, ran>>
           /\ rejoined => rejoined'
           /\ \A k \in Sentinels : Due(k)' \subseteq Due(k)
           /\ \A h \in Handles : IsClosed(hs', h) => IsClosed(hs, h)
  PROVE  \A k \in Sentinels : Queue(k)'
<1> SUFFICES ASSUME NEW k \in Sentinels PROVE Queue(k)'
  OBVIOUS
<1>1. Of({k}) \subseteq Watchers \cup Asyncs /\ Of({k}) \subseteq Handles
  BY DEF Watchers, Asyncs, Of, Sentinels
<1>2. \A x \in Own(k) : nxt'[x] = nxt[x] /\ prv'[x] = prv[x]
  OBVIOUS
<1>3. \A h \in Of({k}) : IsActive(hs', h) <=> IsActive(hs, h)
  BY <1>1
<1>4. ASSUME phase' = k
      PROVE  /\ phase = k /\ cursor' = cursor /\ user' = user /\ ran' = ran
             /\ rejoined => rejoined'
             /\ Due(k)' \subseteq Due(k)
             /\ \A h \in Of({k}) : IsClosed(hs', h) => IsClosed(hs, h)
  BY <1>1, <1>4
<1> QED BY <1>2, <1>3, <1>4, QueueIsKept

-----------------------------------------------------------------------------
(* The calls of the program keep the invariant.                            *)
LEMMA CallIsFine ==
  ASSUME IInv, Calls, TypeOK', HandlesOK(hs'), hs'.doomed = hs.doomed,
         \A k \in Sentinels : Queue(k)', pipe => pipe',
         \A a \in pending' : IsUsable(hs', a) =>
            pipe' \/ (a \in pending /\ IsUsable(hs, a))
  PROVE  IInv'
<1>1. UNCHANGED <<phase, sender, timeout>> /\ phase # "poll"
  BY DEF Calls, runVars, IInv, SleepsWell
<1>2. SleepsWell'
  BY <1>1 DEF IInv, SleepsWell
<1>3. SendsAreSeen'
  BY <1>1 DEF IInv, SendsAreSeen, Usable
<1> QED BY <1>1, <1>2, <1>3 DEF IInv

LEMMA CallTypes ==
  ASSUME TypeOK, Calls, HandlesOK(hs'),
         nxt' \in [Nodes -> Nodes], prv' \in [Nodes -> Nodes],
         left' \in [Timers -> 0..MaxTimeout], repeat' \in [Timers -> 0..MaxTimeout],
         virgin' \subseteq Timers, pending' \subseteq Asyncs, pipe' \in BOOLEAN,
         stayed' \subseteq Handles, rejoined' \in BOOLEAN
  PROVE  TypeOK'
<1>1. calls' \in 0..MaxCalls
  BY LoopAssumption DEF TypeOK, Calls
<1>2. hs' \in HandlesOf(Handles)
  BY DEF HandlesOK, HandlesFit, CountsItsHandles
<1> QED BY <1>1, <1>2 DEF TypeOK, Calls, runVars

LEMMA StartWatcherIsFine ==
  ASSUME IInv, NEW w \in Watchers, StartWatcher(w)
  PROVE  IInv'
<1> USE DEF StartWatcher
<1>1. w \in Handles /\ w \in Nodes /\ Kind[w] \in Nodes /\ IsUsable(hs, w)
  BY NodesOfQueues DEF Nodes, Usable
<1>2. Turned(hs, w, hs.flags[w] \cup {"active"}, hs')
  BY <1>1, HandleIsStarted DEF IInv
<1>3. /\ HandlesOK(hs') /\ hs'.doomed = hs.doomed
      /\ hs'.flags[w] = hs.flags[w] \cup {"active"}
      /\ \A g \in Handles : g # w => hs'.flags[g] = hs.flags[g]
  BY <1>2 DEF Turned
<1>4. nxt' \in [Nodes -> Nodes] /\ prv' \in [Nodes -> Nodes]
  BY <1>1 DEF IInv, TypeOK, SetQueues, Queues, InsertHead, InsertAfter
<1>5. TypeOK'
  <2>1. /\ left' = left /\ repeat' = repeat /\ virgin' = virgin /\ pending' = pending
        /\ pipe' = pipe /\ stayed' = stayed /\ rejoined' \in BOOLEAN
    BY DEF timerVars, IInv, TypeOK
  <2> QED BY <1>3, <1>4, <2>1, CallTypes DEF IInv, TypeOK
<1>6. \A k \in Sentinels : Queue(k)'
  <2>1. UNCHANGED <<phase, cursor, user, pending, pipe, sender, stayed, ran>>
    BY DEF Calls, runVars
  <2>2. ~Active(w) /\ Usable(w) /\ SetQueues(InsertHead(Queues, Kind[w], w))
        /\ rejoined' = (rejoined \/ (Kind[w] = phase /\ ~Active(cursor)))
    OBVIOUS
  <2> QED BY <1>3, <2>1, <2>2, StartKeepsQueues DEF IInv
<1>7. \A a \in pending' : IsUsable(hs', a) => a \in pending /\ IsUsable(hs, a)
  BY <1>3, NodesOfQueues DEF IInv, TypeOK, IsUsable
<1> QED BY <1>3, <1>5, <1>6, <1>7, CallIsFine

LEMMA StopWatcherIsFine ==
  ASSUME IInv, NEW w \in Watchers, StopWatcher(w)
  PROVE  IInv'
<1> USE DEF StopWatcher
<1>1. /\ w \in Handles /\ w \notin Asyncs /\ w \in Nodes
      /\ Kind[w] \in Sentinels /\ Kind[w] # "async" /\ w \in Of({Kind[w]})
  BY NodesOfQueues DEF Nodes, WatcherKinds
<1>2. Turned(hs, w, hs.flags[w] \ {"active"}, hs')
  BY <1>1, HandleIsStopped DEF IInv
<1>3. /\ HandlesOK(hs') /\ hs'.doomed = hs.doomed
      /\ hs'.flags[w] = hs.flags[w] \ {"active"}
      /\ \A g \in Handles : g # w => hs'.flags[g] = hs.flags[g]
  BY <1>2 DEF Turned
<1>4. nxt' \in [Nodes -> Nodes] /\ prv' \in [Nodes -> Nodes]
  BY <1>1 DEF IInv, TypeOK, SetQueues, Queues, Removed
<1>5. TypeOK'
  <2>1. /\ left' = left /\ repeat' = repeat /\ virgin' = virgin /\ pending' = pending
        /\ pipe' = pipe /\ stayed' \subseteq stayed /\ rejoined' = rejoined
    BY DEF timerVars
  <2> QED BY <1>3, <1>4, <2>1, CallTypes DEF IInv, TypeOK
<1>6. \A k \in Sentinels : Queue(k)'
  <2>1. UNCHANGED <<phase, cursor, user, pending, pipe, sender, ran, rejoined>>
    BY DEF Calls, runVars
  <2>2. ~IsActive(hs', w) /\ (IsClosed(hs', w) => IsClosed(hs, w))
    BY <1>3 DEF IsActive, IsClosed
  <2>3. Active(w) /\ SetQueues(Removed(Queues, w)) /\ stayed' = stayed \ {w}
    OBVIOUS
  <2> QED BY <1>1, <1>3, <2>1, <2>2, <2>3, StopKeepsQueues DEF IInv
<1>7. \A a \in pending' : IsUsable(hs', a) => a \in pending /\ IsUsable(hs, a)
  BY <1>3, NodesOfQueues DEF IInv, TypeOK, IsUsable
<1> QED BY <1>3, <1>5, <1>6, <1>7, CallIsFine

(* Calls that leave the links alone.                                       *)
LEMMA QuietCall ==
  ASSUME IInv, Calls, HandlesOK(hs'), hs'.doomed = hs.doomed,
         UNCHANGED <<nxt, prv, pipe, rejoined>>,
         stayed' \subseteq stayed, pending' \subseteq pending,
         left' \in [Timers -> 0..MaxTimeout], repeat' \in [Timers -> 0..MaxTimeout],
         virgin' \subseteq Timers,
         \A h \in Watchers \cup Asyncs : IsActive(hs', h) <=> IsActive(hs, h),
         \A a \in Asyncs : IsUsable(hs', a) /\ a \in pending' => IsUsable(hs, a),
         \A h \in Handles : IsClosed(hs', h) => IsClosed(hs, h)
  PROVE  IInv'
<1>1. TypeOK'
  BY CallTypes DEF IInv, TypeOK
<1>2. UNCHANGED <<phase, cursor, user, ran, sender>>
  BY DEF Calls, runVars
<1>3. ASSUME NEW k \in Sentinels PROVE Due(k)' \subseteq Due(k)
  <2>1. \A a \in pending' : a \in pending /\ (IsUsable(hs', a) => IsUsable(hs, a))
    BY DEF IInv, TypeOK
  <2> QED BY <1>2, <2>1 DEF Due, Usable
<1>4. \A k \in Sentinels : Queue(k)'
  BY <1>2, <1>3, QueuesAreKept DEF IInv
<1>5. \A a \in pending' : IsUsable(hs', a) => a \in pending /\ IsUsable(hs, a)
  BY DEF IInv, TypeOK
<1> QED BY <1>1, <1>4, <1>5, CallIsFine

(* Nothing but a flag or two of one handle changes.                        *)
LEMMA FlagsOfOthersAreKept ==
  ASSUME NEW H, NEW h \in Handles, NEW f, NEW R, Turned(H, h, f, R)
  PROVE  /\ HandlesOK(R) /\ R.doomed = H.doomed /\ R.flags[h] = f
         /\ \A g \in Handles : g # h =>
              /\ IsActive(R, g) <=> IsActive(H, g)
              /\ IsUsable(R, g) <=> IsUsable(H, g)
              /\ IsClosed(R, g) <=> IsClosed(H, g)
BY DEF Turned, IsActive, IsUsable, IsClosed

LEMMA AgainIsFine ==
  ASSUME NEW H, HandlesOK(H), TypeOK, NEW t \in Timers, IsUsable(H, t), Again(H, t)
  PROVE  /\ HandlesOK(hs') /\ hs'.doomed = H.doomed
         /\ left' \in [Timers -> 0..MaxTimeout]
         /\ \A g \in Handles : g # t =>
              /\ IsActive(hs', g) <=> IsActive(H, g)
              /\ IsUsable(hs', g) <=> IsUsable(H, g)
              /\ IsClosed(hs', g) <=> IsClosed(H, g)
         /\ IsClosed(hs', t) => IsClosed(H, t)
<1>1. t \in Handles
  BY NodesOfQueues
<1>2. CASE t \notin virgin /\ repeat[t] # 0
  <2>1. /\ hs' = Started(Stopped(H, t), t)
        /\ left' = [left EXCEPT ![t] = repeat[t]]
    BY <1>2 DEF Again
  <2>2. Turned(H, t, H.flags[t] \cup {"active"}, hs')
    BY <2>1, TimerIsRestarted
  <2>3. /\ HandlesOK(hs') /\ hs'.doomed = H.doomed
        /\ hs'.flags[t] = H.flags[t] \cup {"active"}
        /\ \A g \in Handles : g # t =>
             /\ IsActive(hs', g) <=> IsActive(H, g)
             /\ IsUsable(hs', g) <=> IsUsable(H, g)
             /\ IsClosed(hs', g) <=> IsClosed(H, g)
    BY <1>1, <2>2, FlagsOfOthersAreKept
  <2>4. left' \in [Timers -> 0..MaxTimeout]
    BY <2>1 DEF TypeOK
  <2>5. IsClosed(hs', t) => IsClosed(H, t)
    BY <2>3 DEF IsClosed
  <2> QED BY <2>3, <2>4, <2>5
<1>3. CASE ~(t \notin virgin /\ repeat[t] # 0)
  BY <1>3 DEF Again, TypeOK
<1> QED BY <1>2, <1>3

LEMMA TimerStartIsFine ==
  ASSUME IInv, NEW t \in Timers, NEW d \in 0..MaxTimeout, NEW r \in 0..MaxTimeout,
         TimerStart(t, d, r)
  PROVE  IInv'
<1>1. t \in Handles /\ t \notin Watchers \cup Asyncs
      /\ Watchers \cup Asyncs \subseteq Handles /\ Asyncs \subseteq Handles
  BY NodesOfQueues DEF Nodes
<1>2. Turned(hs, t, hs.flags[t] \cup {"active"}, hs')
  BY TimerIsRestarted DEF IInv, TimerStart, Usable
<1>3. /\ HandlesOK(hs') /\ hs'.doomed = hs.doomed
      /\ hs'.flags[t] = hs.flags[t] \cup {"active"}
      /\ \A g \in Handles : g # t =>
           /\ IsActive(hs', g) <=> IsActive(hs, g)
           /\ IsUsable(hs', g) <=> IsUsable(hs, g)
           /\ IsClosed(hs', g) <=> IsClosed(hs, g)
  BY <1>1, <1>2, FlagsOfOthersAreKept
<1>4. IsClosed(hs', t) => IsClosed(hs, t)
  BY <1>3 DEF IsClosed
<1>5. /\ left' \in [Timers -> 0..MaxTimeout] /\ repeat' \in [Timers -> 0..MaxTimeout]
      /\ virgin' \subseteq Timers
  BY DEF TimerStart, IInv, TypeOK
<1>6. Calls /\ UNCHANGED <<nxt, prv, pipe, rejoined, stayed, pending>>
  BY DEF TimerStart, queueVars
<1> QED BY <1>1, <1>3, <1>4, <1>5, <1>6, QuietCall

LEMMA TimerStopIsFine ==
  ASSUME IInv, NEW t \in Timers, TimerStop(t)
  PROVE  IInv'
<1>1. t \in Handles /\ t \notin Watchers \cup Asyncs
      /\ Watchers \cup Asyncs \subseteq Handles /\ Asyncs \subseteq Handles
  BY NodesOfQueues DEF Nodes
<1>2. Turned(hs, t, hs.flags[t] \ {"active"}, hs')
  BY <1>1, HandleIsStopped DEF IInv, TimerStop
<1>3. /\ HandlesOK(hs') /\ hs'.doomed = hs.doomed
      /\ hs'.flags[t] = hs.flags[t] \ {"active"}
      /\ \A g \in Handles : g # t =>
           /\ IsActive(hs', g) <=> IsActive(hs, g)
           /\ IsUsable(hs', g) <=> IsUsable(hs, g)
           /\ IsClosed(hs', g) <=> IsClosed(hs, g)
  BY <1>1, <1>2, FlagsOfOthersAreKept
<1>4. IsClosed(hs', t) => IsClosed(hs, t)
  BY <1>3 DEF IsClosed
<1>5. /\ left' \in [Timers -> 0..MaxTimeout] /\ repeat' \in [Timers -> 0..MaxTimeout]
      /\ virgin' \subseteq Timers
  BY LoopAssumption DEF TimerStop, IInv, TypeOK
<1>6. Calls /\ UNCHANGED <<nxt, prv, pipe, rejoined, stayed, pending>>
  BY DEF TimerStop, queueVars
<1> QED BY <1>1, <1>3, <1>4, <1>5, <1>6, QuietCall

LEMMA TimerAgainIsFine ==
  ASSUME IInv, NEW t \in Timers, TimerAgain(t)
  PROVE  IInv'
<1>1. t \in Handles /\ t \notin Watchers \cup Asyncs
      /\ Watchers \cup Asyncs \subseteq Handles /\ Asyncs \subseteq Handles
  BY NodesOfQueues DEF Nodes
<1>2. HandlesOK(hs) /\ TypeOK /\ IsUsable(hs, t) /\ Again(hs, t)
  BY DEF IInv, TimerAgain, Usable
<1>3. /\ HandlesOK(hs') /\ hs'.doomed = hs.doomed
      /\ left' \in [Timers -> 0..MaxTimeout]
      /\ \A g \in Handles : g # t =>
           /\ IsActive(hs', g) <=> IsActive(hs, g)
           /\ IsUsable(hs', g) <=> IsUsable(hs, g)
           /\ IsClosed(hs', g) <=> IsClosed(hs, g)
      /\ IsClosed(hs', t) => IsClosed(hs, t)
  BY <1>2, AgainIsFine
<1>4. /\ repeat' \in [Timers -> 0..MaxTimeout] /\ virgin' \subseteq Timers
  BY DEF TimerAgain, IInv, TypeOK
<1>5. Calls /\ UNCHANGED <<nxt, prv, pipe, rejoined, stayed, pending>>
  BY DEF TimerAgain, queueVars
<1> QED BY <1>1, <1>3, <1>4, <1>5, QuietCall

LEMMA TickTypes ==
  ASSUME TypeOK, NEW d \in Nat, Tick(d)
  PROVE  left' \in [Timers -> 0..MaxTimeout]
BY LoopAssumption DEF Tick, TypeOK

LEMMA SetRepeatOrTimeIsFine ==
  ASSUME IInv, \/ \E t \in Timers, r \in 0..MaxTimeout : SetRepeat(t, r)
               \/ \E d \in 1..MaxTimeout : UpdateTime(d)
  PROVE  IInv'
<1>1. /\ left' \in [Timers -> 0..MaxTimeout] /\ repeat' \in [Timers -> 0..MaxTimeout]
      /\ virgin' \subseteq Timers
  <2>1. CASE \E t \in Timers, r \in 0..MaxTimeout : SetRepeat(t, r)
    BY <2>1 DEF SetRepeat, IInv, TypeOK
  <2>2. CASE \E d \in 1..MaxTimeout : UpdateTime(d)
    <3>1. PICK d \in 1..MaxTimeout : UpdateTime(d)
      BY <2>2
    <3>2. left' \in [Timers -> 0..MaxTimeout]
      BY <3>1, TickTypes DEF UpdateTime, IInv
    <3> QED BY <3>1, <3>2 DEF UpdateTime, IInv, TypeOK
  <2> QED BY <2>1, <2>2
<1>2. Calls /\ UNCHANGED <<hs, nxt, prv, pipe, rejoined, stayed, pending>>
  BY DEF SetRepeat, UpdateTime, queueVars
<1>3. HandlesOK(hs') /\ hs'.doomed = hs.doomed
  BY <1>2 DEF IInv
<1> QED BY <1>1, <1>2, <1>3, QuietCall

LEMMA CloseIsFine ==
  ASSUME IInv, NEW h \in Handles, Close(h)
  PROVE  IInv'
<1> DEFINE R == MakeClosePending(Stopped(Closing(hs, h), h), h)
<1>1. /\ Calls /\ IsUsable(hs, h) /\ hs' = R
      /\ stayed' = stayed \ {h}
      /\ UNCHANGED <<repeat, virgin, pending, pipe, rejoined>>
      /\ left' = [t \in Timers |-> IF t = h THEN 0 ELSE left[t]]
  BY DEF Close, Usable
<1>2. /\ HandlesOK(R) /\ R.doomed = hs.doomed
      /\ R.flags[h] = (hs.flags[h] \cup {"closing"}) \ {"active"}
      /\ \A g \in Handles : g # h => R.flags[g] = hs.flags[g]
  BY <1>1, HandleIsClosing DEF IInv
<1> HIDE DEF R
<1>3. /\ \A g \in Handles : IsActive(hs', g) <=> IsActive(hs, g) /\ g # h
      /\ \A g \in Handles : IsUsable(hs', g) <=> IsUsable(hs, g) /\ g # h
      /\ \A g \in Handles : IsClosed(hs', g) <=> IsClosed(hs, g)
  BY <1>1, <1>2 DEF IsActive, IsUsable, IsClosed
<1>4. left' \in [Timers -> 0..MaxTimeout]
  BY <1>1, LoopAssumption DEF IInv, TypeOK
<1>5. CASE h \in Asyncs \/ (h \in Watchers /\ Active(h))
  <2>1. SetQueues(Removed(Queues, h))
    BY <1>5 DEF Close
  <2>2. IsActive(hs, h)
    BY <1>1, <1>5 DEF IInv, HandlesOK, HandlesFit, AsyncsRun, Active
  <2>3. PICK j \in Sentinels : h \in Of({j}) /\ h \in Nodes
    BY <1>5, NodesOfQueues DEF Nodes
  <2>4. nxt' \in [Nodes -> Nodes] /\ prv' \in [Nodes -> Nodes]
    BY <2>1, <2>3 DEF IInv, TypeOK, SetQueues, Queues, Removed
  <2>5. TypeOK'
    BY <1>1, <1>2, <1>4, <2>4, CallTypes DEF IInv, TypeOK
  <2>6. \A k \in Sentinels : Queue(k)'
    <3>1. UNCHANGED <<phase, cursor, user, pending, pipe, sender, ran, rejoined>>
      BY <1>1 DEF Calls, runVars
    <3>2. /\ ~IsActive(hs', h) /\ (IsClosed(hs', h) => IsClosed(hs, h))
          /\ ~IsUsable(hs', h) /\ Active(h)
          /\ \A g \in Handles : g # h => hs'.flags[g] = hs.flags[g]
      BY <1>1, <1>2, <1>3, <2>2 DEF Active
    <3> QED BY <1>1, <2>1, <2>3, <3>1, <3>2, StopKeepsQueues DEF IInv
  <2>7. \A a \in pending' : IsUsable(hs', a) => a \in pending /\ IsUsable(hs, a)
    BY <1>1, <1>3, NodesOfQueues DEF IInv, TypeOK
  <2> QED BY <1>1, <1>2, <2>5, <2>6, <2>7, CallIsFine
<1>6. CASE ~(h \in Asyncs \/ (h \in Watchers /\ Active(h)))
  <2>1. UNCHANGED <<nxt, prv>>
    BY <1>6 DEF Close, queueVars
  <2>2. Watchers \cup Asyncs \subseteq Handles /\ Asyncs \subseteq Handles
    BY NodesOfQueues
  <2>3. \A g \in Watchers \cup Asyncs : IsActive(hs', g) <=> IsActive(hs, g)
    BY <1>3, <1>6, <2>2 DEF Active
  <2> QED BY <1>1, <1>2, <1>3, <1>4, <2>1, <2>2, <2>3, QuietCall DEF IInv, TypeOK
<1> QED BY <1>5, <1>6

LEMMA ReinitIsFine ==
  ASSUME IInv, NEW h \in Handles, Reinit(h)
  PROVE  IInv'
<1>1. /\ Calls /\ IsClosed(hs, h) /\ pending' = pending \ {h}
      /\ virgin' \subseteq Timers
      /\ UNCHANGED <<left, repeat, pipe, stayed, rejoined>>
  BY DEF Reinit, Closed, IInv, TypeOK
<1>2. ~IsActive(hs, h)
  BY <1>1 DEF IInv, HandlesOK, HandlesFit, FlagsFit
<1>3. CASE h \in Asyncs
  <2>1. /\ hs' = Started(Initialized(hs, h), h)
        /\ SetQueues(InsertTail(Queues, "async", h))
    BY <1>3 DEF Reinit
  <2>2. Turned(hs, h, {"ref", "active"}, hs')
    BY <1>1, <1>3, <2>1, HandleIsInitialized DEF IInv
  <2>3. /\ HandlesOK(hs') /\ hs'.doomed = hs.doomed
        /\ hs'.flags[h] = {"ref", "active"}
        /\ \A g \in Handles : g # h => hs'.flags[g] = hs.flags[g]
    BY <2>2 DEF Turned
  <2>4. nxt' \in [Nodes -> Nodes] /\ prv' \in [Nodes -> Nodes]
    <3>1. h \in Nodes /\ "async" \in Nodes
      BY <1>3, NodesOfQueues DEF Nodes
    <3> QED BY <2>1, <3>1
            DEF IInv, TypeOK, SetQueues, Queues, InsertTail, InsertAfter
  <2>5. TypeOK'
    BY <1>1, <2>3, <2>4, CallTypes DEF IInv, TypeOK
  <2>6. \A k \in Sentinels : Queue(k)'
    <3>1. UNCHANGED <<phase, cursor, user, pipe, sender, stayed, ran, rejoined>>
      BY <1>1 DEF Calls, runVars
    <3>2. Closed(h)
      BY <1>1 DEF Closed
    <3> QED BY <1>1, <1>3, <2>1, <2>3, <3>1, <3>2, AppendKeepsQueues DEF IInv
  <2>7. \A a \in pending' : IsUsable(hs', a) => a \in pending /\ IsUsable(hs, a)
    BY <1>1, <2>3, NodesOfQueues DEF IInv, TypeOK, IsUsable
  <2> QED BY <1>1, <2>3, <2>5, <2>6, <2>7, CallIsFine
<1>4. CASE h \notin Asyncs
  <2>1. hs' = Initialized(hs, h) /\ UNCHANGED <<nxt, prv>>
    BY <1>4 DEF Reinit, queueVars
  <2>2. Turned(hs, h, {"ref"}, hs')
    BY <1>1, <1>4, <2>1, HandleIsInitialized DEF IInv
  <2>3. /\ HandlesOK(hs') /\ hs'.doomed = hs.doomed /\ hs'.flags[h] = {"ref"}
        /\ \A g \in Handles : g # h =>
             /\ IsActive(hs', g) <=> IsActive(hs, g)
             /\ IsUsable(hs', g) <=> IsUsable(hs, g)
             /\ IsClosed(hs', g) <=> IsClosed(hs, g)
    BY <2>2, FlagsOfOthersAreKept
  <2>4. ~IsActive(hs', h) /\ ~IsClosed(hs', h)
    BY <2>3 DEF IsActive, IsClosed
  <2>5. Watchers \cup Asyncs \subseteq Handles /\ Asyncs \subseteq Handles
    BY NodesOfQueues
  <2> QED BY <1>1, <1>2, <1>4, <2>1, <2>3, <2>4, <2>5, QuietCall DEF IInv, TypeOK
<1> QED BY <1>3, <1>4

LEMMA ChangeRefIsFine ==
  ASSUME IInv, NEW h \in Handles, ChangeRef(h)
  PROVE  IInv'
<1>1. /\ Calls /\ ~IsClosed(hs, h) /\ hs' \in {Reffed(hs, h), Unreffed(hs, h)}
      /\ UNCHANGED <<nxt, prv, left, repeat, virgin, pending, pipe, stayed, rejoined>>
  BY DEF ChangeRef, Closed, queueVars, timerVars
<1>2. \/ Turned(hs, h, hs.flags[h] \cup {"ref"}, hs')
      \/ Turned(hs, h, hs.flags[h] \ {"ref"}, hs')
  BY <1>1, HandleIsReffed DEF IInv
<1>3. /\ HandlesOK(hs') /\ hs'.doomed = hs.doomed
      /\ \A g \in Handles : /\ IsActive(hs', g) <=> IsActive(hs, g)
                            /\ IsUsable(hs', g) <=> IsUsable(hs, g)
                            /\ IsClosed(hs', g) <=> IsClosed(hs, g)
  BY <1>2 DEF Turned, IsActive, IsUsable, IsClosed
<1>4. Watchers \cup Asyncs \subseteq Handles /\ Asyncs \subseteq Handles
  BY NodesOfQueues
<1> QED BY <1>1, <1>3, <1>4, QuietCall DEF IInv, TypeOK

(* uv_async_send(): the byte is in the pipe, or another thread has it.     *)
LEMMA SendIsFine ==
  ASSUME IInv, NEW a \in Asyncs, Send(a)
  PROVE  IInv'
<1>1. /\ Calls /\ pipe' = TRUE /\ pending' \subseteq Asyncs
      /\ UNCHANGED <<hs, nxt, prv, left, repeat, virgin, stayed, rejoined>>
      /\ UNCHANGED <<phase, cursor, user, ran>>
  BY DEF Send, Calls, runVars, queueVars, timerVars, IInv, TypeOK
<1>2. HandlesOK(hs') /\ hs'.doomed = hs.doomed
  BY <1>1 DEF IInv
<1>3. TypeOK'
  BY <1>1, <1>2, CallTypes DEF IInv, TypeOK
<1>4. \A k \in Sentinels : Due(k)' \subseteq Due(k)
  BY <1>1 DEF Due
<1>5. \A k \in Sentinels : Queue(k)'
  BY <1>1, <1>4, QueuesAreKept DEF IInv
<1> QED BY <1>1, <1>2, <1>3, <1>5, CallIsFine

LEMMA ThreadStepIsFine ==
  ASSUME IInv, ThreadStep
  PROVE  IInv'
<1>1. /\ UNCHANGED <<hs, nxt, prv, left, repeat, virgin, calls, phase, mode, timeout,
                     cursor, user, ran, stayed, rejoined>>
      /\ pipe => pipe'
  BY DEF ThreadStep, ThreadWrites, ThreadSends, queueVars, timerVars, runVars, passVars
<1>2. /\ pending' \subseteq Asyncs /\ pipe' \in BOOLEAN /\ sender' \in Asyncs \cup Sentinels
      /\ \A a \in pending' : a \in pending \/ a = sender'
      /\ \A a \in pending : pipe' \/ sender' = a \/ sender # a
  <2>1. "async" \notin Asyncs /\ "async" \in Sentinels /\ pending \subseteq Asyncs
        /\ pipe \in BOOLEAN
    BY NodesOfQueues, LoopAssumption DEF IInv, TypeOK
  <2> QED BY <2>1 DEF ThreadStep, ThreadWrites, ThreadSends
<1>3. TypeOK'
  BY <1>1, <1>2 DEF IInv, TypeOK
<1>4. \A k \in Sentinels : Due(k)' \subseteq Due(k)
  BY <1>1, <1>2 DEF Due, Usable
<1>5. \A k \in Sentinels : Queue(k)'
  BY <1>1, <1>4, QueuesAreKept DEF IInv
<1>6. SleepsWell'
  BY <1>1 DEF IInv, SleepsWell, Active
<1>7. SendsAreSeen'
  BY <1>1, <1>2 DEF IInv, SendsAreSeen, Usable
<1> QED BY <1>1, <1>3, <1>5, <1>6, <1>7 DEF IInv

LEMMA ProgramStepIsFine ==
  ASSUME IInv, ProgramStep
  PROVE  IInv'
BY CloseIsFine, ReinitIsFine, ChangeRefIsFine, StartWatcherIsFine, StopWatcherIsFine,
   TimerStartIsFine, TimerStopIsFine, TimerAgainIsFine, SetRepeatOrTimeIsFine, SendIsFine
   DEF ProgramStep

-----------------------------------------------------------------------------
(* So do the steps of uv_run2().                                           *)
LEMMA CursorIsOwn ==
  ASSUME phase \in Sentinels, Queue(phase)
  PROVE  /\ cursor \in Own(phase) /\ (user => cursor # phase)
         /\ cursor # phase => cursor \in Handles
BY NodesOfQueues DEF Queue, OnItsWay, Walk, Own, Of

(* A foreach begins.                                                       *)
LEMMA PassIsFine ==
  ASSUME IInv, NEW j \in Sentinels, StartPass(j), phase # "closing",
         UNCHANGED <<LoopVars, left, pending, mode>>, ~user', user' \in BOOLEAN,
         timeout' \in 0..MaxTimeout, pipe' \in BOOLEAN, SendsAreSeen'
  PROVE  IInv'
<1>1. UNCHANGED <<hs, nxt, prv, repeat, virgin, sender, calls>> /\ phase' = j
  BY DEF LoopVars, queueVars, StartPass
<1>2. TypeOK'
  <2>1. /\ cursor' \in Nodes /\ ran' = {} /\ stayed' \subseteq Handles /\ rejoined' = FALSE
    BY NodesOfQueues DEF StartPass, IInv, TypeOK
  <2>2. j \in Phases
    BY DEF Sentinels, WatcherKinds, Phases
  <2>3. timeout' \in -1..MaxTimeout
    BY LoopAssumption
  <2> QED BY <1>1, <2>1, <2>2, <2>3 DEF IInv, TypeOK
<1>3. \A k \in Sentinels : Queue(k)'
  BY <1>1, PassBegins DEF IInv
<1>4. SleepsWell' /\ phase' # "poll"
  BY <1>1, LoopAssumption DEF SleepsWell, Sentinels, WatcherKinds
<1> QED BY <1>1, <1>2, <1>3, <1>4 DEF IInv

LEMMA QueueDoneIsFine ==
  ASSUME IInv, TimersDone \/ IdleDone \/ PollTimesOut
  PROVE  IInv'
<1>1. PICK j \in Sentinels : StartPass(j)
  BY DEF TimersDone, IdleDone, PollTimesOut, Sentinels, WatcherKinds
<1>2. /\ UNCHANGED <<LoopVars, left, pending, pipe, mode, timeout, user>>
      /\ phase \in {"timers", "idle", "poll"} /\ ~user /\ timeout # -1
  BY DEF TimersDone, IdleDone, PollTimesOut, EndPass, IInv, SleepsWell
<1>3. SendsAreSeen'
  BY <1>2 DEF LoopVars, IInv, SendsAreSeen, Usable
<1>4. timeout' \in 0..MaxTimeout /\ pipe' \in BOOLEAN /\ user' \in BOOLEAN
  BY <1>2, LoopAssumption DEF IInv, TypeOK
<1> QED BY <1>1, <1>2, <1>3, <1>4, PassIsFine

LEMMA PollEventIsFine ==
  ASSUME IInv, PollEvent
  PROVE  IInv'
<1>1. StartPass("async") /\ "async" \in Sentinels
  BY DEF PollEvent, Sentinels
<1>2. /\ UNCHANGED <<LoopVars, left, pending, mode, user>>
      /\ phase = "poll" /\ ~user /\ timeout' = 0 /\ pipe' = FALSE
  BY DEF PollEvent, IInv, SleepsWell
<1>3. SendsAreSeen'
  BY <1>1 DEF StartPass, SendsAreSeen
<1>4. timeout' \in 0..MaxTimeout /\ user' \in BOOLEAN
  BY <1>2, LoopAssumption DEF IInv, TypeOK
<1> QED BY <1>1, <1>2, <1>3, <1>4, PassIsFine

(* uv__async_io() has called back whatever was sent to.                    *)
LEMMA AsyncDoneIsFine ==
  ASSUME IInv, AsyncDone
  PROVE  IInv'
<1>1. StartPass("check") /\ "check" \in Sentinels /\ "async" \in Sentinels
  BY DEF AsyncDone, Sentinels, WatcherKinds
<1>2. /\ UNCHANGED <<LoopVars, left, pending, pipe, mode, timeout, user>>
      /\ phase = "async" /\ ~user /\ ~More /\ timeout # -1
  BY DEF AsyncDone, EndPass, IInv, SleepsWell
<1>3. Due(phase) = {}
  BY <1>1, <1>2, PassIsOver DEF IInv
<1>4. SendsAreSeen'
  BY <1>2, <1>3 DEF LoopVars, Due, SendsAreSeen, Usable
<1>5. timeout' \in 0..MaxTimeout /\ pipe' \in BOOLEAN /\ user' \in BOOLEAN
  BY <1>2, LoopAssumption DEF IInv, TypeOK
<1> QED BY <1>1, <1>2, <1>4, <1>5, PassIsFine

(* uv__io_poll() is called.                                                *)
LEMMA NextTimeoutIsRight ==
  ASSUME TypeOK
  PROVE  /\ NextTimeout \in -1..MaxTimeout
         /\ \A t \in Timers : Active(t) => NextTimeout \in 0..left[t]
<1> DEFINE on == {left[t] : t \in {u \in Timers : Active(u)}}
<1>1. on \subseteq 0..MaxTimeout /\ on \subseteq Nat
  BY LoopAssumption DEF TypeOK
<1>2. NextTimeout = IF on = {} THEN -1 ELSE Min(on)
  BY DEF NextTimeout
<1>3. \A t \in Timers : Active(t) => left[t] \in on
  OBVIOUS
<1> HIDE DEF on
<1>4. CASE on = {}
  BY <1>2, <1>3, <1>4, LoopAssumption
<1>5. CASE on # {}
  <2>1. Min(on) \in on /\ \A n \in on : Min(on) <= n
    BY <1>1, <1>5, MinIsElement
  <2>2. NextTimeout = Min(on)
    BY <1>2, <1>5
  <2>3. NextTimeout \in 0..MaxTimeout /\ MaxTimeout \in Nat
    BY <1>1, <2>1, <2>2, LoopAssumption
  <2>4. ASSUME NEW t \in Timers, Active(t) PROVE NextTimeout \in 0..left[t]
    <3>1. NextTimeout <= left[t] /\ left[t] \in Nat
      BY <1>1, <1>3, <2>1, <2>2, <2>4
    <3> QED BY <2>3, <3>1
  <2> QED BY <2>3, <2>4
<1> QED BY <1>4, <1>5

LEMMA PrepareDoneIsFine ==
  ASSUME IInv, PrepareDone
  PROVE  IInv'
<1>1. /\ UNCHANGED <<hs, nxt, prv, repeat, virgin, sender, calls, left, pending, pipe,
                     mode, cursor, user, ran, stayed, rejoined>>
      /\ phase = "prepare" /\ phase' = "poll" /\ ~user
      /\ timeout' \in {0, BackendTimeout}
  BY DEF PrepareDone, EndPass, LoopVars, queueVars, passVars
<1>2. /\ NextTimeout \in -1..MaxTimeout
      /\ \A t \in Timers : Active(t) => NextTimeout \in 0..left[t]
  BY NextTimeoutIsRight DEF IInv
<1>3. BackendTimeout # 0 =>
        nxt["idle"] = "idle" /\ hs.closing = <<>> /\ BackendTimeout = NextTimeout
  BY DEF BackendTimeout
<1>4. TypeOK'
  <2>1. timeout' \in -1..MaxTimeout
    BY <1>1, <1>2, <1>3, LoopAssumption
  <2> QED BY <1>1, <2>1 DEF IInv, TypeOK, Phases
<1>5. nxt["idle"] = "idle" => \A h \in Handles : Active(h) => Kind[h] # "idle"
  <2>1. "idle" \in Sentinels
    BY DEF Sentinels, WatcherKinds
  <2>2. PICK pos \in [Nodes -> Int] : Ring(nxt, prv, pos, Live("idle"), "idle")
    BY <2>1 DEF IInv, Queue
  <2>3. /\ nxt \in [Nodes -> Nodes] /\ prv \in [Nodes -> Nodes] /\ "idle" \in Nodes
        /\ Live("idle") \in SUBSET Nodes
    BY <2>1, QueueOf DEF IInv
  <2>4. nxt["idle"] = "idle" => Live("idle") = {"idle"}
    BY <2>2, <2>3, EmptyRing
  <2> QED BY <2>1, <2>4, LoopAssumption DEF Live, Of
<1>6. SleepsWell'
  <2> SUFFICES ASSUME timeout' # 0, NEW h \in Handles, IsActive(hs', h)
               PROVE  /\ Kind[h] # "idle"
                      /\ Kind[h] = "timer" => timeout' \in 1..left'[h]
    BY <1>1, <1>3 DEF SleepsWell, Active
  <2>1. Active(h)
    BY <1>1 DEF Active
  <2>2. timeout' = NextTimeout /\ nxt["idle"] = "idle"
    BY <1>1, <1>3
  <2>3. ASSUME Kind[h] = "timer" PROVE timeout' \in 1..left'[h]
    <3>1. h \in Timers
      BY <2>3 DEF Timers, Of
    <3>2. NextTimeout \in 0..left[h] /\ NextTimeout # 0 /\ left[h] \in Int
      BY <1>2, <2>1, <2>2, <3>1 DEF IInv, TypeOK
    <3> QED BY <1>1, <2>2, <3>2
  <2> QED BY <1>5, <2>1, <2>2, <2>3
<1>7. \A k \in Sentinels : Queue(k)'
  <2>1. phase' \notin Sentinels
    BY <1>1, LoopAssumption DEF Sentinels, WatcherKinds
  <2> QED BY <1>1, <2>1, QueuesAreKept DEF IInv
<1>8. SendsAreSeen'
  BY <1>1 DEF IInv, SendsAreSeen, Usable
<1> QED BY <1>1, <1>4, <1>6, <1>7, <1>8 DEF IInv

(* The body of a foreach.                                                  *)
LEMMA CallWatcherIsFine ==
  ASSUME IInv, CallWatcher
  PROVE  IInv'
<1>1. /\ UNCHANGED <<hs, nxt, prv, left, repeat, virgin, sender, calls, pending, pipe,
                     phase, mode, timeout, cursor, stayed, rejoined>>
      /\ phase \in Sentinels /\ phase \notin {"async", "poll"}
      /\ cursor # phase /\ user' /\ user' \in BOOLEAN
      /\ ran' = ran \cup {cursor}
  BY DEF CallWatcher, More, LoopVars, queueVars, Sentinels, WatcherKinds
<1>2. cursor \in Handles
  BY <1>1, CursorIsOwn DEF IInv
<1>3. TypeOK'
  BY <1>1, <1>2 DEF IInv, TypeOK
<1>4. \A k \in Sentinels : Queue(k)'
  <2>1. pending' = IF phase = "async" THEN pending \ {cursor} ELSE pending
    BY <1>1
  <2> QED BY <1>1, <2>1, CallKeepsQueues DEF IInv
<1>5. SleepsWell' /\ SendsAreSeen'
  BY <1>1 DEF IInv, SleepsWell, SendsAreSeen, Usable
<1> QED BY <1>1, <1>3, <1>4, <1>5 DEF IInv

LEMMA CallAsyncIsFine ==
  ASSUME IInv, CallAsync
  PROVE  IInv'
<1>1. /\ UNCHANGED <<hs, nxt, prv, left, repeat, virgin, sender, calls, pipe,
                     phase, mode, timeout, stayed, rejoined>>
      /\ phase \in Sentinels /\ phase = "async" /\ cursor # phase /\ ~user
  BY DEF CallAsync, More, LoopVars, queueVars, Sentinels
<1>2. cursor \in Handles /\ cursor \in Nodes
  BY <1>1, CursorIsOwn DEF IInv, TypeOK
<1>3. CASE cursor \in pending
  <2>1. /\ pending' = pending \ {cursor} /\ user' = TRUE /\ cursor' = cursor
        /\ ran' = ran \cup {cursor}
    BY <1>3 DEF CallAsync
  <2>2. TypeOK'
    BY <1>1, <1>2, <2>1 DEF IInv, TypeOK
  <2>3. \A k \in Sentinels : Queue(k)'
    BY <1>1, <2>1, CallKeepsQueues DEF IInv
  <2>4. SleepsWell' /\ SendsAreSeen'
    BY <1>1 DEF IInv, SleepsWell, SendsAreSeen
  <2> QED BY <1>1, <2>2, <2>3, <2>4 DEF IInv
<1>4. CASE cursor \notin pending
  <2>1. cursor' = nxt[cursor] /\ UNCHANGED <<pending, user, ran>>
    BY <1>4 DEF CallAsync
  <2>2. TypeOK'
    BY <1>1, <1>2, <2>1 DEF IInv, TypeOK
  <2>3. \A k \in Sentinels : Queue(k)'
    BY <1>1, <1>4, <2>1, NextKeepsQueues DEF IInv
  <2>4. SleepsWell' /\ SendsAreSeen'
    BY <1>1 DEF IInv, SleepsWell, SendsAreSeen
  <2> QED BY <1>1, <2>2, <2>3, <2>4 DEF IInv
<1> QED BY <1>3, <1>4

LEMMA CallbackReturnsIsFine ==
  ASSUME IInv, CallbackReturns
  PROVE  IInv'
<1>1. /\ UNCHANGED <<hs, nxt, prv, left, repeat, virgin, sender, calls, pending, pipe,
                     phase, mode, timeout, ran, stayed, rejoined>>
      /\ user /\ user' = FALSE /\ phase # "poll"
      /\ cursor' = IF phase \in Sentinels THEN nxt[cursor] ELSE cursor
  BY DEF CallbackReturns, LoopVars, queueVars, passVars, IInv, SleepsWell
<1>2. TypeOK'
  BY <1>1 DEF IInv, TypeOK
<1>3. \A k \in Sentinels : Queue(k)'
  <2>1. CASE phase \in Sentinels
    <3>1. cursor # phase
      BY <1>1, <2>1, CursorIsOwn DEF IInv
    <3> QED BY <1>1, <2>1, <3>1, NextKeepsQueues DEF IInv
  <2>2. CASE phase \notin Sentinels
    BY <1>1, <2>2, QueuesAreKept DEF IInv
  <2> QED BY <2>1, <2>2
<1>4. SleepsWell' /\ SendsAreSeen'
  BY <1>1 DEF IInv, SleepsWell, SendsAreSeen, Usable
<1> QED BY <1>1, <1>2, <1>3, <1>4 DEF IInv

(* uv_run2() between its queues.                                           *)
LEMMA FireTimerIsFine ==
  ASSUME IInv, NEW t \in Timers, FireTimer(t)
  PROVE  IInv'
<1> DEFINE A == Stopped(hs, t)
<1>1. /\ UNCHANGED <<nxt, prv, repeat, virgin, sender, calls, pending, pipe,
                     phase, mode, timeout, cursor, ran, stayed, rejoined>>
      /\ phase = "timers" /\ user' = TRUE /\ IsActive(hs, t) /\ Again(A, t)
  BY DEF FireTimer, Active, queueVars, asyncVars, passVars
<1>2. t \in Handles /\ t \notin Watchers \cup Asyncs
      /\ Watchers \cup Asyncs \subseteq Handles /\ t \notin Asyncs
  BY NodesOfQueues DEF Nodes
<1>3. Turned(hs, t, hs.flags[t] \ {"active"}, A) /\ IsUsable(hs, t)
  BY <1>1, <1>2, HandleIsStopped DEF IInv, HandlesOK, HandlesFit, FlagsFit
<1> HIDE DEF A
<1>4. /\ HandlesOK(A) /\ A.doomed = hs.doomed /\ IsUsable(A, t)
      /\ \A g \in Handles : g # t =>
           (IsActive(A, g) <=> IsActive(hs, g)) /\ (IsUsable(A, g) <=> IsUsable(hs, g))
  BY <1>3 DEF Turned, IsUsable, IsActive
<1>5. /\ HandlesOK(hs') /\ hs'.doomed = A.doomed
      /\ left' \in [Timers -> 0..MaxTimeout]
      /\ \A g \in Handles : g # t =>
           (IsActive(hs', g) <=> IsActive(A, g)) /\ (IsUsable(hs', g) <=> IsUsable(A, g))
  <2>1. TypeOK
    BY DEF IInv
  <2> QED BY <1>1, <1>4, <2>1, AgainIsFine
<1>6. TypeOK'
  <2>1. hs' \in HandlesOf(Handles)
    BY <1>5 DEF HandlesOK, HandlesFit, CountsItsHandles
  <2> QED BY <1>1, <1>5, <2>1 DEF IInv, TypeOK
<1>7. \A k \in Sentinels : Queue(k)'
  <2>1. phase' \notin Sentinels
    BY <1>1 DEF Sentinels, WatcherKinds
  <2>2. \A h \in Watchers \cup Asyncs : IsActive(hs', h) <=> IsActive(hs, h)
    BY <1>2, <1>4, <1>5
  <2> QED BY <1>1, <2>1, <2>2, QueuesAreKept DEF IInv
<1>8. SleepsWell'
  BY <1>1 DEF IInv, SleepsWell
<1>9. SendsAreSeen'
  <2>1. \A a \in pending : IsUsable(hs', a) => IsUsable(hs, a)
    BY <1>2, <1>4, <1>5 DEF IInv, TypeOK
  <2> QED BY <1>1, <2>1 DEF IInv, SendsAreSeen, Usable
<1> QED BY <1>1, <1>4, <1>5, <1>6, <1>7, <1>8, <1>9 DEF IInv

LEMMA IterationIsFine ==
  ASSUME IInv, phase \in {"out", "closing"}, hs.doomed = <<>>,
         UNCHANGED <<LoopVars, pending, pipe, cursor, passVars>>, mode' \in Modes \cup {"default"},
         \/ StartIteration
         \/ phase' = "out" /\ timeout' = 0 /\ user' = TRUE /\ left' = left
  PROVE  IInv'
<1>1. /\ UNCHANGED <<hs, nxt, prv, repeat, virgin, sender, calls, pending, pipe,
                     cursor, ran, stayed, rejoined>>
      /\ phase' \in {"timers", "out"} /\ timeout' = 0 /\ user' \in BOOLEAN
  BY DEF LoopVars, queueVars, passVars, StartIteration
<1>2. left' \in [Timers -> 0..MaxTimeout]
  <2>1. timeout \in Nat
    BY DEF IInv, SleepsWell, TypeOK
  <2>2. ASSUME StartIteration PROVE \E d \in Nat : Tick(d)
    BY <2>1, <2>2, LoopAssumption DEF StartIteration
  <2>3. TypeOK
    BY DEF IInv
  <2>4. CASE StartIteration
    BY <2>2, <2>3, <2>4, TickTypes
  <2>5. CASE left' = left
    BY <2>3, <2>5 DEF TypeOK
  <2> QED BY <2>4, <2>5
<1>3. TypeOK'
  <2>1. timeout' \in -1..MaxTimeout
    BY <1>1, LoopAssumption
  <2> QED BY <1>1, <1>2, <2>1 DEF IInv, TypeOK, Phases
<1>4. \A k \in Sentinels : Queue(k)'
  <2>1. phase' \notin Sentinels
    BY <1>1 DEF Sentinels, WatcherKinds
  <2> QED BY <1>1, <2>1, QueuesAreKept DEF IInv
<1>5. SleepsWell' /\ SendsAreSeen'
  BY <1>1 DEF IInv, SleepsWell, SendsAreSeen, Usable
<1> QED BY <1>1, <1>3, <1>4, <1>5 DEF IInv

LEMMA CheckDoneIsFine ==
  ASSUME IInv, CheckDone
  PROVE  IInv'
<1>1. /\ UNCHANGED <<nxt, prv, left, repeat, virgin, sender, calls, pending, pipe,
                     mode, timeout, cursor, user, ran, stayed, rejoined>>
      /\ phase = "check" /\ phase' = "closing" /\ hs' = TakeClosing(hs)
  BY DEF CheckDone, EndPass, queueVars, timerVars, asyncVars, passVars
<1>2. HandlesOK(hs') /\ hs'.flags = hs.flags
  BY <1>1, ListIsTaken DEF IInv
<1>3. TypeOK'
  <2>1. hs' \in HandlesOf(Handles)
    BY <1>2 DEF HandlesOK, HandlesFit, CountsItsHandles
  <2> QED BY <1>1, <2>1 DEF IInv, TypeOK, Phases
<1>4. \A k \in Sentinels : Queue(k)'
  <2>1. phase' \notin Sentinels
    BY <1>1 DEF Sentinels, WatcherKinds
  <2>2. \A h \in Watchers \cup Asyncs : IsActive(hs', h) <=> IsActive(hs, h)
    BY <1>2 DEF IsActive
  <2> QED BY <1>1, <2>1, <2>2, QueuesAreKept DEF IInv
<1>5. SleepsWell' /\ SendsAreSeen'
  BY <1>1, <1>2 DEF IInv, SleepsWell, SendsAreSeen, Usable, IsUsable
<1> QED BY <1>1, <1>2, <1>3, <1>4, <1>5 DEF IInv

LEMMA CallClosedIsFine ==
  ASSUME IInv, CallClosed
  PROVE  IInv'
<1> DEFINE p == Head(hs.doomed)
<1>1. /\ UNCHANGED <<nxt, prv, left, repeat, virgin, sender, calls, pending, pipe,
                     phase, mode, timeout, cursor, ran, stayed, rejoined>>
      /\ phase = "closing" /\ hs' = FinishClose(hs) /\ user' = TRUE
      /\ hs.doomed # <<>>
  BY DEF CallClosed, queueVars, timerVars, asyncVars, passVars
<1>2. /\ HandlesOK(hs') /\ p \in Handles /\ IsClosing(hs, p)
      /\ hs'.flags[p] = (hs.flags[p] \cup {"closed"}) \ {"ref"}
      /\ \A g \in Handles : g # p => hs'.flags[g] = hs.flags[g]
  BY <1>1, HandleIsClosed DEF IInv
<1> HIDE DEF p
<1>3. \A g \in Handles : (IsActive(hs', g) <=> IsActive(hs, g))
                         /\ (IsUsable(hs', g) <=> IsUsable(hs, g))
  BY <1>2 DEF IsActive, IsUsable
<1>4. TypeOK'
  <2>1. hs' \in HandlesOf(Handles)
    BY <1>2 DEF HandlesOK, HandlesFit, CountsItsHandles
  <2> QED BY <1>1, <2>1 DEF IInv, TypeOK
<1>5. \A k \in Sentinels : Queue(k)'
  <2>1. phase' \notin Sentinels
    BY <1>1 DEF Sentinels, WatcherKinds
  <2>2. \A h \in Watchers \cup Asyncs : IsActive(hs', h) <=> IsActive(hs, h)
    BY <1>3, NodesOfQueues
  <2> QED BY <1>1, <2>1, <2>2, QueuesAreKept DEF IInv
<1>6. SleepsWell'
  BY <1>1 DEF IInv, SleepsWell
<1>7. SendsAreSeen'
  BY <1>1, <1>3, NodesOfQueues DEF IInv, TypeOK, SendsAreSeen, Usable
<1> QED BY <1>1, <1>2, <1>4, <1>5, <1>6, <1>7 DEF IInv

LEMMA StutterIsFine ==
  ASSUME IInv, UNCHANGED vars
  PROVE  IInv'
<1>1. /\ UNCHANGED <<hs, nxt, prv, left, repeat, virgin, pending, pipe, sender>>
      /\ UNCHANGED <<phase, mode, timeout, cursor, user, calls, ran, stayed, rejoined>>
  BY DEF vars, queueVars, timerVars, asyncVars, runVars, passVars
<1>2. \A k \in Sentinels : Queue(k)'
  <2>1. \A k \in Sentinels : Due(k)' \subseteq Due(k)
    BY <1>1 DEF Due, Usable
  <2> QED BY <1>1, <2>1, QueuesAreKept DEF IInv
<1>3. TypeOK' /\ SleepsWell' /\ SendsAreSeen'
  BY <1>1 DEF IInv, TypeOK, SleepsWell, SendsAreSeen, Active, Usable
<1> QED BY <1>1, <1>2, <1>3 DEF IInv

LEMMA StepIsFine ==
  ASSUME IInv, [Next]_vars
  PROVE  IInv'
<1>1. CASE ProgramStep
  BY <1>1, ProgramStepIsFine
<1>2. CASE CallbackReturns
  BY <1>2, CallbackReturnsIsFine
<1>3. ASSUME NEW m \in Modes, RunLoop(m) PROVE IInv'
  <2>1. hs.doomed = <<>> /\ phase \in {"out", "closing"}
    BY <1>3 DEF RunLoop, IInv
  <2> QED BY <1>3, <2>1, IterationIsFine DEF RunLoop
<1>4. CASE LoopStep
  <2>1. CASE EndIteration
    <3>1. mode' \in Modes \cup {"default"}
      BY <2>1 DEF EndIteration, IInv, TypeOK
    <3> QED BY <2>1, <3>1, IterationIsFine DEF EndIteration
  <2> QED BY <1>4, <2>1, FireTimerIsFine, QueueDoneIsFine, CallWatcherIsFine,
             CallAsyncIsFine, PrepareDoneIsFine, PollEventIsFine, AsyncDoneIsFine,
             CheckDoneIsFine, CallClosedIsFine DEF LoopStep
<1>5. CASE ThreadStep
  BY <1>5, ThreadStepIsFine
<1>6. CASE UNCHANGED vars
  BY <1>6, StutterIsFine
<1> QED BY <1>1, <1>2, <1>3, <1>4, <1>5, <1>6 DEF Next

-----------------------------------------------------------------------------
(* A new loop: the lists in which the handles of a queue were started.     *)
LEMMA PermutationsOf ==
  ASSUME NEW S, IsFiniteSet(S), NEW s \in SetToSeqs(S)
  PROVE  s \in Seq(S) /\ IsInjective(s) /\ ToSet(s) = S
<1> DEFINE n == Cardinality(S)
<1>1. /\ n \in Nat /\ s \in [1..n -> S] /\ DOMAIN s = 1..n
      /\ \A i, j \in 1..n : s[i] = s[j] => i = j
  BY FS_CardinalityType DEF SetToSeqs
<1>2. s \in Seq(S) /\ IsInjective(s)
  BY <1>1 DEF IsInjective
<1>3. ToSet(s) = S
  <2>1. ToSet(s) \in SUBSET S
    BY <1>1 DEF ToSet
  <2>2. s \in Bijection(1..n, ToSet(s))
    <3>1. s \in Injection(1..n, ToSet(s))
      BY <1>1, <1>2 DEF Injection, ToSet
    <3>2. s \in Surjection(1..n, ToSet(s))
      BY <1>1 DEF Surjection, ToSet
    <3> QED BY <3>1, <3>2 DEF Bijection
  <2>3. IsFiniteSet(1..n) /\ Cardinality(1..n) = n
    BY <1>1, FS_Interval
  <2>4. Cardinality(ToSet(s)) = n
    <3>1. ExistsBijection(1..n, ToSet(s))
      BY <2>2 DEF ExistsBijection
    <3> QED BY <2>3, <3>1, FS_Bijection
  <2> QED BY <2>1, <2>4, FS_Subset
<1> QED BY <1>2, <1>3

LEMMA SomePermutation ==
  ASSUME NEW S, IsFiniteSet(S), NEW s \in SetToAllKPermutations(S)
  PROVE  s \in Seq(S) /\ IsInjective(s) /\ ToSet(s) \subseteq S
<1>1. PICK T \in SUBSET S : s \in SetToSeqs(T)
  BY DEF SetToAllKPermutations
<1>2. s \in Seq(T) /\ IsInjective(s) /\ ToSet(s) = T
  BY <1>1, FS_Subset, PermutationsOf
<1> QED BY <1>2

(* The links along a sequence that begins and ends with the sentinel.      *)
Round(n, p, pos, r, L, R, k) ==
  /\ r[1] = k /\ r[L] = k /\ R = {r[i] : i \in 2..L}
  /\ \A i \in 1..L-1 : n[r[i]] = r[i + 1] /\ p[r[i + 1]] = r[i]
  /\ \A i \in 2..L : pos[r[i]] = i

LEMMA RingOfSequence ==
  ASSUME NEW N, NEW k \in N, NEW L \in Nat, L >= 2, NEW r \in [1..L -> N],
         NEW n \in [N -> N], NEW p \in [N -> N], NEW pos \in [N -> Int],
         NEW R \in SUBSET N, Round(n, p, pos, r, L, R, k)
  PROVE  Ring(n, p, pos, R, k)
<1> USE DEF Round
<1>1. ASSUME NEW x \in R
      PROVE  \E i \in 2..L : /\ x = r[i] /\ pos[x] = i
                             /\ p[x] = r[i - 1] /\ r[i - 1] \in R /\ n[p[x]] = x
                             /\ i = L <=> x = k
                             /\ i < L => n[x] = r[i + 1] /\ r[i + 1] \in R
                                         /\ pos[n[x]] = i + 1 /\ p[n[x]] = x
  <2>1. PICK i \in 2..L : x = r[i]
    BY <1>1
  <2>2. pos[x] = i /\ pos[k] = L
    BY <2>1
  <2>3. /\ i - 1 \in 1..L-1 /\ (i - 1) + 1 = i
        /\ p[x] = r[i - 1] /\ n[p[x]] = x
    BY <2>1
  <2>4. r[i - 1] \in R
    <3>1. CASE i = 2
      <4>1. r[i - 1] = r[L] /\ L \in 2..L
        BY <3>1
      <4> QED BY <4>1
    <3>2. CASE i # 2
      <4>1. i - 1 \in 2..L
        BY <3>2
      <4> QED BY <4>1
    <3> QED BY <3>1, <3>2
  <2>5. i = L <=> x = k
    BY <2>1, <2>2
  <2>6. ASSUME i < L
        PROVE  n[x] = r[i + 1] /\ r[i + 1] \in R /\ pos[n[x]] = i + 1 /\ p[n[x]] = x
    <3>1. i \in 1..L-1 /\ i + 1 \in 2..L
      BY <2>6
    <3> QED BY <2>1, <3>1
  <2> QED BY <2>1, <2>2, <2>3, <2>4, <2>5, <2>6
<1>2. k \in R /\ n[k] = r[2] /\ r[2] \in R /\ p[r[2]] = k /\ pos[r[2]] = 2 /\ pos[k] = L
  <2>1. L \in 2..L /\ 2 \in 2..L /\ 1 \in 1..L-1 /\ 1 + 1 = 2
    OBVIOUS
  <2>2. n[r[1]] = r[2] /\ p[r[2]] = r[1]
    BY <2>1
  <2>3. pos[r[2]] = 2 /\ pos[r[L]] = L
    BY <2>1
  <2> QED BY <2>1, <2>2, <2>3
<1>3. TwoWay(n, p, R)
  <2> SUFFICES ASSUME NEW x \in R
               PROVE  /\ n[x] \in R /\ p[n[x]] = x
                      /\ p[x] \in R /\ n[p[x]] = x
    BY DEF TwoWay
  <2>1. PICK i \in 2..L : /\ p[x] = r[i - 1] /\ r[i - 1] \in R /\ n[p[x]] = x
                          /\ i = L <=> x = k
                          /\ i < L => n[x] = r[i + 1] /\ r[i + 1] \in R
                                      /\ p[n[x]] = x
    BY <1>1
  <2> QED BY <1>2, <2>1
<1>4. InOrder(n, pos, R, k)
  <2>1. ASSUME NEW x \in R, x # k
        PROVE  n[x] \in R /\ pos[x] < pos[k] /\ pos[x] < pos[n[x]]
    <3>1. PICK i \in 2..L : /\ pos[x] = i
                            /\ i = L <=> x = k
                            /\ i < L => n[x] = r[i + 1] /\ r[i + 1] \in R
                                        /\ pos[n[x]] = i + 1
      BY <1>1
    <3> QED BY <1>2, <2>1, <3>1
  <2>2. ASSUME NEW x \in R, NEW y \in R, x # k
        PROVE  pos[y] <= pos[x] \/ pos[n[x]] <= pos[y]
    <3>1. PICK i \in 2..L : /\ pos[x] = i
                            /\ i = L <=> x = k
                            /\ i < L => pos[n[x]] = i + 1
      BY <1>1
    <3>2. pos[y] \in 2..L
      BY <1>1
    <3> QED BY <2>2, <3>1, <3>2
  <2>3. ASSUME NEW x \in R, NEW y \in R, pos[x] = pos[y] PROVE x = y
    BY <1>1, <2>3
  <2> QED BY <1>2, <2>1, <2>2, <2>3 DEF InOrder
<1>5. \A y \in R : pos[n[k]] <= pos[y]
  BY <1>1, <1>2
<1> QED BY <1>3, <1>4, <1>5 DEF Ring

LEMMA NextNeighbour ==
  ASSUME NEW r, NEW L \in Nat, DOMAIN r = 1..L, Len(r) = L, NEW i \in 1..L-1,
         \A j \in 1..L-1 : r[j] = r[i] => j = i
  PROVE  Neighbour(r, r[i]) = r[i + 1]
<1>1. r[i] \in ToSet(r)
  BY DEF ToSet
<1>2. (CHOOSE j \in 1..L-1 : r[j] = r[i]) = i
  OBVIOUS
<1>3. Neighbour(r, r[i]) = r[1 + i]
  BY <1>1, <1>2 DEF Neighbour
<1> QED BY <1>3

LEMMA RoundTrip ==
  ASSUME NEW N, NEW k \in N, NEW s \in Seq(N), NEW r, r = <<k>> \o s \o <<k>>,
         NEW L, L = Len(s) + 2
  PROVE  /\ L \in Nat /\ L >= 2 /\ r \in Seq(N) /\ DOMAIN r = 1..L /\ Len(r) = L
         /\ \A i \in 1..L : r[i] = IF i = 1 \/ i = L THEN k ELSE s[i - 1]
<1>1. /\ <<k>> \in Seq(N) /\ Len(<<k>>) = 1 /\ <<k>>[1] = k /\ Len(s) \in Nat
  OBVIOUS
<1> DEFINE a == <<k>>
           b == a \o s
<1> HIDE DEF a
<1>2. /\ b \in Seq(N) /\ Len(b) = 1 + Len(s)
      /\ \A i \in 1..(1 + Len(s)) : b[i] = IF i <= 1 THEN a[i] ELSE s[i - 1]
  BY <1>1, ConcatProperties DEF a
<1> HIDE DEF b
<1>3. /\ b \o a \in Seq(N) /\ Len(b \o a) = (1 + Len(s)) + 1
      /\ \A i \in 1..((1 + Len(s)) + 1) :
            (b \o a)[i] = IF i <= 1 + Len(s) THEN b[i] ELSE a[i - (1 + Len(s))]
  BY <1>1, <1>2, ConcatProperties DEF a
<1>4. r = b \o a
  BY DEF a, b
<1>5. r \in Seq(N) /\ Len(r) = L
  BY <1>1, <1>3, <1>4
<1>6. ASSUME NEW i \in 1..L
      PROVE  r[i] = IF i = 1 \/ i = L THEN k ELSE s[i - 1]
  <2>1. CASE i = L
    <3>1. r[i] = a[i - (1 + Len(s))] /\ i - (1 + Len(s)) = 1
      BY <1>1, <1>3, <1>4, <2>1
    <3> QED BY <1>1, <2>1, <3>1 DEF a
  <2>2. CASE i # L
    <3>1. r[i] = b[i] /\ i \in 1..(1 + Len(s))
      BY <1>1, <1>3, <1>4, <2>2
    <3>2. i <= 1 <=> i = 1
      OBVIOUS
    <3> QED BY <1>1, <1>2, <2>2, <3>1, <3>2 DEF a
  <2> QED BY <2>1, <2>2
<1> QED BY <1>1, <1>5, <1>6

(* n and p lead along r and back.                                          *)
Follow(n, p, r, R) ==
  \A x \in R : n[x] = Neighbour(r, x) /\ p[x] = Neighbour(Reverse(r), x)

IsARing(n, p, N, R, k) == \E pos \in [N -> Int] : Ring(n, p, pos, R, k)

LEMMA RoundIsARing ==
  ASSUME NEW N, NEW k \in N, NEW s \in Seq(N), IsInjective(s), k \notin ToSet(s),
         NEW r, r = <<k>> \o s \o <<k>>,
         NEW n \in [N -> N], NEW p \in [N -> N],
         Follow(n, p, r, {k} \cup ToSet(s))
  PROVE  IsARing(n, p, N, {k} \cup ToSet(s), k)
<1> DEFINE L == Len(s) + 2
           R == {k} \cup ToSet(s)
<1>1. /\ L \in Nat /\ L >= 2 /\ r \in Seq(N) /\ DOMAIN r = 1..L /\ Len(r) = L
      /\ \A i \in 1..L : r[i] = IF i = 1 \/ i = L THEN k ELSE s[i - 1]
  BY RoundTrip
<1> HIDE DEF L
<1>2. L = Len(s) + 2 /\ \A i \in 2..L-1 : i - 1 \in DOMAIN s /\ r[i] = s[i - 1]
  BY <1>1 DEF L
<1>3. /\ r \in [1..L -> N] /\ r[1] = k /\ r[L] = k
      /\ R = {r[i] : i \in 2..L}
  <2>1. \A i \in 1..L : r[i] \in N
    BY <1>1, <1>2
  <2>2. r[1] = k /\ r[L] = k
    BY <1>1
  <2>3. ASSUME NEW x \in R PROVE x \in {r[i] : i \in 2..L}
    <3>1. CASE x = k
      <4>1. L \in 2..L
        BY <1>1
      <4> QED BY <2>2, <3>1, <4>1
    <3>2. CASE x # k
      <4>1. PICK j \in DOMAIN s : x = s[j]
        BY <3>2 DEF ToSet
      <4>2. j + 1 \in 2..L-1 /\ (j + 1) - 1 = j /\ j + 1 \in 2..L
        BY <1>2, <4>1
      <4> QED BY <1>2, <4>1, <4>2
    <3> QED BY <3>1, <3>2
  <2>4. ASSUME NEW i \in 2..L PROVE r[i] \in R
    BY <1>2, <2>2 DEF ToSet
  <2>5. r \in [1..L -> N]
    <3>1. r \in Seq(N)
      BY <1>1
    <3>2. r \in [1..Len(r) -> N]
      BY <3>1, LenProperties
    <3> QED BY <1>1, <3>2
  <2> QED BY <2>1, <2>2, <2>3, <2>4, <2>5
<1>4. \A i, j \in 2..L : r[i] = r[j] => i = j
  <2> SUFFICES ASSUME NEW i \in 2..L, NEW j \in 2..L, r[i] = r[j] PROVE i = j
    OBVIOUS
  <2>1. \A l \in DOMAIN s : s[l] # k
    BY DEF ToSet
  <2>2. CASE i = L \/ j = L
    BY <1>1, <1>2, <1>3, <2>1, <2>2
  <2>3. CASE i # L /\ j # L
    <3>1. s[i - 1] = s[j - 1] /\ i - 1 \in DOMAIN s /\ j - 1 \in DOMAIN s
      BY <1>1, <1>2, <2>3
    <3> QED BY <3>1 DEF IsInjective
  <2> QED BY <2>2, <2>3
<1>5. ASSUME NEW i \in 1..L-1 PROVE n[r[i]] = r[i + 1] /\ p[r[i + 1]] = r[i]
  <2>1. r[i] \in R /\ r[i + 1] \in R
    <3>1. L \in 2..L /\ i + 1 \in 2..L /\ (i = 1 \/ i \in 2..L)
      BY <1>1
    <3> QED BY <1>3, <3>1
  <2>2. Neighbour(r, r[i]) = r[i + 1]
    <3>1. \A j \in 1..L-1 : r[j] = r[i] => j = i
      <4> SUFFICES ASSUME NEW j \in 1..L-1, r[j] = r[i] PROVE j = i
        OBVIOUS
      <4>1. \A l \in 2..L : r[l] = r[L] => l = L
        BY <1>1, <1>4
      <4>2. CASE i = 1 \/ j = 1
        <5>1. r[i] = k /\ r[j] = k
          BY <1>3, <4>2
        <5>2. ASSUME NEW l \in 1..L-1, r[l] = k PROVE l = 1
          <6>1. l = 1 \/ l \in 2..L
            BY <1>1
          <6>2. r[l] = r[L] /\ l # L
            BY <1>1, <1>3, <5>2
          <6> QED BY <4>1, <6>1, <6>2
        <5> QED BY <5>1, <5>2
      <4>3. CASE i # 1 /\ j # 1
        <5>1. i \in 2..L /\ j \in 2..L
          BY <1>1, <4>3
        <5> QED BY <1>4, <5>1
      <4> QED BY <4>2, <4>3
    <3> QED BY <1>1, <3>1, NextNeighbour
  <2>3. Neighbour(Reverse(r), r[i + 1]) = r[i]
    <3> DEFINE q == Reverse(r)
               j == L - i
    <3>1. /\ q = [l \in 1..L |-> r[(L - l) + 1]]
      BY <1>1 DEF Reverse
    <3> HIDE DEF q
    <3>2. /\ DOMAIN q = 1..L /\ Len(q) = L
          /\ \A l \in 1..L : q[l] = r[(L - l) + 1]
      BY <1>1, <3>1
    <3>3. j \in 1..L-1 /\ j + 1 \in 1..L /\ (L - j) + 1 = i + 1 /\ (L - (j + 1)) + 1 = i
      BY <1>1
    <3>7. j = L - i
      OBVIOUS
    <3> HIDE DEF j
    <3>4. q[j] = r[i + 1] /\ q[j + 1] = r[i]
      <4>1. j \in 1..L /\ q[j] = r[(L - j) + 1]
        BY <1>1, <3>2, <3>3
      <4>2. q[j + 1] = r[(L - (j + 1)) + 1]
        BY <3>2, <3>3
      <4> QED BY <3>3, <4>1, <4>2
    <3>5. ASSUME NEW l \in 1..L-1, q[l] = q[j] PROVE l = j
      <4>1. l \in 1..L /\ (L - l) + 1 \in 2..L /\ i + 1 \in 2..L
        BY <1>1
      <4>2. (L - l) + 1 = i + 1
        BY <1>4, <3>2, <3>4, <3>5, <4>1
      <4> QED BY <1>1, <3>7, <4>2
    <3>6. Neighbour(q, q[j]) = q[j + 1]
      BY <1>1, <3>2, <3>3, <3>5, NextNeighbour
    <3> QED BY <3>4, <3>6 DEF q
  <2> QED BY <2>1, <2>2, <2>3 DEF Follow
<1> DEFINE at(x) == CHOOSE i \in 2..L : r[i] = x
           pos == [x \in N |-> IF x \in R THEN at(x) ELSE 0]
<1>6. ASSUME NEW i \in 2..L PROVE at(r[i]) = i
  BY <1>4
<1> HIDE DEF at, R
<1>7. pos \in [N -> Int]
  <2>1. ASSUME NEW x \in R PROVE at(x) \in Int
    <3>1. PICK i \in 2..L : x = r[i]
      BY <1>3
    <3> QED BY <1>1, <1>6, <3>1
  <2> QED BY <2>1
<1>8. \A i \in 2..L : pos[r[i]] = i
  <2>1. \A i \in 2..L : r[i] \in R /\ r[i] \in N
    BY <1>1, <1>3
  <2> QED BY <1>6, <2>1
<1> HIDE DEF pos
<1>9. R \in SUBSET N
  BY DEF R, ToSet
<1>10. Round(n, p, pos, r, L, R, k)
  BY <1>3, <1>5, <1>8 DEF Round
<1>11. Ring(n, p, pos, R, k)
  <2>1. L \in Nat /\ L >= 2 /\ r \in [1..L -> N]
    BY <1>1, <1>3
  <2> QED BY <1>7, <1>9, <1>10, <2>1, RingOfSequence
<1> QED BY <1>7, <1>11 DEF R, IsARing

LEMMA NeighbourIsANode ==
  ASSUME NEW N, NEW r \in Seq(N), Len(r) >= 2, r[1] = r[Len(r)], NEW x \in N
  PROVE  Neighbour(r, x) \in N /\ Neighbour(Reverse(r), x) \in N
<1>1. ASSUME NEW q \in Seq(N), Len(q) >= 2, q[1] = q[Len(q)]
      PROVE  Neighbour(q, x) \in N
  <2>1. CASE x \in ToSet(q)
    <3>1. PICK i \in 1..Len(q) : x = q[i]
      BY <2>1 DEF ToSet
    <3>2. \E j \in 1..Len(q)-1 : q[j] = x
      <4>1. Len(q) \in Nat /\ 1 \in 1..Len(q)-1
        BY <1>1
      <4>2. i \in 1..Len(q)-1 \/ i = Len(q)
        BY <4>1
      <4> QED BY <1>1, <3>1, <4>1, <4>2
    <3>3. (CHOOSE j \in 1..Len(q)-1 : q[j] = x) \in 1..Len(q)-1
      BY <3>2, Zenon
    <3> DEFINE j == CHOOSE j \in 1..Len(q)-1 : q[j] = x
    <3>4. Neighbour(q, x) = q[1 + j]
      BY <2>1 DEF Neighbour
    <3> HIDE DEF j
    <3>5. 1 + j \in 1..Len(q)
      BY <3>3 DEF j
    <3> QED BY <1>1, <3>4, <3>5
  <2>2. CASE x \notin ToSet(q)
    BY <2>2 DEF Neighbour
  <2> QED BY <2>1, <2>2
<1>2. Reverse(r) \in Seq(N) /\ Len(Reverse(r)) >= 2 /\ Reverse(r)[1] = Reverse(r)[Len(Reverse(r))]
  <2> DEFINE L == Len(r)
             q == [i \in 1..L |-> r[(L - i) + 1]]
  <2>1. L \in Nat /\ L >= 2 /\ \A i \in 1..L : r[i] \in N /\ (L - i) + 1 \in 1..L
    OBVIOUS
  <2>2. q \in Seq(N) /\ Len(q) = L
    BY <2>1
  <2>3. q[1] = r[L] /\ q[L] = r[1]
    BY <2>1
  <2> QED BY <2>1, <2>2, <2>3 DEF Reverse
<1> QED BY <1>1, <1>2

(* The queues of Init.                                                     *)
StartedIn(in) ==
  /\ \A k \in Sentinels : /\ in[k] \in Seq(Of({k})) /\ IsInjective(in[k])
                          /\ ToSet(in[k]) \subseteq Of({k})
  /\ ToSet(in["async"]) = Asyncs

LEMMA WiderQueue ==
  ASSUME NEW S, NEW T, S \subseteq T, NEW s \in Seq(S)
  PROVE  s \in Seq(T)
<1>1. s \in [1..Len(s) -> S] /\ Len(s) \in Nat
  BY LenProperties
<1>2. s \in [1..Len(s) -> T]
  BY <1>1
<1> QED BY <1>1, <1>2

LEMMA NewQueuesAreLinked ==
  ASSUME NEW in, StartedIn(in)
  PROVE  /\ Linked(in).n \in [Nodes -> Nodes] /\ Linked(in).p \in [Nodes -> Nodes]
         /\ \A k \in Sentinels : \E pos \in [Nodes -> Int] :
              Ring(Linked(in).n, Linked(in).p, pos, {k} \cup ToSet(in[k]), k)
<1> DEFINE R(k) == <<k>> \o in[k] \o <<k>>
           n == [x \in Nodes |-> Neighbour(R(KindOf(x)), x)]
           p == [x \in Nodes |-> Neighbour(Reverse(R(KindOf(x))), x)]
<1>1. Linked(in).n = n /\ Linked(in).p = p
  BY DEF Linked
<1>2. ASSUME NEW k \in Sentinels
      PROVE  /\ k \in Nodes /\ in[k] \in Seq(Nodes) /\ IsInjective(in[k])
             /\ ToSet(in[k]) \subseteq Of({k}) /\ Of({k}) \subseteq Nodes
             /\ k \notin ToSet(in[k])
  <2>1. k \in Nodes /\ Of({k}) \subseteq Nodes /\ k \notin Of({k})
    BY NodesOfQueues, LoopAssumption DEF Own, Of
  <2>2. in[k] \in Seq(Of({k})) /\ IsInjective(in[k]) /\ ToSet(in[k]) \subseteq Of({k})
    BY DEF StartedIn
  <2>3. in[k] \in Seq(Nodes)
    BY <2>1, <2>2, WiderQueue
  <2> QED BY <2>1, <2>2, <2>3
<1>3. ASSUME NEW k \in Sentinels, NEW x \in Nodes
      PROVE  Neighbour(R(k), x) \in Nodes /\ Neighbour(Reverse(R(k)), x) \in Nodes
  <2> DEFINE s == in[k]
             r == <<k>> \o s \o <<k>>
             L == Len(s) + 2
  <2>3. k \in Nodes /\ s \in Seq(Nodes)
    BY <1>2
  <2> HIDE DEF s
  <2>1. /\ L \in Nat /\ L >= 2 /\ r \in Seq(Nodes) /\ DOMAIN r = 1..L /\ Len(r) = L
        /\ \A i \in 1..L : r[i] = IF i = 1 \/ i = L THEN k ELSE s[i - 1]
    BY <2>3, RoundTrip
  <2> HIDE DEF r, L
  <2>2. Len(r) >= 2 /\ r[1] = r[Len(r)]
    BY <2>1
  <2> QED BY <2>1, <2>2, NeighbourIsANode DEF r, s
<1>4. \A x \in Nodes : KindOf(x) \in Sentinels
  BY NodesOfQueues, LoopAssumption DEF Nodes, KindOf
<1>5. \A k \in Sentinels : \A x \in {k} \cup ToSet(in[k]) : x \in Nodes /\ KindOf(x) = k
  BY <1>2, LoopAssumption DEF KindOf, Of
<1> HIDE DEF R
<1>6. n \in [Nodes -> Nodes] /\ p \in [Nodes -> Nodes]
  BY <1>3, <1>4
<1>7. \A k \in Sentinels : \A x \in {k} \cup ToSet(in[k]) :
         n[x] = Neighbour(R(k), x) /\ p[x] = Neighbour(Reverse(R(k)), x)
  BY <1>5
<1> HIDE DEF n, p
<1>8. ASSUME NEW k \in Sentinels
      PROVE  \E pos \in [Nodes -> Int] : Ring(n, p, pos, {k} \cup ToSet(in[k]), k)
  <2> DEFINE s == in[k]
             r == R(k)
  <2>1. /\ r = <<k>> \o s \o <<k>>
        /\ k \in Nodes /\ s \in Seq(Nodes) /\ IsInjective(s) /\ k \notin ToSet(s)
    BY <1>2 DEF R
  <2>2. Follow(n, p, r, {k} \cup ToSet(s))
    BY <1>7 DEF Follow
  <2> HIDE DEF r, s
  <2>3. IsARing(n, p, Nodes, {k} \cup ToSet(s), k)
    BY <1>6, <2>1, <2>2, RoundIsARing
  <2> QED BY <2>3 DEF s, IsARing
<1> QED BY <1>1, <1>6, <1>8

LEMMA NewHandlesAreFine ==
  ASSUME NEW on \in SUBSET Handles, Asyncs \subseteq on
  PROVE  HandlesOK(AllActive(on))
<1> DEFINE H == AllActive(on)
<1>1. /\ H.flags = [h \in Handles |-> IF h \in on THEN {"active", "ref"} ELSE {"ref"}]
      /\ H.count = Cardinality(on) /\ H.closing = <<>> /\ H.doomed = <<>>
  BY DEF AllActive, Fresh
<1>7. H.flags \in [Handles -> SUBSET Flags] /\ H.count \in Int => H \in HandleRecords(Handles)
  <2>1. Fresh(Handles) \in HandleRecords(Handles)
    BY DEF Fresh, HandleRecords, Flags
  <2>2. ASSUME NEW G \in HandleRecords(Handles), NEW f \in [Handles -> SUBSET Flags],
               NEW c \in Int
        PROVE  [G EXCEPT !.flags = f, !.count = c] \in HandleRecords(Handles)
    BY DEF HandleRecords
  <2>3. H = [Fresh(Handles) EXCEPT !.flags = H.flags, !.count = H.count]
    BY <1>1 DEF AllActive
  <2> HIDE DEF H
  <2>4. ASSUME H.flags \in [Handles -> SUBSET Flags], H.count \in Int
        PROVE  [Fresh(Handles) EXCEPT !.flags = H.flags, !.count = H.count]
                 \in HandleRecords(Handles)
    <3> DEFINE f == H.flags
               c == H.count
               G == Fresh(Handles)
    <3>1. f \in [Handles -> SUBSET Flags] /\ c \in Int /\ G \in HandleRecords(Handles)
      BY <2>1, <2>4
    <3> HIDE DEF f, c, G
    <3>2. [G EXCEPT !.flags = f, !.count = c] \in HandleRecords(Handles)
      BY <2>2, <3>1
    <3> QED BY <3>2 DEF f, c, G
  <2> QED BY <2>3, <2>4
<1> HIDE DEF H
<1>2. KeepingAlive(H, Handles) = on
  BY <1>1 DEF KeepingAlive
<1>3. Cardinality(on) \in 0..Cardinality(Handles)
  BY <1>2, HoldingIsFinite, LoopAssumption
<1>4. CountsItsHandles(H, Handles)
  <2>1. H.flags \in [Handles -> SUBSET Flags]
    BY <1>1 DEF Flags
  <2>2. H.closing \in Seq(Handles) /\ H.doomed \in Seq(Handles)
    BY <1>1
  <2>3. H \in HandlesOf(Handles)
    BY <1>1, <1>3, <1>7, <2>1, <2>2, FS_CardinalityType DEF HandlesOf, HandleRecords
  <2> QED BY <1>1, <1>2, <2>3 DEF CountsItsHandles
<1>5. FlagsFit(H, Handles)
  BY <1>1 DEF FlagsFit, IsClosed, IsUsable, IsActive
<1>6. ListsFit(H, Handles)
  BY <1>1 DEF ListsFit, IsClosing, IsInjective, ToSet
<1>8. AsyncsRun(H)
  BY <1>1 DEF AsyncsRun, IsUsable, IsActive, Asyncs, Of
<1> QED BY <1>4, <1>5, <1>6, <1>8, LoopAssumption DEF HandlesOK, HandlesFit, H

LEMMA InitIsFine ==
  ASSUME Init
  PROVE  IInv
<1>1. PICK in : /\ StartedIn(in)
                /\ nxt = Linked(in).n /\ prv = Linked(in).p
                /\ hs = AllActive(UNION {ToSet(in[k]) : k \in Sentinels})
  <2>1. PICK i \in SetToAllKPermutations(Of({"idle"})),
             p \in SetToAllKPermutations(Of({"prepare"})),
             c \in SetToAllKPermutations(Of({"check"})), a \in SetToSeqs(Asyncs) :
          LET in == [idle |-> i, prepare |-> p, check |-> c, async |-> a]
          IN /\ nxt = Linked(in).n /\ prv = Linked(in).p
             /\ hs = AllActive(UNION {ToSet(in[k]) : k \in Sentinels})
    BY DEF Init
  <2>2. \A K : Of(K) \in SUBSET Handles /\ IsFiniteSet(Of(K))
    <3>1. \A K : Of(K) \in SUBSET Handles
      BY DEF Of
    <3> QED BY <3>1, FS_Subset, LoopAssumption
  <2>3. /\ i \in Seq(Of({"idle"})) /\ IsInjective(i) /\ ToSet(i) \subseteq Of({"idle"})
        /\ p \in Seq(Of({"prepare"})) /\ IsInjective(p) /\ ToSet(p) \subseteq Of({"prepare"})
        /\ c \in Seq(Of({"check"})) /\ IsInjective(c) /\ ToSet(c) \subseteq Of({"check"})
    BY <2>2, SomePermutation
  <2>4. a \in Seq(Asyncs) /\ IsInjective(a) /\ ToSet(a) = Asyncs
    BY <2>2, PermutationsOf DEF Asyncs
  <2> DEFINE in == [idle |-> i, prepare |-> p, check |-> c, async |-> a]
  <2>5. StartedIn(in)
    <3>1. /\ in["idle"] = i /\ in["prepare"] = p /\ in["check"] = c /\ in["async"] = a
      OBVIOUS
    <3> HIDE DEF in
    <3> QED BY <2>3, <2>4, <3>1 DEF StartedIn, Asyncs, Sentinels, WatcherKinds
  <2> QED BY <2>1, <2>5
<1> DEFINE on == UNION {ToSet(in[k]) : k \in Sentinels}
<1>2. on \in SUBSET Handles /\ Asyncs \subseteq on
  <2>1. ASSUME NEW k \in Sentinels PROVE ToSet(in[k]) \subseteq Handles
    <3>1. ToSet(in[k]) \subseteq Of({k})
      BY <1>1 DEF StartedIn
    <3> QED BY <3>1 DEF Of
  <2>2. "async" \in Sentinels /\ ToSet(in["async"]) = Asyncs
    BY <1>1 DEF StartedIn, Sentinels
  <2> QED BY <2>1, <2>2
<1>3. HandlesOK(hs)
  BY <1>1, <1>2, NewHandlesAreFine
<1>4. /\ hs.flags = [h \in Handles |-> IF h \in on THEN {"active", "ref"} ELSE {"ref"}]
      /\ hs.doomed = <<>>
  BY <1>1 DEF AllActive, Fresh
<1>5. /\ nxt \in [Nodes -> Nodes] /\ prv \in [Nodes -> Nodes]
      /\ \A k \in Sentinels : \E pos \in [Nodes -> Int] :
           Ring(nxt, prv, pos, {k} \cup ToSet(in[k]), k)
  BY <1>1, NewQueuesAreLinked
<1>6. TypeOK
  <2>1. hs \in HandlesOf(Handles)
    BY <1>3 DEF HandlesOK, HandlesFit, CountsItsHandles
  <2>2. "async" \in Sentinels /\ "async" \in Nodes
    BY NodesOfQueues
  <2>3. /\ left \in [Timers -> 0..MaxTimeout] /\ repeat \in [Timers -> 0..MaxTimeout]
        /\ calls \in 0..MaxCalls /\ timeout \in -1..MaxTimeout
    BY LoopAssumption DEF Init
  <2>4. /\ virgin \subseteq Timers /\ pending \subseteq Asyncs /\ pipe \in BOOLEAN
        /\ sender \in Asyncs \cup Sentinels /\ phase \in Phases
        /\ mode \in Modes \cup {"default"} /\ cursor \in Nodes /\ user \in BOOLEAN
        /\ ran \subseteq Handles /\ stayed \subseteq Handles /\ rejoined \in BOOLEAN
    BY <2>2 DEF Init, Phases
  <2> QED BY <1>5, <2>1, <2>3, <2>4 DEF TypeOK
<1>7. ASSUME NEW k \in Sentinels PROVE Queue(k)
  <2>1. phase # k
    BY DEF Init, Sentinels, WatcherKinds
  <2>2. \A h \in Of({k}) : h \in on <=> h \in ToSet(in[k])
    <3> SUFFICES ASSUME NEW h \in Of({k}), h \in on PROVE h \in ToSet(in[k])
      OBVIOUS
    <3>1. PICK j \in Sentinels : h \in ToSet(in[j])
      OBVIOUS
    <3>2. h \in Of({j})
      BY <1>1, <3>1 DEF StartedIn
    <3>3. j = k
      BY <3>2 DEF Of
    <3> QED BY <3>1, <3>3
  <2>3. Live(k) = {k} \cup ToSet(in[k])
    <3>1. \A h \in Handles : Active(h) <=> h \in on
      BY <1>4 DEF Active, IsActive
    <3>2. Of({k}) \subseteq Handles /\ ToSet(in[k]) \subseteq Of({k})
      BY <1>1 DEF Of, StartedIn
    <3> HIDE DEF on
    <3> QED BY <2>2, <3>1, <3>2 DEF Live
  <2> QED BY <1>5, <2>1, <2>3 DEF Queue
<1>8. SleepsWell /\ SendsAreSeen
  BY DEF Init, SleepsWell, SendsAreSeen
<1> QED BY <1>3, <1>4, <1>6, <1>7, <1>8 DEF IInv

-----------------------------------------------------------------------------
(* What follows from the invariant.                                        *)
LEMMA InvariantClosesOnce == IInv => ClosedOnce
<1> SUFFICES ASSUME IInv, NEW h \in Handles
             PROVE  /\ CloseCalls(hs, h) = IF IsClosing(hs, h) THEN 1 ELSE 0
                    /\ Closed(h) => ~Active(h) /\ (phase \in Sentinels => h # cursor)
                    /\ Closed(h) /\ h \in Nodes =>
                         \A x \in Nodes \ {h} :
                            x \in Sentinels \/ Active(x) => nxt[x] # h /\ prv[x] # h
  BY DEF ClosedOnce
<1>1. CloseCalls(hs, h) = IF IsClosing(hs, h) THEN 1 ELSE 0
  <2>1. /\ hs \in HandlesOf(Handles)
        /\ IsInjective(hs.closing) /\ IsInjective(hs.doomed)
        /\ ToSet(hs.closing) \cap ToSet(hs.doomed) = {}
        /\ h \in ToSet(hs.closing) \cup ToSet(hs.doomed) <=> IsClosing(hs, h)
    BY DEF IInv, HandlesOK, HandlesFit, ListsFit, CountsItsHandles
  <2>2. CloseCalls(hs, h)
          = IF h \in ToSet(hs.closing) \cup ToSet(hs.doomed) THEN 1 ELSE 0
    BY <2>1, CallsOnce
  <2> QED BY <2>1, <2>2
<1>2. Closed(h) => ~Active(h)
  BY DEF IInv, HandlesOK, HandlesFit, FlagsFit, Closed, Active
<1>3. Closed(h) /\ phase \in Sentinels => h # cursor
  BY DEF IInv, Queue, OnItsWay, Walk
<1>4. ASSUME Closed(h), h \in Nodes, NEW x \in Nodes \ {h},
             x \in Sentinels \/ Active(x)
      PROVE  nxt[x] # h /\ prv[x] # h
  <2>1. PICK k \in Sentinels : x \in Live(k)
    BY <1>4, NodesOfQueues, LoopAssumption DEF Nodes, Live, Sentinels, Of
  <2>2. nxt[x] \in Live(k) /\ prv[x] \in Live(k)
    BY <2>1, QueueOf DEF IInv
  <2>3. h \notin Live(k)
    BY <1>2, <1>4, LoopAssumption DEF Live
  <2> QED BY <2>2, <2>3
<1> QED BY <1>1, <1>2, <1>3, <1>4

LEMMA InvariantSleepsWell == IInv => NeverOversleeps
BY DEF IInv, SleepsWell, SendsAreSeen, NeverOversleeps

LEMMA RunEndsWithoutHandles ==
  ASSUME IInv, [Next]_vars, phase # "out", phase' = "out", mode = "default",
         NEW h \in Handles
  PROVE  ~({"active", "ref"} \subseteq hs.flags[h]) /\ ~IsClosing(hs, h)
<1>1. EndIteration
  <2>1. /\ ~ProgramStep /\ ~CallbackReturns /\ ~ThreadStep
        /\ ~(\E m \in Modes : RunLoop(m)) /\ ~UNCHANGED vars
    BY DEF ProgramStep, Close, Reinit, ChangeRef, StartWatcher, StopWatcher, TimerStart,
           SetRepeat, TimerStop, TimerAgain, UpdateTime, Send, Calls, CallbackReturns,
           ThreadStep, ThreadWrites, ThreadSends, RunLoop, runVars, vars
  <2>2. LoopStep
    BY <2>1 DEF Next
  <2> QED BY <2>2 DEF LoopStep, FireTimer, TimersDone, CallWatcher, CallAsync, IdleDone,
             PrepareDone, PollEvent, PollTimesOut, AsyncDone, CheckDone, CallClosed,
             StartPass
<1>2. ~LoopAlive /\ hs.doomed = <<>>
  BY <1>1 DEF EndIteration, StartIteration
<1>3. hs.closing = <<>> /\ hs.count = 0 /\ hs.count = Cardinality(KeepingAlive(hs, Handles))
  <2>1. hs.count \in 0..Cardinality(Handles) /\ Cardinality(Handles) \in Nat
    BY FS_CardinalityType, LoopAssumption DEF IInv, HandlesOK, HandlesFit, CountsItsHandles, HandlesOf
  <2> QED BY <1>2, <2>1 DEF LoopAlive, IInv, HandlesOK, HandlesFit, CountsItsHandles
<1>4. KeepingAlive(hs, Handles) = {}
  BY <1>3, HoldingIsFinite, FS_EmptySet, LoopAssumption
<1>5. ~IsClosing(hs, h)
  BY <1>2, <1>3 DEF IInv, HandlesOK, HandlesFit, ListsFit, ToSet
<1> QED BY <1>4, <1>5 DEF KeepingAlive

LEMMA PassCallsOnce ==
  ASSUME IInv, [Next]_vars, phase \in WatcherKinds
  PROVE  /\ phase' # phase => stayed \subseteq ran
         /\ ~user /\ user' /\ cursor \in ran => rejoined
<1>1. phase \in Sentinels /\ phase # "async" /\ Queue(phase) /\ TypeOK
  BY LoopAssumption DEF Sentinels, WatcherKinds, IInv
<1>2. \/ ~user /\ ~user' /\ ~More
      \/ CallWatcher
      \/ phase' = phase /\ (user \/ user' = user)
  <2>1. CASE ProgramStep \/ CallbackReturns \/ ThreadStep \/ UNCHANGED vars
    BY <2>1
       DEF ProgramStep, Close, Reinit, ChangeRef, StartWatcher, StopWatcher, TimerStart,
           SetRepeat, TimerStop, TimerAgain, UpdateTime, Send, Calls, CallbackReturns,
           ThreadStep, ThreadWrites, ThreadSends, runVars, vars
  <2>2. CASE \E m \in Modes : RunLoop(m)
    BY <2>2 DEF RunLoop, WatcherKinds
  <2>3. CASE LoopStep
    BY <2>3 DEF LoopStep, FireTimer, TimersDone, CallAsync, IdleDone, PrepareDone,
       PollEvent, PollTimesOut, AsyncDone, CheckDone, CallClosed, EndIteration,
       EndPass, WatcherKinds
  <2> QED BY <2>1, <2>2, <2>3 DEF Next
<1>3. CASE ~user /\ ~user' /\ ~More
  <2>1. Due(phase) = {}
    BY <1>1, <1>3, PassIsOver
  <2>2. stayed \subseteq ran
    BY <1>1, <2>1 DEF Due
  <2> QED BY <1>3, <2>2
<1>4. CASE CallWatcher
  <2>1. PICK pos \in [Nodes -> Int], W \in SUBSET Own(phase) : OnItsWay(pos, W, phase)
    BY <1>1 DEF Queue
  <2>2. cursor \in W /\ (~rejoined => ran \cap W \subseteq {})
    BY <1>1, <1>4, <2>1 DEF OnItsWay, Walk, CallWatcher
  <2>3. phase' = phase
    BY <1>4 DEF CallWatcher
  <2> QED BY <2>2, <2>3
<1>5. CASE phase' = phase /\ (user \/ user' = user)
  BY <1>5
<1> QED BY <1>2, <1>3, <1>4, <1>5

-----------------------------------------------------------------------------
(* In every reachable state the queues of loop->idle_handles and the       *)
(* others are rings of their sentinel and the active handles of their      *)
(* kind, and a foreach that is under way reaches the sentinel, over no     *)
(* closed handle and over all it has yet to call back; the counter, the    *)
(* flags and the lists of closing handles fit together.                    *)
THEOREM QueuesAreRings == Spec => []IInv
<1>1. Init => IInv
  BY InitIsFine
<1>2. IInv /\ [Next]_vars => IInv'
  BY StepIsFine
<1> QED BY <1>1, <1>2, PTL DEF Spec

(* loop->active_handles is the number of handles that keep uv_run() going, *)
(* however uv__handle_start(), uv__handle_stop(), uv_ref(), uv_unref() and *)
(* uv_close() are mixed.                                                   *)
THEOREM ActiveHandlesAreCounted == Spec => []CountIsRight
<1>1. IInv => CountIsRight
  BY DEF IInv, HandlesOK, HandlesFit, CountsItsHandles, KeepingAlive, CountIsRight
<1> QED BY <1>1, QueuesAreRings, PTL

(* uv_close() puts a handle on the list of uv__run_closing_handles()       *)
(* exactly once, and when its close callback is called the loop has no way *)
(* to it left, neither by a link of a queue nor by the q of a foreach.     *)
THEOREM HandlesAreClosedOnce == Spec => []ClosedOnce
<1> QED BY InvariantClosesOnce, QueuesAreRings, PTL

(* uv_backend_timeout() never lets uv__io_poll() wait past a timer, an     *)
(* idle watcher or a closing handle, and no uv_async_send() is lost.       *)
THEOREM PollNeverOversleeps == Spec => []NeverOversleeps
<1> QED BY InvariantSleepsWell, QueuesAreRings, PTL

(* uv_run() returns only when no handle is active and referenced and every *)
(* uv_close() has been answered.                                           *)
THEOREM RunsEndClean == Spec => RunEndsClean
<1>1. IInv /\ [Next]_vars =>
        (phase # "out" /\ phase' = "out" /\ mode = "default" =>
           \A h \in Handles : /\ ~({"active", "ref"} \subseteq hs.flags[h])
                              /\ ~IsClosing(hs, h))
  BY RunEndsWithoutHandles
<1> QED BY <1>1, QueuesAreRings, PTL DEF Spec, RunEndsClean

(* uv__run_idle(), uv__run_prepare() and uv__run_check() call back every   *)
(* watcher that is active from the beginning to the end of the foreach,    *)
(* and none twice unless a callback stopped its own watcher and started    *)
(* one.                                                                    *)
THEOREM WatchersAreCalledOnce == Spec => CalledOnce
<1>1. IInv /\ [Next]_vars =>
        /\ phase \in WatcherKinds /\ phase' # phase => stayed \subseteq ran
        /\ phase \in WatcherKinds /\ ~user /\ user' /\ cursor \in ran => rejoined
  BY PassCallsOnce
<1> QED BY <1>1, QueuesAreRings, PTL DEF Spec, CalledOnce
=============================================================================
