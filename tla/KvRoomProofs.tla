----------------------------- MODULE KvRoomProofs -----------------------------
(***************************************************************************)
(* Proofs about KvRoom: evictions, reclaims and the room around the space. *)
(*                                                                         *)
(* The first half is about values: what evict and reclaim make of a space  *)
(* in order, failures included (EvictOK, ReclaimOK).  An eviction is a     *)
(* loop over a stack of nodes that hang nowhere; Formed(t, S) says that    *)
(* the tree is one but for the nodes of S, and Evicting what holds of the  *)
(* space from turn to turn.  Then comes the specification's inductive      *)
(* invariant KvInv and what follows from it: the reference counts until a  *)
(* call fails on a full list, the views until one fails at all, and what   *)
(* reclaim reports.                                                        *)
(*                                                                         *)
(* The second half is about what a path spells.  Spells(t, p) gives every  *)
(* node its sequence by one equation per node, Branching(t) tells the      *)
(* children of a node apart; TreeInv keeps both, and from them follow what *)
(* publish adds to the cache and that match finds the longest prefix.      *)
(***************************************************************************)
EXTENDS KvSpaceProofs
-----------------------------------------------------------------------------
(* Sequences of nodes *)

\* A sequence without its only occurrence of x.
LEMMA RemovedFirst ==
    ASSUME NEW S, NEW q \in Seq(S), IsInjective(q), NEW x \in ToSet(q), NEW r, r = RemoveFirst(q, x)
    PROVE  /\ r \in Seq(S) /\ IsInjective(r) /\ ToSet(r) = ToSet(q) \ {x}
<1>. DEFINE n == Len(q)
            I == {i \in 1 .. n : q[i] = x}
            k == Min(I)
<1>1. n \in Nat /\ DOMAIN q = 1 .. n /\ \A i \in 1 .. n : q[i] \in S
  BY LenProperties, ElementOfSeq
<1>2. \E i \in 1 .. n : q[i] = x
  BY <1>1 DEF ToSet
<1>3. SelectInSeq(q, LAMBDA v : v = x) = k
  BY <1>2 DEF SelectInSeq
<1>4. r = RemoveAt(q, k)
  BY <1>2, <1>3 DEF RemoveFirst
<1>5. k \in 1 .. n /\ q[k] = x
  <2>1. I # {} /\ I \in SUBSET Nat
    BY <1>2
  <2>. HIDE DEF I
  <2>2. k \in I
    BY <2>1, MinOf
  <2>. QED
    BY <2>2 DEF I
<1>. DEFINE a == SubSeq(q, 1, k - 1)
            b == SubSeq(q, k + 1, n)
<1>6. /\ a \in Seq(S) /\ Len(a) = k - 1 /\ \A i \in 1 .. k - 1 : a[i] = q[i]
  <2>. DEFINE m == k - 1
  <2>1. m \in 0 .. n /\ 1 \in 1 .. n + 1 /\ 1 <= m + 1 /\ (m + 1) - 1 = m
    BY <1>1, <1>5
  <2>. HIDE DEF m, k
  <2>2. /\ SubSeq(q, 1, m) \in Seq(S) /\ Len(SubSeq(q, 1, m)) = (m + 1) - 1
        /\ \A i \in 1 .. (m + 1) - 1 : SubSeq(q, 1, m)[i] = q[1 + i - 1]
    BY <2>1, PartIs
  <2>. DEFINE c == SubSeq(q, 1, m)
  <2>3. c \in Seq(S) /\ Len(c) = m /\ \A i \in 1 .. m : c[i] = q[i]
    <3>. HIDE DEF c
    <3>. QED
      BY <2>1, <2>2 DEF c
  <2>. QED
    BY <2>3 DEF m
<1>7. /\ b \in Seq(S) /\ Len(b) = n - k /\ \A i \in 1 .. n - k : b[i] = q[k + i]
  <2>. DEFINE m == k + 1
  <2>1. n \in 0 .. n /\ m \in 1 .. n + 1 /\ m <= n + 1 /\ (n + 1) - m = n - k
    BY <1>1, <1>5
  <2>. HIDE DEF m
  <2>2. /\ SubSeq(q, m, n) \in Seq(S) /\ Len(SubSeq(q, m, n)) = (n + 1) - m
        /\ \A i \in 1 .. (n + 1) - m : SubSeq(q, m, n)[i] = q[m + i - 1]
    BY <2>1, PartIs
  <2>. DEFINE c == SubSeq(q, m, n)
  <2>. HIDE DEF c
  <2>3. c \in Seq(S) /\ Len(c) = n - k /\ \A i \in 1 .. n - k : c[i] = q[m + i - 1]
    BY <2>1, <2>2 DEF c
  <2>4. \A i \in 1 .. n - k : m + i - 1 = k + i
    BY <1>1, <1>5 DEF m
  <2>5. \A i \in 1 .. n - k : c[i] = q[k + i]
    BY <2>3, <2>4
  <2>. QED
    BY <2>3, <2>5 DEF c, m
<1>8. r = a \o b
  BY <1>4 DEF RemoveAt
<1>. HIDE DEF k, n, a, b
<1>9. /\ r \in Seq(S) /\ Len(r) = n - 1
      /\ \A i \in 1 .. n - 1 : r[i] = IF i <= k - 1 THEN a[i] ELSE b[i - (k - 1)]
  <2>1. /\ a \o b \in Seq(S) /\ Len(a \o b) = Len(a) + Len(b)
        /\ \A i \in 1 .. Len(a) + Len(b) :
             (a \o b)[i] = IF i <= Len(a) THEN a[i] ELSE b[i - Len(a)]
    BY <1>6, <1>7, ConcatProperties
  <2>2. Len(a) + Len(b) = n - 1
    BY <1>1, <1>5, <1>6, <1>7
  <2>. QED
    BY <1>6, <1>8, <2>1, <2>2
<1>10. \A i \in 1 .. n - 1 : r[i] = q[IF i < k THEN i ELSE i + 1]
  <2>1. TAKE i \in 1 .. n - 1
  <2>2. CASE i < k
    BY <1>1, <1>5, <1>6, <1>9, <2>2
  <2>3. CASE ~(i < k)
    <3>. DEFINE j == i - (k - 1)
    <3>1. j \in 1 .. n - k /\ k + j = i + 1 /\ ~(i <= k - 1)
      BY <1>1, <1>5, <2>3
    <3>2. r[i] = b[j]
      BY <1>9, <3>1
    <3>. HIDE DEF j
    <3>. QED
      BY <1>7, <2>3, <3>1, <3>2
  <2>. QED
    BY <2>2, <2>3
<1>11. DOMAIN r = 1 .. n - 1
  BY <1>1, <1>9, LenProperties
<1>12. \A i, j \in 1 .. n : q[i] = q[j] => i = j
  BY <1>1 DEF IsInjective
<1>. DEFINE at(i) == IF i < k THEN i ELSE i + 1
<1>13. \A i \in 1 .. n - 1 : at(i) \in 1 .. n /\ at(i) # k /\ r[i] = q[at(i)]
  BY <1>1, <1>5, <1>10
<1>14. \A i, j \in 1 .. n - 1 : at(i) = at(j) => i = j
  BY <1>1, <1>5
<1>15. \A j \in 1 .. n : j # k => \E i \in 1 .. n - 1 : at(i) = j
  <2>1. TAKE j \in 1 .. n
  <2>2. HAVE j # k
  <2>3. CASE j < k
    <3>1. j \in 1 .. n - 1 /\ at(j) = j
      BY <1>1, <1>5, <2>3
    <3>. QED
      BY <3>1
  <2>4. CASE ~(j < k)
    <3>1. j - 1 \in 1 .. n - 1 /\ at(j - 1) = j
      BY <1>1, <1>5, <2>2, <2>4
    <3>. QED
      BY <3>1
  <2>. QED
    BY <2>3, <2>4
<1>. HIDE DEF at
<1>16. IsInjective(r)
  <2>1. SUFFICES ASSUME NEW i \in 1 .. n - 1, NEW j \in 1 .. n - 1, r[i] = r[j] PROVE i = j
    BY <1>11 DEF IsInjective
  <2>. QED
    BY <1>12, <1>13, <1>14, <2>1
<1>17. ToSet(r) = ToSet(q) \ {x}
  <2>1. ToSet(r) = {r[i] : i \in 1 .. n - 1} /\ ToSet(q) = {q[i] : i \in 1 .. n}
    BY <1>1, <1>11 DEF ToSet
  <2>2. \A i \in 1 .. n - 1 : r[i] \in {q[j] : j \in 1 .. n} /\ r[i] # x
    BY <1>5, <1>12, <1>13
  <2>3. ASSUME NEW j \in 1 .. n, q[j] # x PROVE q[j] \in {r[i] : i \in 1 .. n - 1}
    BY <1>5, <1>13, <1>15, <2>3
  <2>. QED
    BY <2>1, <2>2, <2>3
<1>. QED
  BY <1>9, <1>16, <1>17

\* The stack of an eviction: its last node is taken off and that node's
\* children are pushed.
Pushed(stack, kids) == Front(stack) \o kids

LEMMA PushedIs ==
    ASSUME NEW S, NEW p \in Seq(S), p # <<>>, NEW q \in Seq(S), IsInjective(p), IsInjective(q),
           ToSet(p) \cap ToSet(q) = {}
    PROVE  /\ Last(p) \in ToSet(p) /\ Pushed(p, q) \in Seq(S) /\ IsInjective(Pushed(p, q))
           /\ ToSet(Pushed(p, q)) = (ToSet(p) \ {Last(p)}) \cup ToSet(q)
<1>. DEFINE n == Len(p)
            m == n - 1
            l == Len(q)
            f == SubSeq(p, 1, m)
            r == Pushed(p, q)
            x == Last(p)
<1>1. n \in Nat \ {0} /\ DOMAIN p = 1 .. n /\ x = p[n] /\ x \in S
      /\ l \in Nat /\ DOMAIN q = 1 .. l
      /\ f \in Seq(S) /\ Len(f) = m /\ \A i \in 1 .. m : f[i] = p[i]
  BY LastOf, PopFacts, LenProperties
<1>2. r = f \o q
  BY DEF Pushed, Front
<1>. HIDE DEF f, r, l, x
<1>3. m \in Nat /\ n = m + 1
  BY <1>1
<1>. HIDE DEF m
<1>4. /\ r \in Seq(S) /\ Len(r) = m + l
      /\ \A i \in 1 .. m + l : r[i] = IF i <= m THEN f[i] ELSE q[i - m]
  <2>1. /\ f \o q \in Seq(S) /\ Len(f \o q) = Len(f) + Len(q)
        /\ \A i \in 1 .. Len(f) + Len(q) :
             (f \o q)[i] = IF i <= Len(f) THEN f[i] ELSE q[i - Len(f)]
    BY <1>1, ConcatProperties
  <2>. QED
    BY <1>1, <1>2, <2>1 DEF l
<1>. HIDE DEF n
<1>5. DOMAIN r = 1 .. m + l
  BY <1>4, LenProperties
<1>6. /\ \A i, j \in 1 .. n : p[i] = p[j] => i = j
      /\ \A i, j \in 1 .. l : q[i] = q[j] => i = j
      /\ ToSet(p) = {p[i] : i \in 1 .. n} /\ ToSet(q) = {q[i] : i \in 1 .. l}
      /\ ToSet(r) = {r[i] : i \in 1 .. m + l}
  BY <1>1, <1>5 DEF IsInjective, ToSet
<1>7. \A i \in 1 .. n, j \in 1 .. l : p[i] # q[j]
  BY <1>6, SMTT(60)
<1>8. \A i \in 1 .. m + l : \/ i \in 1 .. m /\ r[i] = p[i]
                            \/ i - m \in 1 .. l /\ i > m /\ r[i] = q[i - m]
  BY <1>1, <1>3, <1>4
<1>9. x \in ToSet(p)
  BY <1>1, <1>6
<1>10. IsInjective(r)
  <2>1. SUFFICES ASSUME NEW i \in 1 .. m + l, NEW j \in 1 .. m + l, r[i] = r[j] PROVE i = j
    BY <1>5 DEF IsInjective
  <2>2. CASE i \in 1 .. m /\ r[i] = p[i]
    <3>1. i \in 1 .. n
      BY <1>3, <2>2
    <3>2. CASE j \in 1 .. m /\ r[j] = p[j]
      <4>1. j \in 1 .. n
        BY <1>3, <3>2
      <4>. QED
        BY <1>6, <2>1, <2>2, <3>1, <3>2, <4>1
    <3>3. CASE j - m \in 1 .. l /\ r[j] = q[j - m]
      BY <1>7, <2>1, <2>2, <3>1, <3>3
    <3>. QED
      BY <1>8, <3>2, <3>3
  <2>3. CASE i - m \in 1 .. l /\ r[i] = q[i - m]
    <3>2. CASE j \in 1 .. m /\ r[j] = p[j]
      <4>1. j \in 1 .. n
        BY <1>3, <3>2
      <4>. QED
        BY <1>7, <2>1, <2>3, <3>2, <4>1
    <3>3. CASE j - m \in 1 .. l /\ r[j] = q[j - m]
      <4>1. i - m = j - m
        BY <1>6, <2>1, <2>3, <3>3
      <4>. QED
        BY <1>1, <1>3, <4>1
    <3>. QED
      BY <1>8, <3>2, <3>3
  <2>. QED
    BY <1>8, <2>2, <2>3
<1>11. ToSet(r) = (ToSet(p) \ {x}) \cup ToSet(q)
  <2>1. ASSUME NEW i \in 1 .. m + l PROVE r[i] \in (ToSet(p) \ {x}) \cup ToSet(q)
    <3>1. CASE i \in 1 .. m /\ r[i] = p[i]
      <4>1. i \in 1 .. n /\ i # n /\ n \in 1 .. n
        BY <1>1, <1>3, <3>1
      <4>2. p[i] # p[n]
        BY <1>6, <4>1
      <4>. QED
        BY <1>1, <1>6, <3>1, <4>1, <4>2
    <3>2. CASE i - m \in 1 .. l /\ r[i] = q[i - m]
      BY <1>6, <3>2
    <3>. QED
      BY <1>8, <3>1, <3>2
  <2>2. ASSUME NEW i \in 1 .. n, p[i] # x PROVE p[i] \in ToSet(r)
    <3>1. i \in 1 .. m /\ i \in 1 .. m + l
      BY <1>1, <1>3, <2>2
    <3>2. r[i] = p[i]
      BY <1>1, <1>4, <3>1
    <3>. QED
      BY <1>6, <3>1, <3>2
  <2>3. ASSUME NEW j \in 1 .. l PROVE q[j] \in ToSet(r)
    <3>. DEFINE i == m + j
    <3>1. i \in 1 .. m + l /\ ~(i <= m) /\ i - m = j
      BY <1>1, <1>3
    <3>2. r[i] = q[j]
      BY <1>4, <3>1
    <3>. HIDE DEF i
    <3>. QED
      BY <1>6, <3>1, <3>2
  <2>. QED
    BY <1>6, <2>1, <2>2, <2>3, SMTT(60)
<1>. QED
  BY <1>4, <1>9, <1>10, <1>11 DEF r, x
-----------------------------------------------------------------------------
(* The links of the tree during an eviction *)

\* The node x is taken from its parent.
LEMMA LinkDetach ==
    ASSUME NEW U \in SUBSET Nodes, NEW K \in [Nodes -> SUBSET Nodes],
           NEW P \in [Nodes -> Nodes \cup {INVALID}], Linked(U, K, P, {}),
           NEW x \in U \ {ROOT}, NEW p, p = P[x],
           NEW L \in [Nodes -> SUBSET Nodes], NEW Q \in [Nodes -> Nodes \cup {INVALID}],
           L[p] = K[p] \ {x}, \A y \in Nodes \ {p} : L[y] = K[y],
           Q[x] = INVALID, \A y \in Nodes \ {x} : Q[y] = P[y]
    PROVE  Linked(U, L, Q, {x})
<1>0. ROOT \in Nodes /\ INVALID \notin Nodes /\ ROOT # x /\ x \in Nodes
  BY TheConstants DEF Linked
<1>1. p \in Nodes /\ p # x /\ x \in K[p]
  BY DEF Linked
<1>2. ROOT \in U /\ Q[ROOT] = INVALID
  BY <1>0 DEF Linked
<1>3. \A y \in Nodes : Q[y] # y
  BY <1>0 DEF Linked
<1>4. \A y \in Nodes \ U : L[y] = {}
  BY <1>1 DEF Linked
<1>5. ASSUME NEW y \in Nodes, NEW c \in L[y] PROVE c \in U /\ Q[c] = y /\ c \notin {x}
  <2>1. c \in K[y] /\ c \in U /\ P[c] = y
    BY <1>1 DEF Linked
  <2>2. c # x
    BY <1>1, <2>1
  <2>. QED
    BY <2>1, <2>2
<1>6. ASSUME NEW y \in (U \ {ROOT}) \ {x} PROVE Q[y] # INVALID /\ y \in L[Q[y]]
  <2>1. P[y] # INVALID /\ y \in K[P[y]] /\ Q[y] = P[y] /\ P[y] \in Nodes
    BY DEF Linked
  <2>. QED
    BY <1>1, <2>1
<1>. QED
  BY <1>0, <1>2, <1>3, <1>4, <1>5, <1>6 DEF Linked

\* A node of S is killed: its children take its place.
LEMMA LinkKill ==
    ASSUME NEW U \in SUBSET Nodes, NEW K \in [Nodes -> SUBSET Nodes],
           NEW P \in [Nodes -> Nodes \cup {INVALID}], NEW S, Linked(U, K, P, S),
           NEW x \in S,
           NEW L \in [Nodes -> SUBSET Nodes], NEW Q \in [Nodes -> Nodes \cup {INVALID}],
           L[x] = {}, Q[x] = INVALID,
           \A y \in Nodes \ {x} : L[y] = K[y] /\ Q[y] = P[y]
    PROVE  Linked(U \ {x}, L, Q, (S \ {x}) \cup K[x])
<1>0. ROOT \in Nodes /\ INVALID \notin Nodes /\ ROOT # x /\ x \in Nodes /\ x \in U
  BY TheConstants DEF Linked
<1>1. \A y \in K[x] : y \in U /\ y # x /\ y # ROOT /\ P[y] = x /\ y \in Nodes
  BY <1>0 DEF Linked
<1>2. ROOT \in U \ {x} /\ Q[ROOT] = INVALID
  BY <1>0 DEF Linked
<1>3. \A y \in Nodes : Q[y] # y
  BY <1>0 DEF Linked
<1>4. \A y \in Nodes \ (U \ {x}) : L[y] = {}
  BY DEF Linked
<1>5. ASSUME NEW y \in Nodes, NEW c \in L[y]
      PROVE  c \in U \ {x} /\ Q[c] = y /\ c \notin (S \ {x}) \cup K[x]
  <2>1. y # x /\ c \in K[y]
    BY <1>0
  <2>2. c \in U /\ P[c] = y /\ c \notin S
    BY <2>1 DEF Linked
  <2>3. c # x
    BY <2>2
  <2>4. c \notin K[x]
    BY <1>1, <2>1, <2>2
  <2>. QED
    BY <2>2, <2>3, <2>4
<1>6. ASSUME NEW y \in ((U \ {x}) \ {ROOT}) \ ((S \ {x}) \cup K[x])
      PROVE  Q[y] # INVALID /\ y \in L[Q[y]]
  <2>1. y \in (U \ {ROOT}) \ S /\ y # x
    OBVIOUS
  <2>2. P[y] # INVALID /\ y \in K[P[y]] /\ Q[y] = P[y] /\ P[y] \in Nodes
    BY <2>1 DEF Linked
  <2>3. P[y] # x
    BY <2>2
  <2>. QED
    BY <2>2, <2>3
<1>7. (S \ {x}) \cup K[x] \subseteq (U \ {x}) \ {ROOT}
  BY <1>1 DEF Linked
<1>. QED
  BY <1>2, <1>3, <1>4, <1>5, <1>6, <1>7 DEF Linked

\* Nodes are gone, the rest is as it was: the same tokens, no new children, and
\* what is gone hangs nowhere.
Pruned(t, u) ==
    \A y \in Nodes :
        /\ u[y].alive => /\ t[y].alive /\ u[y].tokens = t[y].tokens
                         /\ ToSet(u[y].kids) \subseteq ToSet(t[y].kids)
        /\ ~u[y].alive => u[y].parent = INVALID \/ (u[y].parent = t[y].parent /\ ~t[y].alive)

LEMMA PrunedSelf ==
    ASSUME NEW t
    PROVE  Pruned(t, t)
BY Zenon DEF Pruned

LEMMA PrunedTwice ==
    ASSUME NEW t, NEW u, NEW v, Pruned(t, u), Pruned(u, v)
    PROVE  Pruned(t, v)
<1>1. ASSUME NEW y \in Nodes, v[y].alive
      PROVE  /\ t[y].alive /\ v[y].tokens = t[y].tokens
             /\ ToSet(v[y].kids) \subseteq ToSet(t[y].kids)
  <2>1. /\ u[y].alive /\ v[y].tokens = u[y].tokens
        /\ ToSet(v[y].kids) \subseteq ToSet(u[y].kids)
    BY <1>1, Zenon DEF Pruned
  <2>2. /\ t[y].alive /\ u[y].tokens = t[y].tokens
        /\ ToSet(u[y].kids) \subseteq ToSet(t[y].kids)
    BY <1>1, <2>1, Zenon DEF Pruned
  <2>3. ToSet(v[y].kids) \subseteq ToSet(t[y].kids)
    BY <2>1, <2>2
  <2>. QED
    BY <2>1, <2>2, <2>3, Zenon
<1>2. ASSUME NEW y \in Nodes, ~v[y].alive
      PROVE  v[y].parent = INVALID \/ (v[y].parent = t[y].parent /\ ~t[y].alive)
  <2>1. v[y].parent = INVALID \/ (v[y].parent = u[y].parent /\ ~u[y].alive)
    BY <1>2, Zenon DEF Pruned
  <2>2. ~u[y].alive
          => u[y].parent = INVALID \/ (u[y].parent = t[y].parent /\ ~t[y].alive)
    BY <1>2, Zenon DEF Pruned
  <2>. QED
    BY <2>1, <2>2, Zenon
<1>. QED
  BY <1>1, <1>2, Zenon DEF Pruned

\* A node with another parent.
Orphan(n, m) ==
    /\ m \in TreeNodes /\ m.parent = INVALID /\ m.kids = n.kids /\ m.tokens = n.tokens
    /\ m.offset = n.offset /\ m.blocks = n.blocks /\ (m.alive <=> n.alive)

LEMMA NodeOrphaned ==
    ASSUME NEW n \in TreeNodes
    PROVE  Orphan(n, [n EXCEPT !.parent = INVALID])
BY DEF Orphan, TreeNodes

\* u is t with the node x hanging nowhere; p was its parent.
DetachIs(t, u, p, x) ==
    /\ u \in [Nodes -> TreeNodes]
    /\ Orphan(t[x], u[x])
    /\ Hung(t[p], u[p], RemoveFirst(t[p].kids, x))
    /\ \A y \in Nodes \ {p, x} : u[y] = t[y]

LEMMA DetachFields ==
    ASSUME NEW t \in [Nodes -> TreeNodes], NEW x \in Nodes, NEW p, p = t[x].parent,
           p \in Nodes, p # x, RemoveFirst(t[p].kids, x) \in Seq(Nodes),
           NEW u, u = detach(t, x)
    PROVE  DetachIs(t, u, p, x)
<1>. DEFINE kids == RemoveFirst(t[p].kids, x)
            orphan == [t[x] EXCEPT !.parent = INVALID]
            cut == [t EXCEPT ![x] = orphan]
            hung == [t[p] EXCEPT !.kids = kids]
<1>1. t[x] \in TreeNodes /\ t[p] \in TreeNodes /\ kids \in Seq(Nodes) /\ p # INVALID
  BY NodeFields, TheConstants
<1>2. Orphan(t[x], orphan)
  BY <1>1, NodeOrphaned
<1>3. u = [cut EXCEPT ![p].kids = RemoveFirst(@, x)]
  BY <1>1 DEF detach
<1>. HIDE DEF orphan
<1>4. orphan \in TreeNodes
  BY <1>2 DEF Orphan
<1>5. cut[p] = t[p] /\ cut[x] = orphan /\ cut \in [Nodes -> TreeNodes]
      /\ \A y \in Nodes \ {p, x} : cut[y] = t[y]
  BY <1>4
<1>. HIDE DEF cut
<1>6. u = [cut EXCEPT ![p] = hung]
  BY <1>3, <1>5
<1>. HIDE DEF kids
<1>7. Hung(t[p], hung, kids)
  BY <1>1, NodeHung
<1>. HIDE DEF hung
<1>8. hung \in TreeNodes
  BY <1>7 DEF Hung
<1>9. u \in [Nodes -> TreeNodes] /\ u[p] = hung /\ u[x] = orphan
      /\ \A y \in Nodes \ {p, x} : u[y] = t[y]
  BY <1>5, <1>6, <1>8
<1>. QED
  BY <1>2, <1>7, <1>9, Zenon DEF DetachIs, kids

\* A node that is to be evicted is taken from its parent.
LEMMA DetachFormed ==
    ASSUME NEW t \in [Nodes -> TreeNodes], Formed(t, {}), NEW x \in AliveNodes(t),
           NEW u, u = detach(t, x)
    PROVE  /\ u \in [Nodes -> TreeNodes] /\ Formed(u, {x}) /\ AliveNodes(u) = AliveNodes(t)
           /\ \A y \in Nodes : NodeView(u, y) = NodeView(t, y)
           /\ Pruned(t, u)
<1>. DEFINE p == t[x].parent
            U == Up(t)
            K == KidsOf(t)
            P == Parents(t)
            V == Up(u)
            L == KidsOf(u)
            Q == Parents(u)
<1>1. /\ U \in SUBSET Nodes /\ K \in [Nodes -> SUBSET Nodes]
      /\ P \in [Nodes -> Nodes \cup {INVALID}] /\ AliveNodes(t) = U \ {ROOT}
  BY LinksTyped
<1>2. Linked(U, K, P, {}) /\ Shaped(t)
  BY FormedIs
<1>3. /\ \A y \in Nodes : K[y] = ToSet(t[y].kids) /\ P[y] = t[y].parent
      /\ \A y \in Nodes : L[y] = ToSet(u[y].kids) /\ Q[y] = u[y].parent
  BY DEF KidsOf, Parents
<1>4. /\ \A y \in Nodes : y \in U <=> t[y].alive
      /\ \A y \in Nodes : y \in V <=> u[y].alive
  BY Zenon DEF Up
<1>. HIDE DEF U, K, P, V, L, Q
<1>5. x \in Nodes /\ x \in U \ {ROOT} /\ p = P[x] /\ p \in Nodes /\ p # x /\ x \in K[p]
  <2>1. x \in Nodes /\ x \in U \ {ROOT} /\ p = P[x]
    BY <1>1, <1>3
  <2>2. P[x] # INVALID /\ x \in K[P[x]] /\ P[x] # x
    BY <1>2, <2>1 DEF Linked
  <2>. HIDE DEF p
  <2>. QED
    BY <1>1, <2>1, <2>2
<1>. HIDE DEF p
<1>. DEFINE kids == RemoveFirst(t[p].kids, x)
<1>6. /\ kids \in Seq(Nodes) /\ IsInjective(kids) /\ ToSet(kids) = ToSet(t[p].kids) \ {x}
  <2>. DEFINE q == t[p].kids
  <2>1. q \in Seq(Nodes) /\ IsInjective(q) /\ x \in ToSet(q)
    BY <1>2, <1>3, <1>5, NodeFields DEF Shaped
  <2>. HIDE DEF q
  <2>2. /\ RemoveFirst(q, x) \in Seq(Nodes) /\ IsInjective(RemoveFirst(q, x))
        /\ ToSet(RemoveFirst(q, x)) = ToSet(q) \ {x}
    BY <2>1, RemovedFirst
  <2>. QED
    BY <2>2 DEF q
<1>7. DetachIs(t, u, p, x)
  BY <1>5, <1>6, DetachFields DEF p
<1>8. /\ u \in [Nodes -> TreeNodes] /\ Orphan(t[x], u[x]) /\ Hung(t[p], u[p], kids)
      /\ \A y \in Nodes \ {p, x} : u[y] = t[y]
  BY <1>7, Zenon DEF DetachIs
<1>. HIDE DEF kids
<1>9. /\ V \in SUBSET Nodes /\ L \in [Nodes -> SUBSET Nodes]
      /\ Q \in [Nodes -> Nodes \cup {INVALID}] /\ AliveNodes(u) = V \ {ROOT}
  BY <1>8, LinksTyped DEF V, L, Q
<1>10. /\ u[x].kids = t[x].kids /\ u[x].tokens = t[x].tokens /\ u[x].offset = t[x].offset
       /\ u[x].blocks = t[x].blocks /\ u[x].parent = INVALID /\ (u[x].alive <=> t[x].alive)
  BY <1>8, Zenon DEF Orphan
<1>11. /\ u[p].kids = kids /\ u[p].tokens = t[p].tokens /\ u[p].offset = t[p].offset
       /\ u[p].blocks = t[p].blocks /\ u[p].parent = t[p].parent /\ (u[p].alive <=> t[p].alive)
  BY <1>8, Zenon DEF Hung
<1>12. V = U
  <2>1. \A y \in Nodes : y \in V <=> y \in U
    BY <1>4, <1>8, <1>10, <1>11, Zenon
  <2>. QED
    BY <1>1, <1>9, <2>1
<1>13. L[p] = K[p] \ {x} /\ \A y \in Nodes \ {p} : L[y] = K[y]
  <2>1. L[p] = K[p] \ {x}
    BY <1>3, <1>5, <1>6, <1>11
  <2>2. L[x] = K[x]
    BY <1>3, <1>5, <1>10
  <2>. QED
    BY <1>3, <1>8, <2>1, <2>2
<1>14. Q[x] = INVALID /\ \A y \in Nodes \ {x} : Q[y] = P[y]
  BY <1>3, <1>5, <1>8, <1>10, <1>11
<1>15. Linked(U, L, Q, {x})
  BY <1>1, <1>2, <1>5, <1>9, <1>13, <1>14, LinkDetach
<1>16. \A y \in Nodes : /\ u[y].tokens = t[y].tokens /\ u[y].offset = t[y].offset
                        /\ u[y].blocks = t[y].blocks
  BY <1>8, <1>10, <1>11
<1>17. AliveNodes(u) = AliveNodes(t)
  BY <1>1, <1>9, <1>12
<1>18. Shaped(u)
  <2>1. u[ROOT].tokens = <<>>
    BY <1>2, <1>16, TheConstants DEF Shaped
  <2>2. \A y \in Nodes : IsInjective(u[y].kids)
    BY <1>2, <1>6, <1>8, <1>10, <1>11, Zenon DEF Shaped
  <2>3. ASSUME NEW y \in AliveNodes(u) PROVE NodeShape(u[y])
    <3>1. y \in AliveNodes(t) /\ y \in Nodes
      BY <1>1, <1>17
    <3>2. NodeShape(t[y])
      BY <1>2, <3>1 DEF Shaped
    <3>3. BlocksFor(u[y], Len(u[y].tokens)) = BlocksFor(t[y], Len(t[y].tokens))
      BY <1>16, <3>1 DEF BlocksFor
    <3>. QED
      BY <1>16, <3>1, <3>2, <3>3 DEF NodeShape
  <2>. QED
    BY <2>1, <2>2, <2>3 DEF Shaped
<1>19. Formed(u, {x})
  BY <1>8, <1>12, <1>15, <1>18, FormedIs DEF V, L, Q
<1>20. \A y \in Nodes : NodeView(u, y) = NodeView(t, y)
  BY <1>16, <1>17 DEF NodeView
<1>21. Pruned(t, u)
  <2>1. ASSUME NEW y \in Nodes
        PROVE  (u[y].alive <=> t[y].alive) /\ ToSet(u[y].kids) \subseteq ToSet(t[y].kids)
    <3>1. L[y] \subseteq K[y]
      BY <1>13
    <3>. QED
      BY <1>3, <1>4, <1>12, <3>1, Zenon
  <2>2. ASSUME NEW y \in Nodes PROVE u[y].parent = INVALID \/ u[y].parent = t[y].parent
    <3>1. Q[y] = INVALID \/ Q[y] = P[y]
      BY <1>14
    <3>. QED
      BY <1>3, <3>1
  <2>. QED
    BY <1>16, <2>1, <2>2, Zenon DEF Pruned
<1>. QED
  BY <1>8, <1>17, <1>19, <1>20, <1>21

\* A node as it is before it is taken and after it has been killed.
IsDead(n) ==
    /\ n \in TreeNodes /\ ~n.alive /\ n.parent = INVALID /\ n.kids = <<>>

LEMMA DeadNodeIs == IsDead(DeadNode)
<1>. DEFINE no == FALSE
<1>1. DeadNode = [alive |-> no, parent |-> INVALID, kids |-> <<>>, tokens |-> <<>>,
                  offset |-> 0, blocks |-> <<>>, freq |-> 0]
  BY DEF DeadNode
<1>2. no \in BOOLEAN /\ <<>> \in Seq(Nodes) /\ <<>> \in Seq(Nat) /\ <<>> \in Seq(Blocks)
  OBVIOUS
<1>3. ~no
  OBVIOUS
<1>. HIDE DEF no
<1>4. DeadNode \in TreeNodes
  BY <1>1, <1>2 DEF TreeNodes
<1>5. DeadNode.alive = no /\ DeadNode.parent = INVALID /\ DeadNode.kids = <<>>
  BY <1>1
<1>6. ~DeadNode.alive
  BY <1>3, <1>5, Zenon
<1>. QED
  BY <1>4, <1>5, <1>6, Zenon DEF IsDead

\* u is t without the node x, which hung on no parent: its children do now.
KillIs(t, u, S, x) ==
    /\ u \in [Nodes -> TreeNodes] /\ Formed(u, (S \ {x}) \cup ToSet(t[x].kids))
    /\ AliveNodes(u) = AliveNodes(t) \ {x} /\ x \in AliveNodes(t)
    /\ \A y \in Nodes \ {x} : NodeView(u, y) = NodeView(t, y)
    /\ NodeView(u, x) = <<>> /\ NodeView(t, x) = t[x].blocks
    /\ t[x].kids \in Seq(Nodes) /\ IsInjective(t[x].kids)
    /\ S \cap ToSet(t[x].kids) = {} /\ Pruned(t, u)

\* A node on the eviction's stack is killed.
LEMMA KillFormed ==
    ASSUME NEW t \in [Nodes -> TreeNodes], NEW S, Formed(t, S), NEW x \in S,
           NEW u, u = kill(t, x)
    PROVE  KillIs(t, u, S, x)
<1>. DEFINE U == Up(t)
            K == KidsOf(t)
            P == Parents(t)
            V == Up(u)
            L == KidsOf(u)
            Q == Parents(u)
<1>1. /\ U \in SUBSET Nodes /\ K \in [Nodes -> SUBSET Nodes]
      /\ P \in [Nodes -> Nodes \cup {INVALID}] /\ AliveNodes(t) = U \ {ROOT}
  BY LinksTyped
<1>2. Linked(U, K, P, S) /\ Shaped(t)
  BY FormedIs
<1>3. /\ \A y \in Nodes : K[y] = ToSet(t[y].kids) /\ P[y] = t[y].parent
      /\ \A y \in Nodes : L[y] = ToSet(u[y].kids) /\ Q[y] = u[y].parent
  BY DEF KidsOf, Parents
<1>4. /\ \A y \in Nodes : y \in U <=> t[y].alive
      /\ \A y \in Nodes : y \in V <=> u[y].alive
  BY Zenon DEF Up
<1>. HIDE DEF U, K, P, V, L, Q
<1>5. x \in AliveNodes(t) /\ x \in Nodes /\ x \in U /\ x # ROOT
  BY <1>1, <1>2 DEF Linked
<1>6. IsDead(DeadNode) /\ DeadNode \in TreeNodes
  BY DeadNodeIs DEF IsDead
<1>7. /\ u \in [Nodes -> TreeNodes] /\ u[x] = DeadNode
      /\ \A y \in Nodes \ {x} : u[y] = t[y]
  BY <1>5, <1>6 DEF kill
<1>8. ~u[x].alive /\ u[x].parent = INVALID /\ u[x].kids = <<>>
  BY <1>6, <1>7, Zenon DEF IsDead
<1>9. /\ V \in SUBSET Nodes /\ L \in [Nodes -> SUBSET Nodes]
      /\ Q \in [Nodes -> Nodes \cup {INVALID}] /\ AliveNodes(u) = V \ {ROOT}
  BY <1>7, LinksTyped DEF V, L, Q
<1>10. V = U \ {x}
  <2>1. x \notin V
    BY <1>4, <1>5, <1>8, Zenon
  <2>2. \A y \in Nodes \ {x} : y \in V <=> y \in U
    BY <1>4, <1>7, Zenon
  <2>. QED
    BY <1>1, <1>9, <2>1, <2>2
<1>11. L[x] = {} /\ Q[x] = INVALID
  <2>1. ToSet(<<>>) = {}
    BY DEF ToSet
  <2>. QED
    BY <1>3, <1>5, <1>8, <2>1
<1>12. \A y \in Nodes \ {x} : L[y] = K[y] /\ Q[y] = P[y]
  BY <1>3, <1>7
<1>13. Linked(U \ {x}, L, Q, (S \ {x}) \cup K[x])
  BY <1>1, <1>2, <1>9, <1>11, <1>12, LinkKill
<1>14. AliveNodes(u) = AliveNodes(t) \ {x}
  BY <1>1, <1>9, <1>10
<1>15. Shaped(u)
  <2>1. u[ROOT].tokens = <<>>
    BY <1>2, <1>5, <1>7, TheConstants DEF Shaped
  <2>2. IsInjective(<<>>)
    BY DEF IsInjective
  <2>3. \A y \in Nodes : IsInjective(u[y].kids)
    BY <1>2, <1>7, <1>8, <2>2, Zenon DEF Shaped
  <2>4. ASSUME NEW y \in AliveNodes(u) PROVE NodeShape(u[y])
    <3>1. y \in AliveNodes(t) /\ y \in Nodes \ {x}
      BY <1>1, <1>14
    <3>. QED
      BY <1>2, <1>7, <3>1 DEF Shaped
  <2>. QED
    BY <2>1, <2>3, <2>4 DEF Shaped
<1>16. Formed(u, (S \ {x}) \cup ToSet(t[x].kids))
  <2>. DEFINE T == (S \ {x}) \cup K[x]
  <2>1. Linked(V, L, Q, T)
    BY <1>10, <1>13
  <2>2. T = (S \ {x}) \cup ToSet(t[x].kids)
    BY <1>3, <1>5
  <2>. HIDE DEF T
  <2>3. Formed(u, T)
    BY <1>7, <1>15, <2>1, FormedIs DEF V, L, Q
  <2>. QED
    BY <2>2, <2>3
<1>17. /\ \A y \in Nodes \ {x} : NodeView(u, y) = NodeView(t, y)
       /\ NodeView(u, x) = <<>> /\ NodeView(t, x) = t[x].blocks
  BY <1>5, <1>7, <1>14 DEF NodeView
<1>18. t[x].kids \in Seq(Nodes) /\ IsInjective(t[x].kids)
  BY <1>2, <1>5, NodeFields DEF Shaped
<1>19. S \cap ToSet(t[x].kids) = {}
  <2>1. \A c \in K[x] : c \notin S
    BY <1>2, <1>5 DEF Linked
  <2>. QED
    BY <1>3, <1>5, <2>1
<1>20. Pruned(t, u)
  <2>1. ASSUME NEW y \in Nodes \ {x} PROVE u[y] = t[y]
    BY <1>7
  <2>. QED
    BY <1>8, <2>1, Zenon DEF Pruned
<1>. QED
  BY <1>5, <1>7, <1>14, <1>16, <1>17, <1>18, <1>19, <1>20 DEF KillIs
-----------------------------------------------------------------------------
(* One node of an eviction *)

Evictions == [kv : Spaces, freed : Nat, stack : Seq(Nodes)]

LEMMA EvictionFields ==
    ASSUME NEW st \in Evictions
    PROVE  /\ st.kv \in Spaces /\ st.freed \in Nat /\ st.stack \in Seq(Nodes)
           /\ st.kv.pool \in Pools /\ st.kv.pool.refcnt \in [Blocks -> Nat]
           /\ n_free(st.kv.pool) \in Nat
<1>1. st.kv \in Spaces /\ st.freed \in Nat /\ st.stack \in Seq(Nodes)
  BY DEF Evictions
<1>2. st.kv.pool \in Pools
  BY <1>1, SpaceFields
<1>. QED
  BY <1>1, <1>2, PoolFields

With(st, kv, freed) == [st EXCEPT !.kv = kv, !.freed = freed]

LEMMA EvictionMade ==
    ASSUME NEW st \in Evictions, NEW kv \in Spaces, NEW freed \in Nat
    PROVE  /\ With(st, kv, freed) \in Evictions /\ With(st, kv, freed).kv = kv
           /\ With(st, kv, freed).freed = freed /\ With(st, kv, freed).stack = st.stack
BY DEF Evictions, With

\* More blocks have come back than a list of ids takes.
TooMany(freed) == freed > MAX_BLOCKS_PER_SEQ

\* Blocks have gone back to the pool, each of which is counted; nothing else
\* has changed.  An error is a count past the list's end.
Drained(st, sw) ==
    /\ sw \in Evictions /\ sw.stack = st.stack /\ sw.kv.tree = st.kv.tree /\ sw.kv.rq = st.kv.rq
    /\ PoolOK(sw.kv.pool) /\ st.freed <= sw.freed
    /\ n_free(sw.kv.pool) + st.freed = n_free(st.kv.pool) + sw.freed
    /\ \A b \in Blocks : sw.kv.pool.refcnt[b] <= st.kv.pool.refcnt[b]
    /\ Fine(sw.kv) => Fine(st.kv)
    /\ ~Fine(sw.kv) => TooMany(sw.freed)

LEMMA DrainedSelf ==
    ASSUME NEW st \in Evictions, PoolOK(st.kv.pool), ~Fine(st.kv) => TooMany(st.freed)
    PROVE  Drained(st, st)
BY EvictionFields DEF Drained

LEMMA DrainedTwice ==
    ASSUME NEW st \in Evictions, NEW sv, NEW sw, Drained(st, sv), Drained(sv, sw)
    PROVE  Drained(st, sw)
<1>1. sv \in Evictions /\ sw \in Evictions
  BY DEF Drained
<1>2. /\ st.freed \in Nat /\ sv.freed \in Nat /\ sw.freed \in Nat
      /\ n_free(st.kv.pool) \in Nat /\ n_free(sv.kv.pool) \in Nat /\ n_free(sw.kv.pool) \in Nat
      /\ \A b \in Blocks : /\ st.kv.pool.refcnt[b] \in Nat /\ sv.kv.pool.refcnt[b] \in Nat
                           /\ sw.kv.pool.refcnt[b] \in Nat
  BY <1>1, EvictionFields
<1>. QED
  BY <1>1, <1>2 DEF Drained

\* There is a reference to give back, or there was an error and none is.
Releasable(st, b) ==
    /\ Fine(st.kv) => st.kv.pool.refcnt[b] > 0
    /\ ~Fine(st.kv) => TooMany(st.freed)

OneLess(kv, kw, b) == kw.pool.refcnt = [kv.pool.refcnt EXCEPT ![b] = kv.pool.refcnt[b] - 1]

\* One block of a node: its reference goes back.
LEMMA EvictBlockOK ==
    ASSUME NEW st \in Evictions, PoolOK(st.kv.pool), NEW b \in Blocks, Releasable(st, b),
           NEW sw, sw = EvictBlock(st, b)
    PROVE  Drained(st, sw) /\ (Fine(sw.kv) => OneLess(st.kv, sw.kv, b))
<1>. DEFINE kv == st.kv
            k == ReleaseBlock(kv, b)
            freed == IF kv.ok /\ kv.pool.refcnt[b] = 1 THEN st.freed + 1 ELSE st.freed
            l == IF freed > MAX_BLOCKS_PER_SEQ THEN Fail(k) ELSE k
<1>0. /\ kv \in Spaces /\ st.freed \in Nat /\ kv.pool.refcnt \in [Blocks -> Nat]
      /\ n_free(kv.pool) \in Nat /\ PoolOK(kv.pool) /\ MAX_BLOCKS_PER_SEQ \in Nat
  BY EvictionFields, TheConstants
<1>1. freed \in Nat
  BY <1>0
<1>2. sw = With(st, l, freed)
  BY DEF EvictBlock, Counted, With
<1>3. /\ k \in Spaces /\ PoolOK(k.pool) /\ k.tree = kv.tree /\ k.rq = kv.rq
      /\ n_free(k.pool) + st.freed = n_free(kv.pool) + freed /\ st.freed <= freed
      /\ \A c \in Blocks : k.pool.refcnt[c] <= kv.pool.refcnt[c]
      /\ Fine(k) => Fine(kv) /\ k.pool.refcnt = [kv.pool.refcnt EXCEPT ![b] = kv.pool.refcnt[b] - 1]
      /\ ~Fine(k) => TooMany(freed)
  <2>1. CASE Fine(kv)
    <3>1. kv.pool.refcnt[b] > 0
      BY <2>1 DEF Releasable
    <3>. HIDE DEF kv
    <3>2. /\ k \in Spaces /\ PoolOnly(kv, k) /\ PoolOK(k.pool)
          /\ k.pool.refcnt = [kv.pool.refcnt EXCEPT ![b] = kv.pool.refcnt[b] - 1]
          /\ n_free(k.pool) = n_free(kv.pool) + IF kv.pool.refcnt[b] = 1 THEN 1 ELSE 0
      BY <1>0, <2>1, <3>1, ReleaseBlockOK
    <3>3. k.tree = kv.tree /\ k.rq = kv.rq /\ Fine(k)
      BY <2>1, <3>2, Zenon DEF PoolOnly, Fine
    <3>. HIDE DEF k
    <3>4. \A c \in Blocks : k.pool.refcnt[c] <= kv.pool.refcnt[c]
      BY <1>0, <3>2
    <3>5. n_free(k.pool) + st.freed = n_free(kv.pool) + freed /\ st.freed <= freed
      <4>1. CASE kv.pool.refcnt[b] = 1
        <5>1. kv.ok /\ kv.pool.refcnt[b] = 1
          BY <2>1, <4>1, Zenon DEF Fine
        <5>2. freed = st.freed + 1 /\ n_free(k.pool) = n_free(kv.pool) + 1
          BY <3>2, <4>1, <5>1
        <5>. HIDE DEF freed
        <5>. QED
          BY <1>0, <5>2
      <4>2. CASE kv.pool.refcnt[b] # 1
        <5>2. freed = st.freed /\ n_free(k.pool) = n_free(kv.pool) + 0
          BY <3>2, <4>2
        <5>. HIDE DEF freed
        <5>. QED
          BY <1>0, <5>2
      <4>. QED
        BY <4>1, <4>2
    <3>. HIDE DEF freed
    <3>. QED
      BY <2>1, <3>2, <3>3, <3>4, <3>5
  <2>2. CASE ~Fine(kv)
    <3>1. ~kv.ok
      BY <2>2, Zenon DEF Fine
    <3>2. k = kv /\ freed = st.freed
      BY <3>1 DEF ReleaseBlock
    <3>3. TooMany(st.freed)
      BY <2>2 DEF Releasable
    <3>. HIDE DEF k, freed, kv
    <3>. QED
      BY <1>0, <2>2, <3>2, <3>3
  <2>. QED
    BY <2>1, <2>2
<1>4. /\ Fail(k) \in Spaces /\ Fail(k).pool = k.pool /\ Fail(k).tree = k.tree
      /\ Fail(k).rq = k.rq /\ ~Fine(Fail(k))
  BY <1>3, WithFail DEF Fine
<1>. HIDE DEF k
<1>5. \/ l = Fail(k) /\ TooMany(freed)
      \/ l = k
  BY DEF TooMany
<1>. HIDE DEF freed, l
<1>6. /\ l \in Spaces /\ l.pool = k.pool /\ l.tree = k.tree /\ l.rq = k.rq
      /\ Fine(l) => Fine(k)
      /\ ~Fine(l) => TooMany(freed)
  BY <1>3, <1>4, <1>5
<1>7. sw \in Evictions /\ sw.kv = l /\ sw.freed = freed /\ sw.stack = st.stack
  <2>1. l \in Spaces
    BY <1>6
  <2>. QED
    BY <1>1, <1>2, <2>1, EvictionMade
<1>. QED
  BY <1>3, <1>6, <1>7 DEF Drained, OneLess

\* All blocks of a node.
LEMMA EvictBlocksOK ==
    ASSUME NEW st \in Evictions, Fine(st.kv), PoolOK(st.kv.pool), NEW blocks \in Seq(Blocks),
           AllOwned(st.kv, blocks), NEW sw, sw = EvictBlocks(st, blocks)
    PROVE  /\ Drained(st, sw)
           /\ Fine(sw.kv) => \A b \in Blocks : sw.kv.pool.refcnt[b]
                                                 = st.kv.pool.refcnt[b] - Times(blocks, b)
<1>. DEFINE n == Len(blocks)
            Held(x, i) ==
              /\ Drained(st, x)
              /\ Fine(x.kv) => \A b \in Blocks : x.kv.pool.refcnt[b]
                                                   = st.kv.pool.refcnt[b] - Among(blocks, i, b)
            V == [i \in 0 .. n |-> {x \in Evictions : Held(x, i)}]
            F == [i \in 1 .. n |-> [k \in V[i - 1] |-> EvictBlock(k, blocks[i])]]
            h == CHOOSE h : h = [i \in 0 .. n |->
                                   IF i = 0 THEN st ELSE EvictBlock(h[i - 1], blocks[i])]
<1>n. n \in Nat
  BY LenProperties
<1>1. \A i \in 1 .. n : blocks[i] \in Blocks
  BY ElementOfSeq
<1>c. st.kv.pool.refcnt \in [Blocks -> Nat]
  BY EvictionFields
<1>2. st \in V[0]
  <2>1. Held(st, 0)
    <3>1. \A b \in Blocks : Among(blocks, 0, b) = 0
      BY AmongNone
    <3>2. Drained(st, st)
      BY DrainedSelf
    <3>. QED
      BY <1>c, <3>1, <3>2
  <2>. HIDE DEF Held
  <2>. QED
    BY <1>n, <2>1
<1>3. ASSUME NEW i \in 1 .. n, NEW k \in V[i - 1]
      PROVE  EvictBlock(k, blocks[i]) \in V[i]
  <2>. DEFINE l == EvictBlock(k, blocks[i])
              j == i - 1
              c == blocks[i]
  <2>1. j \in 0 .. n /\ j \in Nat /\ i = j + 1 /\ i \in 0 .. n /\ c \in Blocks
    BY <1>n, <1>1
  <2>2. Held(k, j) /\ k \in Evictions
    BY <2>1
  <2>. HIDE DEF j, c, V
  <2>3. \A b \in Blocks :
          /\ Fine(k.kv) => k.kv.pool.refcnt[b] = st.kv.pool.refcnt[b] - Among(blocks, j, b)
          /\ Among(blocks, j, b) \in Nat /\ st.kv.pool.refcnt[b] \in Nat
          /\ Among(blocks, i, b) = Among(blocks, j, b) + IF c = b THEN 1 ELSE 0
    <3>1. TAKE b \in Blocks
    <3>2. Fine(k.kv) => k.kv.pool.refcnt[b] = st.kv.pool.refcnt[b] - Among(blocks, j, b)
      BY <2>2
    <3>3. Among(blocks, j, b) \in Nat
      BY <2>1, AmongNat
    <3>4. Among(blocks, i, b) = Among(blocks, j, b) + IF blocks[i] = b THEN 1 ELSE 0
      BY <2>1, AmongNext
    <3>. QED
      BY <1>c, <3>2, <3>3, <3>4 DEF c
  <2>4. ASSUME Fine(k.kv) PROVE k.kv.pool.refcnt[c] > 0
    <3>1. /\ Among(blocks, i, c) <= Among(blocks, n, c)
          /\ st.kv.pool.refcnt[c] >= Among(blocks, n, c)
          /\ Among(blocks, n, c) \in Nat
      BY <1>n, <2>1, AmongUpTo, AmongNat DEF Times, AllOwned
    <3>2. Among(blocks, i, c) = Among(blocks, j, c) + 1
      BY <2>1, <2>3
    <3>3. k.kv.pool.refcnt[c] = st.kv.pool.refcnt[c] - Among(blocks, j, c)
          /\ Among(blocks, j, c) \in Nat /\ st.kv.pool.refcnt[c] \in Nat
      BY <2>1, <2>3, <2>4
    <3>. QED
      BY <3>1, <3>2, <3>3, SMTT(60)
  <2>5. Drained(k, l) /\ (Fine(l.kv) => OneLess(k.kv, l.kv, c))
    <3>1. PoolOK(k.kv.pool) /\ Releasable(k, c)
      BY <2>2, <2>4 DEF Drained, Releasable
    <3>. QED
      BY <2>1, <2>2, <3>1, EvictBlockOK DEF c
  <2>6. k.kv.pool.refcnt \in [Blocks -> Nat]
    BY <2>2, EvictionFields
  <2>. HIDE DEF l
  <2>7. ASSUME Fine(l.kv), NEW b \in Blocks
        PROVE  l.kv.pool.refcnt[b] = st.kv.pool.refcnt[b] - Among(blocks, i, b)
    <3>f. Fine(k.kv)
      BY <2>5, <2>7 DEF Drained
    <3>0. /\ k.kv.pool.refcnt[b] = st.kv.pool.refcnt[b] - Among(blocks, j, b)
          /\ Among(blocks, j, b) \in Nat /\ st.kv.pool.refcnt[b] \in Nat
          /\ Among(blocks, i, b) = Among(blocks, j, b) + IF c = b THEN 1 ELSE 0
      BY <2>3, <3>f
    <3>1. CASE c = b
      <4>1. l.kv.pool.refcnt[b] = k.kv.pool.refcnt[b] - 1
        BY <2>1, <2>5, <2>6, <2>7, <3>1 DEF OneLess
      <4>2. Among(blocks, i, b) = Among(blocks, j, b) + 1
        BY <3>0, <3>1
      <4>. DEFINE m == st.kv.pool.refcnt[b]
                  a == Among(blocks, j, b)
                  v == k.kv.pool.refcnt[b]
      <4>3. m \in Nat /\ a \in Nat /\ v = m - a
        BY <3>0
      <4>. HIDE DEF m, a, v
      <4>4. v - 1 = m - (a + 1)
        BY <4>3
      <4>. QED
        BY <4>1, <4>2, <4>4 DEF m, a, v
    <3>2. CASE c # b
      <4>1. l.kv.pool.refcnt[b] = k.kv.pool.refcnt[b]
        BY <2>1, <2>5, <2>6, <2>7, <3>2 DEF OneLess
      <4>. QED
        BY <3>0, <3>2, <4>1
    <3>. QED
      BY <3>1, <3>2
  <2>8. Held(l, i)
    <3>1. Drained(st, l)
      BY <2>2, <2>5, DrainedTwice
    <3>. QED
      BY <2>7, <3>1
  <2>. HIDE DEF Held
  <2>9. l \in V[i]
    <3>1. l \in Evictions
      BY <2>5 DEF Drained
    <3>. QED
      BY <2>1, <2>8, <3>1 DEF V
  <2>. QED
    BY <2>9 DEF l
<1>. HIDE DEF V
<1>4. \A i \in 1 .. n : \A k \in V[i - 1] : F[i][k] = EvictBlock(k, blocks[i])
  OBVIOUS
<1>. HIDE DEF F
<1>5. PICK g : LoopIs(n, V, F, st, g)
  <2>1. \A i \in 1 .. n : \A k \in V[i - 1] : F[i][k] \in V[i]
    BY <1>3, <1>4
  <2>. HIDE DEF n, h
  <2>2. IsLoop(n, V, F, st)
    BY <1>n, <1>2, <2>1 DEF IsLoop
  <2>. QED
    BY <2>2, LoopRuns
<1>6. g = [i \in 0 .. n |-> IF i = 0 THEN st ELSE EvictBlock(g[i - 1], blocks[i])]
  <2>. HIDE DEF n, h
  <2>0. /\ g = [i \in 0 .. n |-> g[i]]
        /\ g[0] = st
        /\ \A i \in 1 .. n : g[i] = F[i][g[i - 1]]
        /\ \A i \in 0 .. n : g[i] \in V[i]
    BY <1>5 DEF LoopIs
  <2>1. \A i \in 1 .. n : g[i - 1] \in V[i - 1]
    BY <1>n, <2>0
  <2>2. \A i \in 1 .. n : g[i] = EvictBlock(g[i - 1], blocks[i])
    BY <1>4, <2>0, <2>1
  <2>3. ASSUME NEW i \in 0 .. n PROVE g[i] = IF i = 0 THEN st ELSE EvictBlock(g[i - 1], blocks[i])
    <3>1. CASE i = 0
      BY <2>0, <3>1
    <3>2. CASE i # 0
      <4>1. i \in 1 .. n
        BY <1>n, <3>2
      <4>. QED
        BY <2>2, <3>2, <4>1
    <3>. QED
      BY <3>1, <3>2
  <2>. QED
    BY <2>0, <2>3
<1>7. h = [i \in 0 .. n |-> IF i = 0 THEN st ELSE EvictBlock(h[i - 1], blocks[i])]
  <2>1. \E e : e = [i \in 0 .. n |-> IF i = 0 THEN st ELSE EvictBlock(e[i - 1], blocks[i])]
    BY <1>6
  <2>. QED
    BY <2>1
<1>8. sw = h[n]
  BY DEF EvictBlocks
<1>. HIDE DEF h
<1>9. \A i \in 0 .. n : h[i] \in V[i]
  <2>1. h[0] = st /\ \A i \in 1 .. n : h[i] = EvictBlock(h[i - 1], blocks[i])
    BY <1>n, <1>7
  <2>2. \A i \in 1 .. n : h[i - 1] \in V[i - 1] => h[i] \in V[i]
    BY <1>3, <2>1
  <2>. HIDE DEF n
  <2>. QED
    BY <1>n, <1>2, <2>1, <2>2, LoopTurn
<1>10. h[n] \in V[n]
  BY <1>n, <1>9
<1>11. Held(h[n], n)
  <2>. HIDE DEF Held
  <2>. QED
    BY <1>n, <1>10 DEF V
<1>. QED
  BY <1>8, <1>11 DEF Times

\* A node's blocks have as many references as it has entries for them.
LEMMA NodeOwned ==
    ASSUME NEW kv \in Spaces, Accounted(kv), NEW x \in AliveNodes(kv.tree)
    PROVE  /\ kv.tree[x].blocks \in Seq(Blocks) /\ AllOwned(kv, kv.tree[x].blocks)
           /\ NodeView(kv.tree, x) = kv.tree[x].blocks
<1>1. x \in Nodes /\ NodeView(kv.tree, x) = kv.tree[x].blocks
  BY DEF AliveNodes, NodeView
<1>2. SameTables(kv, kv)
  BY DEF SameTables
<1>3. \A b : RefsMoved(kv, kv, NodeView(kv.tree, x), NodeView(kv.tree, x), b)
  BY <1>1, <1>2, RefsNodeMoved
<1>4. \A b : Times(kv.tree[x].blocks, b) <= Refs(kv, b)
  BY <1>1, <1>3 DEF RefsMoved
<1>5. AllOwned(kv, kv.tree[x].blocks)
  BY <1>4 DEF AllOwned, Accounted
<1>6. kv.tree[x].blocks \in Seq(Blocks)
  BY <1>1, SpaceFields, NodeFields
<1>. QED
  BY <1>1, <1>5, <1>6

\* An eviction that started from kv: the requests are as they were, every block
\* that came back is counted, and unless the count ran past the end of the list
\* the references are right and the nodes on the stack, each there once, are
\* the ones that hang nowhere.
Evicting(kv, st) ==
    /\ st \in Evictions /\ st.kv.rq = kv.rq /\ PoolOK(st.kv.pool)
    /\ n_free(st.kv.pool) = n_free(kv.pool) + st.freed
    /\ \A b \in Blocks : st.kv.pool.refcnt[b] <= kv.pool.refcnt[b]
    /\ Fine(st.kv) => /\ Accounted(st.kv) /\ Formed(st.kv.tree, ToSet(st.stack))
                      /\ IsInjective(st.stack)
    /\ ~Fine(st.kv) => TooMany(st.freed)

\* The eviction's next turn: without nodes left it does nothing, otherwise
\* there is a node less in the tree.
Turn(st, sw) ==
    /\ st.stack = <<>> => sw = st
    /\ Fine(sw.kv) => Fine(st.kv)
    /\ st.stack # <<>> /\ Fine(sw.kv)
         => \E x \in AliveNodes(st.kv.tree) : AliveNodes(sw.kv.tree) = AliveNodes(st.kv.tree) \ {x}
    /\ Pruned(st.kv.tree, sw.kv.tree)

WithStack(st, stack) == [st EXCEPT !.stack = stack]
WithSpace(st, kv)    == [st EXCEPT !.kv = kv]

LEMMA StackPut ==
    ASSUME NEW st \in Evictions, NEW stack \in Seq(Nodes)
    PROVE  /\ WithStack(st, stack) \in Evictions /\ WithStack(st, stack).kv = st.kv
           /\ WithStack(st, stack).freed = st.freed /\ WithStack(st, stack).stack = stack
BY DEF Evictions, WithStack

LEMMA SpacePut ==
    ASSUME NEW st \in Evictions, NEW kv \in Spaces
    PROVE  /\ WithSpace(st, kv) \in Evictions /\ WithSpace(st, kv).kv = kv
           /\ WithSpace(st, kv).freed = st.freed /\ WithSpace(st, kv).stack = st.stack
BY DEF Evictions, WithSpace

\* The node is killed when its blocks have gone back: its references go with
\* it, and its children are on the stack.
LEMMA KilledOK ==
    ASSUME NEW kv \in Spaces, NEW kw \in Spaces, Fine(kw), Accounted(kv), PoolOK(kw.pool),
           kw.tree = kv.tree, kw.rq = kv.rq, NEW S, Formed(kv.tree, S), NEW x \in S,
           \A b \in Blocks : kw.pool.refcnt[b]
                               = kv.pool.refcnt[b] - Times(kv.tree[x].blocks, b),
           NEW u, u = kill(kw.tree, x), NEW kx, kx = [kw EXCEPT !.tree = u]
    PROVE  /\ kx \in Spaces /\ kx.pool = kw.pool /\ kx.rq = kv.rq /\ Fine(kx) /\ Accounted(kx)
           /\ kx.tree = u
<1>1. kw.tree \in [Nodes -> TreeNodes] /\ kv.tree \in [Nodes -> TreeNodes]
  BY SpaceFields
<1>2. /\ u \in [Nodes -> TreeNodes] /\ x \in AliveNodes(kv.tree)
      /\ \A y \in Nodes \ {x} : NodeView(u, y) = NodeView(kv.tree, y)
      /\ NodeView(u, x) = <<>> /\ NodeView(kv.tree, x) = kv.tree[x].blocks
  <2>. DEFINE t == kv.tree
  <2>1. t \in [Nodes -> TreeNodes] /\ Formed(t, S) /\ u = kill(t, x)
    BY <1>1
  <2>. HIDE DEF t
  <2>2. /\ u \in [Nodes -> TreeNodes] /\ x \in AliveNodes(t)
        /\ \A y \in Nodes \ {x} : NodeView(u, y) = NodeView(t, y)
        /\ NodeView(u, x) = <<>> /\ NodeView(t, x) = t[x].blocks
    <3>1. KillIs(t, u, S, x)
      BY <2>1, KillFormed
    <3>. QED
      BY <3>1, Zenon DEF KillIs
  <2>. QED
    BY <2>2 DEF t
<1>3. /\ kx \in Spaces /\ kx.pool = kw.pool /\ kx.tree = u /\ kx.rq = kw.rq /\ kx.ok = kw.ok
  BY <1>2, WithTree
<1>4. Fine(kx)
  BY <1>3, Zenon DEF Fine
<1>5. x \in Nodes
  BY <1>2 DEF AliveNodes
<1>6. SameTables(kv, kx)
  BY <1>3 DEF SameTables
<1>7. \A b : RefsMoved(kv, kx, NodeView(kv.tree, x), NodeView(kx.tree, x), b)
  BY <1>2, <1>3, <1>5, <1>6, RefsNodeMoved
<1>8. ASSUME NEW b \in Blocks PROVE kx.pool.refcnt[b] = Refs(kx, b)
  <2>1. RefsMoved(kv, kx, kv.tree[x].blocks, <<>>, b)
    BY <1>2, <1>3, <1>7
  <2>2. Times(<<>>, b) = 0
    BY TimesEmpty
  <2>3. kw.pool.refcnt[b] = kv.pool.refcnt[b] - Times(kv.tree[x].blocks, b)
    OBVIOUS
  <2>4. kv.pool.refcnt[b] = Refs(kv, b)
    BY DEF Accounted
  <2>. DEFINE m == Refs(kv, b)
              a == Times(kv.tree[x].blocks, b)
              none == <<>>
              z == Times(none, b)
  <2>5. m \in Nat /\ a \in Nat /\ z = 0 /\ Refs(kx, b) = (m - a) + z
    BY <2>1, <2>2 DEF RefsMoved
  <2>6. kx.pool.refcnt[b] = m - a
    BY <1>3, <2>3, <2>4
  <2>. HIDE DEF m, a, z
  <2>. QED
    BY <2>5, <2>6
<1>. QED
  BY <1>3, <1>4, <1>8 DEF Accounted

\* One turn of an eviction.
LEMMA EvictNodeOK ==
    ASSUME NEW kv \in Spaces, NEW st, Evicting(kv, st), NEW sw, sw = EvictNode(st)
    PROVE  Evicting(kv, sw) /\ Turn(st, sw)
<1>0. /\ st \in Evictions /\ st.kv.rq = kv.rq /\ PoolOK(st.kv.pool)
      /\ n_free(st.kv.pool) = n_free(kv.pool) + st.freed
      /\ \A b \in Blocks : st.kv.pool.refcnt[b] <= kv.pool.refcnt[b]
  BY DEF Evicting
<1>1. CASE ~Fine(st.kv) \/ st.stack = <<>>
  <2>1. ~st.kv.ok \/ st.stack = <<>>
    BY <1>1, Zenon DEF Fine
  <2>2. sw = st
    BY <2>1 DEF EvictNode
  <2>. QED
    BY <1>1, <2>2, PrunedSelf DEF Turn
<1>2. CASE Fine(st.kv) /\ st.stack # <<>>
  <2>. DEFINE t == st.kv.tree
              p == st.stack
              x == Last(p)
              kids == t[x].kids
              blocks == t[x].blocks
              S == ToSet(p)
              sv == WithStack(st, Pushed(p, kids))
              sx == EvictBlocks(sv, blocks)
              u == kill(t, x)
  <2>1. st.kv.ok /\ p # <<>>
    BY <1>2, Zenon DEF Fine
  <2>2. sw = Killed(sx, x)
    BY <2>1 DEF EvictNode, WithStack, Pushed
  <2>3. /\ st.kv \in Spaces /\ st.freed \in Nat /\ p \in Seq(Nodes)
        /\ st.kv.pool.refcnt \in [Blocks -> Nat] /\ n_free(st.kv.pool) \in Nat
        /\ t \in [Nodes -> TreeNodes]
    BY <1>0, EvictionFields, SpaceFields
  <2>4. Accounted(st.kv) /\ Formed(t, S) /\ IsInjective(p)
    BY <1>2 DEF Evicting
  <2>5. x \in S
    <3>1. Len(p) \in 1 .. Len(p) /\ x = p[Len(p)] /\ DOMAIN p = 1 .. Len(p)
      BY <1>2, <2>3, LastOf, LenProperties
    <3>. QED
      BY <3>1 DEF ToSet
  <2>6. KillIs(t, u, S, x)
    <3>. HIDE DEF t, S, x
    <3>. QED
      BY <2>3, <2>4, <2>5, KillFormed DEF t
  <2>7. /\ u \in [Nodes -> TreeNodes] /\ Formed(u, (S \ {x}) \cup ToSet(kids))
        /\ AliveNodes(u) = AliveNodes(t) \ {x} /\ x \in AliveNodes(t)
        /\ kids \in Seq(Nodes) /\ IsInjective(kids) /\ S \cap ToSet(kids) = {}
        /\ Pruned(t, u)
    <3>. HIDE DEF u, S, t, x
    <3>. QED
      BY <2>6, Zenon DEF KillIs
  <2>8. /\ Pushed(p, kids) \in Seq(Nodes) /\ IsInjective(Pushed(p, kids))
        /\ ToSet(Pushed(p, kids)) = (S \ {x}) \cup ToSet(kids)
    <3>. HIDE DEF kids, t
    <3>. QED
      BY <1>2, <2>3, <2>4, <2>7, PushedIs
  <2>9. blocks \in Seq(Blocks) /\ AllOwned(st.kv, blocks)
    <3>. HIDE DEF x
    <3>. QED
      BY <2>3, <2>4, <2>7, NodeOwned
  <2>. HIDE DEF u, S, blocks, kids
  <2>10. /\ sv \in Evictions /\ sv.kv = st.kv /\ sv.freed = st.freed
         /\ sv.stack = Pushed(p, kids)
    BY <1>0, <2>8, StackPut
  <2>. HIDE DEF sv, p
  <2>11. /\ Drained(sv, sx)
         /\ Fine(sx.kv) => \A b \in Blocks : sx.kv.pool.refcnt[b]
                                               = sv.kv.pool.refcnt[b] - Times(blocks, b)
    <3>1. Fine(sv.kv) /\ PoolOK(sv.kv.pool) /\ AllOwned(sv.kv, blocks)
      BY <1>0, <1>2, <2>9, <2>10
    <3>. QED
      BY <2>9, <2>10, <3>1, EvictBlocksOK
  <2>. HIDE DEF sx
  <2>12. /\ sx \in Evictions /\ sx.stack = Pushed(p, kids) /\ sx.kv.tree = t
         /\ sx.kv.rq = kv.rq /\ PoolOK(sx.kv.pool)
         /\ n_free(sx.kv.pool) + st.freed = n_free(st.kv.pool) + sx.freed
         /\ \A b \in Blocks : sx.kv.pool.refcnt[b] <= st.kv.pool.refcnt[b]
         /\ ~Fine(sx.kv) => TooMany(sx.freed)
    BY <1>0, <2>10, <2>11 DEF Drained
  <2>13. /\ sx.kv \in Spaces /\ sx.freed \in Nat /\ n_free(sx.kv.pool) \in Nat
         /\ sx.kv.pool.refcnt \in [Blocks -> Nat]
    BY <2>12, EvictionFields
  <2>14. n_free(sx.kv.pool) = n_free(kv.pool) + sx.freed
    <3>1. n_free(kv.pool) \in Nat
      BY SpaceFields, PoolFields
    <3>. DEFINE a == n_free(kv.pool)
                c == n_free(st.kv.pool)
                d == n_free(sx.kv.pool)
                e == st.freed
                f == sx.freed
    <3>2. a \in Nat /\ c \in Nat /\ d \in Nat /\ e \in Nat /\ f \in Nat
          /\ c = a + e /\ d + e = c + f
      BY <1>0, <2>3, <2>12, <2>13, <3>1
    <3>. HIDE DEF a, c, d, e, f
    <3>3. d = a + f
      BY <3>2
    <3>. QED
      BY <3>3 DEF a, d, f
  <2>15. \A b \in Blocks : sx.kv.pool.refcnt[b] <= kv.pool.refcnt[b]
    <3>1. kv.pool.refcnt \in [Blocks -> Nat]
      BY SpaceFields, PoolFields
    <3>2. TAKE b \in Blocks
    <3>. DEFINE a == sx.kv.pool.refcnt[b]
                c == st.kv.pool.refcnt[b]
                d == kv.pool.refcnt[b]
    <3>3. a \in Nat /\ c \in Nat /\ d \in Nat /\ a <= c /\ c <= d
      BY <1>0, <2>3, <2>12, <2>13, <3>1
    <3>. HIDE DEF a, c, d
    <3>4. a <= d
      BY <3>3
    <3>. QED
      BY <3>4 DEF a, d
  <2>16. CASE ~Fine(sx.kv)
    <3>1. ~sx.kv.ok
      BY <2>16, Zenon DEF Fine
    <3>2. sw = sx
      BY <2>2, <3>1 DEF Killed
    <3>3. Evicting(kv, sw)
      BY <2>12, <2>14, <2>15, <2>16, <3>2 DEF Evicting
    <3>4. Pruned(st.kv.tree, sw.kv.tree)
      BY <2>12, <3>2, PrunedSelf
    <3>. QED
      BY <1>2, <2>16, <3>2, <3>3, <3>4 DEF Turn, p
  <2>17. CASE Fine(sx.kv)
    <3>. DEFINE kx == [sx.kv EXCEPT !.tree = u]
    <3>1. sx.kv.ok
      BY <2>17, Zenon DEF Fine
    <3>2. sw = WithSpace(sx, kx)
      <4>1. sw = [sx EXCEPT !.kv.tree = kill(@, x)]
        BY <2>2, <3>1 DEF Killed
      <4>2. u = kill(sx.kv.tree, x)
        BY <2>12 DEF u
      <4>. QED
        BY <4>1, <4>2 DEF WithSpace
    <3>3. /\ kx \in Spaces /\ kx.pool = sx.kv.pool /\ kx.rq = st.kv.rq /\ Fine(kx)
          /\ Accounted(kx) /\ kx.tree = u
      <4>1. \A b \in Blocks : sx.kv.pool.refcnt[b]
                                = st.kv.pool.refcnt[b] - Times(st.kv.tree[x].blocks, b)
        BY <2>10, <2>11, <2>17 DEF blocks
      <4>. DEFINE k == st.kv
                  l == sx.kv
      <4>2. /\ k \in Spaces /\ l \in Spaces /\ Fine(l) /\ Accounted(k) /\ PoolOK(l.pool)
            /\ l.tree = k.tree /\ l.rq = k.rq /\ Formed(k.tree, S) /\ x \in S
            /\ u = kill(l.tree, x)
            /\ \A b \in Blocks : l.pool.refcnt[b] = k.pool.refcnt[b] - Times(k.tree[x].blocks, b)
        BY <1>0, <2>3, <2>4, <2>5, <2>12, <2>13, <2>17, <4>1 DEF u
      <4>3. kx = [l EXCEPT !.tree = u]
        OBVIOUS
      <4>. HIDE DEF k, l, x, kx
      <4>4. \A z : z = [l EXCEPT !.tree = u]
              => /\ z \in Spaces /\ z.pool = l.pool /\ z.rq = k.rq /\ Fine(z)
                 /\ Accounted(z) /\ z.tree = u
        BY <4>2, KilledOK
      <4>5. /\ kx \in Spaces /\ kx.pool = l.pool /\ kx.rq = k.rq /\ Fine(kx)
            /\ Accounted(kx) /\ kx.tree = u
        BY <4>3, <4>4
      <4>. QED
        BY <4>5 DEF k, l
    <3>. HIDE DEF kx
    <3>4. /\ sw \in Evictions /\ sw.kv = kx /\ sw.freed = sx.freed
          /\ sw.stack = Pushed(p, kids)
      BY <2>12, <3>2, <3>3, SpacePut
    <3>5. Formed(kx.tree, ToSet(sw.stack)) /\ IsInjective(sw.stack)
      BY <2>7, <2>8, <3>3, <3>4 DEF p
    <3>6. Evicting(kv, sw)
      BY <1>0, <2>12, <2>14, <2>15, <3>3, <3>4, <3>5 DEF Evicting
    <3>7. AliveNodes(sw.kv.tree) = AliveNodes(st.kv.tree) \ {x} /\ x \in AliveNodes(st.kv.tree)
      BY <2>7, <3>3, <3>4
    <3>8. st.stack # <<>>
      BY <1>2
    <3>9. Pruned(st.kv.tree, sw.kv.tree)
      BY <2>7, <3>3, <3>4
    <3>. HIDE DEF x
    <3>. QED
      BY <1>2, <3>6, <3>7, <3>8, <3>9 DEF Turn
  <2>. QED
    BY <2>16, <2>17
<1>. QED
  BY <1>1, <1>2

\* Where an eviction starts: the node hangs nowhere and is the first to go.
LEMMA EvictStart ==
    ASSUME NEW kv, Sound(kv), Fine(kv), NEW x \in AliveNodes(kv.tree), NEW u, u = detach(kv.tree, x),
           NEW kx, kx = [kv EXCEPT !.tree = u],
           NEW st, st = [kv |-> kx, freed |-> 0, stack |-> <<x>>]
    PROVE  /\ Evicting(kv, st) /\ AliveNodes(st.kv.tree) = AliveNodes(kv.tree)
           /\ Pruned(kv.tree, st.kv.tree)
<1>1. /\ kv \in Spaces /\ PoolOK(kv.pool) /\ Accounted(kv) /\ Formed(kv.tree, {})
      /\ kv.tree \in [Nodes -> TreeNodes] /\ kv.pool.refcnt \in [Blocks -> Nat]
      /\ n_free(kv.pool) \in Nat
  BY SpaceFields, PoolFields DEF Sound
<1>2. /\ u \in [Nodes -> TreeNodes] /\ Formed(u, {x}) /\ AliveNodes(u) = AliveNodes(kv.tree)
      /\ \A y \in Nodes : NodeView(u, y) = NodeView(kv.tree, y)
      /\ Pruned(kv.tree, u)
  <2>. DEFINE t == kv.tree
  <2>1. t \in [Nodes -> TreeNodes] /\ Formed(t, {}) /\ x \in AliveNodes(t) /\ u = detach(t, x)
    BY <1>1
  <2>. HIDE DEF t
  <2>2. /\ u \in [Nodes -> TreeNodes] /\ Formed(u, {x}) /\ AliveNodes(u) = AliveNodes(t)
        /\ \A y \in Nodes : NodeView(u, y) = NodeView(t, y)
        /\ Pruned(t, u)
    BY <2>1, DetachFormed
  <2>. QED
    BY <2>2 DEF t
<1>3. /\ kx \in Spaces /\ kx.pool = kv.pool /\ kx.tree = u /\ kx.rq = kv.rq /\ kx.ok = kv.ok
  BY <1>1, <1>2, WithTree
<1>4. Fine(kx)
  BY <1>3, Zenon DEF Fine
<1>5. SameNodes(kv, kx) /\ SameTables(kv, kx)
  BY <1>2, <1>3 DEF SameNodes, SameTables
<1>6. Accounted(kx)
  <2>1. \A b : Refs(kx, b) = Refs(kv, b)
    BY <1>1, <1>3, <1>5, RefsSame
  <2>. QED
    BY <1>1, <1>3, <2>1 DEF Accounted
<1>7. x \in Nodes
  BY DEF AliveNodes
<1>8. st.kv = kx /\ st.freed = 0 /\ st.stack = <<x>>
  OBVIOUS
<1>9. st \in Evictions
  BY <1>3, <1>7 DEF Evictions
<1>10. ToSet(st.stack) = {x} /\ IsInjective(st.stack)
  BY <1>8 DEF ToSet, IsInjective
<1>11. st.kv.pool = kv.pool
  BY <1>3, <1>8
<1>13. n_free(st.kv.pool) = n_free(kv.pool) + st.freed
  <2>. DEFINE a == n_free(kv.pool)
  <2>1. n_free(st.kv.pool) = a /\ a \in Nat /\ st.freed = 0
    BY <1>1, <1>8, <1>11
  <2>. HIDE DEF a
  <2>2. n_free(st.kv.pool) = a + st.freed
    BY <2>1
  <2>. QED
    BY <2>2 DEF a
<1>12. \A b \in Blocks : st.kv.pool.refcnt[b] <= kv.pool.refcnt[b]
  <2>1. \A b \in Blocks : kv.pool.refcnt[b] <= kv.pool.refcnt[b]
    BY <1>1
  <2>. QED
    BY <1>11, <2>1
<1>. QED
  BY <1>1, <1>2, <1>3, <1>4, <1>6, <1>8, <1>9, <1>10, <1>12, <1>13 DEF Evicting

LEMMA AliveCounted ==
    ASSUME NEW t
    PROVE  /\ IsFiniteSet(AliveNodes(t)) /\ Cardinality(AliveNodes(t)) \in Nat
           /\ Cardinality(AliveNodes(t)) <= MAX_NODES - 1
<1>1. MAX_NODES \in Nat /\ MAX_NODES >= 1
  BY TheConstants
<1>2. AliveNodes(t) \subseteq 1 .. MAX_NODES - 1
  BY <1>1 DEF AliveNodes, Nodes, ROOT
<1>3. IsFiniteSet(1 .. MAX_NODES - 1) /\ Cardinality(1 .. MAX_NODES - 1) = MAX_NODES - 1
  BY <1>1, FS_Interval
<1>4. /\ IsFiniteSet(AliveNodes(t))
      /\ Cardinality(AliveNodes(t)) <= Cardinality(1 .. MAX_NODES - 1)
  BY <1>2, <1>3, FS_Subset
<1>. QED
  BY <1>3, <1>4, FS_CardinalityType

\* Space kw is kv after evictions: the requests are as they were, no block has
\* gained a reference, none that was free is held.  Unless more blocks came
\* back than a list of ids takes, the references are right and the tree is one.
Thinned(kv, kw) ==
    /\ Pruned(kv.tree, kw.tree)
    /\ kw \in Spaces /\ kw.rq = kv.rq /\ PoolOK(kw.pool)
    /\ n_free(kv.pool) <= n_free(kw.pool)
    /\ \A b \in Blocks : kw.pool.refcnt[b] <= kv.pool.refcnt[b]
    /\ Fine(kw) => Sound(kw)
    /\ ~Fine(kw) => TooMany(n_free(kw.pool) - n_free(kv.pool))

\* With nodes on the stack there are nodes in the tree for all turns left.
Left(st, i) ==
    Fine(st.kv) /\ st.stack # <<>> => Cardinality(AliveNodes(st.kv.tree)) + i <= MAX_NODES - 1

\* Each turn takes a node, so the turns left suffice for the nodes left.
LEMMA LeftTurn ==
    ASSUME NEW st, NEW sw, Turn(st, sw), NEW i \in Nat, NEW j \in Nat, j = i + 1, Left(st, i)
    PROVE  Left(sw, j)
<1>1. SUFFICES ASSUME Fine(sw.kv), sw.stack # <<>>
               PROVE  Cardinality(AliveNodes(sw.kv.tree)) + j <= MAX_NODES - 1
  BY DEF Left
<1>2. st.stack # <<>> /\ Fine(st.kv)
  BY <1>1 DEF Turn
<1>3. PICK x \in AliveNodes(st.kv.tree) : AliveNodes(sw.kv.tree) = AliveNodes(st.kv.tree) \ {x}
  BY <1>1, <1>2 DEF Turn
<1>. DEFINE S == AliveNodes(st.kv.tree)
            c == Cardinality(S)
            d == Cardinality(S \ {x})
            m == MAX_NODES
<1>4. c + i <= m - 1
  BY <1>2 DEF Left
<1>5. IsFiniteSet(S) /\ c \in Nat /\ m \in Nat
  BY AliveCounted, TheConstants
<1>6. d = c - 1
  <2>. HIDE DEF S
  <2>. QED
    BY <1>3, <1>5, FS_RemoveElement DEF S
<1>7. Cardinality(AliveNodes(sw.kv.tree)) = d
  BY <1>3
<1>. HIDE DEF c, d, m, S
<1>8. d + j <= m - 1
  BY <1>4, <1>5, <1>6
<1>. QED
  BY <1>7, <1>8 DEF m

\* The tree has no more nodes than t, and fewer once the stack is empty.
Shrunk(t, st) ==
    /\ Pruned(t, st.kv.tree)
    /\ Fine(st.kv) => /\ Cardinality(AliveNodes(st.kv.tree)) <= Cardinality(AliveNodes(t))
                      /\ st.stack = <<>>
                           => Cardinality(AliveNodes(st.kv.tree)) < Cardinality(AliveNodes(t))

LEMMA ShrunkTurn ==
    ASSUME NEW t, NEW st, NEW sw, Turn(st, sw), Shrunk(t, st)
    PROVE  Shrunk(t, sw)
<1>0. Pruned(t, sw.kv.tree)
  BY PrunedTwice DEF Turn, Shrunk
<1>1. CASE st.stack = <<>>
  BY <1>1 DEF Turn
<1>2. CASE st.stack # <<>> /\ Fine(sw.kv)
  <2>1. PICK x \in AliveNodes(st.kv.tree) : AliveNodes(sw.kv.tree) = AliveNodes(st.kv.tree) \ {x}
    BY <1>2 DEF Turn
  <2>. DEFINE S == AliveNodes(st.kv.tree)
              c == Cardinality(S)
              d == Cardinality(S \ {x})
              m == Cardinality(AliveNodes(t))
  <2>2. IsFiniteSet(S) /\ c \in Nat /\ m \in Nat
    BY AliveCounted
  <2>3. c <= m
    BY <1>2 DEF Shrunk, Turn
  <2>4. d = c - 1
    <3>. HIDE DEF S
    <3>. QED
      BY <2>1, <2>2, FS_RemoveElement DEF S
  <2>5. Cardinality(AliveNodes(sw.kv.tree)) = d
    BY <2>1
  <2>. HIDE DEF c, d, m, S
  <2>6. d <= m /\ d < m
    BY <2>2, <2>3, <2>4
  <2>. QED
    BY <1>0, <2>5, <2>6 DEF Shrunk, m
<1>3. CASE ~Fine(sw.kv)
  BY <1>0, <1>3 DEF Shrunk
<1>. QED
  BY <1>1, <1>2, <1>3

Fewer(t, u) == Cardinality(AliveNodes(u)) < Cardinality(AliveNodes(t))

\* evict takes the node and everything below it out of the tree.
THEOREM EvictOK ==
    ASSUME NEW kv, Sound(kv), Fine(kv), NEW x \in AliveNodes(kv.tree),
           NEW kw, kw = evict(kv, x)
    PROVE  Thinned(kv, kw) /\ (Fine(kw) => Fewer(kv.tree, kw.tree))
<1>. DEFINE n == MAX_NODES
            base == [kv |-> [kv EXCEPT !.tree = detach(@, x)], freed |-> 0, stack |-> <<x>>]
            Held(st, i) == Evicting(kv, st) /\ Left(st, i) /\ Shrunk(kv.tree, st)
            V == [i \in 0 .. n |-> {st \in Evictions : Held(st, i)}]
            F == [i \in 1 .. n |-> [st \in V[i - 1] |-> EvictNode(st)]]
            h == CHOOSE h : h = [i \in 0 .. n |-> IF i = 0 THEN base ELSE EvictNode(h[i - 1])]
<1>n. n \in Nat /\ n >= 1
  BY TheConstants
<1>0. kv \in Spaces
  BY DEF Sound
<1>2. base \in V[0]
  <2>1. /\ Evicting(kv, base) /\ AliveNodes(base.kv.tree) = AliveNodes(kv.tree)
        /\ Pruned(kv.tree, base.kv.tree)
    <3>1. \A u, kx, st : /\ u = detach(kv.tree, x) /\ kx = [kv EXCEPT !.tree = u]
                         /\ st = [kv |-> kx, freed |-> 0, stack |-> <<x>>]
             => /\ Evicting(kv, st) /\ AliveNodes(st.kv.tree) = AliveNodes(kv.tree)
                /\ Pruned(kv.tree, st.kv.tree)
      BY EvictStart
    <3>. QED
      BY <3>1
  <2>. HIDE DEF base
  <2>2. Left(base, 0)
    <3>. DEFINE c == Cardinality(AliveNodes(base.kv.tree))
    <3>1. c \in Nat /\ c <= n - 1
      BY <2>1, AliveCounted
    <3>. HIDE DEF c
    <3>2. c + 0 <= n - 1
      BY <1>n, <3>1
    <3>. QED
      BY <3>2 DEF c, Left
  <2>3. base \in Evictions
    BY <2>1 DEF Evicting
  <2>4. Shrunk(kv.tree, base)
    <3>1. base.stack = <<x>>
      BY DEF base
    <3>2. base.stack # <<>>
      BY <3>1
    <3>3. Cardinality(AliveNodes(kv.tree)) \in Nat
      BY AliveCounted
    <3>. QED
      BY <2>1, <3>2, <3>3 DEF Shrunk
  <2>. QED
    BY <1>n, <2>1, <2>2, <2>3, <2>4
<1>. HIDE DEF base
<1>3. ASSUME NEW i \in 1 .. n, NEW k \in V[i - 1] PROVE EvictNode(k) \in V[i]
  <2>. DEFINE l == EvictNode(k)
              j == i - 1
  <2>1. j \in 0 .. n /\ j \in Nat /\ i = j + 1 /\ i \in 0 .. n /\ i \in Nat
    BY <1>n
  <2>2. Evicting(kv, k) /\ Left(k, j) /\ Shrunk(kv.tree, k)
    BY <2>1
  <2>. HIDE DEF j, V
  <2>3. Evicting(kv, l) /\ Turn(k, l)
    BY <1>0, <2>2, EvictNodeOK
  <2>. HIDE DEF l
  <2>4. Left(l, i)
    BY <2>1, <2>2, <2>3, LeftTurn
  <2>5. l \in Evictions /\ Shrunk(kv.tree, l)
    BY <2>2, <2>3, ShrunkTurn DEF Evicting
  <2>6. l \in V[i]
    BY <2>1, <2>3, <2>4, <2>5 DEF V
  <2>. QED
    BY <2>6 DEF l
<1>. HIDE DEF V
<1>4. \A i \in 1 .. n : \A k \in V[i - 1] : F[i][k] = EvictNode(k)
  OBVIOUS
<1>. HIDE DEF F
<1>5. PICK g : LoopIs(n, V, F, base, g)
  <2>1. \A i \in 1 .. n : \A k \in V[i - 1] : F[i][k] \in V[i]
    BY <1>3, <1>4
  <2>. HIDE DEF n, h
  <2>2. IsLoop(n, V, F, base)
    BY <1>n, <1>2, <2>1 DEF IsLoop
  <2>. QED
    BY <2>2, LoopRuns
<1>6. g = [i \in 0 .. n |-> IF i = 0 THEN base ELSE EvictNode(g[i - 1])]
  <2>. HIDE DEF n, h
  <2>0. /\ g = [i \in 0 .. n |-> g[i]]
        /\ g[0] = base
        /\ \A i \in 1 .. n : g[i] = F[i][g[i - 1]]
        /\ \A i \in 0 .. n : g[i] \in V[i]
    BY <1>5 DEF LoopIs
  <2>1. \A i \in 1 .. n : g[i - 1] \in V[i - 1]
    BY <1>n, <2>0
  <2>2. \A i \in 1 .. n : g[i] = EvictNode(g[i - 1])
    BY <1>4, <2>0, <2>1
  <2>3. ASSUME NEW i \in 0 .. n PROVE g[i] = IF i = 0 THEN base ELSE EvictNode(g[i - 1])
    <3>1. CASE i = 0
      BY <2>0, <3>1
    <3>2. CASE i # 0
      <4>1. i \in 1 .. n
        BY <1>n, <3>2
      <4>. QED
        BY <2>2, <3>2, <4>1
    <3>. QED
      BY <3>1, <3>2
  <2>. QED
    BY <2>0, <2>3
<1>7. h = [i \in 0 .. n |-> IF i = 0 THEN base ELSE EvictNode(h[i - 1])]
  <2>1. \E e : e = [i \in 0 .. n |-> IF i = 0 THEN base ELSE EvictNode(e[i - 1])]
    BY <1>6
  <2>. QED
    BY <2>1
<1>8. kw = h[n].kv
  BY DEF evict, base
<1>. HIDE DEF h
<1>9. \A i \in 0 .. n : h[i] \in V[i]
  <2>1. h[0] = base /\ \A i \in 1 .. n : h[i] = EvictNode(h[i - 1])
    BY <1>n, <1>7
  <2>2. \A i \in 1 .. n : h[i - 1] \in V[i - 1] => h[i] \in V[i]
    BY <1>3, <2>1
  <2>. HIDE DEF n
  <2>. QED
    BY <1>n, <1>2, <2>1, <2>2, LoopTurn
<1>10. h[n] \in V[n]
  BY <1>n, <1>9
<1>11. Evicting(kv, h[n]) /\ Left(h[n], n) /\ Shrunk(kv.tree, h[n])
  BY <1>n, <1>10 DEF V
<1>. DEFINE st == h[n]
<1>12. st.kv = kw /\ Evicting(kv, st) /\ Left(st, n) /\ Shrunk(kv.tree, st)
  BY <1>8, <1>11
<1>. HIDE DEF st
<1>13. /\ st \in Evictions /\ kw.rq = kv.rq /\ PoolOK(kw.pool)
       /\ n_free(kw.pool) = n_free(kv.pool) + st.freed
       /\ \A b \in Blocks : kw.pool.refcnt[b] <= kv.pool.refcnt[b]
       /\ Fine(kw) => /\ Accounted(kw) /\ Formed(kw.tree, ToSet(st.stack))
       /\ ~Fine(kw) => TooMany(st.freed)
  BY <1>12 DEF Evicting
<1>14. kw \in Spaces /\ st.freed \in Nat /\ n_free(kw.pool) \in Nat /\ n_free(kv.pool) \in Nat
  BY <1>0, <1>12, <1>13, EvictionFields, SpaceFields, PoolFields
<1>15. /\ n_free(kv.pool) <= n_free(kw.pool) /\ n_free(kw.pool) - n_free(kv.pool) = st.freed
  <2>. DEFINE a == n_free(kv.pool)
              b == n_free(kw.pool)
              f == st.freed
  <2>1. a \in Nat /\ b \in Nat /\ f \in Nat /\ b = a + f
    BY <1>13, <1>14
  <2>. HIDE DEF a, b, f
  <2>2. a <= b /\ b - a = f
    BY <2>1
  <2>. QED
    BY <2>2 DEF a, b, f
<1>16. ASSUME Fine(kw) PROVE Sound(kw) /\ Fewer(kv.tree, kw.tree)
  <2>1. st.stack = <<>>
    <3>1. SUFFICES ASSUME st.stack # <<>> PROVE FALSE
      OBVIOUS
    <3>. DEFINE c == Cardinality(AliveNodes(st.kv.tree))
    <3>2. c + n <= MAX_NODES - 1
      BY <1>12, <1>16, <3>1 DEF Left
    <3>3. c \in Nat
      BY AliveCounted
    <3>. HIDE DEF c
    <3>. QED
      BY <1>n, <3>2, <3>3
  <2>2. ToSet(st.stack) = {}
    BY <2>1 DEF ToSet
  <2>3. Formed(kw.tree, {}) /\ Accounted(kw)
    BY <1>13, <1>16, <2>2
  <2>4. \A s \in Slots : SlotOK(kw.rq[s])
    BY <1>13 DEF Sound
  <2>5. Fewer(kv.tree, kw.tree)
    BY <1>12, <1>16, <2>1 DEF Shrunk, Fewer
  <2>. QED
    BY <1>13, <1>14, <2>3, <2>4, <2>5 DEF Sound
<1>17. Pruned(kv.tree, kw.tree)
  BY <1>12 DEF Shrunk
<1>. QED
  BY <1>13, <1>14, <1>15, <1>16, <1>17 DEF Thinned

-----------------------------------------------------------------------------
(* The room around the space *)

\* The caller sees the error and goes on.
LEMMA SoundAgain ==
    ASSUME NEW kv, Sound(kv), NEW kw, kw = [kv EXCEPT !.ok = TRUE]
    PROVE  /\ Sound(kw) /\ Fine(kw) /\ kw.pool = kv.pool /\ kw.tree = kv.tree
           /\ kw.rq = kv.rq
<1>1. kv \in Spaces /\ PoolOK(kv.pool) /\ Accounted(kv) /\ Formed(kv.tree, {})
      /\ \A s \in Slots : SlotOK(kv.rq[s])
  BY DEF Sound
<1>2. /\ kw \in Spaces /\ kw.pool = kv.pool /\ kw.tree = kv.tree /\ kw.rq = kv.rq
      /\ kw.ok = TRUE
  <2>. DEFINE ok == TRUE
  <2>1. ok \in BOOLEAN /\ kw = [kv EXCEPT !.ok = ok]
    OBVIOUS
  <2>. HIDE DEF ok
  <2>2. /\ kw \in Spaces /\ kw.pool = kv.pool /\ kw.tree = kv.tree /\ kw.rq = kv.rq
        /\ kw.ok = ok
    BY <1>1, <2>1, WithOk, ZenonT(60)
  <2>. QED
    BY <2>2 DEF ok
<1>3. \A b : Refs(kw, b) = Refs(kv, b)
  <2>1. SameNodes(kv, kw) /\ SameTables(kv, kw)
    BY <1>2 DEF SameNodes, SameTables
  <2>. QED
    BY <1>1, <1>2, <2>1, RefsSame
<1>4. Fine(kw)
  BY <1>2, Zenon DEF Fine
<1>. QED
  BY <1>1, <1>2, <1>3, <1>4 DEF Sound, Accounted

Rooms == [ kv : Spaces, n_prompt : [Slots -> 0 .. MAX_SEQ_TOKENS],
           published : [Slots -> BOOLEAN], freed_pending : Nat ]

LEMMA RoomFields ==
    ASSUME NEW r \in Rooms
    PROVE  /\ r.kv \in Spaces /\ r.n_prompt \in [Slots -> 0 .. MAX_SEQ_TOKENS]
           /\ r.published \in [Slots -> BOOLEAN] /\ r.freed_pending \in Nat
BY DEF Rooms

LEMMA WithKv ==
    ASSUME NEW r \in Rooms, NEW kw \in Spaces, NEW q, q = [r EXCEPT !.kv = kw]
    PROVE  /\ q \in Rooms /\ q.kv = kw /\ q.n_prompt = r.n_prompt
           /\ q.published = r.published /\ q.freed_pending = r.freed_pending
<1>1. r = [kv |-> r.kv, n_prompt |-> r.n_prompt, published |-> r.published,
           freed_pending |-> r.freed_pending]
  BY DEF Rooms
<1>2. q = [kv |-> kw, n_prompt |-> r.n_prompt, published |-> r.published,
           freed_pending |-> r.freed_pending]
  BY <1>1
<1>. QED
  BY <1>2, RoomFields DEF Rooms

LEMMA WithPending ==
    ASSUME NEW r \in Rooms, NEW freed \in Nat, NEW q, q = [r EXCEPT !.freed_pending = freed]
    PROVE  /\ q \in Rooms /\ q.kv = r.kv /\ q.freed_pending = freed
           /\ q.published = r.published
<1>1. r = [kv |-> r.kv, n_prompt |-> r.n_prompt, published |-> r.published,
           freed_pending |-> r.freed_pending]
  BY DEF Rooms
<1>2. q = [kv |-> r.kv, n_prompt |-> r.n_prompt, published |-> r.published,
           freed_pending |-> freed]
  BY <1>1
<1>. QED
  BY <1>2, RoomFields DEF Rooms

LEMMA NotedIs ==
    ASSUME NEW r \in Rooms, NEW s \in Slots, NEW n \in 0 .. MAX_SEQ_TOKENS,
           NEW published \in BOOLEAN, NEW q, q = Noted(r, s, n, published)
    PROVE  /\ q \in Rooms /\ q.kv = r.kv
           /\ \A t \in Slots \ {s} : q.published[t] = r.published[t]
           /\ r.kv.ok => q.published[s] = published
           /\ ~r.kv.ok => q.published = r.published
<1>. DEFINE N == [r.n_prompt EXCEPT ![s] = n]
            P == [r.published EXCEPT ![s] = published]
<1>1. N \in [Slots -> 0 .. MAX_SEQ_TOKENS] /\ P \in [Slots -> BOOLEAN]
  BY RoomFields
<1>0. P[s] = published /\ \A t \in Slots \ {s} : P[t] = r.published[t]
  BY RoomFields
<1>2. r = [kv |-> r.kv, n_prompt |-> r.n_prompt, published |-> r.published,
           freed_pending |-> r.freed_pending]
  BY DEF Rooms
<1>3. CASE ~r.kv.ok
  <2>1. q = r
    BY <1>3 DEF Noted
  <2>. QED
    BY <1>3, <2>1
<1>4. CASE r.kv.ok
  <2>1. q = [r EXCEPT !.n_prompt = N, !.published = P]
    BY <1>4 DEF Noted
  <2>. HIDE DEF N, P
  <2>2. q = [kv |-> r.kv, n_prompt |-> N, published |-> P, freed_pending |-> r.freed_pending]
    BY <1>2, <2>1
  <2>3. q.kv = r.kv /\ q.published = P
    BY <2>2
  <2>4. q \in Rooms
    BY <1>1, <2>2, RoomFields DEF Rooms
  <2>. QED
    BY <1>0, <1>4, <2>3, <2>4
<1>. QED
  BY <1>3, <1>4

\* What check_invariants finds in a slot: a dead one has no table, a live one's
\* has as many tokens as the request.
Agrees(q) == (q.live \/ q.table = <<>>) /\ n_tokens(q.table) = q.ntok
Agreeing(kv) == \A s \in Slots : Agrees(kv.rq[s])

LEMMA NoTokens == n_tokens(<<>>) = 0
<1>1. <<>> \in Seq(Runs) /\ Len(<<>>) = 0
  OBVIOUS
<1>2. TokensIn(<<>>)[0] = 0
  BY <1>1, TokensInIs
<1>. QED
  BY <1>1, <1>2 DEF n_tokens

\* No request has become a published one.
NoneNew(r, q) == \A t \in Slots : q.published[t] => r.published[t]

\* A room after a call about slot s that kept its books: in order unless the
\* call failed with the table of s full, in agreement unless it failed.
Called(r, q, s) ==
    /\ q \in Rooms /\ SoundOrFull(q.kv, s)
    /\ Fine(q.kv) /\ Agreeing(r.kv) => Agreeing(q.kv)
    /\ SameTree(r.kv.tree, q.kv.tree) /\ NoneNew(r, q)

\* admit fills the lowest free slot; a failed one leaves nothing amiss unless
\* the slot's page table is full.
LEMMA AdmitOK ==
    ASSUME NEW r \in Rooms, Sound(r.kv), Fine(r.kv), LiveSlots(r.kv) # Slots, NEW id \in Nat,
           NEW prompt \in Seq(Nat), Len(prompt) \in 1 .. MAX_SEQ_TOKENS,
           NEW n \in 1 .. Len(prompt), NEW s, s = FreeSlot(r.kv),
           NEW q, q = admit(r, id, prompt, n)
    PROVE  Called(r, q, s)
<1>. DEFINE kv == r.kv
            toks == SubSeq(prompt, 1, n)
            kw == new_request(kv, id, toks)
            v == [r EXCEPT !.kv = kw]
            total == Len(prompt)
            no == FALSE
<1>1. MAX_SEQ_TOKENS \in Nat /\ total \in 1 .. MAX_SEQ_TOKENS /\ total \in 0 .. MAX_SEQ_TOKENS
  BY TheConstants
<1>2. toks \in Seq(Nat) /\ Len(toks) = n /\ Len(toks) \in 0 .. MAX_SEQ_TOKENS
  BY <1>1, SubSeqProperties
<1>3. q = Noted(v, s, total, no)
  BY DEF admit
<1>. HIDE DEF toks, total, no
<1>4. /\ CalledOn(kv, kw, s) /\ s \in Slots
      /\ Fine(kw) => /\ kw.rq[s].live /\ kw.rq[s].ntok = Len(toks)
                     /\ n_tokens(kw.rq[s].table) = n_tokens(kv.rq[s].table) + Len(toks)
  <2>. HIDE DEF kw
  <2>. QED
    BY <1>2, NewRequestOK, SMTT(60) DEF kw
<1>. HIDE DEF kw
<1>5. kw \in Spaces /\ SoundOrFull(kw, s) /\ \A t \in Slots \ {s} : kw.rq[t] = kv.rq[t]
  BY <1>4 DEF CalledOn
<1>6. v \in Rooms /\ v.kv = kw /\ v.published = r.published
  BY <1>5, WithKv
<1>7. q \in Rooms /\ q.kv = kw /\ NoneNew(r, q)
  <2>. HIDE DEF v
  <2>1. no \in BOOLEAN
    BY DEF no
  <2>2. /\ q \in Rooms /\ q.kv = v.kv
        /\ \A t \in Slots \ {s} : q.published[t] = v.published[t]
        /\ v.kv.ok => q.published[s] = no
        /\ ~v.kv.ok => q.published = v.published
    <3>1. /\ v \in Rooms /\ s \in Slots /\ total \in 0 .. MAX_SEQ_TOKENS /\ no \in BOOLEAN
          /\ q = Noted(v, s, total, no)
      BY <1>1, <1>3, <1>4, <1>6, <2>1
    <3>. QED
      BY ONLY <3>1, NotedIs
  <2>. QED
    BY <1>6, <2>2 DEF NoneNew, no
<1>9. SameTree(kv.tree, kw.tree)
  BY <1>4 DEF CalledOn
<1>8. ASSUME Fine(kw), Agreeing(kv) PROVE Agreeing(kw)
  <2>1. ~kv.rq[s].live
    BY FreeSlotIs
  <2>2. kv.rq[s].table = <<>>
    BY <1>4, <1>8, <2>1, Zenon DEF Agreeing, Agrees
  <2>3. n_tokens(kw.rq[s].table) = Len(toks)
    <3>1. n_tokens(kv.rq[s].table) = 0
      BY <2>2, NoTokens
    <3>2. n_tokens(kw.rq[s].table) = n_tokens(kv.rq[s].table) + Len(toks)
      BY <1>4, <1>8
    <3>. DEFINE a == n_tokens(kv.rq[s].table)
                b == Len(toks)
    <3>3. a = 0 /\ b \in Nat
      BY <1>2, <3>1
    <3>. HIDE DEF a, b
    <3>4. a + b = b
      BY <3>3
    <3>. QED
      BY <3>2, <3>4 DEF a, b
  <2>4. Agrees(kw.rq[s])
    BY <1>4, <1>8, <2>3, Zenon DEF Agrees
  <2>5. \A t \in Slots \ {s} : Agrees(kw.rq[t])
    BY <1>5, <1>8 DEF Agreeing
  <2>. QED
    BY <2>4, <2>5 DEF Agreeing
<1>. QED
  BY <1>5, <1>7, <1>8, <1>9 DEF Called

\* extend lengthens one live request, with the same exception.
LEMMA ExtendOK ==
    ASSUME NEW r \in Rooms, Sound(r.kv), Fine(r.kv), NEW s \in Slots, r.kv.rq[s].live,
           NEW n \in Nat \ {0}, r.kv.rq[s].ntok + n <= MAX_SEQ_TOKENS,
           NEW q, q = extend(r, s, n)
    PROVE  Called(r, q, s)
<1>. DEFINE kv == r.kv
            kw == append_tokens(kv, s, n)
<1>1. q = [r EXCEPT !.kv = kw]
  BY DEF extend
<1>2. /\ CalledOn(kv, kw, s)
      /\ Fine(kw) => /\ kw.rq[s].live /\ kw.rq[s].ntok = kv.rq[s].ntok + n
                     /\ n_tokens(kw.rq[s].table) = n_tokens(kv.rq[s].table) + n
  BY AppendTokensOK
<1>. HIDE DEF kw
<1>3. kw \in Spaces /\ SoundOrFull(kw, s) /\ \A t \in Slots \ {s} : kw.rq[t] = kv.rq[t]
  BY <1>2 DEF CalledOn
<1>4. q \in Rooms /\ q.kv = kw /\ q.published = r.published
  BY <1>1, <1>3, WithKv
<1>6. SameTree(kv.tree, kw.tree) /\ NoneNew(r, q)
  BY <1>2, <1>4 DEF CalledOn, NoneNew
<1>5. ASSUME Fine(kw), Agreeing(kv) PROVE Agreeing(kw)
  <2>1. n_tokens(kv.rq[s].table) = kv.rq[s].ntok
    BY <1>5 DEF Agreeing, Agrees
  <2>2. n_tokens(kw.rq[s].table) = kw.rq[s].ntok
    BY <1>2, <1>5, <2>1
  <2>3. Agrees(kw.rq[s])
    BY <1>2, <1>5, <2>2, Zenon DEF Agrees
  <2>4. \A t \in Slots \ {s} : Agrees(kw.rq[t])
    BY <1>3, <1>5 DEF Agreeing
  <2>. QED
    BY <2>3, <2>4 DEF Agreeing
<1>. QED
  BY <1>3, <1>4, <1>5, <1>6 DEF Called

\* publish keeps everything in order, whether commit raises or not.
LEMMA PublishOK ==
    ASSUME NEW r \in Rooms, Sound(r.kv), Fine(r.kv), NEW s \in Slots, NEW q, q = publish(r, s)
    PROVE  /\ q \in Rooms /\ Sound(q.kv) /\ (Agreeing(r.kv) => Agreeing(q.kv))
           /\ q.kv = commit(r.kv, s)
           /\ \A t \in Slots \ {s} : q.published[t] = r.published[t]
           /\ ~Fine(q.kv) => q.published = r.published
<1>. DEFINE kv == r.kv
            kw == commit(kv, s)
            v == [r EXCEPT !.kv = kw]
            total == r.n_prompt[s]
            yes == TRUE
<1>1. q = Noted(v, s, total, yes)
  BY DEF publish
<1>2. total \in 0 .. MAX_SEQ_TOKENS /\ yes \in BOOLEAN
  BY RoomFields
<1>3. /\ Sound(kw) /\ SameRequest(kv.rq[s], kw.rq[s])
      /\ \A t \in Slots \ {s} : kw.rq[t] = kv.rq[t]
  BY CommitOK
<1>8. kw = commit(kv, s)
  OBVIOUS
<1>. HIDE DEF kw
<1>4. kw \in Spaces
  BY <1>3 DEF Sound
<1>5. v \in Rooms /\ v.kv = kw /\ v.published = r.published
  BY <1>4, WithKv
<1>. HIDE DEF v, total, yes
<1>9. /\ q \in Rooms /\ q.kv = v.kv
      /\ \A t \in Slots \ {s} : q.published[t] = v.published[t]
      /\ ~v.kv.ok => q.published = v.published
  BY <1>1, <1>2, <1>5, NotedIs
<1>6. /\ q \in Rooms /\ q.kv = kw
      /\ \A t \in Slots \ {s} : q.published[t] = r.published[t]
  BY <1>5, <1>9
<1>10. ASSUME ~Fine(kw) PROVE q.published = r.published
  <2>1. kw.ok \in BOOLEAN
    BY <1>4, SpaceFields
  <2>2. ~kw.ok
    BY <1>10, <2>1, Zenon DEF Fine
  <2>. QED
    BY <1>5, <1>9, <2>2
<1>7. ASSUME Agreeing(kv) PROVE Agreeing(kw)
  <2>1. /\ kw.rq[s].table = kv.rq[s].table /\ kw.rq[s].ntok = kv.rq[s].ntok
        /\ kw.rq[s].live = kv.rq[s].live
    BY <1>3 DEF SameRequest
  <2>2. Agrees(kw.rq[s])
    BY <1>7, <2>1, Zenon DEF Agreeing, Agrees
  <2>. QED
    BY <1>3, <1>7, <2>2 DEF Agreeing
<1>. QED
  BY <1>3, <1>6, <1>7, <1>8, <1>10

\* drop gives back every block of the slot.
LEMMA DropOK ==
    ASSUME NEW r \in Rooms, Sound(r.kv), Fine(r.kv), NEW s \in Slots, NEW q, q = drop(r, s)
    PROVE  /\ q \in Rooms /\ Sound(q.kv) /\ (Agreeing(r.kv) => Agreeing(q.kv))
           /\ q.kv.tree = r.kv.tree /\ NoneNew(r, q)
<1>. DEFINE kv == r.kv
            kw == release(kv, s)
            v == [r EXCEPT !.kv = kw]
            none == 0
            no == FALSE
<1>1. q = Noted(v, s, none, no)
  BY DEF drop
<1>2. none \in 0 .. MAX_SEQ_TOKENS /\ no \in BOOLEAN
  BY TheConstants
<1>3. /\ Sound(kw) /\ kw.rq[s] = Emptied0(kv.rq[s]) /\ kw.tree = kv.tree
      /\ \A t \in Slots \ {s} : kw.rq[t] = kv.rq[t]
  BY ReleaseSlotOK
<1>. HIDE DEF kw
<1>4. kw \in Spaces
  BY <1>3 DEF Sound
<1>5. v \in Rooms /\ v.kv = kw /\ v.published = r.published
  BY <1>4, WithKv
<1>. HIDE DEF v, none
<1>6. /\ q \in Rooms /\ q.kv = kw
      /\ \A t \in Slots \ {s} : q.published[t] = r.published[t]
      /\ kw.ok => q.published[s] = no
      /\ ~kw.ok => q.published = r.published
  <2>. HIDE DEF no
  <2>1. /\ q \in Rooms /\ q.kv = v.kv
        /\ \A t \in Slots \ {s} : q.published[t] = v.published[t]
        /\ v.kv.ok => q.published[s] = no
        /\ ~v.kv.ok => q.published = v.published
    BY <1>1, <1>2, <1>5, NotedIs
  <2>. QED
    BY <1>5, <2>1
<1>8. NoneNew(r, q)
  BY <1>6 DEF NoneNew
<1>7. ASSUME Agreeing(kv) PROVE Agreeing(kw)
  <2>1. kv.rq[s] \in Requests
    BY RoomFields, SpaceFields
  <2>2. kw.rq[s].table = <<>> /\ kw.rq[s].ntok = 0
    BY <1>3, <2>1, EmptiedIs
  <2>3. Agrees(kw.rq[s])
    BY <2>2, NoTokens DEF Agrees
  <2>. QED
    BY <1>3, <1>7, <2>3 DEF Agreeing
<1>. QED
  BY <1>3, <1>6, <1>7, <1>8

-----------------------------------------------------------------------------
(* Reclaiming *)

FreeBlocks(kv) == {b \in Blocks : kv.pool.refcnt[b] = 0}

\* The length of the free list is the number of free blocks.
LEMMA FreeCounted ==
    ASSUME NEW kv \in Spaces, PoolOK(kv.pool)
    PROVE  IsFiniteSet(FreeBlocks(kv)) /\ Cardinality(FreeBlocks(kv)) = n_free(kv.pool)
<1>. DEFINE p == kv.pool
            n == n_free(p)
            S == 1 .. n
            f == [i \in S |-> p.free_stack[i]]
<1>1. p \in Pools /\ n \in Nat /\ \A i \in S : p.free_stack[i] \in Blocks
  BY SpaceFields, PoolFields
<1>2. FreeListIs(p)
  BY <1>1, FreeListSame DEF PoolOK
<1>3. f \in Bijection(S, FreeBlocks(kv))
  <2>1. \A i \in S : f[i] \in FreeBlocks(kv)
    BY <1>1, <1>2 DEF FreeListIs, FreeBlocks
  <2>2. \A i, j \in S : f[i] = f[j] => i = j
    BY <1>2 DEF FreeListIs
  <2>3. \A b \in FreeBlocks(kv) : \E i \in S : f[i] = b
    BY <1>2 DEF FreeListIs, FreeBlocks
  <2>4. f \in [S -> FreeBlocks(kv)]
    BY <2>1
  <2>. HIDE DEF f, S
  <2>. QED
    BY <2>2, <2>3, <2>4 DEF Bijection, Injection, Surjection, IsInjective
<1>4. ExistsBijection(S, FreeBlocks(kv))
  BY <1>3 DEF ExistsBijection
<1>5. IsFiniteSet(S) /\ Cardinality(S) = n
  BY <1>1, FS_Interval
<1>. HIDE DEF S, n, p
<1>6. IsFiniteSet(FreeBlocks(kv)) /\ Cardinality(FreeBlocks(kv)) = Cardinality(S)
  BY <1>4, <1>5, FS_Bijection
<1>. QED
  BY <1>5, <1>6 DEF n, p

\* The node reclaim evicts is one of the tree's.
LEMMA ColdestIs ==
    ASSUME NEW kv \in Spaces, AliveNodes(kv.tree) # {}
    PROVE  coldest_node(kv) \in AliveNodes(kv.tree)
<1>. DEFINE A == AliveNodes(kv.tree)
            R == {kv.tree[x].freq : x \in A}
            least == Min(R)
            S == {x \in A : kv.tree[x].freq = least}
<1>1. A \subseteq Nodes /\ A # {} /\ A \in SUBSET Nat
  BY TheConstants DEF AliveNodes
<1>2. kv.tree \in [Nodes -> TreeNodes]
  BY SpaceFields
<1>3. \A x \in A : kv.tree[x].freq \in Nat
  BY <1>1, <1>2, NodeFields
<1>4. R \in SUBSET Nat /\ R # {}
  <2>. HIDE DEF A
  <2>. QED
    BY <1>1, <1>3
<1>5. least \in R
  <2>. HIDE DEF R
  <2>. QED
    BY <1>4, MinOf
<1>6. S # {} /\ S \in SUBSET Nat
  <2>. HIDE DEF least, A
  <2>1. PICK x \in A : kv.tree[x].freq = least
    BY <1>5
  <2>. QED
    BY <1>1, <2>1
<1>7. Min(S) \in S
  <2>. HIDE DEF S
  <2>. QED
    BY <1>6, MinOf
<1>8. coldest_node(kv) = Min(S)
  BY DEF coldest_node
<1>. QED
  BY <1>7, <1>8

LEMMA ThinnedSelf ==
    ASSUME NEW kv, Sound(kv), Fine(kv)
    PROVE  Thinned(kv, kv)
<1>1. kv \in Spaces /\ PoolOK(kv.pool) /\ kv.pool.refcnt \in [Blocks -> Nat]
      /\ n_free(kv.pool) \in Nat
  BY SoundIsSpace, PoolFields
<1>. DEFINE a == n_free(kv.pool)
<1>2. a <= a
  BY <1>1
<1>3. \A b \in Blocks : kv.pool.refcnt[b] <= kv.pool.refcnt[b]
  BY <1>1
<1>. QED
  BY <1>1, <1>2, <1>3, PrunedSelf DEF Thinned

LEMMA ThinnedTwice ==
    ASSUME NEW kv \in Spaces, NEW k, NEW kw, Thinned(kv, k), Fine(k), Thinned(k, kw)
    PROVE  Thinned(kv, kw)
<1>1. /\ kw \in Spaces /\ k \in Spaces /\ kw.rq = kv.rq /\ PoolOK(kw.pool)
      /\ n_free(kv.pool) <= n_free(k.pool) /\ n_free(k.pool) <= n_free(kw.pool)
      /\ Fine(kw) => Sound(kw)
  BY DEF Thinned
<1>2. /\ n_free(kv.pool) \in Nat /\ n_free(k.pool) \in Nat /\ n_free(kw.pool) \in Nat
      /\ kv.pool.refcnt \in [Blocks -> Nat] /\ k.pool.refcnt \in [Blocks -> Nat]
      /\ kw.pool.refcnt \in [Blocks -> Nat]
  BY <1>1, SpaceFields, PoolFields
<1>. DEFINE a == n_free(kv.pool)
            b == n_free(k.pool)
            c == n_free(kw.pool)
<1>3. a \in Nat /\ b \in Nat /\ c \in Nat /\ a <= b /\ b <= c
  BY <1>1, <1>2
<1>4. ~Fine(kw) => TooMany(c - b)
  BY DEF Thinned
<1>5. \A x \in Blocks : kw.pool.refcnt[x] <= kv.pool.refcnt[x]
  <2>1. TAKE x \in Blocks
  <2>. DEFINE d == kv.pool.refcnt[x]
              e == k.pool.refcnt[x]
              f == kw.pool.refcnt[x]
  <2>2. d \in Nat /\ e \in Nat /\ f \in Nat /\ f <= e /\ e <= d
    BY <1>2 DEF Thinned
  <2>. HIDE DEF d, e, f
  <2>3. f <= d
    BY <2>2
  <2>. QED
    BY <2>3 DEF d, f
<1>. HIDE DEF a, b, c
<1>6. a <= c /\ (TooMany(c - b) => TooMany(c - a))
  BY <1>3, TheConstants DEF TooMany
<1>7. Pruned(kv.tree, kw.tree)
  BY PrunedTwice DEF Thinned
<1>. QED
  BY <1>1, <1>4, <1>5, <1>6, <1>7 DEF Thinned, a, c

\* What left the cache is what came back to the pool: no live request's table
\* names a block that an eviction made free.
LEMMA CacheMeasured ==
    ASSUME NEW r \in Rooms, NEW q \in Rooms, Sound(r.kv), Thinned(r.kv, q.kv), Sound(q.kv)
    PROVE  Freed(cached_blocks(r), q) = n_free(q.kv.pool) - n_free(r.kv.pool)
<1>. DEFINE kv == r.kv
            kw == q.kv
            A == FreeBlocks(kv)
            B == FreeBlocks(kw)
            C == cached_blocks(r)
            D == cached_blocks(q)
            D1 == B \ A
<1>1. /\ kv \in Spaces /\ kw \in Spaces /\ kw.rq = kv.rq
      /\ kv.pool.refcnt \in [Blocks -> Nat] /\ kw.pool.refcnt \in [Blocks -> Nat]
      /\ \A b \in Blocks : kw.pool.refcnt[b] <= kv.pool.refcnt[b]
      /\ PoolOK(kv.pool) /\ PoolOK(kw.pool)
  BY SoundIsSpace DEF Thinned
<1>2. LiveSlots(kw) = LiveSlots(kv)
  BY <1>1 DEF LiveSlots
<1>3. ASSUME NEW b \in Blocks, kw.pool.refcnt[b] = 0, NEW s \in Slots
      PROVE  b \notin ToSet(TableBlocks(kv.rq[s].table))
  <2>. DEFINE p == TableBlocks(kw.rq[s].table)
              n == Len(p)
  <2>1. p \in Seq(Blocks) /\ AllOwned(kw, p)
    BY SlotOwned
  <2>. HIDE DEF p
  <2>2. n \in Nat /\ DOMAIN p = 1 .. n
    BY <2>1, LenProperties
  <2>3. kw.pool.refcnt[b] >= Times(p, b)
    BY <2>1 DEF AllOwned
  <2>4. ASSUME b \in ToSet(p) PROVE FALSE
    <3>1. PICK i \in 1 .. n : p[i] = b
      BY <2>2, <2>4 DEF ToSet
    <3>2. Among(p, n, p[i]) > 0 /\ Among(p, n, b) \in Nat
      BY <2>2, AmongSome, AmongNat
    <3>3. Times(p, b) > 0 /\ Times(p, b) \in Nat
      BY <3>1, <3>2 DEF Times
    <3>. QED
      BY <1>3, <2>3, <3>3
  <2>. QED
    BY <1>1, <2>4 DEF p
<1>4. D \subseteq C
  BY <1>1, <1>2 DEF cached_blocks
<1>5. A \subseteq B
  BY <1>1 DEF FreeBlocks
<1>6. C \ D = D1
  <2>1. ASSUME NEW b \in C \ D PROVE b \in D1
    BY <1>1, <1>2, <2>1 DEF cached_blocks, FreeBlocks
  <2>2. ASSUME NEW b \in D1 PROVE b \in C \ D
    <3>1. b \in Blocks /\ kw.pool.refcnt[b] = 0 /\ kv.pool.refcnt[b] > 0
      BY <1>1 DEF FreeBlocks
    <3>2. \A s \in Slots : b \notin ToSet(TableBlocks(kv.rq[s].table))
      BY <1>3, <3>1
    <3>. QED
      BY <3>1, <3>2 DEF cached_blocks, LiveSlots
  <2>. QED
    BY <2>1, <2>2
<1>7. /\ IsFiniteSet(A) /\ Cardinality(A) = n_free(kv.pool)
      /\ IsFiniteSet(B) /\ Cardinality(B) = n_free(kw.pool)
  BY <1>1, FreeCounted
<1>8. IsFiniteSet(C)
  <2>1. IsFiniteSet(Blocks)
    BY TheConstants, FS_Interval
  <2>2. C \in SUBSET Blocks
    BY DEF cached_blocks
  <2>. QED
    BY <2>1, <2>2, FS_Subset
<1>9. Freed(C, q) = Cardinality(C) - Cardinality(D)
  BY DEF Freed
<1>. HIDE DEF A, B, C, D
<1>10. /\ Cardinality(C \ D) = Cardinality(C) - Cardinality(C \cap D) /\ C \cap D = D
       /\ IsFiniteSet(D)
  BY <1>4, <1>8, FS_Difference, FS_Subset
<1>11. Cardinality(D1) = Cardinality(B) - Cardinality(B \cap A) /\ B \cap A = A
  BY <1>5, <1>7, FS_Difference
<1>12. /\ Cardinality(A) \in Nat /\ Cardinality(B) \in Nat /\ Cardinality(C) \in Nat
       /\ Cardinality(D) \in Nat
  BY <1>7, <1>8, <1>10, FS_CardinalityType
<1>13. Cardinality(C) - Cardinality(D) = Cardinality(B) - Cardinality(A)
  BY <1>6, <1>10, <1>11, <1>12
<1>. QED
  BY <1>7, <1>9, <1>13 DEF C

\* A room on its way through reclaim: i nodes have been looked at.
Reclaiming(r, q, need, i) ==
    /\ q \in Rooms /\ Thinned(r.kv, q.kv) /\ q.freed_pending = r.freed_pending
    /\ q.published = r.published
    /\ Fine(q.kv) => \/ n_free(q.kv.pool) - n_free(r.kv.pool) >= need
                     \/ AliveNodes(q.kv.tree) = {}
                     \/ Cardinality(AliveNodes(q.kv.tree)) + i <= MAX_NODES - 1

\* One look at the tree: a node less, or enough has come back.
LEMMA ReclaimTurn ==
    ASSUME NEW r \in Rooms, Sound(r.kv), NEW need \in Nat, NEW i \in Nat, NEW j \in Nat, j = i + 1,
           NEW q, Reclaiming(r, q, need, i), NEW qq, qq = ReclaimStep(cached_blocks(r), need, q)
    PROVE  Reclaiming(r, qq, need, j)
<1>. DEFINE enough == Freed(cached_blocks(r), q) < need
            x == coldest_node(q.kv)
            kw == evict(q.kv, x)
            m == n_free(r.kv.pool)
<1>0. q \in Rooms /\ Thinned(r.kv, q.kv) /\ q.kv \in Spaces /\ r.kv \in Spaces
      /\ q.freed_pending = r.freed_pending /\ q.published = r.published
  BY RoomFields DEF Reclaiming
<1>1. CASE ~Fine(q.kv)
  <2>1. qq = q
    BY <1>1, Zenon DEF ReclaimStep, Fine
  <2>. QED
    BY <1>0, <1>1, <2>1 DEF Reclaiming
<1>2. CASE Fine(q.kv)
  <2>1. Sound(q.kv) /\ q.kv.ok
    BY <1>0, <1>2, Zenon DEF Thinned, Fine
  <2>2. Freed(cached_blocks(r), q) = n_free(q.kv.pool) - m
    BY <1>0, <2>1, CacheMeasured
  <2>3. n_free(q.kv.pool) \in Nat /\ m \in Nat
    BY <1>0, SpaceFields, PoolFields
  <2>4. CASE enough /\ AliveNodes(q.kv.tree) # {}
    <3>1. qq = [q EXCEPT !.kv = kw]
      BY <2>1, <2>4 DEF ReclaimStep
    <3>2. x \in AliveNodes(q.kv.tree)
      BY <1>0, <2>4, ColdestIs
    <3>. HIDE DEF x
    <3>3. Thinned(q.kv, kw) /\ (Fine(kw) => Fewer(q.kv.tree, kw.tree))
      BY <1>2, <2>1, <3>2, EvictOK
    <3>. HIDE DEF kw
    <3>4. kw \in Spaces /\ Thinned(r.kv, kw)
      BY <1>0, <1>2, <3>3, ThinnedTwice DEF Thinned
    <3>5. /\ qq \in Rooms /\ qq.kv = kw /\ qq.freed_pending = r.freed_pending
          /\ qq.published = r.published
      BY <1>0, <3>1, <3>4, WithKv
    <3>6. ASSUME Fine(kw)
          PROVE  Cardinality(AliveNodes(kw.tree)) + j <= MAX_NODES - 1
      <4>. DEFINE c == Cardinality(AliveNodes(q.kv.tree))
                  d == Cardinality(AliveNodes(kw.tree))
                  total == MAX_NODES
      <4>1. c + i <= total - 1
        <5>1. n_free(q.kv.pool) - m < need
          BY <2>2, <2>4
        <5>. DEFINE f == n_free(q.kv.pool) - m
        <5>2. f \in Int /\ f < need
          BY <2>3, <5>1
        <5>3. f >= need \/ c + i <= total - 1
          BY <1>2, <2>4 DEF Reclaiming
        <5>. HIDE DEF f, c, total
        <5>. QED
          BY <5>2, <5>3
      <4>2. c \in Nat /\ d \in Nat /\ total \in Nat /\ d < c
        BY <3>3, <3>6, AliveCounted, TheConstants DEF Fewer
      <4>. HIDE DEF c, d, total
      <4>3. d + j <= total - 1
        BY <4>1, <4>2
      <4>. QED
        BY <4>3 DEF d, total
    <3>. QED
      BY <3>4, <3>5, <3>6 DEF Reclaiming
  <2>5. CASE ~enough \/ AliveNodes(q.kv.tree) = {}
    <3>1. qq = q
      BY <2>5 DEF ReclaimStep
    <3>. DEFINE f == n_free(q.kv.pool) - m
    <3>2. f >= need \/ AliveNodes(q.kv.tree) = {}
      <4>1. CASE AliveNodes(q.kv.tree) = {}
        BY <4>1
      <4>2. CASE ~enough
        <5>1. f \in Int /\ ~(f < need)
          BY <2>2, <2>3, <4>2
        <5>. HIDE DEF f
        <5>. QED
          BY <5>1
      <4>. QED
        BY <2>5, <4>1, <4>2
    <3>. QED
      BY <1>0, <3>1, <3>2 DEF Reclaiming
  <2>. QED
    BY <2>4, <2>5
<1>. QED
  BY <1>1, <1>2

\* reclaim: what it counts is what came back, and that is enough or the tree
\* is empty.
LEMMA ReclaimOK ==
    ASSUME NEW r \in Rooms, Sound(r.kv), Fine(r.kv), NEW need \in Nat,
           NEW q, q = reclaim(r, need)
    PROVE  /\ q \in Rooms /\ Thinned(r.kv, q.kv) /\ q.published = r.published
           /\ Fine(q.kv) =>
                /\ q.freed_pending = r.freed_pending + (n_free(q.kv.pool) - n_free(r.kv.pool))
                /\ \/ n_free(q.kv.pool) - n_free(r.kv.pool) >= need
                   \/ AliveNodes(q.kv.tree) = {}
<1>. DEFINE n == MAX_NODES
            before == cached_blocks(r)
            V == [i \in 0 .. n |-> {v \in Rooms : Reclaiming(r, v, need, i)}]
            F == [i \in 1 .. n |-> [v \in V[i - 1] |-> ReclaimStep(before, need, v)]]
            h == CHOOSE h : h = [i \in 0 .. n |->
                                   IF i = 0 THEN r ELSE ReclaimStep(before, need, h[i - 1])]
<1>n. n \in Nat /\ n >= 1
  BY TheConstants
<1>2. r \in V[0]
  <2>1. Thinned(r.kv, r.kv)
    BY ThinnedSelf
  <2>. DEFINE c == Cardinality(AliveNodes(r.kv.tree))
  <2>2. c \in Nat /\ c <= n - 1
    BY AliveCounted
  <2>. HIDE DEF c
  <2>3. c + 0 <= n - 1
    BY <1>n, <2>2
  <2>4. Reclaiming(r, r, need, 0)
    BY <2>1, <2>3 DEF Reclaiming, c
  <2>. QED
    BY <1>n, <2>4
<1>. HIDE DEF before
<1>3. ASSUME NEW i \in 1 .. n, NEW k \in V[i - 1] PROVE ReclaimStep(before, need, k) \in V[i]
  <2>. DEFINE l == ReclaimStep(before, need, k)
              j == i - 1
  <2>1. j \in 0 .. n /\ j \in Nat /\ i = j + 1 /\ i \in 0 .. n /\ i \in Nat
    BY <1>n
  <2>2. Reclaiming(r, k, need, j)
    BY <2>1
  <2>. HIDE DEF j, V
  <2>3. Reclaiming(r, l, need, i)
    BY <2>1, <2>2, ReclaimTurn DEF before
  <2>. HIDE DEF l
  <2>4. l \in Rooms
    BY <2>3 DEF Reclaiming
  <2>5. l \in V[i]
    BY <2>1, <2>3, <2>4 DEF V
  <2>. QED
    BY <2>5 DEF l
<1>. HIDE DEF V
<1>4. \A i \in 1 .. n : \A k \in V[i - 1] : F[i][k] = ReclaimStep(before, need, k)
  OBVIOUS
<1>. HIDE DEF F
<1>5. PICK g : LoopIs(n, V, F, r, g)
  <2>1. \A i \in 1 .. n : \A k \in V[i - 1] : F[i][k] \in V[i]
    BY <1>3, <1>4
  <2>. HIDE DEF n, h
  <2>2. IsLoop(n, V, F, r)
    BY <1>n, <1>2, <2>1 DEF IsLoop
  <2>. QED
    BY <2>2, LoopRuns
<1>6. g = [i \in 0 .. n |-> IF i = 0 THEN r ELSE ReclaimStep(before, need, g[i - 1])]
  <2>. HIDE DEF n, h
  <2>0. /\ g = [i \in 0 .. n |-> g[i]]
        /\ g[0] = r
        /\ \A i \in 1 .. n : g[i] = F[i][g[i - 1]]
        /\ \A i \in 0 .. n : g[i] \in V[i]
    BY <1>5 DEF LoopIs
  <2>1. \A i \in 1 .. n : g[i - 1] \in V[i - 1]
    BY <1>n, <2>0
  <2>2. \A i \in 1 .. n : g[i] = ReclaimStep(before, need, g[i - 1])
    BY <1>4, <2>0, <2>1
  <2>3. ASSUME NEW i \in 0 .. n PROVE g[i] = IF i = 0 THEN r ELSE ReclaimStep(before, need, g[i - 1])
    <3>1. CASE i = 0
      BY <2>0, <3>1
    <3>2. CASE i # 0
      <4>1. i \in 1 .. n
        BY <1>n, <3>2
      <4>. QED
        BY <2>2, <3>2, <4>1
    <3>. QED
      BY <3>1, <3>2
  <2>. QED
    BY <2>0, <2>3
<1>7. h = [i \in 0 .. n |-> IF i = 0 THEN r ELSE ReclaimStep(before, need, h[i - 1])]
  <2>1. \E e : e = [i \in 0 .. n |-> IF i = 0 THEN r ELSE ReclaimStep(before, need, e[i - 1])]
    BY <1>6
  <2>. QED
    BY <2>1
<1>8. q = Reclaimed(before, h[n])
  BY DEF reclaim, ReclaimFrom, before
<1>. HIDE DEF h
<1>9. \A i \in 0 .. n : h[i] \in V[i]
  <2>1. h[0] = r /\ \A i \in 1 .. n : h[i] = ReclaimStep(before, need, h[i - 1])
    BY <1>n, <1>7
  <2>2. \A i \in 1 .. n : h[i - 1] \in V[i - 1] => h[i] \in V[i]
    BY <1>3, <2>1
  <2>. HIDE DEF n
  <2>. QED
    BY <1>n, <1>2, <2>1, <2>2, LoopTurn
<1>10. h[n] \in V[n]
  BY <1>n, <1>9
<1>11. Reclaiming(r, h[n], need, n)
  BY <1>n, <1>10 DEF V
<1>. DEFINE v == h[n]
<1>12. q = Reclaimed(before, v) /\ Reclaiming(r, v, need, n)
  BY <1>8, <1>11
<1>. HIDE DEF v
<1>13. /\ v \in Rooms /\ Thinned(r.kv, v.kv) /\ v.freed_pending = r.freed_pending
       /\ v.published = r.published
  BY <1>12 DEF Reclaiming
<1>14. CASE ~Fine(v.kv)
  <2>1. q = v
    BY <1>12, <1>14, Zenon DEF Reclaimed, Fine
  <2>. QED
    BY <1>13, <1>14, <2>1
<1>15. CASE Fine(v.kv)
  <2>1. Sound(v.kv) /\ v.kv.ok
    BY <1>13, <1>15, Zenon DEF Thinned, Fine
  <2>. DEFINE f == n_free(v.kv.pool) - n_free(r.kv.pool)
              new == v.freed_pending + f
  <2>2. Freed(before, v) = f
    BY <1>13, <2>1, CacheMeasured DEF before
  <2>3. f \in Nat /\ v.freed_pending \in Nat
    <3>1. n_free(r.kv.pool) \in Nat /\ n_free(v.kv.pool) \in Nat
      BY <1>13, SpaceFields, PoolFields, RoomFields
    <3>2. n_free(r.kv.pool) <= n_free(v.kv.pool)
      BY <1>13 DEF Thinned
    <3>. QED
      BY <1>13, <3>1, <3>2, RoomFields
  <2>4. q = [v EXCEPT !.freed_pending = new]
    BY <1>12, <2>1, <2>2 DEF Reclaimed
  <2>5. new \in Nat
    <3>. HIDE DEF f
    <3>. QED
      BY <2>3
  <2>. HIDE DEF new
  <2>6. /\ q \in Rooms /\ q.kv = v.kv /\ q.freed_pending = new
        /\ q.published = r.published
    BY <1>13, <2>4, <2>5, WithPending
  <2>7. f >= need \/ AliveNodes(v.kv.tree) = {}
    <3>. DEFINE c == Cardinality(AliveNodes(v.kv.tree))
    <3>1. c \in Nat
      BY AliveCounted
    <3>2. f >= need \/ AliveNodes(v.kv.tree) = {} \/ c + n <= n - 1
      BY <1>12, <1>15 DEF Reclaiming
    <3>. HIDE DEF c, f
    <3>3. ~(c + n <= n - 1)
      BY <1>n, <3>1
    <3>. QED
      BY <3>2, <3>3
  <2>. QED
    BY <1>13, <2>6, <2>7 DEF new
<1>. QED
  BY <1>14, <1>15

-----------------------------------------------------------------------------
(* The inductive invariant *)

\* Until a call has failed on a full table or a full list the room is in order;
\* until one has failed at all its tables agree with its requests.
KvInv ==
    /\ mishaps \subseteq Situations
    /\ "full" \notin mishaps => room \in Rooms /\ Sound(room.kv) /\ Fine(room.kv)
    /\ "raised" \notin mishaps => "full" \notin mishaps /\ Agreeing(room.kv)

\* A call that began with a room in order, without the failures that full lists
\* cause, and its room when it returned.
Served(r, q, more) ==
    /\ "full" \notin more => q \in Rooms /\ Sound(q.kv)
    /\ "full" \in more => ~q.kv.ok
    /\ Fine(q.kv) /\ Agreeing(r.kv) => Agreeing(q.kv)

\* A call that served the room well keeps the invariant when it returns.
LEMMA ServedOK ==
    ASSUME KvInv, NEW q, NEW more \in SUBSET Situations, Returned(q, more),
           "full" \notin mishaps => Served(room, q, more)
    PROVE  KvInv'
<1>. DEFINE added == IF q.kv.ok THEN {} ELSE {"raised"}
            forked == IF Len(q.kv.tree[ROOT].kids) > 1 THEN {"forked"} ELSE {}
<1>1. mishaps' = mishaps \cup more \cup added \cup forked
  BY DEF Returned
<1>2. added \subseteq Situations /\ forked \subseteq Situations /\ "full" \notin added
      /\ "full" \notin forked
  BY DEF Situations
<1>3. mishaps' \subseteq Situations
  BY <1>1, <1>2 DEF KvInv
<1>4. \A w \in {"full", "raised"} : w \notin mishaps' => w \notin mishaps /\ w \notin more
  BY <1>1
<1>. DEFINE kw == [q.kv EXCEPT !.ok = TRUE]
<1>5. room' = [q EXCEPT !.kv = kw]
  BY DEF Returned
<1>6. ASSUME "full" \notin mishaps' PROVE room' \in Rooms /\ Sound(room'.kv) /\ Fine(room'.kv)
  <2>1. q \in Rooms /\ Sound(q.kv)
    BY <1>4, <1>6 DEF Served
  <2>2. Sound(kw) /\ Fine(kw) /\ kw \in Spaces
    <3>1. \A l : l = [q.kv EXCEPT !.ok = TRUE] => Sound(l) /\ Fine(l)
      BY <2>1, SoundAgain
    <3>2. Sound(kw) /\ Fine(kw)
      BY <3>1
    <3>. QED
      BY <3>2 DEF Sound
  <2>. HIDE DEF kw
  <2>3. room' \in Rooms /\ room'.kv = kw
    BY <1>5, <2>1, <2>2, WithKv
  <2>. QED
    BY <2>2, <2>3
<1>7. ASSUME "raised" \notin mishaps' PROVE "full" \notin mishaps' /\ Agreeing(room'.kv)
  <2>1. "raised" \notin mishaps /\ q.kv.ok
    BY <1>1, <1>4, <1>7
  <2>2. "full" \notin mishaps /\ Agreeing(room.kv)
    BY <2>1 DEF KvInv
  <2>3. "full" \notin more
    BY <2>1, <2>2 DEF Served
  <2>4. "full" \notin mishaps'
    BY <1>1, <1>2, <2>2, <2>3
  <2>5. Agreeing(q.kv)
    BY <2>1, <2>2, Zenon DEF Served, Fine
  <2>6. q \in Rooms /\ Sound(q.kv)
    BY <2>2, <2>3 DEF Served
  <2>7. room'.kv.rq = q.kv.rq
    <3>1. \A l : l = [q.kv EXCEPT !.ok = TRUE] => Sound(l) /\ l.rq = q.kv.rq
      BY <2>6, SoundAgain
    <3>2. Sound(kw) /\ kw.rq = q.kv.rq
      BY <3>1
    <3>3. kw \in Spaces
      BY <3>2 DEF Sound
    <3>. HIDE DEF kw
    <3>4. room'.kv = kw
      BY <1>5, <2>6, <3>3, WithKv
    <3>. QED
      BY <3>2, <3>4
  <2>8. Agreeing(room'.kv)
    BY <2>5, <2>7 DEF Agreeing
  <2>. QED
    BY <2>4, <2>8
<1>. QED
  BY <1>3, <1>6, <1>7 DEF KvInv

\* A call that is only in order while the table of s is not full.
LEMMA CalledServed ==
    ASSUME NEW r, NEW q, NEW s, Called(r, q, s)
    PROVE  Served(r, q, TableFull(q, s)) /\ TableFull(q, s) \subseteq Situations
<1>1. CASE FullAt(q.kv, s)
  <2>1. TableFull(q, s) = {"full"}
    BY <1>1 DEF TableFull, FullAt
  <2>2. ~q.kv.ok
    BY <1>1 DEF FullAt
  <2>. QED
    BY <2>1, <2>2 DEF Served, Called, Situations
<1>2. CASE ~FullAt(q.kv, s)
  <2>1. TableFull(q, s) = {}
    BY <1>2 DEF TableFull, FullAt
  <2>2. Sound(q.kv)
    BY <1>2 DEF Called, SoundOrFull
  <2>. QED
    BY <2>1, <2>2 DEF Served, Called, Situations
<1>. QED
  BY <1>1, <1>2

LEMMA NewPoolOK ==
    PoolOK(NewPool) /\ \A b \in Blocks : NewPool.refcnt[b] = 0
<1>. DEFINE m == MAX_BLOCKS
            C == [b \in Blocks |-> 0]
            f == [i \in 1 .. m |-> m - i]
<1>1. m \in Nat \ {0} /\ Blocks = 0 .. m - 1
  BY TheConstants
<1>2. NewPool = [refcnt |-> C, free_stack |-> f, used |-> 0]
  BY DEF NewPool
<1>3. C \in [Blocks -> Nat] /\ \A b \in Blocks : C[b] = 0
  OBVIOUS
<1>4. f \in Seq(Blocks) /\ Len(f) = m
  <2>1. \A i \in 1 .. m : m - i \in Blocks
    BY <1>1
  <2>. QED
    BY <1>1, <2>1
<1>5. \A i \in 1 .. m : f[i] = m - i
  OBVIOUS
<1>. HIDE DEF C, f
<1>6. NewPool \in Pools
  BY <1>2, <1>3, <1>4 DEF Pools
<1>7. n_free(NewPool) = m
  BY <1>2, <1>4 DEF n_free
<1>8. FreeListIs(NewPool)
  <2>1. \A i, j \in 1 .. m : f[i] = f[j] => i = j
    <3>1. \A i, j \in 1 .. m : m - i = m - j => i = j
      BY <1>1
    <3>. QED
      BY <1>5, <3>1
  <2>2. \A i \in 1 .. m : C[f[i]] = 0
    <3>1. \A i \in 1 .. m : m - i \in Blocks
      BY <1>1
    <3>. QED
      BY <1>3, <1>5, <3>1
  <2>3. \A b \in Blocks : \E i \in 1 .. m : f[i] = b
    <3>1. TAKE b \in Blocks
    <3>2. m - b \in 1 .. m /\ m - (m - b) = b
      BY <1>1
    <3>. QED
      BY <1>5, <3>2
  <2>4. m + 0 = MAX_BLOCKS
    BY <1>1
  <2>. QED
    BY <1>2, <1>7, <2>1, <2>2, <2>3, <2>4 DEF FreeListIs
<1>. QED
  BY <1>2, <1>3, <1>6, <1>8, FreeListSame DEF PoolOK

LEMMA NewTreeOK ==
    NewTree \in [Nodes -> TreeNodes] /\ Formed(NewTree, {}) /\ AliveNodes(NewTree) = {}
<1>1. DeadNode = [ alive |-> FALSE, parent |-> INVALID, kids |-> <<>>, tokens |-> <<>>,
                   offset |-> 0, blocks |-> <<>>, freq |-> 0 ]
  BY DEF DeadNode
<1>2. ASSUME NEW x \in Nodes
      PROVE  NewTree[x] = [ alive |-> x = ROOT, parent |-> INVALID, kids |-> <<>>, tokens |-> <<>>,
                            offset |-> 0, blocks |-> <<>>, freq |-> 0 ]
  <2>1. NewTree[x] = [DeadNode EXCEPT !.alive = (x = ROOT)]
    BY DEF NewTree
  <2>. DEFINE alive == x = ROOT
  <2>2. NewTree[x] = [DeadNode EXCEPT !.alive = alive]
    BY <2>1
  <2>. HIDE DEF alive
  <2>3. NewTree[x] = [ alive |-> alive, parent |-> INVALID, kids |-> <<>>, tokens |-> <<>>,
                       offset |-> 0, blocks |-> <<>>, freq |-> 0 ]
    BY <1>1, <2>2
  <2>. QED
    BY <2>3 DEF alive
<1>3. \A x \in Nodes : NewTree[x] \in TreeNodes
  <2>1. TAKE x \in Nodes
  <2>. DEFINE alive == x = ROOT
  <2>2. alive \in BOOLEAN
    OBVIOUS
  <2>3. NewTree[x] = [ alive |-> alive, parent |-> INVALID, kids |-> <<>>, tokens |-> <<>>,
                       offset |-> 0, blocks |-> <<>>, freq |-> 0 ]
    BY <1>2
  <2>. HIDE DEF alive
  <2>. QED
    BY <2>2, <2>3 DEF TreeNodes
<1>4. NewTree \in [Nodes -> TreeNodes]
  <2>1. \E f : NewTree = [x \in Nodes |-> f[x]]
    <3>. DEFINE f == [x \in Nodes |-> [DeadNode EXCEPT !.alive = (x = ROOT)]]
    <3>1. NewTree = f /\ f = [x \in Nodes |-> f[x]]
      BY DEF NewTree
    <3>. HIDE DEF f
    <3>. QED
      BY <3>1
  <2>2. DOMAIN NewTree = Nodes /\ NewTree = [x \in Nodes |-> NewTree[x]]
    BY <2>1
  <2>. QED
    BY <1>3, <2>2
<1>5. \A x \in Nodes : /\ NewTree[x].kids = <<>> /\ NewTree[x].parent = INVALID
                       /\ NewTree[x].tokens = <<>>
  <2>1. TAKE x \in Nodes
  <2>. DEFINE alive == x = ROOT
              none == INVALID
              e == <<>>
  <2>2. NewTree[x] = [ alive |-> alive, parent |-> none, kids |-> e, tokens |-> e,
                       offset |-> 0, blocks |-> e, freq |-> 0 ]
    BY <1>2
  <2>. HIDE DEF alive, e, none
  <2>3. NewTree[x].kids = e /\ NewTree[x].parent = none /\ NewTree[x].tokens = e
    BY <2>2
  <2>. QED
    BY <2>3 DEF e, none
<1>6. \A x \in Nodes : NewTree[x].alive <=> x = ROOT
  <2>1. TAKE x \in Nodes
  <2>. DEFINE alive == x = ROOT
  <2>2. NewTree[x] = [ alive |-> alive, parent |-> INVALID, kids |-> <<>>, tokens |-> <<>>,
                       offset |-> 0, blocks |-> <<>>, freq |-> 0 ]
    BY <1>2
  <2>3. NewTree[x].alive = alive
    BY <2>2
  <2>. QED
    BY <2>3
<1>7. AliveNodes(NewTree) = {}
  BY <1>6 DEF AliveNodes
<1>8. ROOT \in Nodes /\ INVALID \notin Nodes
  BY TheConstants
<1>9. ToSet(<<>>) = {} /\ IsInjective(<<>>)
  BY DEF ToSet, IsInjective
<1>10. Formed(NewTree, {})
  <2>1. \A x \in Nodes : IsInjective(NewTree[x].kids) /\ NewTree[x].parent # x
    BY <1>5, <1>8, <1>9
  <2>2. \A x \in Nodes : ToSet(NewTree[x].kids) = {}
    BY <1>5, <1>9
  <2>. QED
    BY <1>5, <1>6, <1>7, <1>8, <2>1, <2>2 DEF Formed
<1>. QED
  BY <1>4, <1>7, <1>10

LEMMA EmptySlotIs ==
    /\ EmptySlot \in Requests /\ EmptySlot.table = <<>> /\ ~EmptySlot.live
    /\ EmptySlot.ntok = 0 /\ SlotOK(EmptySlot) /\ Agrees(EmptySlot)
<1>. DEFINE T == [i \in 1 .. MAX_SEQ_TOKENS |-> 0]
            e == <<>>
            no == FALSE
<1>1. EmptySlot = [live |-> no, id |-> 0, ntok |-> 0, priv |-> no, tok |-> T, table |-> e]
  BY DEF EmptySlot
<1>2. T \in [1 .. MAX_SEQ_TOKENS -> Nat] /\ e \in Seq(Runs) /\ no \in BOOLEAN
      /\ 0 \in 0 .. MAX_SEQ_TOKENS /\ MAX_BLOCKS_PER_SEQ \in Nat /\ Len(e) = 0
  BY TheConstants
<1>. HIDE DEF T, e, no
<1>3. /\ EmptySlot \in Requests /\ EmptySlot.table = e /\ EmptySlot.live = no
      /\ EmptySlot.ntok = 0 /\ EmptySlot.priv = no
  BY <1>1, <1>2 DEF Requests
<1>4. Len(EmptySlot.table) <= MAX_BLOCKS_PER_SEQ
  BY <1>2, <1>3
<1>5. EmptySlot.table = <<>> /\ ~EmptySlot.live /\ ~EmptySlot.priv
  BY <1>3 DEF e, no
<1>6. SlotOK(EmptySlot)
  BY <1>4, <1>5, Zenon DEF SlotOK
<1>7. Agrees(EmptySlot)
  BY <1>3, <1>5, NoTokens DEF Agrees
<1>. QED
  BY <1>3, <1>5, <1>6, <1>7

\* A new space is in order.
LEMMA NewSpaceOK ==
    Sound(NewSpace) /\ Fine(NewSpace) /\ Agreeing(NewSpace)
<1>. DEFINE p == NewPool
            t == NewTree
            R == [s \in Slots |-> EmptySlot]
            yes == TRUE
            kv == NewSpace
<1>1. NewSpace = [pool |-> p, tree |-> t, rq |-> R, ok |-> yes]
  BY DEF NewSpace
<1>2. PoolOK(p) /\ p \in Pools /\ \A b \in Blocks : p.refcnt[b] = 0
  BY NewPoolOK DEF PoolOK
<1>3. t \in [Nodes -> TreeNodes] /\ Formed(t, {}) /\ AliveNodes(t) = {}
  BY NewTreeOK
<1>4. R \in [Slots -> Requests] /\ \A s \in Slots : R[s] = EmptySlot
  BY EmptySlotIs
<1>5. yes \in BOOLEAN
  OBVIOUS
<1>. HIDE DEF p, t, R, yes, kv
<1>6. kv.pool = p /\ kv.tree = t /\ kv.rq = R /\ kv.ok = yes /\ kv \in Spaces
  BY <1>1, <1>2, <1>3, <1>4, <1>5 DEF Spaces, kv
<1>7. Fine(kv)
  BY <1>6, Zenon DEF Fine, yes
<1>8. \A s \in Slots : SlotOK(kv.rq[s]) /\ Agrees(kv.rq[s]) /\ kv.rq[s].table = <<>>
  BY <1>4, <1>6, EmptySlotIs
<1>9. Accounted(kv)
  <2>1. \A b : HoldersIn(kv, Slots, b) = {}
    BY <1>3, <1>6, <1>8 DEF HoldersIn
  <2>2. \A b : Refs(kv, b) = 0
    BY <2>1, FS_EmptySet DEF Refs
  <2>. QED
    BY <1>2, <1>6, <2>2 DEF Accounted
<1>10. Sound(kv) /\ Agreeing(kv)
  BY <1>2, <1>3, <1>6, <1>8, <1>9 DEF Sound, Agreeing
<1>. QED
  BY <1>7, <1>10 DEF kv

LEMMA KvInit == Init => KvInv
<1>. SUFFICES ASSUME Init PROVE KvInv
  OBVIOUS
<1>. DEFINE N == [s \in Slots |-> 0]
            P == [s \in Slots |-> FALSE]
<1>1. Sound(NewSpace) /\ Fine(NewSpace) /\ Agreeing(NewSpace) /\ NewSpace \in Spaces
  BY NewSpaceOK DEF Sound
<1>2. room = [kv |-> NewSpace, n_prompt |-> N, published |-> P, freed_pending |-> 0]
  BY DEF Init, NewRoom
<1>3. N \in [Slots -> 0 .. MAX_SEQ_TOKENS] /\ P \in [Slots -> BOOLEAN]
  BY TheConstants
<1>. HIDE DEF N, P
<1>4. room \in Rooms /\ room.kv = NewSpace
  BY <1>1, <1>2, <1>3 DEF Rooms
<1>5. mishaps = {}
  BY DEF Init
<1>. QED
  BY <1>1, <1>4, <1>5 DEF KvInv, Situations

\* Every call keeps the invariant, raising or not.
LEMMA KvNext == KvInv /\ [Next]_vars => KvInv'
<1>. SUFFICES ASSUME KvInv, [Next]_vars PROVE KvInv'
  OBVIOUS
<1>0. "full" \notin mishaps => room \in Rooms /\ Sound(room.kv) /\ Fine(room.kv)
  BY DEF KvInv
<1>c. MAX_REQUESTS \in Nat /\ MAX_SEQ_TOKENS \in Nat /\ MAX_BLOCKS \in Nat
  BY TheConstants
<1>1. ASSUME NEW id \in 1 .. MAX_REQUESTS, NEW prompt \in Prompts, NEW n_now \in 1 .. Len(prompt),
             Admit(id, prompt, n_now)
      PROVE  KvInv'
  <2>. DEFINE s == FreeSlot(room.kv)
              r == admit(room, id, prompt, n_now)
              more == TableFull(r, s) \cup LeftBehind(s)
  <2>1. LiveSlots(room.kv) # Slots /\ Returned(r, more)
    BY <1>1 DEF Admit
  <2>2. prompt \in Seq(Nat) /\ Len(prompt) \in 1 .. MAX_SEQ_TOKENS /\ id \in Nat
    BY <1>c, RoomAssumption
  <2>3. more \in SUBSET Situations
    BY DEF TableFull, LeftBehind, Situations
  <2>4. ASSUME "full" \notin mishaps PROVE Served(room, r, more)
    <3>1. Called(room, r, s)
      <4>. HIDE DEF r, s
      <4>. QED
        BY <1>0, <2>1, <2>2, <2>4, AdmitOK DEF r, s
    <3>. HIDE DEF r, s
    <3>2. "full" \notin LeftBehind(s)
      BY DEF LeftBehind
    <3>. QED
      BY <3>1, <3>2, CalledServed DEF Served
  <2>. HIDE DEF r, more
  <2>. QED
    BY <2>1, <2>3, <2>4, ServedOK, SMTT(60)
<1>2. ASSUME NEW s \in Slots, NEW n \in 1 .. MAX_SEQ_TOKENS, NEW tok \in Tokens, Extend(s, n, tok)
      PROVE  KvInv'
  <2>. DEFINE r == extend(room, s, n)
              more == TableFull(r, s)
  <2>1. /\ room.kv.rq[s].live /\ room.kv.rq[s].ntok + n <= MAX_SEQ_TOKENS
        /\ Returned(r, more)
    BY <1>2 DEF Extend, LiveSlots
  <2>2. more \in SUBSET Situations /\ n \in Nat \ {0}
    BY <1>c DEF TableFull, Situations
  <2>3. ASSUME "full" \notin mishaps PROVE Served(room, r, more)
    <3>1. Called(room, r, s)
      <4>. HIDE DEF r
      <4>. QED
        BY <1>0, <2>1, <2>2, <2>3, ExtendOK DEF r
    <3>. HIDE DEF r
    <3>. QED
      BY <3>1, CalledServed
  <2>. HIDE DEF r, more
  <2>. QED
    BY <2>1, <2>2, <2>3, ServedOK
<1>3. ASSUME NEW s \in Slots, Publish(s) PROVE KvInv'
  <2>. DEFINE r == publish(room, s)
              more == Uneven(s)
  <2>1. Returned(r, more)
    BY <1>3 DEF Publish
  <2>2. more \in SUBSET Situations /\ "full" \notin more
    BY DEF Uneven, Situations
  <2>. HIDE DEF r, more
  <2>3. ASSUME "full" \notin mishaps PROVE Served(room, r, more)
    <3>1. r \in Rooms /\ Sound(r.kv) /\ (Agreeing(room.kv) => Agreeing(r.kv))
      BY <1>0, <2>3, PublishOK DEF r
    <3>. QED
      BY <2>2, <3>1 DEF Served
  <2>. QED
    BY <2>1, <2>2, <2>3, ServedOK
<1>4. ASSUME NEW s \in Slots, Drop(s) PROVE KvInv'
  <2>. DEFINE r == drop(room, s)
              more == {}
  <2>1. Returned(r, more)
    BY <1>4 DEF Drop
  <2>2. more \in SUBSET Situations /\ "full" \notin more
    OBVIOUS
  <2>. HIDE DEF r, more
  <2>3. ASSUME "full" \notin mishaps PROVE Served(room, r, more)
    <3>1. r \in Rooms /\ Sound(r.kv) /\ (Agreeing(room.kv) => Agreeing(r.kv))
      BY <1>0, <2>3, DropOK DEF r
    <3>. QED
      BY <2>2, <3>1 DEF Served
  <2>. QED
    BY <2>1, <2>2, <2>3, ServedOK
<1>5. ASSUME NEW need \in 1 .. MAX_BLOCKS, Reclaim(need) PROVE KvInv'
  <2>. DEFINE r == reclaim(room, need)
              more == ListFull(r)
  <2>1. Returned(r, more)
    BY <1>5 DEF Reclaim
  <2>2. more \in SUBSET Situations /\ need \in Nat
    BY <1>c DEF Situations, ListFull
  <2>. HIDE DEF r
  <2>3. ASSUME "full" \notin mishaps PROVE Served(room, r, more)
    <3>1. r \in Rooms /\ Thinned(room.kv, r.kv)
      BY <1>0, <2>2, <2>3, ReclaimOK DEF r
    <3>2. "full" \in more <=> "full" \in ListFull(r)
      OBVIOUS
    <3>3. "full" \in ListFull(r) => ~r.kv.ok
      BY DEF ListFull
    <3>4. ASSUME "full" \notin ListFull(r) PROVE Sound(r.kv)
      <4>1. ASSUME ~Fine(r.kv) PROVE FALSE
        <5>1. TooMany(n_free(r.kv.pool) - n_free(room.kv.pool)) /\ ~r.kv.ok
          BY <3>1, <4>1, Zenon DEF Thinned, Fine
        <5>2. ListFull(r) = {"full"}
          BY <5>1 DEF TooMany, ListFull
        <5>. QED
          BY <3>4, <5>2
      <4>. QED
        BY <3>1, <4>1 DEF Thinned
    <3>5. Agreeing(room.kv) => Agreeing(r.kv)
      BY <3>1 DEF Thinned, Agreeing
    <3>. HIDE DEF more
    <3>. QED
      BY <3>1, <3>2, <3>3, <3>4, <3>5 DEF Served
  <2>. HIDE DEF more
  <2>. QED
    BY <2>1, <2>2, <2>3, ServedOK
<1>6. ASSUME NEW limit \in 1 .. FREED_BOUND, TakeFreed(limit) PROVE KvInv'
  <2>. DEFINE p == room.freed_pending
              least == Min({p, limit})
              left == p - least
  <2>1. room' = [room EXCEPT !.freed_pending = left] /\ UNCHANGED mishaps
    BY <1>6 DEF TakeFreed, take_freed_upto
  <2>2. ASSUME "full" \notin mishaps PROVE room' \in Rooms /\ room'.kv = room.kv
    <3>1. p \in Nat /\ limit \in Nat /\ room \in Rooms
      BY <1>0, <2>2, RoomFields, RoomAssumption
    <3>2. left \in Nat
      <4>. HIDE DEF p
      <4>1. least \in Nat /\ least <= p
        BY <3>1, MinOfTwo
      <4>. HIDE DEF least
      <4>. QED
        BY <3>1, <4>1
    <3>. HIDE DEF left
    <3>. QED
      BY <2>1, <3>1, <3>2, WithPending
  <2>3. "raised" \notin mishaps => "full" \notin mishaps
    BY DEF KvInv
  <2>. HIDE DEF left
  <2>. QED
    BY <2>1, <2>2, <2>3 DEF KvInv
<1>7. CASE UNCHANGED vars
  BY <1>7 DEF vars, KvInv
<1>8. ASSUME NEW s \in Slots, NEW last \in 1 .. MAX_SEQ_TOKENS, Run(s, last) PROVE KvInv'
  <2>1. UNCHANGED room /\ UNCHANGED mishaps
    BY <1>8 DEF Run
  <2>. QED
    BY <2>1 DEF KvInv
<1>. QED
  BY <1>1, <1>2, <1>3, <1>4, <1>5, <1>6, <1>7, <1>8 DEF Next

\* Every call the engine makes leaves the room in order, a failed one included,
\* until one fails on a full page table or a full list of ids.
THEOREM KvInvariant == Spec => []KvInv
<1>1. Init => KvInv
  BY KvInit
<1>2. KvInv /\ [Next]_vars => KvInv'
  BY KvNext
<1>. QED
  BY <1>1, <1>2, PTL DEF Spec
-----------------------------------------------------------------------------
(* What it says of the room *)

LEMMA FormedWell ==
    ASSUME NEW t, Formed(t, {})
    PROVE  WellFormed(t)
BY DEF Formed, WellFormed, NodeShape

LEMMA SoundTypes ==
    ASSUME NEW r \in Rooms, Sound(r.kv)
    PROVE  /\ r.kv.pool \in [refcnt : [Blocks -> Nat], free_stack : Seq(Blocks), used : Int]
           /\ \A s \in Slots :
                /\ r.kv.rq[s].ntok \in 0 .. MAX_SEQ_TOKENS
                /\ Len(r.kv.rq[s].table) <= MAX_BLOCKS_PER_SEQ
                /\ \A i \in DOMAIN r.kv.rq[s].table : r.kv.rq[s].table[i].block \in Blocks
           /\ r.published \in [Slots -> BOOLEAN]
           /\ r.n_prompt \in [Slots -> 0 .. MAX_SEQ_TOKENS]
           /\ r.freed_pending \in Nat
<1>1. r.kv \in Spaces /\ r.kv.pool \in Pools
  BY SoundIsSpace
<1>2. \A s \in Slots : r.kv.rq[s] \in Requests
  BY <1>1, SpaceFields
<1>3. ASSUME NEW s \in Slots
      PROVE  /\ r.kv.rq[s].ntok \in 0 .. MAX_SEQ_TOKENS
             /\ Len(r.kv.rq[s].table) <= MAX_BLOCKS_PER_SEQ
             /\ \A i \in DOMAIN r.kv.rq[s].table : r.kv.rq[s].table[i].block \in Blocks
  <2>. DEFINE table == r.kv.rq[s].table
  <2>1. table \in Seq(Runs) /\ r.kv.rq[s].ntok \in 0 .. MAX_SEQ_TOKENS
    BY <1>2, RequestFields
  <2>2. Len(table) <= MAX_BLOCKS_PER_SEQ
    <3>1. SlotOK(r.kv.rq[s])
      BY DEF Sound
    <3>. QED
      BY <3>1, Zenon DEF SlotOK
  <2>. HIDE DEF table
  <2>3. \A i \in DOMAIN table : table[i] \in Runs
    BY <2>1, LenProperties, ElementOfSeq
  <2>4. \A i \in DOMAIN table : table[i].block \in Blocks
    BY <2>3, RunFields
  <2>. QED
    BY <2>1, <2>2, <2>4 DEF table
<1>. QED
  BY <1>1, <1>3, RoomFields DEF Pools

\* KvSpace's counts are exactly its references, its free list exactly the blocks
\* nobody holds and its prefix tree a tree, through every split, partial commit,
\* eviction and half-done call, until one fails on a full table or list.
THEOREM RefsAreAccounted == Spec => []RefsAccountedUntilFull
<1>1. KvInv => RefsAccountedUntilFull
  <2>. SUFFICES ASSUME KvInv, "full" \notin mishaps PROVE RefsAccounted
    BY DEF RefsAccountedUntilFull
  <2>1. room \in Rooms /\ Sound(room.kv) /\ room.kv.ok /\ mishaps \subseteq Situations
    BY Zenon DEF KvInv, Fine
  <2>2. TypeOK
    BY <2>1, SoundTypes DEF TypeOK
  <2>3. \A b \in Blocks : room.kv.pool.refcnt[b] = Cardinality(HoldersIn(room.kv, Slots, b))
    BY <2>1 DEF Sound, Accounted, Refs
  <2>4. FreeListExact(room.kv.pool)
    BY <2>1 DEF Sound, PoolOK
  <2>5. WellFormed(room.kv.tree)
    BY <2>1, FormedWell DEF Sound
  <2>. QED
    BY <2>2, <2>3, <2>4, <2>5 DEF RefsAccounted
<1>. QED
  BY <1>1, KvInvariant, PTL

\* KvSpace.check_invariants() = 0 after every call, as long as none has raised:
\* no dead slot keeps a table, and a live one's describes exactly its tokens.
THEOREM ViewsAlwaysAgree == Spec => []ViewsAgreeUntilError
<1>1. KvInv => ViewsAgreeUntilError
  <2>. SUFFICES ASSUME KvInv, "raised" \notin mishaps PROVE ViewsAgree
    BY DEF ViewsAgreeUntilError
  <2>. DEFINE kv == room.kv
  <2>1. room \in Rooms /\ Sound(kv) /\ Agreeing(kv) /\ kv \in Spaces
    BY DEF KvInv, Sound
  <2>2. \A b : HoldersIn(kv, LiveSlots(kv), b) = HoldersIn(kv, Slots, b)
    <3>1. \A s \in Slots \ LiveSlots(kv) : kv.rq[s].table = <<>>
      BY <2>1, Zenon DEF Agreeing, Agrees, LiveSlots
    <3>2. LiveSlots(kv) \subseteq Slots
      BY DEF LiveSlots
    <3>. TAKE b
    <3>. DEFINE InTable(s) == {<<"request", s, i>> :
                   i \in {i \in DOMAIN kv.rq[s].table : kv.rq[s].table[i].block = b}}
    <3>3. \A s \in Slots \ LiveSlots(kv) : InTable(s) = {}
      BY <3>1
    <3>4. UNION {InTable(s) : s \in LiveSlots(kv)} = UNION {InTable(s) : s \in Slots}
      <4>. HIDE DEF InTable
      <4>. QED
        BY <3>2, <3>3
    <3>. QED
      BY <3>4 DEF HoldersIn
  <2>3. \A b \in Blocks : kv.pool.refcnt[b] = Cardinality(HoldersIn(kv, LiveSlots(kv), b))
    BY <2>1, <2>2 DEF Sound, Accounted, Refs
  <2>4. \A s \in LiveSlots(kv) : TableExact(kv, s)
    <3>1. TAKE s \in LiveSlots(kv)
    <3>. DEFINE table == kv.rq[s].table
    <3>2. s \in Slots
      BY <3>1 DEF LiveSlots
    <3>3. n_tokens(table) = kv.rq[s].ntok
      BY <2>1, <3>2 DEF Agreeing, Agrees
    <3>4. table \in Seq(Runs)
      BY <2>1, <3>2, SpaceFields, RequestFields
    <3>. HIDE DEF table
    <3>5. \A i \in DOMAIN table : table[i] \in Runs
      BY <3>4, LenProperties, ElementOfSeq
    <3>6. \A i \in DOMAIN table : /\ table[i].len > 0 /\ table[i].start >= 0
                                  /\ table[i].start + table[i].len <= block_size
      <4>1. TAKE i \in DOMAIN table
      <4>. DEFINE run == table[i]
      <4>2. run \in Runs
        BY <3>5
      <4>. HIDE DEF run
      <4>3. /\ run.start \in Nat /\ run.len \in Nat \ {0}
            /\ run.start + run.len <= block_size
        BY <4>2, RunFields
      <4>4. run.len > 0 /\ run.start >= 0
        BY <4>3
      <4>. QED
        BY <4>3, <4>4 DEF run
    <3>. QED
      BY <3>3, <3>6 DEF TableExact, table
  <2>. QED
    BY <2>3, <2>4 DEF ViewsAgree
<1>. QED
  BY <1>1, KvInvariant, PTL

\* Without nodes nothing is cached: every block in use is in the table of a
\* live request.
LEMMA NothingCached ==
    ASSUME NEW r, Sound(r.kv), Agreeing(r.kv), AliveNodes(r.kv.tree) = {}
    PROVE  cached_blocks(r) = {}
<1>. DEFINE kv == r.kv
<1>1. SUFFICES ASSUME NEW b \in cached_blocks(r) PROVE FALSE
  OBVIOUS
<1>2. /\ b \in Blocks /\ kv.pool.refcnt[b] > 0
      /\ \A s \in LiveSlots(kv) : b \notin ToSet(TableBlocks(kv.rq[s].table))
  BY <1>1 DEF cached_blocks
<1>3. Cardinality(HoldersIn(kv, Slots, b)) > 0
  BY <1>2 DEF Sound, Accounted, Refs
<1>4. HoldersIn(kv, Slots, b) # {}
  BY <1>3, FS_EmptySet
<1>5. PICK s \in Slots : \E i \in DOMAIN kv.rq[s].table : kv.rq[s].table[i].block = b
  BY <1>4 DEF HoldersIn
<1>6. PICK i \in DOMAIN kv.rq[s].table : kv.rq[s].table[i].block = b
  BY <1>5
<1>7. b \in ToSet(TableBlocks(kv.rq[s].table))
  BY <1>6 DEF TableBlocks, ToSet
<1>8. ~kv.rq[s].live
  BY <1>2, <1>7 DEF LiveSlots
<1>9. kv.rq[s].table = <<>>
  BY <1>8, Zenon DEF Agreeing, Agrees
<1>. QED
  BY <1>6, <1>9

LEMMA ReclaimStepMeasured ==
    ASSUME KvInv, NEW need \in 1 .. MAX_BLOCKS, Reclaim(need), "raised" \notin mishaps'
    PROVE  LET freed == room'.freed_pending - room.freed_pending
           IN  /\ freed = n_free(room'.kv.pool) - n_free(room.kv.pool)
               /\ freed >= need \/ cached_blocks(room') = {}
<1>. DEFINE q == reclaim(room, need)
            kw == [q.kv EXCEPT !.ok = TRUE]
<1>1. PICK more : Returned(q, more)
  BY DEF Reclaim
<1>2. /\ room' = [q EXCEPT !.kv = kw]
      /\ "raised" \notin mishaps /\ q.kv.ok
  BY <1>1 DEF Returned
<1>3. room \in Rooms /\ Sound(room.kv) /\ Fine(room.kv) /\ Agreeing(room.kv)
  BY <1>2 DEF KvInv
<1>4. need \in Nat
  BY TheConstants
<1>5. /\ q \in Rooms /\ Thinned(room.kv, q.kv)
      /\ Fine(q.kv) =>
           /\ q.freed_pending = room.freed_pending + (n_free(q.kv.pool) - n_free(room.kv.pool))
           /\ \/ n_free(q.kv.pool) - n_free(room.kv.pool) >= need
              \/ AliveNodes(q.kv.tree) = {}
  BY <1>3, <1>4, ReclaimOK
<1>. HIDE DEF q
<1>6. Fine(q.kv)
  BY <1>2, Zenon DEF Fine
<1>7. Sound(q.kv)
  BY <1>5, <1>6 DEF Thinned
<1>8. Sound(kw) /\ kw.pool = q.kv.pool /\ kw.tree = q.kv.tree /\ kw.rq = q.kv.rq
  <2>1. \A l : l = [q.kv EXCEPT !.ok = TRUE]
             => Sound(l) /\ l.pool = q.kv.pool /\ l.tree = q.kv.tree /\ l.rq = q.kv.rq
    BY <1>7, SoundAgain
  <2>. QED
    BY <2>1
<1>9. kw \in Spaces
  BY <1>8 DEF Sound
<1>. HIDE DEF kw
<1>10. room'.kv = kw /\ room'.freed_pending = q.freed_pending
  BY <1>2, <1>5, <1>9, WithKv
<1>. DEFINE f == n_free(q.kv.pool) - n_free(room.kv.pool)
            old == room.freed_pending
            new == room'.freed_pending
<1>11. new = old + f /\ (f >= need \/ AliveNodes(q.kv.tree) = {})
  BY <1>5, <1>6, <1>10
<1>12. n_free(room'.kv.pool) - n_free(room.kv.pool) = f
  BY <1>8, <1>10
<1>13. old \in Nat /\ f \in Int
  BY <1>3, <1>5, RoomFields, SpaceFields, PoolFields
<1>. HIDE DEF f, old, new
<1>14. new - old = f
  BY <1>11, <1>13
<1>15. ASSUME AliveNodes(q.kv.tree) = {} PROVE cached_blocks(room') = {}
  <2>1. Agreeing(kw) /\ AliveNodes(kw.tree) = {}
    BY <1>3, <1>5, <1>8, <1>15 DEF Thinned, Agreeing
  <2>. DEFINE r == room'
  <2>2. r.kv = kw
    BY <1>10
  <2>. HIDE DEF r
  <2>3. cached_blocks(r) = {}
    BY <1>8, <2>1, <2>2, NothingCached
  <2>. QED
    BY <2>3 DEF r
<1>. QED
  BY <1>11, <1>12, <1>14, <1>15 DEF old, new

\* KvRoom.reclaim reports exactly the blocks that came back to the pool, and
\* stops short of what was asked for only when the cache is empty.
THEOREM ReclaimIsMeasured == Spec => ReclaimMeasured
<1>1. KvInv /\ [Next]_vars =>
        [\A need \in 1 .. MAX_BLOCKS :
           Reclaim(need) /\ "raised" \notin mishaps' =>
             LET freed == room'.freed_pending - room.freed_pending
             IN  /\ freed = n_free(room'.kv.pool) - n_free(room.kv.pool)
                 /\ freed >= need \/ cached_blocks(room') = {}]_vars
  BY ReclaimStepMeasured
<1>. QED
  BY <1>1, KvInvariant, PTL DEF Spec, ReclaimMeasured
-----------------------------------------------------------------------------
(* Beginnings of sequences *)

LEMMA StartIs ==
    ASSUME NEW S, NEW p \in Seq(S), NEW k \in 0 .. Len(p)
    PROVE  /\ SubSeq(p, 1, k) \in Seq(S) /\ Len(SubSeq(p, 1, k)) = k
           /\ \A i \in 1 .. k : SubSeq(p, 1, k)[i] = p[i]
<1>1. Len(p) \in Nat
  BY LenProperties
<1>2. 1 \in 1 .. Len(p) + 1 /\ k \in 0 .. Len(p) /\ 1 <= k + 1 /\ (k + 1) - 1 = k
  BY <1>1
<1>3. /\ SubSeq(p, 1, k) \in Seq(S) /\ Len(SubSeq(p, 1, k)) = (k + 1) - 1
      /\ \A i \in 1 .. (k + 1) - 1 : SubSeq(p, 1, k)[i] = p[1 + i - 1]
  BY <1>2, PartIs
<1>4. \A i \in 1 .. k : 1 + i - 1 = i
  BY <1>1
<1>. QED
  BY <1>2, <1>3, <1>4

LEMMA StartOfStart ==
    ASSUME NEW S, NEW p \in Seq(S), NEW k \in 0 .. Len(p), NEW l \in 0 .. k
    PROVE  SubSeq(SubSeq(p, 1, k), 1, l) = SubSeq(p, 1, l)
<1>. DEFINE q == SubSeq(p, 1, k)
<1>1. Len(p) \in Nat /\ l \in 0 .. Len(p)
  BY LenProperties
<1>2. q \in Seq(S) /\ Len(q) = k /\ \A i \in 1 .. k : q[i] = p[i]
  BY StartIs
<1>. HIDE DEF q
<1>3. SubSeq(q, 1, l) \in Seq(S) /\ Len(SubSeq(q, 1, l)) = l
      /\ \A i \in 1 .. l : SubSeq(q, 1, l)[i] = q[i]
  BY <1>2, StartIs
<1>4. SubSeq(p, 1, l) \in Seq(S) /\ Len(SubSeq(p, 1, l)) = l
      /\ \A i \in 1 .. l : SubSeq(p, 1, l)[i] = p[i]
  BY <1>1, StartIs
<1>5. \A i \in 1 .. l : SubSeq(q, 1, l)[i] = SubSeq(p, 1, l)[i]
  BY <1>1, <1>2, <1>3, <1>4
<1>6. SubSeq(q, 1, l) = SubSeq(p, 1, l)
  <2>. DEFINE a == SubSeq(q, 1, l)
              b == SubSeq(p, 1, l)
  <2>1. a \in Seq(S) /\ b \in Seq(S) /\ Len(a) = Len(b) /\ \A i \in 1 .. Len(a) : a[i] = b[i]
    BY <1>3, <1>4, <1>5
  <2>. HIDE DEF a, b
  <2>2. a = b
    BY <2>1, SeqEqual
  <2>. QED
    BY <2>2 DEF a, b
<1>. QED
  BY <1>6 DEF q

\* The beginnings of p \o q: those of p, then p before those of q.
LEMMA StartOfConcat ==
    ASSUME NEW p \in Seq(Nat), NEW q \in Seq(Nat)
    PROVE  /\ \A l \in 0 .. Len(p) : SubSeq(p \o q, 1, l) = SubSeq(p, 1, l)
           /\ \A k \in 0 .. Len(q) : SubSeq(p \o q, 1, Len(p) + k) = p \o SubSeq(q, 1, k)
<1>. DEFINE r == p \o q
<1>1. Len(p) \in Nat /\ Len(q) \in Nat
  BY LenProperties
<1>2. /\ r \in Seq(Nat) /\ Len(r) = Len(p) + Len(q)
      /\ \A i \in 1 .. Len(p) + Len(q) : r[i] = IF i <= Len(p) THEN p[i] ELSE q[i - Len(p)]
  BY ConcatProperties
<1>. HIDE DEF r
<1>3. ASSUME NEW l \in 0 .. Len(p) PROVE SubSeq(r, 1, l) = SubSeq(p, 1, l)
  <2>. DEFINE a == SubSeq(r, 1, l)
              b == SubSeq(p, 1, l)
  <2>1. l \in 0 .. Len(r)
    BY <1>1, <1>2
  <2>2. /\ a \in Seq(Nat) /\ Len(a) = l /\ \A i \in 1 .. l : a[i] = r[i]
        /\ b \in Seq(Nat) /\ Len(b) = l /\ \A i \in 1 .. l : b[i] = p[i]
    BY <1>2, <2>1, StartIs
  <2>. HIDE DEF a, b
  <2>3. ASSUME NEW i \in 1 .. Len(a) PROVE a[i] = b[i]
    <3>1. i \in 1 .. l /\ i \in 1 .. Len(p) + Len(q) /\ i <= Len(p)
      BY <1>1, <2>2
    <3>. QED
      BY <1>2, <2>2, <3>1
  <2>. QED
    BY <2>2, <2>3, SeqEqual DEF a, b
<1>4. ASSUME NEW k \in 0 .. Len(q) PROVE SubSeq(r, 1, Len(p) + k) = p \o SubSeq(q, 1, k)
  <2>. DEFINE a == SubSeq(r, 1, Len(p) + k)
              c == SubSeq(q, 1, k)
              b == p \o c
  <2>1. Len(p) + k \in 0 .. Len(r)
    BY <1>1, <1>2
  <2>2. /\ a \in Seq(Nat) /\ Len(a) = Len(p) + k /\ \A i \in 1 .. Len(p) + k : a[i] = r[i]
    BY <1>2, <2>1, StartIs
  <2>3. c \in Seq(Nat) /\ Len(c) = k /\ \A i \in 1 .. k : c[i] = q[i]
    BY StartIs
  <2>. HIDE DEF a, c
  <2>4. /\ b \in Seq(Nat) /\ Len(b) = Len(p) + Len(c)
        /\ \A i \in 1 .. Len(p) + Len(c) : b[i] = IF i <= Len(p) THEN p[i] ELSE c[i - Len(p)]
    BY <2>3, ConcatProperties
  <2>. HIDE DEF b
  <2>5. ASSUME NEW i \in 1 .. Len(p) + k PROVE a[i] = b[i]
    <3>1. i \in 1 .. Len(p) + Len(q) /\ i \in 1 .. Len(p) + Len(c)
      BY <1>1, <2>3
    <3>2. CASE i <= Len(p)
      BY <1>2, <2>2, <2>4, <3>1, <3>2
    <3>3. CASE ~(i <= Len(p))
      <4>1. i - Len(p) \in 1 .. k
        BY <1>1, <3>3
      <4>. QED
        BY <1>2, <2>2, <2>3, <2>4, <3>1, <3>3, <4>1
    <3>. QED
      BY <3>2, <3>3
  <2>6. Len(a) = Len(b) /\ \A i \in 1 .. Len(a) : a[i] = b[i]
    BY <2>2, <2>3, <2>4, <2>5
  <2>7. a = b
    BY <2>2, <2>4, <2>6, SeqEqual
  <2>. QED
    BY <2>7 DEF a, b, c
<1>. QED
  BY <1>3, <1>4 DEF r

LEMMA JoinedTwice ==
    ASSUME NEW p \in Seq(Nat), NEW q \in Seq(Nat), NEW r \in Seq(Nat)
    PROVE  (p \o q) \o r = p \o (q \o r)
BY ConcatAssociative, SMTT(30)

\* Token sequences, joined.
LEMMA Joined ==
    ASSUME NEW p \in Seq(Nat), NEW q \in Seq(Nat)
    PROVE  /\ p \o q \in Seq(Nat) /\ Len(p \o q) = Len(p) + Len(q)
           /\ \A k \in 0 .. Len(q) : SubSeq(p \o q, 1, Len(p) + k) = p \o SubSeq(q, 1, k)
           /\ \A k \in 0 .. Len(p) : SubSeq(p \o q, 1, k) = SubSeq(p, 1, k)
           /\ \A s \in Seq(Nat) : (p \o q) \o s = p \o (q \o s)
<1>1. /\ p \o q \in Seq(Nat) /\ Len(p \o q) = Len(p) + Len(q)
  BY ConcatProperties
<1>2. \A k \in 0 .. Len(q) : SubSeq(p \o q, 1, Len(p) + k) = p \o SubSeq(q, 1, k)
  BY StartOfConcat
<1>3. \A k \in 0 .. Len(p) : SubSeq(p \o q, 1, k) = SubSeq(p, 1, k)
  BY StartOfConcat
<1>4. \A s \in Seq(Nat) : (p \o q) \o s = p \o (q \o s)
  BY JoinedTwice
<1>. QED
  BY <1>1, <1>2, <1>3, <1>4

LEMMA PrefixesAre ==
    ASSUME NEW p
    PROVE  \A q : q \in Prefixes(p) <=> \E l \in 0 .. Len(p) : q = SubSeq(p, 1, l)
BY DEF Prefixes

\* A beginning has the shorter prefixes.
LEMMA PrefixesOfStart ==
    ASSUME NEW S, NEW p \in Seq(S), NEW k \in 0 .. Len(p)
    PROVE  \A q \in Prefixes(SubSeq(p, 1, k)) : q \in Prefixes(p)
<1>1. Len(p) \in Nat /\ Len(SubSeq(p, 1, k)) = k
  BY LenProperties, StartIs
<1>. TAKE q \in Prefixes(SubSeq(p, 1, k))
<1>2. PICK l \in 0 .. k : q = SubSeq(SubSeq(p, 1, k), 1, l)
  BY <1>1, PrefixesAre
<1>3. q = SubSeq(p, 1, l) /\ l \in 0 .. Len(p)
  BY <1>1, <1>2, StartOfStart
<1>. QED
  BY <1>3, PrefixesAre

LEMMA PrefixOfSelf ==
    ASSUME NEW S, NEW p \in Seq(S)
    PROVE  p \in Prefixes(p) /\ <<>> \in Prefixes(p)
<1>1. Len(p) \in Nat /\ SubSeq(p, 1, Len(p)) = p /\ SubSeq(p, 1, 0) = <<>>
  BY LenProperties, SubSeqFull, SubSeqEmpty
<1>2. Len(p) \in 0 .. Len(p) /\ 0 \in 0 .. Len(p)
  BY <1>1
<1>. QED
  BY <1>1, <1>2, PrefixesAre
-----------------------------------------------------------------------------
(* What a path spells *)

\* p gives every node the tokens from the root down to it.
Spells(t, p) ==
    /\ p \in [Nodes -> Seq(Nat)]
    /\ \A x \in Nodes : p[x] = IF x = ROOT \/ t[x].parent = INVALID THEN t[x].tokens
                               ELSE p[t[x].parent] \o t[x].tokens

\* A dead node hangs nowhere.
Clean(t) == \A x \in Nodes : ~t[x].alive => t[x].parent = INVALID

Spelt(t, p) == Clean(t) /\ Spells(t, p)

\* A node's parent is the root or another node in use, and it spells less.
Hanging(t, p, x) ==
    /\ x \in Nodes /\ x # ROOT /\ t[x].alive
    /\ t[x].parent \in Nodes /\ t[x].parent \in AliveNodes(t) \cup {ROOT}
    /\ x \in ToSet(t[t[x].parent].kids)
    /\ t[x].tokens \in Seq(Nat) /\ Len(t[x].tokens) \in Nat \ {0}
    /\ p[t[x].parent] \in Seq(Nat) /\ p[x] \in Seq(Nat)
    /\ p[x] = p[t[x].parent] \o t[x].tokens
    /\ Len(p[t[x].parent]) \in Nat
    /\ Len(p[x]) = Len(p[t[x].parent]) + Len(t[x].tokens)
    /\ p[ROOT] = <<>>

LEMMA ParentIs ==
    ASSUME NEW t \in [Nodes -> TreeNodes], Formed(t, {}), NEW p, Spells(t, p),
           NEW x \in AliveNodes(t)
    PROVE  Hanging(t, p, x)
<1>. DEFINE y == t[x].parent
<1>1. x \in Nodes /\ x # ROOT /\ t[x].alive
  BY Zenon DEF AliveNodes
<1>2. /\ y # INVALID /\ x \in ToSet(t[y].kids) /\ NodeShape(t[x])
      /\ t[ROOT].tokens = <<>> /\ t[ROOT].parent = INVALID
      /\ \A z \in Nodes : ~t[z].alive => t[z].kids = <<>>
  BY DEF Formed
<1>3. y \in Nodes /\ t[x].tokens \in Seq(Nat)
  BY <1>1, <1>2, NodeFields
<1>4. t[y].alive
  <2>1. t[y].kids # <<>>
    <3>1. ToSet(<<>>) = {}
      BY DEF ToSet
    <3>. QED
      BY <1>2, <3>1
  <2>. QED
    BY <1>2, <1>3, <2>1
<1>5. y \in AliveNodes(t) \cup {ROOT}
  BY <1>3, <1>4 DEF AliveNodes
<1>6. Len(t[x].tokens) \in Nat \ {0}
  BY <1>2, TheConstants DEF NodeShape
<1>7. p[x] = p[y] \o t[x].tokens /\ p[y] \in Seq(Nat) /\ p[x] \in Seq(Nat)
      /\ p[ROOT] = <<>>
  BY <1>1, <1>2, <1>3, TheConstants DEF Spells
<1>8. Len(p[y]) \in Nat /\ Len(p[x]) = Len(p[y]) + Len(t[x].tokens)
  BY <1>3, <1>7, LenProperties, ConcatProperties
<1>. QED
  BY <1>1, <1>2, <1>3, <1>5, <1>6, <1>7, <1>8 DEF Hanging

\* There is only one way to spell a tree.
LEMMA OneSpelling ==
    ASSUME NEW t \in [Nodes -> TreeNodes], Formed(t, {}), NEW p, Spells(t, p),
           NEW q, \A x \in Nodes : q[x] = IF x = ROOT \/ t[x].parent = INVALID
                                          THEN t[x].tokens
                                          ELSE q[t[x].parent] \o t[x].tokens
    PROVE  \A x \in AliveNodes(t) : q[x] = p[x]
<1>. DEFINE Bad == {x \in AliveNodes(t) : q[x] # p[x]}
            L == {Len(p[x]) : x \in Bad}
<1>. SUFFICES ASSUME Bad # {} PROVE FALSE
  OBVIOUS
<1>1. L \in SUBSET Nat /\ L # {}
  <2>1. \A x \in AliveNodes(t) : Len(p[x]) \in Nat
    BY ParentIs, LenProperties DEF Hanging
  <2>. QED
    BY <2>1
<1>2. PICK l \in L : \A k \in L : l <= k
  <2>. HIDE DEF L
  <2>. QED
    BY <1>1, LeastOf
<1>3. PICK x \in Bad : l = Len(p[x])
  BY <1>2
<1>4. x \in AliveNodes(t) /\ q[x] # p[x]
  BY <1>3
<1>. HIDE DEF L
<1>. DEFINE y == t[x].parent
<1>5. /\ x \in Nodes /\ x # ROOT /\ y \in Nodes /\ y \in AliveNodes(t) \cup {ROOT}
      /\ Len(t[x].tokens) \in Nat \ {0} /\ p[x] = p[y] \o t[x].tokens
      /\ Len(p[y]) \in Nat /\ Len(p[x]) = Len(p[y]) + Len(t[x].tokens) /\ p[ROOT] = <<>>
  <2>1. Hanging(t, p, x)
    BY <1>4, ParentIs
  <2>. QED
    BY <2>1 DEF Hanging
<1>7. q[x] = q[y] \o t[x].tokens
  BY <1>5, TheConstants
<1>8. q[y] # p[y]
  BY <1>4, <1>5, <1>7, ZenonT(60)
<1>9. q[ROOT] = p[ROOT]
  <2>1. q[ROOT] = t[ROOT].tokens /\ t[ROOT].tokens = <<>>
    BY TheConstants DEF Formed
  <2>. QED
    BY <1>5, <2>1
<1>10. y \in Bad
  BY <1>5, <1>8, <1>9
<1>11. l <= Len(p[y])
  BY <1>2, <1>10 DEF L
<1>. DEFINE a == Len(p[y])
            b == Len(t[x].tokens)
<1>12. l = a + b /\ a \in Nat /\ b \in Nat \ {0} /\ l <= a
  BY ONLY <1>3, <1>5, <1>11
<1>. QED
  <2>. HIDE DEF a, b
  <2>. QED
    BY ONLY <1>12

LEMMA TokensToIs ==
    ASSUME NEW t \in [Nodes -> TreeNodes], Formed(t, {}), NEW p, Spells(t, p)
    PROVE  \A x \in AliveNodes(t) : TokensTo(t, x) = p[x]
<1>. DEFINE path == CHOOSE path : path = [x \in Nodes |->
                       IF x = ROOT \/ t[x].parent = INVALID THEN t[x].tokens
                       ELSE path[t[x].parent] \o t[x].tokens]
<1>1. p = [x \in Nodes |-> IF x = ROOT \/ t[x].parent = INVALID THEN t[x].tokens
                           ELSE p[t[x].parent] \o t[x].tokens]
  BY ZenonT(60) DEF Spells
<1>2. path = [x \in Nodes |-> IF x = ROOT \/ t[x].parent = INVALID THEN t[x].tokens
                              ELSE path[t[x].parent] \o t[x].tokens]
  <2>1. \E e : e = [x \in Nodes |-> IF x = ROOT \/ t[x].parent = INVALID THEN t[x].tokens
                                    ELSE e[t[x].parent] \o t[x].tokens]
    BY <1>1, ZenonT(60)
  <2>. QED
    BY <2>1, ZenonT(60)
<1>3. \A x : TokensTo(t, x) = path[x]
  BY DEF TokensTo
<1>5. \A x \in Nodes : path[x] = IF x = ROOT \/ t[x].parent = INVALID THEN t[x].tokens
                                 ELSE path[t[x].parent] \o t[x].tokens
  BY <1>2, ZenonT(60)
<1>. HIDE DEF path
<1>4. \A x \in AliveNodes(t) : path[x] = p[x]
  BY <1>5, OneSpelling
<1>. QED
  BY <1>3, <1>4

\* What the cache can serve, by what is spelt.
LEMMA CachedIs ==
    ASSUME NEW t \in [Nodes -> TreeNodes], Formed(t, {}), NEW p, Spells(t, p)
    PROVE  \A q : q \in Cached(t) <=> q = <<>> \/ \E x \in AliveNodes(t) : q \in Prefixes(p[x])
<1>1. \A x \in AliveNodes(t) : TokensTo(t, x) = p[x]
  BY TokensToIs
<1>2. \A q : q \in Cached(t) <=> \/ q = <<>>
                                 \/ \E x \in AliveNodes(t) : q \in Prefixes(TokensTo(t, x))
  BY DEF Cached
<1>. QED
  BY <1>1, <1>2
-----------------------------------------------------------------------------
(* What the tree's operations do to it *)

LEMMA SpeltSame ==
    ASSUME NEW t \in [Nodes -> TreeNodes], Formed(t, {}), NEW p, Spelt(t, p),
           NEW u \in [Nodes -> TreeNodes], SameTree(t, u)
    PROVE  /\ Spelt(u, p) /\ Formed(u, {}) /\ AliveNodes(u) = AliveNodes(t)
           /\ \A q : q \in Cached(u) <=> q \in Cached(t)
<1>1. Formed(u, {}) /\ AliveNodes(u) = AliveNodes(t)
  BY SameTreeOK
<1>2. \A x \in Nodes : u[x].alive = t[x].alive /\ u[x].parent = t[x].parent
                       /\ u[x].tokens = t[x].tokens
  BY Zenon DEF SameTree, SameNode
<1>3. Clean(u)
  BY <1>2 DEF Clean, Spelt
<1>4. Spells(t, p)
  BY DEF Spelt
<1>5. Spells(u, p)
  BY <1>2, <1>4 DEF Spells
<1>6. \A q : q \in Cached(u) <=> q \in Cached(t)
  BY <1>1, <1>4, <1>5, CachedIs
<1>. QED
  BY <1>1, <1>3, <1>5, <1>6 DEF Spelt

\* The parent of a node that has one is in use, and has it as a child.
LEMMA HangsOn ==
    ASSUME NEW t \in [Nodes -> TreeNodes], Formed(t, {}), Clean(t), NEW y \in Nodes,
           t[y].parent # INVALID
    PROVE  /\ t[y].parent \in Up(t) /\ y \in ToSet(t[t[y].parent].kids)
           /\ y \in AliveNodes(t)
<1>1. t[y].alive /\ y # ROOT
  BY DEF Clean, Formed
<1>2. y \in AliveNodes(t)
  BY <1>1 DEF AliveNodes
<1>3. y \in ToSet(t[t[y].parent].kids)
  BY <1>2 DEF Formed
<1>4. t[y].parent \in Nodes
  BY NodeFields
<1>5. t[t[y].parent].alive
  <2>1. t[t[y].parent].kids # <<>>
    <3>1. ToSet(<<>>) = {}
      BY DEF ToSet
    <3>. QED
      BY <1>3, <3>1
  <2>. QED
    BY <1>4, <2>1 DEF Formed
<1>. QED
  BY <1>2, <1>3, <1>4, <1>5 DEF Up

\* p, but x spells n tokens less, and c what x did.
SpeltInTwo(p, r, x, n, c) == r = [p EXCEPT ![x] = SubSeq(p[x], 1, n), ![c] = p[x]]

\* A split leaves what is spelt: the new node spells what the divided one did.
LEMMA SplitSpelt ==
    ASSUME NEW t \in [Nodes -> TreeNodes], Formed(t, {}), NEW p, Spelt(t, p),
           NEW x \in AliveNodes(t), NEW k \in 1 .. Len(t[x].tokens) - 1,
           NEW c \in Nodes \ Up(t), NEW u, SplitIs(t, u, x, k, c),
           NEW r, SpeltInTwo(p, r, x, Len(p[t[x].parent]) + k, c)
    PROVE  /\ Spelt(u, r) /\ Formed(u, {}) /\ AliveNodes(u) = AliveNodes(t) \cup {c}
           /\ \A q : q \in Cached(u) <=> q \in Cached(t)
<1>. DEFINE w == t[x].parent
            tok == t[x].tokens
            top == SubSeq(tok, 1, k)
            rest == SubSeq(tok, k + 1, Len(tok))
<1>1. Clean(t) /\ Spells(t, p)
  BY DEF Spelt
<1>2. /\ x \in Nodes /\ x # ROOT /\ t[x].alive
      /\ w \in Nodes /\ w \in AliveNodes(t) \cup {ROOT} /\ x \in ToSet(t[w].kids)
      /\ tok \in Seq(Nat) /\ Len(tok) \in Nat \ {0}
      /\ p[w] \in Seq(Nat) /\ p[x] \in Seq(Nat) /\ p[x] = p[w] \o tok
      /\ Len(p[w]) \in Nat /\ Len(p[x]) = Len(p[w]) + Len(tok) /\ p[ROOT] = <<>>
  <2>1. Hanging(t, p, x)
    BY <1>1, ParentIs
  <2>. QED
    BY <2>1 DEF Hanging
<1>3. /\ u \in [Nodes -> TreeNodes]
      /\ u[c].alive /\ u[c].parent = x /\ u[c].tokens = rest
      /\ u[x].alive /\ u[x].parent = w /\ u[x].tokens = top
      /\ \A y \in Nodes \ {x, c} :
           /\ u[y].parent = (IF y \in ToSet(t[x].kids) THEN c ELSE t[y].parent)
           /\ u[y].tokens = t[y].tokens /\ (u[y].alive <=> t[y].alive)
  BY Zenon DEF SplitIs, IsNode, Moved
<1>4. Formed(u, {}) /\ AliveNodes(u) = AliveNodes(t) \cup {c}
  BY SplitFormed
<1>5. /\ t[ROOT].alive /\ t[ROOT].parent = INVALID
      /\ \A y \in Nodes : \A z \in ToSet(t[y].kids) : t[z].alive /\ t[z].parent = y
      /\ \A y \in Nodes : t[y].parent # y
  BY DEF Formed
<1>6. c \in Nodes /\ c # ROOT /\ c # x /\ ~t[c].alive /\ c # w
  BY <1>2, <1>5, TheConstants DEF Up, AliveNodes
<1>7. /\ k \in 0 .. Len(tok) /\ top \in Seq(Nat) /\ rest \in Seq(Nat)
      /\ top \o rest = tok
  <2>1. k \in 0 .. Len(tok) /\ k \in 1 - 1 .. Len(tok) /\ Len(tok) \in k .. Len(tok)
        /\ 1 \in 1 .. Len(tok) + 1 /\ k + 1 \in 1 .. Len(tok) + 1 /\ Len(tok) \in 0 .. Len(tok)
        /\ k + 1 <= Len(tok) + 1
    BY <1>2, SMTT(60)
  <2>2. top \in Seq(Nat)
    BY <1>2, <2>1, StartIs
  <2>3. rest \in Seq(Nat)
    BY <1>2, <2>1, PartIs
  <2>4. SubSeq(tok, 1, k) \o SubSeq(tok, k + 1, Len(tok)) = SubSeq(tok, 1, Len(tok))
    <3>. DEFINE l == Len(tok)
                one == 1
    <3>. HIDE DEF tok, l
    <3>1. SubSeq(tok, 1, k) \o SubSeq(tok, k + 1, l) = SubSeq(tok, 1, l)
      BY <1>2, <2>1, ConcatAdjacentSubSeq DEF l
    <3>. QED
      BY <3>1 DEF l
  <2>5. SubSeq(tok, 1, Len(tok)) = tok
    BY <1>2, SubSeqFull
  <2>. QED
    BY <2>1, <2>2, <2>3, <2>4, <2>5
<1>8. SubSeq(p[x], 1, Len(p[w]) + k) = p[w] \o top
      /\ Len(p[w]) + k \in 0 .. Len(p[x])
  <2>. DEFINE b == p[w]
  <2>1. b \in Seq(Nat) /\ tok \in Seq(Nat) /\ k \in 0 .. Len(tok) /\ p[x] = b \o tok
    BY <1>2, <1>7
  <2>. HIDE DEF b, tok, w
  <2>a. b \in Seq(Nat) /\ tok \in Seq(Nat) /\ k \in 0 .. Len(tok)
    BY <2>1
  <2>2. SubSeq(b \o tok, 1, Len(b) + k) = b \o SubSeq(tok, 1, k)
    BY ONLY <2>a, Joined, ZenonT(60)
  <2>3. Len(b) + k \in 0 .. Len(p[x])
    BY <1>2, <2>1, SMTT(60) DEF b
  <2>. QED
    BY <2>1, <2>2, <2>3 DEF b
<1>. HIDE DEF top, rest
<1>9. /\ r[x] = p[w] \o top /\ r[c] = p[x]
      /\ \A y \in Nodes \ {x, c} : r[y] = p[y]
      /\ r \in [Nodes -> Seq(Nat)]
  <2>1. p \in [Nodes -> Seq(Nat)]
    BY <1>1 DEF Spells
  <2>2. p[w] \o top \in Seq(Nat)
    BY <1>2, <1>7, ConcatProperties, SMTT(60)
  <2>. QED
    BY <1>2, <1>6, <1>8, <2>1, <2>2, ZenonT(60) DEF SpeltInTwo
<1>10. r[c] = r[x] \o rest
  <2>. DEFINE b == p[w]
  <2>1. b \in Seq(Nat) /\ p[x] = b \o tok
    BY <1>2
  <2>. HIDE DEF b
  <2>a. b \in Seq(Nat) /\ top \in Seq(Nat) /\ rest \in Seq(Nat)
    BY <1>7, <2>1
  <2>2. (b \o top) \o rest = b \o (top \o rest)
    BY ONLY <2>a, Joined, ZenonT(60)
  <2>. QED
    BY <1>7, <1>9, <2>1, <2>2 DEF b
<1>11. r[x] = r[w] \o top
  BY <1>2, <1>5, <1>6, <1>9
<1>12. ASSUME NEW y \in Nodes \ {x, c}
       PROVE  r[y] = IF y = ROOT \/ u[y].parent = INVALID THEN u[y].tokens
                     ELSE r[u[y].parent] \o u[y].tokens
  <2>1. p[y] = IF y = ROOT \/ t[y].parent = INVALID THEN t[y].tokens
               ELSE p[t[y].parent] \o t[y].tokens
    BY <1>1 DEF Spells
  <2>2. CASE y \in ToSet(t[x].kids)
    <3>1. t[y].parent = x /\ u[y].parent = c /\ y # ROOT /\ x # INVALID /\ c # INVALID
      <4>1. t[y].parent = x /\ u[y].parent = c
        BY <1>2, <1>3, <1>5, <2>2
      <4>2. x # INVALID /\ c # INVALID
        BY <1>2, <1>6, TheConstants
      <4>3. y # ROOT
        BY <1>5, <4>1, <4>2
      <4>. QED
        BY <4>1, <4>2, <4>3
    <3>. QED
      BY <1>3, <1>9, <2>1, <3>1, ZenonT(60)
  <2>3. CASE y \notin ToSet(t[x].kids) /\ t[y].parent = INVALID
    BY <1>3, <1>9, <2>1, <2>3
  <2>4. CASE y \notin ToSet(t[x].kids) /\ t[y].parent # INVALID
    <3>1. t[y].parent \in Up(t) /\ y \in ToSet(t[t[y].parent].kids) /\ y \in AliveNodes(t)
      BY <1>1, <2>4, HangsOn
    <3>2. t[y].parent # x /\ t[y].parent \in Nodes \ {x, c}
      BY <2>4, <3>1 DEF Up
    <3>. QED
      BY <1>3, <1>9, <2>1, <2>4, <3>2
  <2>. QED
    BY <2>2, <2>3, <2>4
<1>13. Spells(u, r)
  <2>1. c # INVALID /\ x # INVALID /\ w # INVALID
    BY <1>2, <1>6, TheConstants
  <2>. QED
    <3>1. \A y \in Nodes : r[y] = IF y = ROOT \/ u[y].parent = INVALID THEN u[y].tokens
                                  ELSE r[u[y].parent] \o u[y].tokens
      <4>1. \A y \in {x, c} : r[y] = IF y = ROOT \/ u[y].parent = INVALID THEN u[y].tokens
                                    ELSE r[u[y].parent] \o u[y].tokens
        BY ONLY <1>2, <1>3, <1>6, <1>10, <1>11, <2>1, ZenonT(60)
      <4>. QED
        BY <1>12, <4>1, Zenon
    <3>. QED
      BY <1>9, <3>1 DEF Spells
<1>14. Clean(u)
  <2>1. ASSUME NEW y \in Nodes, ~u[y].alive PROVE u[y].parent = INVALID
    <3>1. y \in Nodes \ {x, c} /\ ~t[y].alive
      BY <1>3, <2>1
    <3>2. y \notin ToSet(t[x].kids) /\ t[y].parent = INVALID
      BY <1>1, <1>2, <1>5, <3>1 DEF Clean
    <3>. QED
      BY <1>3, <3>1, <3>2
  <2>. QED
    BY <2>1 DEF Clean
<1>15. ASSUME NEW q PROVE q \in Cached(u) <=> q \in Cached(t)
  <2>1. q \in Cached(u) <=> q = <<>> \/ \E y \in AliveNodes(u) : q \in Prefixes(r[y])
    BY <1>3, <1>4, <1>13, CachedIs
  <2>2. q \in Cached(t) <=> q = <<>> \/ \E y \in AliveNodes(t) : q \in Prefixes(p[y])
    BY <1>1, CachedIs
  <2>3. \A y \in AliveNodes(t) \ {x} : r[y] = p[y]
    BY <1>6, <1>9, SMTT(60) DEF AliveNodes
  <2>4. q \in Prefixes(r[x]) => q \in Prefixes(p[x])
    BY <1>2, <1>8, <1>9, PrefixesOfStart, ZenonT(60)
  <2>. QED
    BY <1>4, <1>9, <2>1, <2>2, <2>3, <2>4
<1>. QED
  BY <1>4, <1>13, <1>14, <1>15 DEF Spelt

\* A new node spells its tokens after what its parent does.
SpeltBelow(p, r, a, c, tokens) == r = [p EXCEPT ![c] = p[a] \o tokens]

LEMMA AddSpelt ==
    ASSUME NEW t \in [Nodes -> TreeNodes], Formed(t, {}), NEW p, Spelt(t, p),
           NEW a \in Up(t), NEW c \in Nodes \ Up(t), NEW tokens \in Seq(Nat), NEW offset,
           NEW blocks, NEW u, AddIs(t, u, a, c, tokens, offset, blocks), Formed(u, {}),
           NEW r, SpeltBelow(p, r, a, c, tokens)
    PROVE  /\ Spelt(u, r) /\ AliveNodes(u) = AliveNodes(t) \cup {c}
           /\ r[c] \in Seq(Nat) /\ r[c] = p[a] \o tokens
           /\ \A q : q \in Cached(u) <=> q \in Cached(t) \/ q \in Prefixes(r[c])
<1>1. Clean(t) /\ Spells(t, p)
  BY DEF Spelt
<1>2. /\ u \in [Nodes -> TreeNodes]
      /\ u[c].alive /\ u[c].parent = a /\ u[c].tokens = tokens
      /\ \A y \in Nodes \ {c} : u[y].parent = t[y].parent /\ u[y].tokens = t[y].tokens
                                /\ (u[y].alive <=> t[y].alive)
  BY Zenon DEF AddIs, IsNode, Hung
<1>3. t[ROOT].alive /\ a \in Nodes /\ t[a].alive /\ c \in Nodes /\ ~t[c].alive
      /\ a # c /\ c # ROOT /\ a # INVALID
  BY TheConstants DEF Formed, Up
<1>4. AliveNodes(u) = AliveNodes(t) \cup {c}
  BY <1>2, <1>3 DEF AliveNodes
<1>5. p \in [Nodes -> Seq(Nat)] /\ p[a] \in Seq(Nat) /\ p[a] \o tokens \in Seq(Nat)
  <2>1. p \in [Nodes -> Seq(Nat)]
    BY <1>1 DEF Spells
  <2>2. p[a] \in Seq(Nat)
    BY <1>3, <2>1
  <2>. QED
    BY <2>1, <2>2, ConcatProperties
<1>6. /\ r \in [Nodes -> Seq(Nat)] /\ r[c] = p[a] \o tokens
      /\ \A y \in Nodes \ {c} : r[y] = p[y]
  BY <1>3, <1>5 DEF SpeltBelow
<1>7. ASSUME NEW y \in Nodes \ {c}
      PROVE  r[y] = IF y = ROOT \/ u[y].parent = INVALID THEN u[y].tokens
                    ELSE r[u[y].parent] \o u[y].tokens
  <2>1. p[y] = IF y = ROOT \/ t[y].parent = INVALID THEN t[y].tokens
               ELSE p[t[y].parent] \o t[y].tokens
    BY <1>1 DEF Spells
  <2>2. CASE t[y].parent = INVALID
    BY <1>2, <1>6, <2>1, <2>2
  <2>3. CASE t[y].parent # INVALID
    <3>1. t[y].parent \in Up(t)
      BY <1>1, <2>3, HangsOn
    <3>2. t[y].parent \in Nodes \ {c}
      BY <3>1 DEF Up
    <3>. QED
      BY <1>2, <1>6, <2>1, <2>3, <3>2
  <2>. QED
    BY <2>2, <2>3
<1>8. Spells(u, r)
  BY <1>2, <1>3, <1>6, <1>7 DEF Spells
<1>9. Clean(u)
  BY <1>1, <1>2 DEF Clean
<1>10. ASSUME NEW q PROVE q \in Cached(u) <=> q \in Cached(t) \/ q \in Prefixes(r[c])
  <2>1. q \in Cached(u) <=> q = <<>> \/ \E y \in AliveNodes(u) : q \in Prefixes(r[y])
    BY <1>2, <1>8, CachedIs
  <2>2. q \in Cached(t) <=> q = <<>> \/ \E y \in AliveNodes(t) : q \in Prefixes(p[y])
    BY <1>1, CachedIs
  <2>3. \A y \in AliveNodes(t) : r[y] = p[y]
    BY <1>3, <1>6 DEF AliveNodes
  <2>. QED
    BY <1>4, <2>1, <2>2, <2>3
<1>. QED
  BY <1>4, <1>5, <1>6, <1>8, <1>9, <1>10 DEF Spelt
-----------------------------------------------------------------------------
(* What match finds *)

LEMMA CommonIs ==
    ASSUME NEW a \in Seq(Nat), NEW b \in Seq(Nat), NEW k, k = CommonLen(a, b)
    PROVE  /\ k \in Nat /\ k <= Len(a) /\ k <= Len(b)
           /\ \A i \in 1 .. k : a[i] = b[i]
           /\ k < Len(a) /\ k < Len(b) => a[k + 1] # b[k + 1]
           /\ \A j \in Nat : /\ j <= Len(a) /\ j <= Len(b)
                             /\ \A i \in 1 .. j : a[i] = b[i]
                             => j <= k
<1>. DEFINE m == Min({Len(a), Len(b)})
            S == {j \in 0 .. m : \A i \in 1 .. j : a[i] = b[i]}
<1>1. Len(a) \in Nat /\ Len(b) \in Nat
  BY LenProperties
<1>2. m \in Nat /\ m <= Len(a) /\ m <= Len(b) /\ (m = Len(a) \/ m = Len(b))
  <2>. DEFINE x == Len(a)
              y == Len(b)
  <2>. HIDE DEF x, y
  <2>1. x \in Int /\ y \in Int
    BY <1>1 DEF x, y
  <2>2. Min({x, y}) = IF x <= y THEN x ELSE y
    BY <2>1, MinOfTwo
  <2>3. m = Min({x, y})
    BY DEF x, y
  <2>. QED
    BY <1>1, <2>2, <2>3 DEF x, y
<1>3. k = Max(S)
  BY DEF CommonLen
<1>. HIDE DEF m
<1>4. S \in SUBSET (0 .. m) /\ S # {}
  <2>1. 0 \in S
    BY <1>2
  <2>. QED
    BY <2>1
<1>5. k \in S /\ \A j \in S : j <= k
  <2>. HIDE DEF S
  <2>. QED
    BY <1>2, <1>3, <1>4, MaxOf
<1>6. k \in 0 .. m /\ \A i \in 1 .. k : a[i] = b[i]
  BY <1>5
<1>7. \A j \in Nat : /\ j <= Len(a) /\ j <= Len(b)
                     /\ \A i \in 1 .. j : a[i] = b[i]
                     => j <= k
  BY <1>1, <1>2, <1>5
<1>8. ASSUME k < Len(a), k < Len(b), a[k + 1] = b[k + 1] PROVE FALSE
  <2>1. \A i \in 1 .. k + 1 : a[i] = b[i]
    BY <1>2, <1>6, <1>8, SMTT(60)
  <2>2. k + 1 \in Nat /\ k + 1 <= Len(a) /\ k + 1 <= Len(b)
    BY <1>1, <1>2, <1>6, <1>8, SMTT(60)
  <2>3. k + 1 <= k
    BY <1>7, <2>1, <2>2
  <2>. QED
    BY <1>2, <1>6, <2>3
<1>. QED
  BY <1>1, <1>2, <1>6, <1>7, <1>8

LEMMA KidStartingIs ==
    ASSUME NEW t \in [Nodes -> TreeNodes], NEW x \in Nodes, NEW tok,
           NEW y, y = KidStartingWith(t, x, tok)
    PROVE  \/ y = INVALID /\ \A i \in 1 .. Len(t[x].kids) : t[t[x].kids[i]].tokens[1] # tok
           \/ \E i \in 1 .. Len(t[x].kids) : y = t[x].kids[i] /\ t[y].tokens[1] = tok
<1>. DEFINE hits == {i \in DOMAIN t[x].kids : t[t[x].kids[i]].tokens[1] = tok}
            n == Len(t[x].kids)
<1>1. n \in Nat /\ DOMAIN t[x].kids = 1 .. n
  BY NodeFields, LenProperties
<1>2. CASE hits = {}
  BY <1>1, <1>2, SMTT(60) DEF KidStartingWith
<1>3. CASE hits # {}
  <2>1. hits \in SUBSET (0 .. n)
    BY <1>1, SMTT(60)
  <2>2. y = t[x].kids[Max(hits)]
    BY <1>3 DEF KidStartingWith
  <2>3. Max(hits) \in hits
    <3>. HIDE DEF hits, n
    <3>. QED
      BY <1>1, <1>3, <2>1, MaxOf
  <2>. QED
    BY <1>1, <2>2, <2>3, ZenonT(60)
<1>. QED
  BY <1>2, <1>3

\* Hop h of a walk: what comes before it is spelt above its node, and it has
\* as many tokens of its node as agree.
Agreed(t, p, toks, h) ==
    /\ h.start <= Len(toks)
    /\ p[t[h.node].parent] = SubSeq(toks, 1, h.start)
    /\ h.used = CommonLen(t[h.node].tokens, SubSeq(toks, h.start + 1, Len(toks)))

HopFull(t, h) == h.used = Len(t[h.node].tokens)

\* Where a walk goes after hop h, k tokens in all.
Onward(t, toks, h, k) ==
    IF HopFull(t, h) /\ k < Len(toks) THEN KidStartingWith(t, h.node, toks[k + 1])
    ELSE INVALID

LEMMA RestIs ==
    ASSUME NEW p \in Seq(Nat), NEW s \in 0 .. Len(p)
    PROVE  /\ SubSeq(p, s + 1, Len(p)) \in Seq(Nat)
           /\ Len(SubSeq(p, s + 1, Len(p))) = Len(p) - s
           /\ \A i \in 1 .. Len(p) - s : SubSeq(p, s + 1, Len(p))[i] = p[s + i]
<1>1. Len(p) \in Nat
  BY LenProperties
<1>2. PICK i, j : i = s + 1 /\ j = Len(p)
  OBVIOUS
<1>3. i \in 1 .. Len(p) + 1 /\ j \in 0 .. Len(p) /\ i <= j + 1
      /\ (j + 1) - i = Len(p) - s /\ \A l \in 1 .. Len(p) - s : i + l - 1 = s + l
  BY <1>1, <1>2
<1>4. /\ SubSeq(p, i, j) \in Seq(Nat) /\ Len(SubSeq(p, i, j)) = (j + 1) - i
      /\ \A l \in 1 .. (j + 1) - i : SubSeq(p, i, j)[l] = p[i + l - 1]
  BY <1>3, PartIs
<1>5. /\ SubSeq(p, i, j) \in Seq(Nat) /\ Len(SubSeq(p, i, j)) = Len(p) - s
      /\ \A l \in 1 .. Len(p) - s : SubSeq(p, i, j)[l] = p[s + l]
  BY <1>3, <1>4
<1>. QED
  BY <1>2, <1>5, Zenon

\* Where the tokens of a node agree with the rest, what it spells agrees with
\* the whole, and no further.
Meets(toks, a, b, s, rest, used, q, k) ==
    /\ s <= Len(toks) /\ a = SubSeq(toks, 1, s)
    /\ rest = SubSeq(toks, s + 1, Len(toks))
    /\ used = CommonLen(b, rest)
    /\ q = a \o b /\ k = s + used

MeetsTo(toks, a, b, s, rest, used, q, k) ==
    /\ k \in Nat /\ k <= Len(toks) /\ k <= Len(q)
    /\ k = CommonLen(q, toks)
    /\ SubSeq(q, 1, k) = SubSeq(toks, 1, k)
    /\ (used = Len(b) <=> k = Len(q))
    /\ k = Len(q) => q = SubSeq(toks, 1, k)
    /\ s = Len(a) /\ used \in Nat /\ used <= Len(b) /\ q \in Seq(Nat)
    /\ Len(b) > 0 /\ Len(rest) > 0 /\ b[1] = rest[1] => used > 0

LEMMA AgreesBelow ==
    ASSUME NEW toks \in Seq(Nat), NEW a \in Seq(Nat), NEW b \in Seq(Nat), NEW s \in Nat,
           NEW rest, NEW used, NEW q, NEW k, Meets(toks, a, b, s, rest, used, q, k)
    PROVE  MeetsTo(toks, a, b, s, rest, used, q, k)
<1>4. Len(toks) \in Nat /\ Len(a) \in Nat /\ Len(b) \in Nat /\ s \in Nat
  BY LenProperties
<1>3. s <= Len(toks)
  BY DEF Meets
<1>5. Len(a) = s /\ \A i \in 1 .. s : a[i] = toks[i]
  <2>1. s \in 0 .. Len(toks)
    BY <1>3, <1>4
  <2>2. a = SubSeq(toks, 1, s)
    BY DEF Meets
  <2>. QED
    BY <2>1, <2>2, StartIs
<1>6. /\ rest \in Seq(Nat) /\ Len(rest) = Len(toks) - s
      /\ \A i \in 1 .. Len(toks) - s : rest[i] = toks[s + i]
  <2>1. s \in 0 .. Len(toks)
    BY <1>3, <1>4
  <2>2. rest = SubSeq(toks, s + 1, Len(toks))
    BY DEF Meets
  <2>. QED
    BY <2>1, <2>2, RestIs
<1>7. /\ used \in Nat /\ used <= Len(b) /\ used <= Len(rest)
      /\ \A i \in 1 .. used : b[i] = rest[i]
      /\ used < Len(b) /\ used < Len(rest) => b[used + 1] # rest[used + 1]
  <2>1. used = CommonLen(b, rest)
    BY DEF Meets
  <2>. QED
    BY <1>6, <2>1, CommonIs
<1>8. /\ q \in Seq(Nat) /\ Len(q) = Len(a) + Len(b)
      /\ \A i \in 1 .. Len(a) + Len(b) : q[i] = IF i <= Len(a) THEN a[i] ELSE b[i - Len(a)]
  <2>1. q = a \o b
    BY DEF Meets
  <2>. QED
    BY <2>1, ConcatProperties
<1>9. k \in Nat /\ k <= Len(toks) /\ k <= Len(q) /\ k = s + used
  <2>1. k = s + used
    BY DEF Meets
  <2>2. s \in Nat /\ used \in Nat /\ used <= Len(b) /\ used <= Len(rest)
        /\ Len(rest) = Len(toks) - s /\ Len(q) = Len(a) + Len(b) /\ Len(a) = s
        /\ Len(toks) \in Nat /\ Len(b) \in Nat
    BY ONLY <1>4, <1>5, <1>6, <1>7, <1>8
  <2>. QED
    BY ONLY <2>1, <2>2
<1>20. /\ s \in Nat /\ used \in Nat /\ used <= Len(b) /\ used <= Len(rest)
       /\ Len(rest) = Len(toks) - s /\ Len(q) = Len(a) + Len(b) /\ Len(a) = s
       /\ Len(toks) \in Nat /\ Len(b) \in Nat /\ k = s + used /\ s <= Len(toks)
  BY ONLY <1>3, <1>4, <1>5, <1>6, <1>7, <1>8, <1>9
<1>10. ASSUME NEW i \in 1 .. k PROVE q[i] = toks[i]
  <2>0. i \in 1 .. Len(a) + Len(b)
    BY <1>8, <1>9, <1>4
  <2>1. CASE i <= s
    BY <1>5, <1>8, <1>9, <2>0, <2>1, SMTT(60)
  <2>2. CASE ~(i <= s)
    <3>1. i - s \in 1 .. used /\ i - s \in 1 .. Len(toks) - s /\ s + (i - s) = i
      BY ONLY <1>4, <1>7, <1>9, <2>2, <1>3
    <3>2. q[i] = b[i - s] /\ b[i - s] = rest[i - s] /\ rest[i - s] = toks[s + (i - s)]
      BY <1>5, <1>6, <1>7, <1>8, <2>0, <2>2, <3>1
    <3>. QED
      BY <3>1, <3>2
  <2>. QED
    BY <2>1, <2>2
<1>11. ASSUME k < Len(q), k < Len(toks) PROVE q[k + 1] # toks[k + 1]
  <2>1. /\ used < Len(b) /\ used < Len(rest) /\ used + 1 \in 1 .. Len(toks) - s
        /\ k + 1 \in 1 .. Len(a) + Len(b) /\ ~(k + 1 <= Len(a))
    BY ONLY <1>20, <1>11
  <2>2. k + 1 - Len(a) = used + 1 /\ s + (used + 1) = k + 1
    BY ONLY <1>4, <1>5, <1>7, <1>9
  <2>3. q[k + 1] = b[used + 1]
    <3>1. \A i \in 1 .. Len(a) + Len(b) :
             q[i] = IF i <= Len(a) THEN a[i] ELSE b[i - Len(a)]
      BY <1>8
    <3>2. PICK n : n = k + 1
      OBVIOUS
    <3>3. n \in 1 .. Len(a) + Len(b) /\ ~(n <= Len(a)) /\ n - Len(a) = used + 1
      <4>1. n \in 1 .. Len(a) + Len(b)
        BY ONLY <2>1, <3>2, Zenon
      <4>2. n - Len(a) = used + 1 /\ ~(n <= Len(a))
        BY ONLY <1>20, <3>2
      <4>. QED
        BY <4>1, <4>2
    <3>4. q[n] = b[n - Len(a)]
      BY ONLY <3>1, <3>3
    <3>5. q[n] = b[used + 1]
      BY ONLY <3>3, <3>4, Zenon
    <3>. QED
      BY ONLY <3>2, <3>5, Zenon
  <2>4. rest[used + 1] = toks[k + 1]
    <3>1. rest[used + 1] = toks[s + (used + 1)]
      BY ONLY <1>6, <2>1, Zenon
    <3>. QED
      BY ONLY <2>2, <3>1, Zenon
  <2>. QED
    BY <1>7, <2>1, <2>3, <2>4
<1>12. k = CommonLen(q, toks)
  <2>1. PICK c : c = CommonLen(q, toks)
    OBVIOUS
  <2>2. /\ c \in Nat /\ c <= Len(q) /\ c <= Len(toks)
        /\ \A i \in 1 .. c : q[i] = toks[i]
        /\ \A j \in Nat : /\ j <= Len(q) /\ j <= Len(toks)
                          /\ \A i \in 1 .. j : q[i] = toks[i]
                          => j <= c
    <3>1. q \in Seq(Nat)
      BY <1>8
    <3>. QED
      BY <2>1, <3>1, CommonIs
  <2>3. k <= c
    BY <1>9, <1>10, <2>2
  <2>4. CASE k < c
    <3>1. k < Len(q) /\ k < Len(toks) /\ k + 1 \in 1 .. c
      BY ONLY <1>20, <1>4, <1>9, <2>2, <2>4
    <3>. QED
      BY <1>11, <2>2, <3>1
  <2>. QED
    BY <1>9, <2>1, <2>2, <2>3, <2>4
<1>13. SubSeq(q, 1, k) = SubSeq(toks, 1, k)
  <2>. DEFINE c == SubSeq(q, 1, k)
              d == SubSeq(toks, 1, k)
  <2>1. k \in 0 .. Len(q) /\ k \in 0 .. Len(toks) /\ q \in Seq(Nat)
    BY <1>4, <1>8, <1>9
  <2>2. /\ c \in Seq(Nat) /\ Len(c) = k /\ \A i \in 1 .. k : c[i] = q[i]
        /\ d \in Seq(Nat) /\ Len(d) = k /\ \A i \in 1 .. k : d[i] = toks[i]
    BY <2>1, StartIs
  <2>. HIDE DEF c, d
  <2>3. ASSUME NEW i \in 1 .. Len(c) PROVE c[i] = d[i]
    BY <1>10, <2>2
  <2>. QED
    BY <2>2, <2>3, SeqEqual DEF c, d
<1>15. k = Len(q) => q = SubSeq(toks, 1, k)
  <2>1. SubSeq(q, 1, Len(q)) = q
    BY <1>8, SubSeqFull
  <2>. QED
    BY <1>13, <2>1
<1>16. used = Len(b) <=> k = Len(q)
  <2>1. ASSUME used = Len(b) PROVE k = Len(q)
    BY ONLY <1>20, <2>1
  <2>2. ASSUME k = Len(q) PROVE used = Len(b)
    BY ONLY <1>20, <2>2
  <2>. QED
    BY <2>1, <2>2
<1>17. Len(b) > 0 /\ Len(rest) > 0 /\ b[1] = rest[1] => used > 0
  BY ONLY <1>4, <1>6, <1>7, SMTT(60)
<1>18. b[1] = rest[1] /\ Len(b) > 0 /\ Len(rest) > 0 => used > 0
  BY <1>17
<1>. QED
  BY <1>5, <1>7, <1>8, <1>9, <1>12, <1>13, <1>15, <1>16, <1>18 DEF MeetsTo

\* What Agreed says of the node's path.
AgreedTo(t, p, toks, h, k) ==
    /\ k \in Nat /\ k <= Len(toks) /\ k <= Len(p[h.node])
    /\ k = CommonLen(p[h.node], toks)
    /\ SubSeq(p[h.node], 1, k) = SubSeq(toks, 1, k)
    /\ HopFull(t, h) => p[h.node] = SubSeq(toks, 1, k)
    /\ (HopFull(t, h) <=> k = Len(p[h.node]))
    /\ h.start = Len(p[t[h.node].parent])

\* The tokens a hop's node spells agree up to the hop's end, and no further.
LEMMA AgreedSpells ==
    ASSUME NEW t \in [Nodes -> TreeNodes], Formed(t, {}), NEW p, Spells(t, p),
           NEW toks \in Seq(Nat), NEW h \in Hops(t), Agreed(t, p, toks, h)
    PROVE  AgreedTo(t, p, toks, h, h.start + h.used)
<1>1. PICK x, a, b, s, used, rest, q, k :
         /\ x = h.node /\ a = p[t[x].parent] /\ b = t[x].tokens /\ s = h.start
         /\ used = h.used /\ rest = SubSeq(toks, s + 1, Len(toks)) /\ q = p[x]
         /\ k = h.start + h.used
  OBVIOUS
<1>2. x \in AliveNodes(t) /\ s \in Nat
  BY <1>1 DEF Hops
<1>3. a \in Seq(Nat) /\ b \in Seq(Nat) /\ q = a \o b
  <2>1. Hanging(t, p, x)
    BY <1>2, ParentIs
  <2>. QED
    BY <1>1, <2>1 DEF Hanging
<1>4. Meets(toks, a, b, s, rest, used, q, k)
  BY ONLY <1>1, <1>3, Agreed(t, p, toks, h) DEF Agreed, Meets
<1>7. MeetsTo(toks, a, b, s, rest, used, q, k)
  BY <1>2, <1>3, <1>4, AgreesBelow
<1>5. /\ k \in Nat /\ k <= Len(toks) /\ k <= Len(q)
      /\ k = CommonLen(q, toks)
      /\ SubSeq(q, 1, k) = SubSeq(toks, 1, k)
      /\ (used = Len(b) <=> k = Len(q))
      /\ k = Len(q) => q = SubSeq(toks, 1, k)
      /\ s = Len(a)
  BY ONLY <1>7 DEF MeetsTo
<1>6. HopFull(t, h) <=> used = Len(b)
  BY <1>1 DEF HopFull
<1>. QED
  BY <1>1, <1>5, <1>6 DEF AgreedTo

\* A walk ends where it has no child to go on with: the root's first child
\* does not agree, or the last hop's node has no child for the next token.
Ended(t, toks, w) ==
    IF w.path = <<>>
    THEN FirstKid(t, ROOT) = INVALID \/ CommonLen(t[FirstKid(t, ROOT)].tokens, toks) = 0
    ELSE Onward(t, toks, Last(w.path), w.matched) = INVALID

\* What the node a walk has come to follows on.
Coming(t, p, toks, w) ==
    /\ p[t[w.cur].parent] = SubSeq(toks, 1, w.matched)
    /\ w.path = <<>> => w.cur = FirstKid(t, ROOT) /\ w.matched = 0
    /\ w.path # <<>> => w.cur = Onward(t, toks, Last(w.path), w.matched)

WalkAgrees(t, p, toks, w) ==
    /\ WalkOK(t, toks, w)
    /\ w.path # <<>> => Agreed(t, p, toks, Last(w.path))
    /\ w.cur # INVALID => Coming(t, p, toks, w)
    /\ w.cur = INVALID => Ended(t, toks, w)

LEMMA KidHangs ==
    ASSUME NEW t \in [Nodes -> TreeNodes], Formed(t, {}), NEW x \in Nodes,
           NEW i \in 1 .. Len(t[x].kids), NEW y, y = t[x].kids[i]
    PROVE  y \in AliveNodes(t) /\ y \in Nodes /\ t[y].parent = x /\ y \in ToSet(t[x].kids)
           /\ t[y].tokens \in Seq(Nat) /\ Len(t[y].tokens) \in Nat \ {0}
<1>1. t[x].kids \in Seq(Nodes)
  BY NodeFields
<1>2. y \in Nodes /\ y \in ToSet(t[x].kids)
  <2>1. y \in ToSet(t[x].kids)
    BY <1>1, LenProperties DEF ToSet
  <2>. QED
    BY <1>1, <2>1, KidsIn
<1>3. t[y].alive /\ t[y].parent = x /\ y # ROOT
  <2>1. t[y].alive /\ t[y].parent = x
    BY <1>2 DEF Formed
  <2>2. x # INVALID /\ t[ROOT].parent = INVALID
    BY TheConstants DEF Formed
  <2>. QED
    BY <2>1, <2>2
<1>4. y \in AliveNodes(t)
  BY <1>2, <1>3 DEF AliveNodes
<1>5. Len(t[y].tokens) \in Nat \ {0}
  <2>1. NodeShape(t[y])
    BY <1>4 DEF Formed
  <2>. QED
    BY <2>1, TheConstants, SMTT(60) DEF NodeShape
<1>. QED
  BY <1>2, <1>3, <1>4, <1>5, NodeFields

\* One hop, in its two cases.
LEMMA HopIs ==
    ASSUME NEW t, NEW toks, NEW w, w.cur # INVALID,
           NEW S1, NEW S2, w \in [cur : S1, path : S2, matched : Nat],
           NEW used, used = CommonLen(t[w.cur].tokens, SubSeq(toks, w.matched + 1, Len(toks))),
           NEW h, h = [node |-> w.cur, start |-> w.matched, used |-> used]
    PROVE  /\ used = 0 => Hop(t, toks, w)
                            = [cur |-> INVALID, path |-> w.path, matched |-> w.matched]
           /\ used # 0 => Hop(t, toks, w)
                            = [ cur |-> Onward(t, toks, h, w.matched + used),
                                path |-> Append(w.path, h), matched |-> w.matched + used ]
<1>1. ASSUME used = 0 PROVE Hop(t, toks, w) = [cur |-> INVALID, path |-> w.path, matched |-> w.matched]
  <2>1. Hop(t, toks, w) = [w EXCEPT !.cur = INVALID]
    BY <1>1 DEF Hop
  <2>. QED
    BY <2>1
<1>2. ASSUME used # 0
      PROVE  Hop(t, toks, w) = [ cur |-> Onward(t, toks, h, w.matched + used),
                                 path |-> Append(w.path, h), matched |-> w.matched + used ]
  BY <1>2 DEF Hop, Onward, HopFull
<1>. QED
  BY <1>1, <1>2

\* A child that starts with the next token agrees to one token at least.
LEMMA OnwardAgrees ==
    ASSUME NEW t \in [Nodes -> TreeNodes], Formed(t, {}), NEW toks \in Seq(Nat),
           NEW h \in Hops(t), NEW m \in Nat, NEW x, x = Onward(t, toks, h, m), x # INVALID
    PROVE  /\ HopFull(t, h) /\ m < Len(toks)
           /\ x \in AliveNodes(t) /\ t[x].parent = h.node
           /\ CommonLen(t[x].tokens, SubSeq(toks, m + 1, Len(toks))) > 0
<1>1. HopFull(t, h) /\ m < Len(toks) /\ x = KidStartingWith(t, h.node, toks[m + 1])
  BY DEF Onward
<1>2. h.node \in Nodes
  BY DEF Hops
<1>3. PICK i \in 1 .. Len(t[h.node].kids) : x = t[h.node].kids[i] /\ t[x].tokens[1] = toks[m + 1]
  BY <1>1, <1>2, KidStartingIs, SMTT(60)
<1>4. /\ x \in AliveNodes(t) /\ t[x].parent = h.node
      /\ t[x].tokens \in Seq(Nat) /\ Len(t[x].tokens) \in Nat \ {0}
  BY <1>2, <1>3, KidHangs, SMTT(60)
<1>5. PICK a, b, k : a = t[x].tokens /\ b = SubSeq(toks, m + 1, Len(toks)) /\ k = CommonLen(a, b)
  OBVIOUS
<1>6. Len(toks) \in Nat
  BY LenProperties
<1>7. b \in Seq(Nat) /\ Len(b) = Len(toks) - m /\ b[1] = toks[m + 1]
  <2>1. m \in 0 .. Len(toks) /\ 1 \in 1 .. Len(toks) - m
    BY <1>1, <1>6, SMTT(60)
  <2>. QED
    BY <1>5, <2>1, RestIs
<1>8. a \in Seq(Nat) /\ Len(a) \in Nat \ {0} /\ a[1] = b[1]
  BY <1>3, <1>4, <1>5, <1>7
<1>11. a \in Seq(Nat) /\ b \in Seq(Nat) /\ k = CommonLen(a, b)
  BY <1>5, <1>7, <1>8
<1>9. \A j \in Nat : /\ j <= Len(a) /\ j <= Len(b) /\ \A l \in 1 .. j : a[l] = b[l]
                     => j <= k
  BY <1>11, CommonIs
<1>10. k > 0
  <2>1. k \in Nat
    BY <1>11, CommonIs
  <2>2. 1 <= Len(a) /\ 1 <= Len(b) /\ \A l \in 1 .. 1 : a[l] = b[l]
    BY <1>1, <1>6, <1>7, <1>8
  <2>3. 1 <= k
    BY <1>9, <2>2
  <2>. QED
    BY <2>1, <2>3
<1>. QED
  BY <1>1, <1>4, <1>5, <1>10

LEMMA HopAgrees ==
    ASSUME NEW t \in [Nodes -> TreeNodes], Formed(t, {}), NEW p, Spells(t, p),
           NEW toks \in Seq(Nat), NEW w, WalkAgrees(t, p, toks, w),
           NEW v, v = Hop(t, toks, w)
    PROVE  /\ WalkAgrees(t, p, toks, v)
           /\ v.cur # INVALID => w.cur # INVALID /\ w.matched < v.matched
<1>1. /\ WalkOK(t, toks, w)
      /\ w \in [cur : AliveNodes(t) \cup {INVALID}, path : Seq(Hops(t)), matched : Nat]
      /\ w.matched <= Len(toks) /\ Len(toks) \in Nat
  BY LenProperties DEF WalkAgrees, WalkOK
<1>2. WalkOK(t, toks, v)
  BY <1>1, HopOK
<1>3. CASE w.cur = INVALID
  <2>1. v = w
    BY <1>3 DEF Hop
  <2>. QED
    BY <1>3, <2>1
<1>4. CASE w.cur # INVALID
  <2>. DEFINE x == w.cur
              m == w.matched
              rest == SubSeq(toks, m + 1, Len(toks))
  <2>1. PICK used, h : used = CommonLen(t[x].tokens, rest)
                       /\ h = [node |-> x, start |-> m, used |-> used]
    OBVIOUS
  <2>2. /\ used = 0 => v = [cur |-> INVALID, path |-> w.path, matched |-> m]
        /\ used # 0 => v = [ cur |-> Onward(t, toks, h, m + used),
                             path |-> Append(w.path, h), matched |-> m + used ]
    BY <1>1, <1>4, <2>1, HopIs
  <2>3. Coming(t, p, toks, w)
    BY <1>4 DEF WalkAgrees
  <2>4. x \in AliveNodes(t) /\ m \in Nat /\ w.path \in Seq(Hops(t)) /\ x \in Nodes
        /\ t[x].tokens \in Seq(Nat)
    <3>1. x \in AliveNodes(t) /\ m \in Nat /\ w.path \in Seq(Hops(t))
      BY <1>1, <1>4
    <3>2. x \in Nodes
      BY <3>1 DEF AliveNodes
    <3>. QED
      BY <3>1, <3>2, NodeFields
  <2>5. CASE used = 0
    <3>1. v.cur = INVALID /\ v.path = w.path /\ v.matched = m
      BY <2>2, <2>5
    <3>2. Ended(t, toks, v)
      <4>1. CASE w.path = <<>>
        <5>1. x = FirstKid(t, ROOT) /\ m = 0
          BY <2>3, <4>1 DEF Coming
        <5>2. rest = toks
          BY <5>1, SubSeqFull
        <5>. QED
          BY <2>1, <2>5, <3>1, <4>1, <5>1, <5>2 DEF Ended
      <4>2. CASE w.path # <<>>
        <5>1. x = Onward(t, toks, Last(w.path), m) /\ Last(w.path) \in Hops(t)
          BY <2>3, <2>4, <4>2, LastOf DEF Coming
        <5>2. used > 0
          BY <1>4, <2>1, <2>4, <5>1, OnwardAgrees
        <5>. QED
          BY <2>5, <5>2
      <4>. QED
        BY <4>1, <4>2
    <3>3. v.path # <<>> => Agreed(t, p, toks, Last(v.path))
      BY <3>1 DEF WalkAgrees
    <3>. QED
      BY <1>2, <3>1, <3>2, <3>3 DEF WalkAgrees
  <2>6. CASE used # 0
    <3>1. /\ v.cur = Onward(t, toks, h, m + used) /\ v.path = Append(w.path, h)
          /\ v.matched = m + used
      BY <2>2, <2>6
    <3>2. h.node = x /\ h.start = m /\ h.used = used
      BY <2>1
    <3>3. used \in Nat /\ used <= Len(t[x].tokens) /\ m + used \in Nat
      <4>1. m \in 0 .. Len(toks)
        BY <1>1, <2>4
      <4>2. rest \in Seq(Nat)
        BY <4>1, RestIs
      <4>3. used \in Nat /\ used <= Len(t[x].tokens)
        <5>. HIDE DEF rest
        <5>. QED
          BY <2>1, <2>4, <4>2, CommonLenIs
      <4>. QED
        BY <2>4, <4>3
    <3>4. v.path # <<>> /\ Last(v.path) = h /\ h \in Hops(t)
      <4>1. v.path \in Seq(Hops(t))
        BY <1>2 DEF WalkOK
      <4>2. Len(w.path) \in Nat
        BY <2>4, LenProperties
      <4>3. h \in Hops(t)
        <5>1. h \in [node : Nodes, start : Nat, used : Nat]
          BY <2>1, <2>4, <3>3
        <5>2. used \in 1 .. Len(t[x].tokens)
          BY <2>4, <2>6, <3>3, LenProperties
        <5>. QED
          BY <2>4, <3>2, <5>1, <5>2 DEF Hops
      <4>4. Len(v.path) = Len(w.path) + 1 /\ v.path[Len(w.path) + 1] = h
        BY <2>4, <3>1, <4>3, AppendProperties
      <4>5. v.path # <<>>
        BY <4>1, <4>2, <4>4, EmptySeq
      <4>6. Last(v.path) = v.path[Len(v.path)] /\ Last(v.path) \in Hops(t)
        BY <4>1, <4>5, LastOf
      <4>. QED
        BY <4>4, <4>5, <4>6
    <3>5. Agreed(t, p, toks, h)
      BY <1>1, <2>1, <2>3, <3>2 DEF Agreed, Coming
    <3>6. v.cur = INVALID => Ended(t, toks, v)
      BY <3>1, <3>4 DEF Ended
    <3>7. ASSUME v.cur # INVALID PROVE Coming(t, p, toks, v)
      <4>1. HopFull(t, h) /\ t[v.cur].parent = x
        <5>1. PICK n, y : n = m + used /\ y = v.cur
          OBVIOUS
        <5>2. n \in Nat /\ h \in Hops(t) /\ y = Onward(t, toks, h, n) /\ y # INVALID
          BY <3>1, <3>3, <3>4, <3>7, <5>1
        <5>3. HopFull(t, h) /\ t[y].parent = h.node
          BY <5>2, OnwardAgrees
        <5>. QED
          BY <3>2, <5>1, <5>3
      <4>2. AgreedTo(t, p, toks, h, h.start + h.used)
        BY <3>4, <3>5, AgreedSpells
      <4>3. p[x] = SubSeq(toks, 1, m + used)
        BY <3>2, <4>1, <4>2 DEF AgreedTo
      <4>. QED
        BY <3>1, <3>4, <4>1, <4>3 DEF Coming
    <3>8. w.matched < v.matched
      BY <2>4, <2>6, <3>1, <3>3
    <3>. QED
      BY <1>2, <1>4, <3>4, <3>5, <3>6, <3>7, <3>8 DEF WalkAgrees
  <2>. QED
    BY <2>5, <2>6
<1>. QED
  BY <1>3, <1>4

\* The whole walk: its last hop agrees as far as it can, and it ends there.
LEMMA WalkFinds ==
    ASSUME NEW t \in [Nodes -> TreeNodes], Formed(t, {}), NEW p, Spells(t, p),
           NEW toks \in Seq(Nat)
    PROVE  /\ WalkAgrees(t, p, toks, Walk(t, toks))
           /\ Ended(t, toks, Walk(t, toks))
<1>. DEFINE n == Len(toks)
            base == [cur |-> FirstKid(t, ROOT), path |-> <<>>, matched |-> 0]
            All == {w \in [cur : AliveNodes(t) \cup {INVALID}, path : Seq(Hops(t)),
                           matched : Nat] : WalkAgrees(t, p, toks, w)}
            V == [i \in 0 .. n |-> {w \in All : w.cur # INVALID => i <= w.matched}]
            F == [i \in 1 .. n |-> [k \in V[i - 1] |-> Hop(t, toks, k)]]
            h == CHOOSE h : h = [i \in 0 .. n |->
                                   IF i = 0 THEN base ELSE Hop(t, toks, h[i - 1])]
<1>n. n \in Nat
  BY LenProperties
<1>0. \A w : w \in All <=> WalkAgrees(t, p, toks, w)
  BY DEF WalkAgrees, WalkOK
<1>2. base \in V[0]
  <2>1. FirstKid(t, ROOT) \in AliveNodes(t) \cup {INVALID}
    BY TheConstants, FirstKidIs
  <2>2. /\ base \in [cur : AliveNodes(t) \cup {INVALID}, path : Seq(Hops(t)), matched : Nat]
        /\ base.matched = 0 /\ base.path = <<>> /\ base.cur = FirstKid(t, ROOT)
    BY <2>1
  <2>3. EndOf(<<>>) = 0 /\ Chained(<<>>)
    BY DEF EndOf, Chained
  <2>. HIDE DEF base
  <2>4. WalkOK(t, toks, base)
    BY <1>n, <2>2, <2>3 DEF WalkOK
  <2>5. base.cur = INVALID => Ended(t, toks, base)
    BY <2>2 DEF Ended
  <2>6. ASSUME base.cur # INVALID PROVE Coming(t, p, toks, base)
    <3>1. t[ROOT].kids # <<>> /\ base.cur = Head(t[ROOT].kids)
      BY <2>2, <2>6 DEF FirstKid
    <3>2. t[ROOT].kids \in Seq(Nodes)
      BY NodeFields, TheConstants
    <3>3. Head(t[ROOT].kids) = t[ROOT].kids[1] /\ 1 \in 1 .. Len(t[ROOT].kids)
      BY <3>1, <3>2, HeadTailProperties, LenProperties, EmptySeq
    <3>4. t[base.cur].parent = ROOT
      <4>1. PICK y : y = base.cur
        OBVIOUS
      <4>2. ROOT \in Nodes /\ 1 \in 1 .. Len(t[ROOT].kids) /\ y = t[ROOT].kids[1]
        BY <3>1, <3>3, <4>1, TheConstants
      <4>3. t[y].parent = ROOT
        BY <4>2, KidHangs
      <4>. QED
        BY <4>1, <4>3
    <3>5. p[ROOT] = <<>>
      BY TheConstants DEF Spells, Formed
    <3>6. SubSeq(toks, 1, 0) = <<>>
      BY SubSeqEmpty
    <3>. QED
      BY <2>2, <3>4, <3>5, <3>6 DEF Coming
  <2>7. WalkAgrees(t, p, toks, base)
    BY <2>2, <2>4, <2>5, <2>6 DEF WalkAgrees
  <2>. HIDE DEF All
  <2>. QED
    BY <1>0, <1>n, <2>2, <2>7
<1>3. ASSUME NEW i \in 1 .. n, NEW k \in V[i - 1]
      PROVE  Hop(t, toks, k) \in V[i]
  <2>. HIDE DEF All
  <2>1. k \in All /\ (k.cur # INVALID => i - 1 <= k.matched)
    BY <1>n
  <2>2. WalkAgrees(t, p, toks, k)
    BY <1>0, <2>1
  <2>3. PICK v : v = Hop(t, toks, k)
    OBVIOUS
  <2>4. WalkAgrees(t, p, toks, v) /\ (v.cur # INVALID => k.cur # INVALID /\ k.matched < v.matched)
    BY <2>2, <2>3, HopAgrees
  <2>5. v \in All /\ k.matched \in Nat /\ v.matched \in Nat
    <3>1. WalkOK(t, toks, v) /\ WalkOK(t, toks, k)
      BY <2>2, <2>4 DEF WalkAgrees
    <3>. QED
      BY <1>0, <2>4, <3>1 DEF WalkOK
  <2>6. v.cur # INVALID => i <= v.matched
    BY <1>n, <2>1, <2>4, <2>5
  <2>. QED
    BY <1>n, <2>3, <2>5, <2>6
<1>. HIDE DEF base
<1>. HIDE DEF V
<1>4. \A i \in 1 .. n : \A k \in V[i - 1] : F[i][k] = Hop(t, toks, k)
  OBVIOUS
<1>. HIDE DEF F
<1>5. PICK g : LoopIs(n, V, F, base, g)
  <2>1. \A i \in 1 .. n : \A k \in V[i - 1] : F[i][k] \in V[i]
    BY <1>3, <1>4
  <2>. HIDE DEF n, h
  <2>2. IsLoop(n, V, F, base)
    BY <1>n, <1>2, <2>1 DEF IsLoop
  <2>. QED
    BY <2>2, LoopRuns
<1>6. g = [i \in 0 .. n |-> IF i = 0 THEN base ELSE Hop(t, toks, g[i - 1])]
  <2>. HIDE DEF n, h
  <2>0. /\ g = [i \in 0 .. n |-> g[i]]
        /\ g[0] = base
        /\ \A i \in 1 .. n : g[i] = F[i][g[i - 1]]
        /\ \A i \in 0 .. n : g[i] \in V[i]
    BY <1>5 DEF LoopIs
  <2>1. \A i \in 1 .. n : g[i - 1] \in V[i - 1]
    BY <1>n, <2>0
  <2>2. \A i \in 1 .. n : g[i] = Hop(t, toks, g[i - 1])
    BY <1>4, <2>0, <2>1
  <2>3. ASSUME NEW i \in 0 .. n PROVE g[i] = IF i = 0 THEN base ELSE Hop(t, toks, g[i - 1])
    <3>1. CASE i = 0
      BY <2>0, <3>1
    <3>2. CASE i # 0
      <4>1. i \in 1 .. n
        BY <1>n, <3>2
      <4>. QED
        BY <2>2, <3>2, <4>1
    <3>. QED
      BY <3>1, <3>2
  <2>. QED
    BY <2>0, <2>3
<1>7. h = [i \in 0 .. n |-> IF i = 0 THEN base ELSE Hop(t, toks, h[i - 1])]
  <2>1. \E e : e = [i \in 0 .. n |-> IF i = 0 THEN base ELSE Hop(t, toks, e[i - 1])]
    BY <1>6
  <2>. QED
    BY <2>1
<1>8. Walk(t, toks) = h[n]
  BY DEF Walk, base
<1>. HIDE DEF h
<1>9. \A i \in 0 .. n : h[i] \in V[i]
  <2>1. h[0] = base /\ \A i \in 1 .. n : h[i] = Hop(t, toks, h[i - 1])
    <3>. HIDE DEF n
    <3>. QED
      BY <1>n, <1>7
  <2>2. \A i \in 1 .. n : h[i - 1] \in V[i - 1] => h[i] \in V[i]
    BY <1>3, <2>1
  <2>. HIDE DEF n
  <2>. QED
    BY <1>n, <1>2, <2>1, <2>2, LoopTurn
<1>10. h[n] \in V[n]
  BY <1>n, <1>9
<1>11. /\ h[n] \in All
       /\ h[n].cur # INVALID => n <= h[n].matched
  <2>. HIDE DEF All
  <2>. QED
    BY <1>n, <1>10 DEF V
<1>. HIDE DEF All
<1>12. PICK w : w = Walk(t, toks)
  OBVIOUS
<1>13. WalkAgrees(t, p, toks, w) /\ (w.cur # INVALID => n <= w.matched)
  BY <1>0, <1>8, <1>11, <1>12
<1>14. ASSUME w.cur # INVALID PROVE Ended(t, toks, w)
  <2>1. Coming(t, p, toks, w) /\ WalkOK(t, toks, w) /\ n <= w.matched
    BY <1>13, <1>14 DEF WalkAgrees
  <2>2. w.path \in Seq(Hops(t)) /\ w.matched \in Nat /\ w.cur \in AliveNodes(t)
    BY <1>14, <2>1 DEF WalkOK
  <2>3. CASE w.path = <<>>
    <3>1. w.cur = FirstKid(t, ROOT) /\ w.matched = 0 /\ n = 0
      BY <1>n, <2>1, <2>3 DEF Coming
    <3>2. w.cur \in Nodes
      BY <2>2 DEF AliveNodes
    <3>3. t[w.cur].tokens \in Seq(Nat)
      BY <3>2, NodeFields
    <3>4. CommonLen(t[w.cur].tokens, toks) \in Nat /\ CommonLen(t[w.cur].tokens, toks) <= Len(toks)
      BY <3>3, CommonLenIs
    <3>5. CommonLen(t[w.cur].tokens, toks) = 0
      BY <3>1, <3>4
    <3>. QED
      BY <2>3, <3>1, <3>5 DEF Ended
  <2>4. CASE w.path # <<>>
    <3>1. w.cur = Onward(t, toks, Last(w.path), w.matched) /\ Last(w.path) \in Hops(t)
      BY <2>1, <2>2, <2>4, LastOf DEF Coming
    <3>2. w.matched < Len(toks)
      BY <1>14, <2>2, <3>1, OnwardAgrees
    <3>. QED
      BY <1>n, <2>1, <2>2, <3>2
  <2>. QED
    BY <2>3, <2>4
<1>. QED
  <2>1. WalkAgrees(t, p, toks, w) /\ Ended(t, toks, w)
    BY <1>13, <1>14 DEF WalkAgrees
  <2>. QED
    BY <1>12, <2>1
-----------------------------------------------------------------------------
(* What commit writes *)

\* No two children of a node below the root start with the same token.
Branching(t) ==
    \A x \in AliveNodes(t) : \A c, d \in ToSet(t[x].kids) :
        t[c].tokens[1] = t[d].tokens[1] => c = d

\* No child of a starts with token tok.
NoneFor(t, a, tok) == \A d \in ToSet(t[a].kids) : t[d].tokens[1] # tok

LEMMA BranchingSame ==
    ASSUME NEW t \in [Nodes -> TreeNodes], Formed(t, {}), Branching(t),
           NEW u \in [Nodes -> TreeNodes], SameTree(t, u)
    PROVE  Branching(u)
<1>1. AliveNodes(u) = AliveNodes(t)
  BY SameTreeOK
<1>2. \A x \in Nodes : u[x].kids = t[x].kids /\ u[x].tokens = t[x].tokens
  BY Zenon DEF SameTree, SameNode
<1>3. ASSUME NEW x \in AliveNodes(u), NEW c \in ToSet(u[x].kids), NEW d \in ToSet(u[x].kids),
             u[c].tokens[1] = u[d].tokens[1]
      PROVE  c = d
  <2>1. x \in Nodes /\ x \in AliveNodes(t)
    BY <1>1, <1>3 DEF AliveNodes
  <2>2. u[x].kids = t[x].kids /\ t[x].kids \in Seq(Nodes)
    BY <1>2, <2>1, NodeFields
  <2>3. c \in Nodes /\ d \in Nodes
    BY <1>3, <2>2, KidsIn
  <2>. QED
    BY <1>2, <1>3, <2>1, <2>2, <2>3 DEF Branching
<1>. QED
  BY <1>3 DEF Branching

\* A split gives the divided node one child, which starts where it was cut.
CutAt(t, u, x, k, c) ==
    Branching(u) /\ ToSet(u[x].kids) = {c} /\ u[c].tokens[1] = t[x].tokens[k + 1]

LEMMA SplitBranches ==
    ASSUME NEW t \in [Nodes -> TreeNodes], Formed(t, {}), Branching(t),
           NEW x \in AliveNodes(t), NEW k \in 1 .. Len(t[x].tokens) - 1,
           NEW c \in Nodes \ Up(t), NEW u, SplitIs(t, u, x, k, c)
    PROVE  CutAt(t, u, x, k, c)
<1>1. x \in Nodes /\ x # ROOT /\ t[x].alive
  BY Zenon DEF AliveNodes
<1>2. c # x /\ AliveNodes(u) = AliveNodes(t) \cup {c}
  BY <1>1, SplitFormed DEF Up
<1>3. /\ u[c].kids = t[x].kids /\ u[c].tokens = SubSeq(t[x].tokens, k + 1, Len(t[x].tokens))
      /\ u[x].kids = <<c>> /\ u[x].tokens = SubSeq(t[x].tokens, 1, k)
      /\ \A y \in Nodes \ {x, c} : u[y].kids = t[y].kids /\ u[y].tokens = t[y].tokens
  BY Zenon DEF SplitIs, IsNode, Moved
<1>4. ToSet(u[x].kids) = {c}
  BY <1>3, SingleSeq
<1>5. t[x].tokens \in Seq(Nat) /\ Len(t[x].tokens) \in Nat /\ k \in Nat
  BY <1>1, NodeFields, LenProperties
<1>6. u[c].tokens[1] = t[x].tokens[k + 1]
  <2>1. k \in 0 .. Len(t[x].tokens) /\ 1 \in 1 .. Len(t[x].tokens) - k
    BY <1>5
  <2>2. SubSeq(t[x].tokens, k + 1, Len(t[x].tokens))[1] = t[x].tokens[k + 1]
    BY <1>5, <2>1, RestIs
  <2>. QED
    BY <1>3, <2>2
<1>7. u[x].tokens[1] = t[x].tokens[1]
  <2>1. k \in 0 .. Len(t[x].tokens) /\ 1 \in 1 .. k
    BY <1>5
  <2>2. SubSeq(t[x].tokens, 1, k)[1] = t[x].tokens[1]
    BY <1>5, <2>1, StartIs
  <2>. QED
    BY <1>3, <2>2
<1>8. ASSUME NEW y \in Nodes, NEW d \in ToSet(t[y].kids)
      PROVE  d \in Nodes /\ d # c /\ u[d].tokens[1] = t[d].tokens[1]
  <2>1. d \in Nodes
    BY NodeFields, KidsIn
  <2>2. t[d].alive
    BY DEF Formed
  <2>3. d # c
    BY <2>1, <2>2 DEF Up
  <2>4. u[d].tokens[1] = t[d].tokens[1]
    BY <1>3, <1>7, <2>1, <2>3
  <2>. QED
    BY <2>1, <2>3, <2>4
<1>9. ASSUME NEW y \in AliveNodes(u), NEW a \in ToSet(u[y].kids), NEW b \in ToSet(u[y].kids),
             u[a].tokens[1] = u[b].tokens[1]
      PROVE  a = b
  <2>1. CASE y = x
    BY <1>4, <1>9, <2>1
  <2>2. CASE y # x
    <3>1. PICK z \in AliveNodes(t) : u[y].kids = t[z].kids /\ z \in Nodes
      <4>1. CASE y = c
        BY <1>1, <1>3, <4>1
      <4>2. CASE y # c
        <5>1. y \in AliveNodes(t) /\ y \in Nodes \ {x, c}
          BY <1>2, <1>9, <2>2, <4>2 DEF AliveNodes
        <5>. QED
          BY <1>3, <5>1
      <4>. QED
        BY <4>1, <4>2
    <3>2. a \in ToSet(t[z].kids) /\ b \in ToSet(t[z].kids)
      BY <1>9, <3>1
    <3>3. u[a].tokens[1] = t[a].tokens[1] /\ u[b].tokens[1] = t[b].tokens[1]
      BY <1>8, <3>1, <3>2
    <3>. QED
      BY <1>9, <3>1, <3>2, <3>3 DEF Branching
  <2>. QED
    BY <2>1, <2>2
<1>. QED
  BY <1>4, <1>6, <1>9 DEF Branching, CutAt

\* A new child whose first token no sibling has keeps the children apart.
LEMMA AddBranches ==
    ASSUME NEW t \in [Nodes -> TreeNodes], Formed(t, {}), Branching(t),
           NEW a \in Up(t), NEW c \in Nodes \ Up(t), NEW tokens, NEW offset,
           NEW blocks, NEW u, AddIs(t, u, a, c, tokens, offset, blocks), Formed(u, {}),
           a # ROOT => NoneFor(t, a, tokens[1])
    PROVE  Branching(u) /\ ToSet(u[c].kids) = {}
<1>1. /\ u \in [Nodes -> TreeNodes]
      /\ u[c].alive /\ u[c].kids = <<>> /\ u[c].tokens = tokens
      /\ u[a].kids = <<c>> \o t[a].kids
      /\ \A y \in Nodes \ {c} : u[y].tokens = t[y].tokens /\ (u[y].alive <=> t[y].alive)
      /\ \A y \in Nodes \ {a, c} : u[y].kids = t[y].kids
  BY Zenon DEF AddIs, IsNode, Hung
<1>2. a \in Nodes /\ a # c /\ t[a].alive /\ ~t[c].alive
  BY DEF Up
<1>3. ToSet(u[c].kids) = {}
  BY <1>1 DEF ToSet
<1>4. ToSet(u[a].kids) = ToSet(t[a].kids) \cup {c}
  <2>1. t[a].kids \in Seq(Nodes) /\ IsInjective(t[a].kids)
    BY <1>2, NodeFields DEF Formed
  <2>2. c \notin ToSet(t[a].kids)
    BY <1>2 DEF Formed
  <2>. QED
    BY <1>1, <1>2, <2>1, <2>2, ConsSeq
<1>5. ASSUME NEW y \in Nodes, NEW d \in ToSet(t[y].kids)
      PROVE  d \in Nodes /\ d # c /\ u[d].tokens[1] = t[d].tokens[1]
  <2>1. d \in Nodes
    BY NodeFields, KidsIn
  <2>2. t[d].alive
    BY DEF Formed
  <2>. QED
    BY <1>1, <1>2, <2>1, <2>2
<1>6. ASSUME NEW y \in AliveNodes(u), NEW d \in ToSet(u[y].kids), NEW e \in ToSet(u[y].kids),
             u[d].tokens[1] = u[e].tokens[1]
      PROVE  d = e
  <2>1. y \in Nodes /\ y # ROOT /\ u[y].alive
    BY <1>6, Zenon DEF AliveNodes
  <2>2. CASE y = c
    BY <1>3, <1>6, <2>2
  <2>3. CASE y = a
    <3>1. a \in AliveNodes(t) /\ NoneFor(t, a, tokens[1])
      BY <1>2, <2>1, <2>3 DEF AliveNodes
    <3>2. \A f \in ToSet(t[a].kids) : u[f].tokens[1] = t[f].tokens[1]
      BY <1>2, <1>5
    <3>3. u[c].tokens[1] = tokens[1]
      BY <1>1
    <3>4. \A f \in ToSet(t[a].kids) : u[f].tokens[1] # u[c].tokens[1]
      BY <3>1, <3>2, <3>3 DEF NoneFor
    <3>5. d \in ToSet(t[a].kids) \cup {c} /\ e \in ToSet(t[a].kids) \cup {c}
      BY <1>4, <1>6, <2>3
    <3>6. d \in ToSet(t[a].kids) /\ e \in ToSet(t[a].kids) => d = e
      BY <1>6, <3>1, <3>2 DEF Branching
    <3>. QED
      BY <1>6, <3>4, <3>5, <3>6
  <2>4. CASE y # c /\ y # a
    <3>1. y \in AliveNodes(t) /\ u[y].kids = t[y].kids
      BY <1>1, <2>1, <2>4 DEF AliveNodes
    <3>. QED
      BY <1>5, <1>6, <2>1, <3>1 DEF Branching
  <2>. QED
    BY <2>2, <2>3, <2>4
<1>. QED
  BY <1>3, <1>6 DEF Branching

\* A sequence's beginning, and what comes next in it.
PartOf(p, f, k, part) == f + k <= Len(p) /\ part = SubSeq(p, f + 1, f + k)

JoinedOn(p, f, k, part) ==
    /\ part \in Seq(Nat) /\ Len(part) = k /\ (k > 0 => part[1] = p[f + 1])
    /\ SubSeq(p, 1, f) \o part = SubSeq(p, 1, f + k)
    /\ \A q \in Prefixes(SubSeq(p, 1, f)) : q \in Prefixes(SubSeq(p, 1, f + k))
LEMMA StartJoin ==
    ASSUME NEW p \in Seq(Nat), NEW f \in Nat, NEW k \in Nat, NEW part, PartOf(p, f, k, part)
    PROVE  JoinedOn(p, f, k, part)
<1>1. Len(p) \in Nat
  BY LenProperties
<1>0. f + k <= Len(p) /\ f \in Nat /\ k \in Nat
  BY DEF PartOf
<1>2. PICK i, j, n : i = f + 1 /\ j = f + k /\ n = Len(p)
  OBVIOUS
<1>e. i \in 1 .. Len(p) + 1 /\ j \in 0 .. Len(p) /\ i <= j + 1
  BY <1>0, <1>1, <1>2
<1>3. (j + 1) - i = k /\ \A l \in 1 .. k : i + l - 1 = f + l
  BY <1>0, <1>1, <1>2
<1>4. /\ SubSeq(p, i, j) \in Seq(Nat) /\ Len(SubSeq(p, i, j)) = (j + 1) - i
      /\ \A l \in 1 .. (j + 1) - i : SubSeq(p, i, j)[l] = p[i + l - 1]
  BY <1>e, PartIs
<1>5. part = SubSeq(p, i, j)
  BY <1>2 DEF PartOf
<1>6. part \in Seq(Nat) /\ Len(part) = k /\ \A l \in 1 .. k : part[l] = p[f + l]
  BY ONLY <1>3, <1>4, <1>5
<1>7. k > 0 => part[1] = p[f + 1]
  BY ONLY <1>0, <1>6
<1>. DEFINE a == SubSeq(p, 1, f)
            c == SubSeq(p, 1, f + k)
            b == a \o part
<1>8. f \in 0 .. Len(p) /\ f + k \in 0 .. Len(p) /\ f \in 0 .. f + k
  BY <1>0, <1>1
<1>9. /\ a \in Seq(Nat) /\ Len(a) = f /\ \A l \in 1 .. f : a[l] = p[l]
      /\ c \in Seq(Nat) /\ Len(c) = f + k /\ \A l \in 1 .. f + k : c[l] = p[l]
  BY <1>8, StartIs
<1>10. SubSeq(c, 1, f) = a
  BY <1>8, StartOfStart
<1>. HIDE DEF a, c
<1>11. /\ b \in Seq(Nat) /\ Len(b) = Len(a) + Len(part)
       /\ \A l \in 1 .. Len(a) + Len(part) : b[l] = IF l <= Len(a) THEN a[l] ELSE part[l - Len(a)]
  <2>1. a \in Seq(Nat) /\ part \in Seq(Nat)
    BY <1>6, <1>9
  <2>. QED
    BY <2>1, ConcatProperties
<1>. HIDE DEF b
<1>12. b \in Seq(Nat) /\ Len(b) = f + k
       /\ \A l \in 1 .. f + k : b[l] = IF l <= f THEN a[l] ELSE part[l - f]
  BY ONLY <1>6, <1>9, <1>11
<1>13. ASSUME NEW l \in 1 .. f + k PROVE b[l] = c[l]
  <2>1. CASE l <= f
    <3>1. l \in 1 .. f
      BY <2>1, <1>0
    <3>2. b[l] = a[l]
      BY <1>12, <2>1
    <3>3. a[l] = p[l] /\ c[l] = p[l]
      BY <1>9, <3>1
    <3>. QED
      BY <3>2, <3>3
  <2>2. CASE ~(l <= f)
    <3>1. PICK m : m = l - f
      OBVIOUS
    <3>2. m \in 1 .. k /\ f + m = l
      BY <1>0, <2>2, <3>1
    <3>3. b[l] = part[m] /\ part[m] = p[f + m] /\ c[l] = p[l]
      BY <1>6, <1>9, <1>12, <2>2, <3>1, <3>2
    <3>. QED
      BY <3>2, <3>3
  <2>. QED
    BY <2>1, <2>2
<1>14. b = c
  BY <1>9, <1>12, <1>13, SeqEqual
<1>15. \A q \in Prefixes(a) : q \in Prefixes(c)
  <2>1. f \in 0 .. Len(c)
    BY <1>8, <1>9
  <2>. QED
    BY <1>9, <1>10, <2>1, PrefixesOfStart
<1>. QED
  BY <1>6, <1>7, <1>14, <1>15 DEF a, b, c, JoinedOn

\* The tree is spelt, and its children are told apart.
Neat(t, p) == Spelt(t, p) /\ Branching(t)

\* What commit has written so far: the node the next tokens go below spells the
\* tokens before them, and the cache is that of t0 and their prefixes.
Ahead(st, q, t0, p) ==
    /\ p[st.parent] = SubSeq(q.tok, 1, st.from)
    /\ \A r : r \in Cached(st.kv.tree)
                <=> r \in Cached(t0) \/ r \in Prefixes(SubSeq(q.tok, 1, st.from))
    /\ st.parent # ROOT /\ st.from < q.ntok
         => NoneFor(st.kv.tree, st.parent, q.tok[st.from + 1])

Writing(st, q, t0, p) ==
    /\ Neat(st.kv.tree, p)
    /\ Fine(st.kv) => Ahead(st, q, t0, p)

LEMMA TokenArray ==
    ASSUME NEW q \in Requests
    PROVE  /\ q.tok \in Seq(Nat) /\ Len(q.tok) = MAX_SEQ_TOKENS
           /\ q.ntok \in Nat /\ q.ntok <= Len(q.tok)
<1>. DEFINE T == q.tok
            n == q.ntok
<1>1. T \in [1 .. MAX_SEQ_TOKENS -> Nat] /\ n \in 0 .. MAX_SEQ_TOKENS /\ MAX_SEQ_TOKENS \in Nat
  BY RequestFields, TheConstants
<1>. HIDE DEF T, n
<1>2. T \in Seq(Nat)
  BY <1>1, SeqDef
<1>3. Len(T) = MAX_SEQ_TOKENS
  BY <1>1, <1>2, LenProperties
<1>. QED
  BY <1>1, <1>2, <1>3 DEF T, n

LEMMA TurnWrites ==
    ASSUME NEW s \in Slots, NEW rq, NEW st, NEW sw, Publishing(st, rq, s), Publishing(sw, rq, s),
           Turned(st, sw, rq[s]), NEW t0, NEW p, Writing(st, rq[s], t0, p)
    PROVE  /\ \E r : Writing(sw, rq[s], t0, r)
           /\ Fine(sw.kv) => \/ st.from = rq[s].ntok /\ sw.from = rq[s].ntok
                             \/ st.from < sw.from
<1>. DEFINE q == rq[s]
            t == st.kv.tree
            u == sw.kv.tree
<1>1. /\ st \in Cursors /\ Sound(st.kv) /\ st.kv.rq = rq /\ st.kv \in Spaces
      /\ sw \in Cursors /\ Sound(sw.kv) /\ sw.kv.rq = rq
  BY SoundIsSpace DEF Publishing
<1>2. Neat(t, p) /\ (Fine(st.kv) => Ahead(st, q, t0, p))
  BY DEF Writing
<1>3. CASE sw = st /\ (~Fine(st.kv) \/ st.from = q.ntok)
  BY <1>3
<1>4. CASE sw.kv.tree = st.kv.tree /\ ~Fine(sw.kv)
  <2>1. Writing(sw, q, t0, p)
    BY <1>2, <1>4 DEF Writing
  <2>. QED
    BY <1>4, <2>1
<1>5. CASE NodeAdded(st, sw, q)
  <2>1. PICK c, take, offset, blocks :
          /\ c \in Nodes \ Up(t) /\ take \in Nat \ {0} /\ Fine(st.kv) /\ st.parent \in Up(t) /\ st.from + take <= q.ntok
          /\ sw.parent = c /\ sw.from = st.from + take
          /\ AddIs(t, u, st.parent, c, SubSeq(q.tok, st.from + 1, st.from + take),
                   offset, blocks)
    BY <1>5 DEF NodeAdded
  <2>2. PICK a, f, tokens, r : /\ a = st.parent /\ f = st.from
                               /\ tokens = SubSeq(q.tok, f + 1, f + take)
                               /\ r = [p EXCEPT ![c] = p[a] \o tokens]
    OBVIOUS
  <2>3. /\ t \in [Nodes -> TreeNodes] /\ Formed(t, {}) /\ u \in [Nodes -> TreeNodes]
        /\ Formed(u, {}) /\ f \in Nat /\ q \in Requests
    <3>1. sw.kv \in Spaces
      BY <1>1, SoundIsSpace
    <3>2. f \in Nat
      BY <1>1, <2>2, CursorFields
    <3>3. st.kv.rq[s] \in Requests
      BY <1>1, SlotTable
    <3>. QED
      BY <1>1, <3>1, <3>2, <3>3, SpaceFields DEF Sound
  <2>4. q.tok \in Seq(Nat) /\ q.ntok \in Nat /\ q.ntok <= Len(q.tok) /\ Len(q.tok) \in Nat
    <3>1. Len(q.tok) = MAX_SEQ_TOKENS /\ MAX_SEQ_TOKENS \in Nat
      BY <2>3, TokenArray, TheConstants
    <3>. HIDE DEF q
    <3>. QED
      BY <2>3, <3>1, TokenArray
  <2>5. f + take <= q.ntok /\ f + take <= Len(q.tok) /\ take \in Nat /\ take > 0 /\ f < q.ntok
    <3>1. st.from + take <= q.ntok /\ take \in Nat /\ take > 0
      BY <2>1
    <3>. HIDE DEF q
    <3>. QED
      BY <2>2, <2>3, <2>4, <3>1
  <2>6. /\ tokens \in Seq(Nat) /\ tokens[1] = q.tok[f + 1]
        /\ SubSeq(q.tok, 1, f) \o tokens = SubSeq(q.tok, 1, f + take)
        /\ \A x \in Prefixes(SubSeq(q.tok, 1, f)) : x \in Prefixes(SubSeq(q.tok, 1, f + take))
    <3>. HIDE DEF q
    <3>. QED
      <4>1. PartOf(q.tok, f, take, tokens)
        BY <2>2, <2>5 DEF q, PartOf
      <4>. QED
        <5>1. q.tok \in Seq(Nat) /\ f \in Nat /\ take \in Nat
          BY <2>3, <2>4, <2>5
        <5>2. JoinedOn(q.tok, f, take, tokens)
          BY <4>1, <5>1, StartJoin
        <5>. QED
          BY <2>5, <5>2 DEF JoinedOn
  <2>7. /\ p[a] = SubSeq(q.tok, 1, f)
        /\ \A x : x \in Cached(t) <=> x \in Cached(t0) \/ x \in Prefixes(SubSeq(q.tok, 1, f))
        /\ a # ROOT => NoneFor(t, a, q.tok[f + 1])
    BY <1>2, <2>1, <2>2, <2>5 DEF Ahead
  <2>8. /\ AddIs(t, u, a, c, tokens, offset, blocks) /\ a \in Up(t) /\ c \in Nodes \ Up(t)
        /\ Spelt(t, p) /\ Branching(t)
    BY <1>2, <2>1, <2>2 DEF Neat
  <2>. HIDE DEF t, u, q
  <2>9. /\ Spelt(u, r) /\ r[c] = p[a] \o tokens
        /\ \A x : x \in Cached(u) <=> x \in Cached(t) \/ x \in Prefixes(r[c])
    <3>1. SpeltBelow(p, r, a, c, tokens) /\ tokens \in Seq(Nat)
      BY <2>2, <2>6 DEF SpeltBelow
    <3>. QED
      BY <2>3, <2>8, <3>1, AddSpelt
  <2>10. Branching(u) /\ ToSet(u[c].kids) = {}
    <3>1. a # ROOT => NoneFor(t, a, tokens[1])
      BY <2>6, <2>7
    <3>. QED
      BY <2>3, <2>8, <3>1, AddBranches
  <2>11. r[c] = SubSeq(q.tok, 1, f + take)
    BY <2>6, <2>7, <2>9
  <2>12. NoneFor(u, c, q.tok[f + take + 1])
    BY <2>10 DEF NoneFor
  <2>13. \A x : x \in Cached(u) <=> x \in Cached(t0) \/ x \in Prefixes(SubSeq(q.tok, 1, f + take))
    BY <2>6, <2>7, <2>9, <2>11
  <2>14. sw.parent = c /\ sw.from = f + take
    BY <2>1, <2>2
  <2>15. Writing(sw, q, t0, r)
    BY <2>9, <2>10, <2>11, <2>12, <2>13, <2>14 DEF Writing, Neat, Ahead, u
  <2>16. st.from < sw.from
    BY <2>2, <2>3, <2>5, <2>14
  <2>. QED
    BY <2>15, <2>16 DEF q
<1>. QED
  BY <1>3, <1>4, <1>5 DEF Turned

\* All of commit's loop.
LEMMA NodesWrite ==
    ASSUME NEW s \in Slots, NEW rq, NEW st, Publishing(st, rq, s),
           st.from <= st.kv.rq[s].ntok, NEW t0, NEW p, Writing(st, rq[s], t0, p),
           NEW sw, sw = AddNodes(st, s)
    PROVE  /\ \E r : Writing(sw, rq[s], t0, r)
           /\ Fine(sw.kv) => sw.from = rq[s].ntok
<1>. DEFINE n == st.kv.rq[s].ntok - st.from
            Wrote(x) == \E r : Writing(x, rq[s], t0, r)
            Far(x, i) == Fine(x.kv) => x.from = rq[s].ntok \/ st.from + i <= x.from
            V == [i \in 0 .. n |-> {x \in Cursors : Publishing(x, rq, s) /\ Wrote(x) /\ Far(x, i)}]
            F == [i \in 1 .. n |-> [k \in V[i - 1] |-> AddNode(k, s)]]
            h == CHOOSE h : h = [i \in 0 .. n |-> IF i = 0 THEN st ELSE AddNode(h[i - 1], s)]
<1>0. st \in Cursors /\ st.kv.rq = rq
  BY DEF Publishing
<1>n. n \in Nat /\ st.from \in Nat /\ rq[s].ntok \in Nat /\ st.from + n = rq[s].ntok
  <2>1. st.kv \in Spaces /\ st.from \in Nat
    BY <1>0, CursorFields
  <2>2. st.kv.rq[s].ntok \in 0 .. MAX_SEQ_TOKENS
    BY <2>1, SlotTable, RequestFields
  <2>. DEFINE m == st.kv.rq[s].ntok
              f == st.from
  <2>3. m \in Nat /\ f \in Nat /\ f <= m
    BY <2>1, <2>2, TheConstants
  <2>. HIDE DEF m, f
  <2>4. m - f \in Nat /\ f + (m - f) = m
    BY <2>3
  <2>5. m = rq[s].ntok
    BY <1>0 DEF m
  <2>. QED
    BY <2>3, <2>4, <2>5 DEF m, f
<1>2. st \in V[0]
  <2>1. Wrote(st) /\ Far(st, 0)
    BY <1>n
  <2>. HIDE DEF n, Wrote, Far
  <2>. QED
    BY <1>n, <1>0, <2>1
<1>3. ASSUME NEW i \in 1 .. n, NEW k \in V[i - 1]
      PROVE  AddNode(k, s) \in V[i]
  <2>. DEFINE j == i - 1
  <2>1. j \in 0 .. n /\ i \in 0 .. n /\ i = j + 1 /\ j \in Nat
    BY <1>n
  <2>. HIDE DEF n
  <2>2. k \in V[j]
    OBVIOUS
  <2>. HIDE DEF j, Wrote, Far
  <2>3. Publishing(k, rq, s) /\ Wrote(k) /\ Far(k, j)
    BY <2>1, <2>2
  <2>a. PICK v : v = AddNode(k, s)
    OBVIOUS
  <2>4. Publishing(v, rq, s) /\ Turned(k, v, rq[s])
    BY <2>3, <2>a, AddNodeOK
  <2>5. v \in Cursors /\ v.from \in Nat /\ k.from \in Nat
    <3>1. v \in Cursors /\ k \in Cursors
      BY <2>3, <2>4 DEF Publishing
    <3>. QED
      BY <3>1, CursorFields
  <2>6. PICK r : Writing(k, rq[s], t0, r)
    BY <2>3 DEF Wrote
  <2>7. /\ \E e : Writing(v, rq[s], t0, e)
        /\ Fine(v.kv) => \/ k.from = rq[s].ntok /\ v.from = rq[s].ntok
                         \/ k.from < v.from
    BY <2>3, <2>4, <2>6, TurnWrites
  <2>8. ASSUME Fine(v.kv), k.from < v.from, v.from # rq[s].ntok PROVE st.from + i <= v.from
    <3>1. Fine(k.kv)
      <4>1. NodeAdded(k, v, rq[s])
        BY <2>4, <2>5, <2>8 DEF Turned
      <4>. QED
        BY <4>1 DEF NodeAdded
    <3>2. v.from <= rq[s].ntok
      BY <2>4, <2>8 DEF Publishing, InPlace
    <3>3. st.from + j <= k.from
      BY <1>n, <2>3, <2>5, <2>8, <3>1, <3>2 DEF Far
    <3>. QED
      BY <1>n, <2>1, <2>5, <2>8, <3>3
  <2>9. Wrote(v) /\ Far(v, i)
    BY <2>7, <2>8 DEF Wrote, Far
  <2>. QED
    BY <2>1, <2>4, <2>5, <2>9, <2>a
<1>. HIDE DEF Wrote, Far
<1>. HIDE DEF V
<1>4. \A i \in 1 .. n : \A k \in V[i - 1] : F[i][k] = AddNode(k, s)
  OBVIOUS
<1>. HIDE DEF F
<1>5. PICK g : LoopIs(n, V, F, st, g)
  <2>1. \A i \in 1 .. n : \A k \in V[i - 1] : F[i][k] \in V[i]
    BY <1>3, <1>4
  <2>. HIDE DEF n, h
  <2>2. IsLoop(n, V, F, st)
    BY <1>n, <1>2, <2>1 DEF IsLoop
  <2>. QED
    BY <2>2, LoopRuns
<1>6. g = [i \in 0 .. n |-> IF i = 0 THEN st ELSE AddNode(g[i - 1], s)]
  <2>. HIDE DEF n, h
  <2>0. /\ g = [i \in 0 .. n |-> g[i]]
        /\ g[0] = st
        /\ \A i \in 1 .. n : g[i] = F[i][g[i - 1]]
        /\ \A i \in 0 .. n : g[i] \in V[i]
    BY <1>5 DEF LoopIs
  <2>1. \A i \in 1 .. n : g[i - 1] \in V[i - 1]
    BY <1>n, <2>0
  <2>2. \A i \in 1 .. n : g[i] = AddNode(g[i - 1], s)
    BY <1>4, <2>0, <2>1
  <2>3. ASSUME NEW i \in 0 .. n PROVE g[i] = IF i = 0 THEN st ELSE AddNode(g[i - 1], s)
    <3>1. CASE i = 0
      BY <2>0, <3>1
    <3>2. CASE i # 0
      <4>1. i \in 1 .. n
        BY <1>n, <3>2, SMTT(60)
      <4>. QED
        BY <2>2, <3>2, <4>1
    <3>. QED
      BY <3>1, <3>2
  <2>. QED
    BY <2>0, <2>3
<1>7. h = [i \in 0 .. n |-> IF i = 0 THEN st ELSE AddNode(h[i - 1], s)]
  <2>1. \E e : e = [i \in 0 .. n |-> IF i = 0 THEN st ELSE AddNode(e[i - 1], s)]
    BY <1>6
  <2>. QED
    BY <2>1
<1>8. sw = h[n]
  BY DEF AddNodes
<1>. HIDE DEF h
<1>9. \A i \in 0 .. n : h[i] \in V[i]
  <2>1. h[0] = st /\ \A i \in 1 .. n : h[i] = AddNode(h[i - 1], s)
    BY <1>n, <1>7
  <2>2. \A i \in 1 .. n : h[i - 1] \in V[i - 1] => h[i] \in V[i]
    BY <1>3, <2>1
  <2>. HIDE DEF n
  <2>. QED
    BY <1>n, <1>2, <2>1, <2>2, LoopTurn
<1>10. h[n] \in V[n]
  BY <1>n, <1>9
<1>11. Publishing(h[n], rq, s) /\ Wrote(h[n]) /\ Far(h[n], n)
  <2>. HIDE DEF n
  <2>. QED
    BY <1>n, <1>10 DEF V
<1>12. Publishing(sw, rq, s) /\ Wrote(sw) /\ Far(sw, n)
  BY <1>8, <1>11
<1>. HIDE DEF n
<1>13. ASSUME Fine(sw.kv) PROVE sw.from = rq[s].ntok
  <2>1. sw.from <= rq[s].ntok
    BY <1>12, <1>13 DEF Publishing, InPlace
  <2>2. sw.from \in Nat
    BY <1>12, CursorFields DEF Publishing
  <2>. QED
    BY <1>n, <1>12, <1>13, <2>1, <2>2 DEF Far
<1>. QED
  BY <1>12, <1>13 DEF Wrote

\* The tokens a node in use spells are cached with all that leads to them.
LEMMA SpeltIsCached ==
    ASSUME NEW t \in [Nodes -> TreeNodes], Formed(t, {}), NEW p, Spells(t, p), NEW a \in Up(t)
    PROVE  \A q \in Prefixes(p[a]) : q \in Cached(t)
<1>1. CASE a = ROOT
  <2>1. p[ROOT] = <<>>
    BY TheConstants DEF Spells, Formed
  <2>2. ASSUME NEW q \in Prefixes(p[a]) PROVE q = <<>>
    <3>1. PICK l \in 0 .. Len(<<>>) : q = SubSeq(<<>>, 1, l)
      BY <1>1, <2>1, <2>2, PrefixesAre
    <3>2. Len(<<>>) = 0 /\ <<>> \in Seq(Nat)
      BY EmptySeq
    <3>3. l = 0
      BY <3>1, <3>2
    <3>. QED
      BY <3>1, <3>2, <3>3, SubSeqEmpty
  <2>. QED
    BY <2>2, CachedIs
<1>2. CASE a # ROOT
  <2>1. a \in AliveNodes(t)
    BY <1>2 DEF Up, AliveNodes
  <2>. QED
    BY <2>1, CachedIs
<1>. QED
  BY <1>1, <1>2

\* Commit has come to node a of tree u with k tokens of toks behind it; nothing
\* was lost of tree t on the way, and no child of a has the next token.
Reached(t, u, p, toks, a, k) ==
    /\ Neat(u, p) /\ p[a] = SubSeq(toks, 1, k)
    /\ \A q : q \in Cached(u) <=> q \in Cached(t)
    /\ a # ROOT /\ k < Len(toks) => NoneFor(u, a, toks[k + 1])

LEMMA ReachedFull ==
    ASSUME NEW t \in [Nodes -> TreeNodes], Formed(t, {}), NEW p, Neat(t, p),
           NEW toks \in Seq(Nat), NEW h \in Hops(t), Agreed(t, p, toks, h), HopFull(t, h),
           NEW k, k = h.start + h.used, Onward(t, toks, h, k) = INVALID
    PROVE  Reached(t, t, p, toks, h.node, k)
<1>1. Spells(t, p) /\ h.node \in Nodes
  BY DEF Neat, Spelt, Hops
<1>2. AgreedTo(t, p, toks, h, h.start + h.used)
  BY <1>1, AgreedSpells, SMTT(60)
<1>3. p[h.node] = SubSeq(toks, 1, k)
  BY <1>2 DEF AgreedTo
<1>4. ASSUME k < Len(toks) PROVE NoneFor(t, h.node, toks[k + 1])
  <2>1. KidStartingWith(t, h.node, toks[k + 1]) = INVALID
    BY <1>4, SMTT(60) DEF Onward
  <2>2. ASSUME NEW d \in ToSet(t[h.node].kids), t[d].tokens[1] = toks[k + 1] PROVE FALSE
    <3>1. t[h.node].kids \in Seq(Nodes)
      BY <1>1, NodeFields
    <3>2. PICK i \in 1 .. Len(t[h.node].kids) : t[h.node].kids[i] = d
      BY <2>2, <3>1, KidsIn
    <3>3. PICK tok : tok = toks[k + 1]
      OBVIOUS
    <3>4. KidStartingWith(t, h.node, tok) = INVALID
      BY <2>1, <3>3
    <3>5. PICK y : y = KidStartingWith(t, h.node, tok)
      BY SMTT(60)
    <3>6. \/ \A j \in 1 .. Len(t[h.node].kids) : t[t[h.node].kids[j]].tokens[1] # tok
          \/ \E j \in 1 .. Len(t[h.node].kids) : y = t[h.node].kids[j]
      <4>1. PICK x : x = h.node
        OBVIOUS
      <4>2. x \in Nodes /\ y = KidStartingWith(t, x, tok)
        BY <1>1, <3>5, <4>1
      <4>3. \/ \A j \in 1 .. Len(t[x].kids) : t[t[x].kids[j]].tokens[1] # tok
            \/ \E j \in 1 .. Len(t[x].kids) : y = t[x].kids[j]
        BY <4>2, KidStartingIs, SMTT(60)
      <4>. QED
        BY <4>1, <4>3, ZenonT(60)
    <3>7. \A j \in 1 .. Len(t[h.node].kids) : INVALID # t[h.node].kids[j]
      BY <3>1, ElementOfSeq, TheConstants
    <3>. QED
      BY <2>2, <3>2, <3>3, <3>4, <3>5, <3>6, <3>7
  <2>. QED
    BY <2>2 DEF NoneFor
<1>. QED
  BY <1>3, <1>4 DEF Reached

LEMMA ReachedCut ==
    ASSUME NEW t \in [Nodes -> TreeNodes], Formed(t, {}), NEW p, Neat(t, p),
           NEW toks \in Seq(Nat), NEW h \in Hops(t), Agreed(t, p, toks, h),
           h.used < Len(t[h.node].tokens), NEW u, SplitTo(t, u, h),
           NEW k, k = h.start + h.used
    PROVE  \E r : Reached(t, u, r, toks, h.node, k)
<1>1. PICK c \in Nodes \ Up(t) : SplitIs(t, u, h.node, h.used, c)
  BY DEF SplitTo
<1>2. PICK x, used, s, w : x = h.node /\ used = h.used /\ s = h.start /\ w = t[x].parent
  OBVIOUS
<1>3. /\ x \in AliveNodes(t) /\ x \in Nodes /\ used \in 1 .. Len(t[x].tokens) - 1 /\ s \in Nat
      /\ t[x].tokens \in Seq(Nat) /\ Len(t[x].tokens) \in Nat /\ used \in Nat
  <2>1. x \in AliveNodes(t) /\ used \in 1 .. Len(t[x].tokens) /\ s \in Nat /\ used \in Nat
    BY <1>2 DEF Hops
  <2>2. x \in Nodes
    BY <2>1 DEF AliveNodes
  <2>3. t[x].tokens \in Seq(Nat) /\ Len(t[x].tokens) \in Nat
    BY <2>2, NodeFields, LenProperties
  <2>4. used < Len(t[x].tokens)
    BY <1>2
  <2>. QED
    BY <2>1, <2>2, <2>3, <2>4
<1>4. Spelt(t, p) /\ Spells(t, p) /\ Branching(t) /\ p \in [Nodes -> Seq(Nat)]
  BY DEF Neat, Spelt, Spells
<1>5. AgreedTo(t, p, toks, h, h.start + h.used)
  BY <1>4, AgreedSpells
<1>6. s = Len(p[w]) /\ SubSeq(p[x], 1, s + used) = SubSeq(toks, 1, s + used) /\ k = s + used
  BY <1>2, <1>5 DEF AgreedTo
<1>7. PICK r : SpeltInTwo(p, r, x, Len(p[w]) + used, c)
  BY DEF SpeltInTwo
<1>8. SplitIs(t, u, x, used, c)
  BY <1>1, <1>2
<1>9. /\ Spelt(u, r)
      /\ \A q : q \in Cached(u) <=> q \in Cached(t)
  <2>1. SpeltInTwo(p, r, x, Len(p[t[x].parent]) + used, c)
    BY <1>2, <1>7
  <2>. QED
    BY <1>3, <1>4, <1>8, <2>1, SplitSpelt
<1>10. /\ Branching(u) /\ ToSet(u[x].kids) = {c} /\ u[c].tokens[1] = t[x].tokens[used + 1]
  <2>1. x \in AliveNodes(t) /\ used \in 1 .. Len(t[x].tokens) - 1 /\ c \in Nodes \ Up(t)
    BY <1>1, <1>3
  <2>2. CutAt(t, u, x, used, c)
    BY <1>4, <1>8, <2>1, SplitBranches
  <2>. QED
    BY <2>2 DEF CutAt
<1>11. r[x] = SubSeq(toks, 1, k)
  <2>1. x # c
    BY <1>3 DEF AliveNodes, Up
  <2>2. r[x] = SubSeq(p[x], 1, Len(p[w]) + used)
    BY <1>3, <1>4, <1>7, <2>1 DEF SpeltInTwo
  <2>. QED
    BY <1>6, <2>2
<1>12. ASSUME k < Len(toks) PROVE NoneFor(u, x, toks[k + 1])
  <2>1. PICK a, b : a = t[x].tokens /\ b = SubSeq(toks, s + 1, Len(toks))
    OBVIOUS
  <2>2. used = CommonLen(a, b) /\ s <= Len(toks) /\ Len(toks) \in Nat
    BY <1>2, <2>1, LenProperties DEF Agreed
  <2>3. /\ b \in Seq(Nat) /\ Len(b) = Len(toks) - s
        /\ \A i \in 1 .. Len(toks) - s : b[i] = toks[s + i]
    <3>1. s \in 0 .. Len(toks)
      BY <1>3, <2>2
    <3>. QED
      BY <2>1, <3>1, RestIs
  <2>4. a \in Seq(Nat) /\ used < Len(a)
    BY <1>2, <1>3, <2>1
  <2>5. used < Len(a) /\ used < Len(b) => a[used + 1] # b[used + 1]
    <3>1. a \in Seq(Nat) /\ b \in Seq(Nat) /\ used = CommonLen(a, b)
      BY <2>2, <2>3, <2>4
    <3>. QED
      BY <3>1, CommonIs
  <2>6. used < Len(b) /\ used + 1 \in 1 .. Len(toks) - s /\ s + (used + 1) = k + 1
    <3>1. /\ used \in Nat /\ s \in Nat /\ Len(toks) \in Nat /\ Len(b) = Len(toks) - s
          /\ k = s + used /\ k < Len(toks)
      BY <1>3, <1>6, <1>12, <2>2, <2>3
    <3>. QED
      BY ONLY <3>1
  <2>7. b[used + 1] = toks[k + 1]
    <3>1. b[used + 1] = toks[s + (used + 1)]
      BY <2>3, <2>6
    <3>. QED
      BY <2>6, <3>1
  <2>8. u[c].tokens[1] # toks[k + 1]
    BY <1>10, <2>1, <2>4, <2>5, <2>6, <2>7
  <2>. QED
    BY <1>10, <2>8 DEF NoneFor
<1>13. Reached(t, u, r, toks, x, k)
  BY <1>9, <1>10, <1>11, <1>12 DEF Reached, Neat
<1>. QED
  BY <1>2, <1>13

\* Counting a use changes nothing commit has come to know.
LEMMA ReachedSame ==
    ASSUME NEW t, NEW u \in [Nodes -> TreeNodes], Formed(u, {}), NEW p, NEW toks, NEW a \in Nodes,
           NEW k, Reached(t, u, p, toks, a, k),
           NEW v \in [Nodes -> TreeNodes], SameTree(u, v)
    PROVE  Reached(t, v, p, toks, a, k)
<1>1. Spelt(u, p) /\ Branching(u)
  BY DEF Reached, Neat
<1>2. Spelt(v, p) /\ \A q : q \in Cached(v) <=> q \in Cached(u)
  BY <1>1, SpeltSame
<1>3. Branching(v)
  BY <1>1, BranchingSame
<1>4. ASSUME NEW tok, NoneFor(u, a, tok) PROVE NoneFor(v, a, tok)
  <2>1. v[a].kids = u[a].kids /\ u[a].kids \in Seq(Nodes)
    BY NodeFields, Zenon DEF SameTree, SameNode
  <2>2. \A d \in ToSet(u[a].kids) : v[d].tokens = u[d].tokens
    <3>1. \A d \in ToSet(u[a].kids) : d \in Nodes
      BY <2>1, KidsIn
    <3>. QED
      BY <3>1 DEF SameTree, SameNode
  <2>. QED
    BY <1>4, <2>1, <2>2 DEF NoneFor
<1>. QED
  BY <1>2, <1>3, <1>4 DEF Reached, Neat

LEMMA AgreedSame ==
    ASSUME NEW t \in [Nodes -> TreeNodes], Formed(t, {}), NEW p, NEW toks, NEW h \in Hops(t),
           Agreed(t, p, toks, h), NEW u, SameTree(t, u)
    PROVE  Agreed(u, p, toks, h) /\ h \in Hops(u) /\ (HopFull(u, h) <=> HopFull(t, h))
<1>1. h.node \in Nodes
  BY DEF Hops
<1>2. u[h.node].parent = t[h.node].parent /\ u[h.node].tokens = t[h.node].tokens
  BY <1>1 DEF SameTree, SameNode
<1>3. Hops(u) = Hops(t)
  BY SameTreeOK
<1>. QED
  BY <1>2, <1>3 DEF Agreed, HopFull

\* What a lookup finds, told of the tree it leaves.
Found(t, p, toks, m) ==
    /\ MatchOK(t, toks, m)
    /\ m.path = <<>> => m.matched = 0
    /\ m.path # <<>> => /\ Last(m.path) \in Hops(t) /\ Agreed(t, p, toks, Last(m.path))
                        /\ m.matched = Last(m.path).start + Last(m.path).used
                        /\ Onward(t, toks, Last(m.path), m.matched) = INVALID

LEMMA MatchFinds ==
    ASSUME NEW t \in [Nodes -> TreeNodes], Formed(t, {}), NEW p, Spells(t, p),
           NEW toks \in Seq(Nat), NEW m, m = match(t, toks)
    PROVE  Found(t, p, toks, m)
<1>1. PICK w : w = Walk(t, toks)
  OBVIOUS
<1>2. WalkAgrees(t, p, toks, w) /\ Ended(t, toks, w)
  BY <1>1, WalkFinds
<1>3. m.path = w.path /\ m.matched = w.matched
  BY <1>1 DEF match, Matched
<1>4. MatchOK(t, toks, m)
  BY MatchIsOK
<1>5. m.matched = EndOf(m.path) /\ m.path \in Seq(Hops(t))
  BY <1>4 DEF MatchOK
<1>6. m.path # <<>> => Last(m.path) \in Hops(t)
  BY <1>5, LastOf
<1>7. m.path # <<>> => Agreed(t, p, toks, Last(m.path))
  BY <1>2, <1>3 DEF WalkAgrees
<1>8. m.path # <<>> => Onward(t, toks, Last(m.path), m.matched) = INVALID
  BY <1>2, <1>3 DEF Ended
<1>9. m.path # <<>> => m.matched = Last(m.path).start + Last(m.path).used
  BY <1>5 DEF EndOf
<1>10. m.path = <<>> => m.matched = 0
  BY <1>5 DEF EndOf
<1>. QED
  BY <1>4, <1>6, <1>7, <1>8, <1>9, <1>10 DEF Found

\* A lookup that ends with all of a node: commit goes on below it.
LEMMA MatchReaches ==
    ASSUME NEW t \in [Nodes -> TreeNodes], Formed(t, {}), NEW p, Neat(t, p),
           NEW toks \in Seq(Nat), NEW m, Found(t, p, toks, m), NEW a \in Nodes,
           IF m.path = <<>> THEN a = ROOT ELSE a = Last(m.path).node /\ HopFull(t, Last(m.path))
    PROVE  Reached(t, m.tree, p, toks, a, m.matched)
<1>1. MatchOK(t, toks, m) /\ m.tree \in [Nodes -> TreeNodes] /\ SameTree(t, m.tree)
  BY DEF Found, MatchOK
<1>2. CASE m.path = <<>>
  <2>1. a = ROOT /\ m.matched = 0
    BY <1>2 DEF Found
  <2>2. p[ROOT] = <<>>
    BY TheConstants DEF Neat, Spelt, Spells, Formed
  <2>3. SubSeq(toks, 1, 0) = <<>>
    BY SubSeqEmpty
  <2>4. Reached(t, t, p, toks, a, m.matched)
    BY <2>1, <2>2, <2>3 DEF Reached
  <2>. QED
    BY <1>1, <2>4, ReachedSame
<1>3. CASE m.path # <<>>
  <2>1. PICK h : h = Last(m.path)
    OBVIOUS
  <2>2. PICK k : k = m.matched
    OBVIOUS
  <2>3. /\ h \in Hops(t) /\ Agreed(t, p, toks, h) /\ HopFull(t, h) /\ a = h.node
        /\ k = h.start + h.used /\ Onward(t, toks, h, k) = INVALID
    BY <1>3, <2>1, <2>2 DEF Found
  <2>4. Reached(t, t, p, toks, h.node, k)
    BY <2>3, ReachedFull
  <2>5. Reached(t, t, p, toks, a, k)
    BY <2>3, <2>4
  <2>. QED
    BY <1>1, <2>2, <2>5, ReachedSame
<1>. QED
  BY <1>2, <1>3

\* A lookup that ends inside a node: commit goes on below it once it is split.
LEMMA MatchCuts ==
    ASSUME NEW t \in [Nodes -> TreeNodes], Formed(t, {}), NEW p, Neat(t, p),
           NEW toks \in Seq(Nat), NEW m, Found(t, p, toks, m), m.path # <<>>,
           ~HopFull(t, Last(m.path)), NEW u, SplitTo(m.tree, u, Last(m.path))
    PROVE  \E r : Reached(t, u, r, toks, Last(m.path).node, m.matched)
<1>1. MatchOK(t, toks, m) /\ m.tree \in [Nodes -> TreeNodes] /\ SameTree(t, m.tree)
  BY DEF Found, MatchOK
<1>2. PICK h : h = Last(m.path)
  OBVIOUS
<1>3. PICK k : k = m.matched
  OBVIOUS
<1>4. PICK v : v = m.tree
  OBVIOUS
<1>5. /\ h \in Hops(t) /\ Agreed(t, p, toks, h) /\ ~HopFull(t, h) /\ k = h.start + h.used
      /\ v \in [Nodes -> TreeNodes] /\ SameTree(t, v) /\ SplitTo(v, u, h)
  BY <1>1, <1>2, <1>3, <1>4 DEF Found
<1>6. /\ Spelt(v, p) /\ Formed(v, {}) /\ Branching(v)
      /\ \A q : q \in Cached(v) <=> q \in Cached(t)
  <2>1. Spelt(t, p) /\ Branching(t)
    BY DEF Neat
  <2>2. Branching(v)
    BY <1>5, <2>1, BranchingSame
  <2>. QED
    BY <1>5, <2>1, <2>2, SpeltSame
<1>7. Agreed(v, p, toks, h) /\ h \in Hops(v) /\ ~HopFull(v, h)
  BY <1>5, AgreedSame
<1>8. h.used < Len(v[h.node].tokens)
  <2>1. h.node \in Nodes /\ h.used \in 1 .. Len(v[h.node].tokens)
    BY <1>7 DEF Hops
  <2>2. Len(v[h.node].tokens) \in Nat
    BY <1>5, <2>1, NodeFields, LenProperties
  <2>. QED
    BY <1>7, <2>1, <2>2 DEF HopFull
<1>9. Neat(v, p)
  BY <1>6 DEF Neat
<1>10. PICK r : Reached(v, u, r, toks, h.node, k)
  BY <1>5, <1>6, <1>7, <1>8, <1>9, ReachedCut
<1>11. Reached(t, u, r, toks, h.node, k)
  BY <1>6, <1>10 DEF Reached
<1>. QED
  BY <1>2, <1>3, <1>11

\* What commit has reached before its loop is where the loop starts.
LEMMA WritingStarts ==
    ASSUME NEW q \in Requests, NEW t, NEW st \in Cursors, Sound(st.kv), st.from <= q.ntok, NEW r,
           Reached(t, st.kv.tree, r, SubSeq(q.tok, 1, q.ntok), st.parent, st.from),
           Fine(st.kv) => st.parent \in Up(st.kv.tree)
    PROVE  Writing(st, q, t, r)
<1>1. PICK u, a, k : u = st.kv.tree /\ a = st.parent /\ k = st.from
  OBVIOUS
<1>2. u \in [Nodes -> TreeNodes] /\ Formed(u, {}) /\ k \in Nat /\ a \in Nodes
  BY <1>1, CursorFields, SoundIsSpace, SpaceFields DEF Sound
<1>3. PICK n : n = q.ntok
  OBVIOUS
<1>4. PICK toks : toks = SubSeq(q.tok, 1, n)
  OBVIOUS
<1>5. Reached(t, u, r, toks, a, k) /\ (Fine(st.kv) => a \in Up(u)) /\ k <= n
  BY <1>1, <1>3, <1>4
<1>6. q.tok \in Seq(Nat) /\ n \in Nat /\ n <= Len(q.tok) /\ Len(q.tok) \in Nat
  BY <1>3, TokenArray, LenProperties
<1>7. n \in 0 .. Len(q.tok) /\ k \in 0 .. n
  BY <1>2, <1>5, <1>6
<1>8. SubSeq(toks, 1, k) = SubSeq(q.tok, 1, k)
  BY <1>4, <1>6, <1>7, StartOfStart
<1>9. Len(toks) = n /\ \A i \in 1 .. n : toks[i] = q.tok[i]
  BY <1>4, <1>6, <1>7, StartIs
<1>10. k < n => toks[k + 1] = q.tok[k + 1]
  BY <1>2, <1>6, <1>9
<1>11. r[a] = SubSeq(q.tok, 1, k) /\ Neat(u, r)
  BY <1>5, <1>8 DEF Reached
<1>12. ASSUME a # ROOT, k < n PROVE NoneFor(u, a, q.tok[k + 1])
  <2>1. NoneFor(u, a, toks[k + 1])
    BY <1>5, <1>9, <1>12 DEF Reached
  <2>. QED
    BY <1>10, <1>12, <2>1
<1>13. ASSUME Fine(st.kv), NEW x
       PROVE  x \in Cached(u) <=> x \in Cached(t) \/ x \in Prefixes(SubSeq(q.tok, 1, k))
  <2>1. a \in Up(u) /\ Spells(u, r)
    BY <1>5, <1>11, <1>13 DEF Neat, Spelt
  <2>2. \A y \in Prefixes(r[a]) : y \in Cached(u)
    BY <1>2, <2>1, SpeltIsCached
  <2>3. \A y : y \in Cached(u) <=> y \in Cached(t)
    BY <1>5 DEF Reached
  <2>. QED
    BY <1>11, <2>2, <2>3
<1>14. Fine(st.kv) => Ahead(st, q, t, r)
  BY <1>1, <1>3, <1>11, <1>12, <1>13 DEF Ahead
<1>. QED
  BY <1>1, <1>11, <1>14 DEF Writing

\* Commit publishes the request's tokens and nothing else.
LEMMA CommitWrites ==
    ASSUME NEW kv, Sound(kv), Fine(kv), NEW s \in Slots, NEW kw, kw = commit(kv, s),
           NEW p, Neat(kv.tree, p)
    PROVE  /\ \E r : Neat(kw.tree, r)
           /\ Fine(kw) => \A x : x \in Cached(kw.tree)
                                   <=> x \in Cached(kv.tree) \/ x \in Prefixes(tokens_of(kv, s))
<1>. DEFINE toks == tokens_of(kv, s)
            m == match(kv.tree, toks)
            q == kv.rq[s]
            seen == [kv EXCEPT !.tree = m.tree]
            partly == /\ m.path # <<>>
                      /\ Last(m.path).used < Len(m.tree[Last(m.path).node].tokens)
            first == IF partly THEN SplitLast(seen, m.path) ELSE seen
            parent == IF m.path = <<>> THEN ROOT ELSE Last(m.path).node
            at == Cursor(q.table, m.matched)
            slot == SlotAt(q.table, m.matched)
            start == [kv |-> first, parent |-> parent, from |-> m.matched, at |-> at,
                      slot |-> slot]
            sw == AddNodes(start, s)
<1>1. /\ kv \in Spaces /\ kv.tree \in [Nodes -> TreeNodes] /\ Formed(kv.tree, {})
  BY SoundIsSpace, SpaceFields DEF Sound
<1>2. toks \in Seq(Nat) /\ Len(toks) = q.ntok
  BY <1>1, TokensOfIs
<1>3. q \in Requests /\ q.table \in Seq(Runs) /\ q.ntok \in 0 .. MAX_SEQ_TOKENS
  BY <1>1, SlotTable, RequestFields
<1>4. kw = IF ~m.ok THEN Fail(kv) ELSE Committed(sw.kv, s)
  BY DEF commit, CommitBelow
<1>5. Found(kv.tree, p, toks, m)
  <2>1. m = match(kv.tree, toks)
    OBVIOUS
  <2>2. Spells(kv.tree, p)
    BY DEF Neat, Spelt
  <2>. HIDE DEF m, toks
  <2>. QED
    BY <1>1, <1>2, <2>1, <2>2, MatchFinds
<1>t. toks = SubSeq(q.tok, 1, q.ntok)
  BY DEF tokens_of
<1>. HIDE DEF m, toks
<1>6. /\ m.path \in Seq(Hops(kv.tree)) /\ m.matched \in Nat /\ m.matched <= q.ntok
      /\ m.tree \in [Nodes -> TreeNodes] /\ SameTree(kv.tree, m.tree)
  BY <1>2, <1>5 DEF Found, MatchOK
<1>7. /\ seen \in Spaces /\ seen.pool = kv.pool /\ seen.tree = m.tree /\ seen.rq = kv.rq
      /\ seen.ok = kv.ok
  BY <1>1, <1>6, WithTree
<1>. HIDE DEF seen
<1>8. Sound(seen) /\ Fine(seen) /\ Hops(seen.tree) = Hops(kv.tree)
  <2>1. SameTree(kv.tree, seen.tree)
    BY <1>6, <1>7
  <2>2. Fine(seen)
    BY <1>7, Zenon DEF Fine
  <2>. QED
    BY <1>1, <1>7, <2>1, <2>2, SoundLookup, SameTreeOK
<1>9. ASSUME m.path # <<>>
      PROVE  /\ Last(m.path).node \in AliveNodes(seen.tree) /\ Last(m.path).node \in Nodes
             /\ (partly <=> ~HopFull(kv.tree, Last(m.path)))
  <2>1. m.path \in Seq(Hops(seen.tree))
    BY <1>6, <1>8
  <2>2. Last(m.path) \in Hops(seen.tree)
    BY <1>9, <2>1, LastOf
  <2>3. PICK h : h = Last(m.path)
    OBVIOUS
  <2>4. h.node \in Nodes /\ h.node \in AliveNodes(seen.tree) /\ h \in Hops(kv.tree)
    BY <1>8, <2>2, <2>3 DEF Hops
  <2>5. m.tree[h.node].tokens = kv.tree[h.node].tokens /\ Len(kv.tree[h.node].tokens) \in Nat
        /\ h.used \in 1 .. Len(kv.tree[h.node].tokens)
    <3>1. Len(kv.tree[h.node].tokens) \in Nat
      BY <1>1, <2>4, NodeFields, LenProperties
    <3>2. m.tree[h.node].tokens = kv.tree[h.node].tokens
      BY <1>6, <2>4 DEF SameTree, SameNode
    <3>. QED
      BY <2>4, <3>1, <3>2 DEF Hops
  <2>6. h.used < Len(m.tree[h.node].tokens) <=> ~HopFull(kv.tree, h)
    BY <2>5 DEF HopFull
  <2>. QED
    BY <1>9, <2>3, <2>4, <2>6
<1>10. /\ Sound(first) /\ first.rq = kv.rq /\ parent \in Nodes
       /\ Fine(first) => parent \in Up(first.tree)
       /\ \/ \E r : Reached(kv.tree, first.tree, r, toks, parent, m.matched)
          \/ ~Fine(first) /\ Neat(first.tree, p)
  <2>1. parent \in Nodes
    BY <1>9, TheConstants
  <2>2. CASE partly
    <3>1. m.path \in Seq(Hops(seen.tree))
      BY <1>6, <1>8
    <3>2. Last(m.path).used < Len(seen.tree[Last(m.path).node].tokens) /\ m.path # <<>>
      BY <1>7, <2>2
    <3>3. first = SplitLast(seen, m.path) /\ parent = Last(m.path).node
      BY <2>2
    <3>n. ~HopFull(kv.tree, Last(m.path))
      BY <1>9, <2>2
    <3>. HIDE DEF first, parent, partly
    <3>4. /\ Sound(first) /\ first.rq = seen.rq
          /\ Fine(first) => Last(m.path).node \in AliveNodes(first.tree)
          /\ \/ SplitTo(seen.tree, first.tree, Last(m.path))
             \/ first.tree = seen.tree /\ ~Fine(first)
      BY <1>8, <3>1, <3>2, <3>3, SplitLastOK
    <3>5. AliveNodes(first.tree) \subseteq Up(first.tree)
      BY Zenon DEF AliveNodes, Up
    <3>6. CASE SplitTo(seen.tree, first.tree, Last(m.path))
      <4>1. PICK u : u = first.tree
        OBVIOUS
      <4>2. SplitTo(m.tree, u, Last(m.path))
        BY <1>7, <3>6, <4>1
      <4>3. \E r : Reached(kv.tree, u, r, toks, Last(m.path).node, m.matched)
        BY <1>1, <1>2, <1>5, <3>2, <3>n, <4>2, MatchCuts
      <4>. QED
        BY <1>7, <2>1, <3>3, <3>4, <3>5, <4>1, <4>3
    <3>7. CASE first.tree = seen.tree /\ ~Fine(first)
      <4>1. Spelt(kv.tree, p) /\ Branching(kv.tree)
        BY DEF Neat
      <4>2. Spelt(m.tree, p)
        BY <1>1, <1>6, <4>1, SpeltSame
      <4>3. Branching(m.tree)
        BY <1>1, <1>6, <4>1, BranchingSame
      <4>4. Neat(first.tree, p)
        BY <1>7, <3>7, <4>2, <4>3 DEF Neat
      <4>. QED
        BY <1>7, <2>1, <3>4, <3>7, <4>4
    <3>. QED
      BY <3>4, <3>6, <3>7
  <2>3. CASE ~partly
    <3>1. first = seen
      BY <2>3
    <3>2. IF m.path = <<>> THEN parent = ROOT
          ELSE parent = Last(m.path).node /\ HopFull(kv.tree, Last(m.path))
      BY <1>9, <2>3
    <3>. HIDE DEF first, parent, partly
    <3>3. parent \in Up(seen.tree)
      <4>1. CASE m.path = <<>>
        <5>1. seen.tree[ROOT].alive
          BY <1>8, Zenon DEF Sound, Formed
        <5>. QED
          BY <3>2, <4>1, <5>1, TheConstants, Zenon DEF Up
      <4>2. CASE m.path # <<>>
        <5>2. AliveNodes(seen.tree) \subseteq Up(seen.tree)
          BY Zenon DEF AliveNodes, Up
        <5>. QED
          BY <1>9, <3>2, <4>2, <5>2
      <4>. QED
        BY <4>1, <4>2
    <3>4. PICK a : a = parent
      OBVIOUS
    <3>5. a \in Nodes /\ IF m.path = <<>> THEN a = ROOT
                         ELSE a = Last(m.path).node /\ HopFull(kv.tree, Last(m.path))
      BY <2>1, <3>2, <3>4
    <3>6. Reached(kv.tree, m.tree, p, toks, a, m.matched)
      BY <1>1, <1>2, <1>5, <3>5, MatchReaches
    <3>7. Reached(kv.tree, first.tree, p, toks, parent, m.matched)
      BY <1>7, <3>1, <3>4, <3>6
    <3>. QED
      BY <1>7, <1>8, <2>1, <3>1, <3>3, <3>7
  <2>. HIDE DEF first, parent, partly
  <2>. QED
    BY <2>2, <2>3
<1>. HIDE DEF first, parent, partly
<1>11. /\ at \in 1 .. Len(q.table) + 1 /\ slot \in Nat
       /\ at <= Len(q.table) => slot < block_size
  <2>. DEFINE table == q.table
              k == m.matched
  <2>1. table \in Seq(Runs) /\ k \in Nat
    BY <1>3, <1>6
  <2>. HIDE DEF table, k
  <2>2. /\ Cursor(table, k) \in 1 .. Len(table) + 1 /\ SlotAt(table, k) \in Nat
        /\ Cursor(table, k) <= Len(table) => SlotAt(table, k) < block_size
    BY <2>1, CursorOK
  <2>. QED
    BY <2>2 DEF table, k
<1>12. at \in Nat
  BY <1>3, <1>11, LenProperties
<1>. HIDE DEF at, slot
<1>13. /\ start \in Cursors /\ start.kv = first /\ start.parent = parent
       /\ start.from = m.matched /\ start.at = at /\ start.slot = slot
  <2>1. first \in Spaces
    BY <1>10, SoundIsSpace
  <2>. QED
    BY <1>6, <1>10, <1>11, <1>12, <2>1, CursorMade
<1>. HIDE DEF start
<1>14. Publishing(start, kv.rq, s)
  <2>1. Fine(start.kv) => InPlace(start, kv.rq[s])
    BY <1>6, <1>10, <1>11, <1>13 DEF InPlace
  <2>. QED
    BY <1>10, <1>13, <2>1 DEF Publishing
<1>15. start.from <= start.kv.rq[s].ntok
  BY <1>6, <1>10, <1>13
<1>16. Publishing(sw, kv.rq, s)
  BY <1>14, <1>15, AddNodesOK
<1>17. \E r : Writing(start, q, kv.tree, r)
  <2>1. CASE ~Fine(first) /\ Neat(first.tree, p)
    BY <1>13, <2>1 DEF Writing
  <2>2. CASE \E r : Reached(kv.tree, first.tree, r, toks, parent, m.matched)
    <3>1. PICK r : Reached(kv.tree, first.tree, r, toks, parent, m.matched)
      BY <2>2
    <3>2. Reached(kv.tree, start.kv.tree, r, SubSeq(q.tok, 1, q.ntok), start.parent, start.from)
      BY <1>t, <1>13, <3>1
    <3>3. /\ q \in Requests /\ start \in Cursors /\ Sound(start.kv) /\ start.from <= q.ntok
          /\ Fine(start.kv) => start.parent \in Up(start.kv.tree)
      BY <1>3, <1>6, <1>10, <1>13
    <3>. HIDE DEF q
    <3>4. Writing(start, q, kv.tree, r)
      BY <3>2, <3>3, WritingStarts
    <3>. QED
      BY <3>4
  <2>. QED
    BY <1>10, <2>1, <2>2
<1>18. /\ \E r : Writing(sw, q, kv.tree, r)
       /\ Fine(sw.kv) => sw.from = q.ntok
  <2>1. PICK r : Writing(start, kv.rq[s], kv.tree, r)
    BY <1>17
  <2>2. sw = AddNodes(start, s)
    OBVIOUS
  <2>. HIDE DEF sw
  <2>3. /\ \E e : Writing(sw, kv.rq[s], kv.tree, e)
        /\ Fine(sw.kv) => sw.from = kv.rq[s].ntok
    BY <1>14, <1>15, <2>1, <2>2, NodesWrite
  <2>. QED
    BY <2>3
<1>. HIDE DEF sw
<1>19. Sound(sw.kv) /\ sw.kv.rq = kv.rq
  BY <1>16 DEF Publishing
<1>20. CASE ~m.ok
  <2>1. kw = Fail(kv)
    BY <1>4, <1>20
  <2>2. ~Fine(kw) /\ kw.tree = kv.tree
    BY <2>1, FailOK
  <2>. QED
    BY <2>2
<1>21. CASE m.ok
  <2>1. kw = Committed(sw.kv, s)
    BY <1>4, <1>21
  <2>2. (Fine(kw) <=> Fine(sw.kv)) /\ kw.tree = sw.kv.tree
    BY <1>19, <2>1, CommittedOK
  <2>3. PICK r : Writing(sw, q, kv.tree, r)
    BY <1>18
  <2>4. Neat(kw.tree, r)
    BY <2>2, <2>3 DEF Writing
  <2>5. ASSUME Fine(kw), NEW x
        PROVE  x \in Cached(kw.tree) <=> x \in Cached(kv.tree) \/ x \in Prefixes(toks)
    <3>1. Ahead(sw, q, kv.tree, r) /\ sw.from = q.ntok
      BY <1>18, <2>2, <2>3, <2>5 DEF Writing
    <3>. HIDE DEF q
    <3>2. x \in Cached(sw.kv.tree)
            <=> x \in Cached(kv.tree) \/ x \in Prefixes(SubSeq(q.tok, 1, q.ntok))
      BY <3>1 DEF Ahead
    <3>. QED
      BY <1>t, <2>2, <3>2
  <2>. QED
    BY <2>4, <2>5 DEF toks
<1>. QED
  BY <1>20, <1>21
-----------------------------------------------------------------------------
(* The tree of a room is always neat *)

\* An eviction takes nodes with all that hangs on them: the ones left spell what
\* they did.
LEMMA PrunedNeat ==
    ASSUME NEW t \in [Nodes -> TreeNodes], Formed(t, {}), NEW p, Neat(t, p),
           NEW u \in [Nodes -> TreeNodes], Formed(u, {}), Pruned(t, u)
    PROVE  \E r : Neat(u, r)
<1>. DEFINE r == [x \in Nodes |-> IF u[x].alive THEN p[x] ELSE u[x].tokens]
<1>1. Clean(t) /\ Spells(t, p) /\ Branching(t) /\ p \in [Nodes -> Seq(Nat)]
  BY DEF Neat, Spelt, Spells
<1>2. \A x \in Nodes :
        /\ u[x].alive => /\ t[x].alive /\ u[x].tokens = t[x].tokens
                         /\ ToSet(u[x].kids) \subseteq ToSet(t[x].kids)
        /\ ~u[x].alive => u[x].parent = INVALID \/ (u[x].parent = t[x].parent /\ ~t[x].alive)
  BY DEF Pruned
<1>3. Clean(u)
  <2>1. \A x \in Nodes : ~t[x].alive => t[x].parent = INVALID
    BY <1>1 DEF Clean
  <2>. QED
    BY <1>2, <2>1 DEF Clean
<1>4. \A x \in AliveNodes(u) : x \in AliveNodes(t)
  BY <1>2 DEF AliveNodes
<1>5. u[ROOT].alive /\ u[ROOT].parent = INVALID /\ t[ROOT].parent = INVALID
      /\ u[ROOT].tokens = <<>> /\ t[ROOT].tokens = <<>>
  BY DEF Formed
<1>6. \A x \in Nodes : u[x].tokens \in Seq(Nat)
  BY NodeFields
<1>7. r \in [Nodes -> Seq(Nat)] /\ \A x \in Nodes : r[x] = IF u[x].alive THEN p[x] ELSE u[x].tokens
  BY <1>1, <1>6
<1>. HIDE DEF r
<1>8. ASSUME NEW x \in Nodes
      PROVE  r[x] = IF x = ROOT \/ u[x].parent = INVALID THEN u[x].tokens
                    ELSE r[u[x].parent] \o u[x].tokens
  <2>1. CASE x = ROOT
    <3>1. p[ROOT] = t[ROOT].tokens
      BY <1>1, TheConstants DEF Spells
    <3>. QED
      BY <1>5, <1>7, <2>1, <3>1, TheConstants
  <2>2. CASE x # ROOT /\ ~u[x].alive
    BY <1>3, <1>7, <2>2 DEF Clean
  <2>3. CASE x # ROOT /\ u[x].alive
    <3>. DEFINE a == u[x].parent
    <3>1. x \in AliveNodes(u)
      BY <2>3 DEF AliveNodes
    <3>2. a # INVALID /\ a \in Nodes /\ x \in ToSet(u[a].kids)
      BY <3>1, NodeFields DEF Formed
    <3>3. u[a].alive
      <4>1. ToSet(<<>>) = {}
        BY DEF ToSet
      <4>. QED
        BY <3>2, <4>1 DEF Formed
    <3>4. x \in ToSet(t[a].kids)
      BY <1>2, <3>2, <3>3
    <3>5. t[x].parent = a
      BY <3>2, <3>4 DEF Formed
    <3>6. p[x] = p[a] \o t[x].tokens
      BY <1>1, <2>3, <3>2, <3>5 DEF Spells
    <3>. QED
      BY <1>2, <1>7, <2>3, <3>2, <3>3, <3>6
  <2>. QED
    BY <2>1, <2>2, <2>3
<1>9. Branching(u)
  <2>1. ASSUME NEW x \in AliveNodes(u), NEW c \in ToSet(u[x].kids), NEW d \in ToSet(u[x].kids),
               u[c].tokens[1] = u[d].tokens[1]
        PROVE  c = d
    <3>1. x \in Nodes /\ x \in AliveNodes(t) /\ u[x].alive
      BY <1>4, <2>1 DEF AliveNodes
    <3>2. c \in ToSet(t[x].kids) /\ d \in ToSet(t[x].kids)
      BY <1>2, <2>1, <3>1
    <3>3. c \in Nodes /\ d \in Nodes
      <4>1. u[x].kids \in Seq(Nodes)
        BY <3>1, NodeFields
      <4>. QED
        BY <2>1, <4>1, KidsIn
    <3>4. u[c].alive /\ u[d].alive
      BY <2>1, <3>1 DEF Formed
    <3>5. t[c].tokens[1] = t[d].tokens[1]
      BY <1>2, <2>1, <3>3, <3>4
    <3>. QED
      BY <1>1, <3>1, <3>2, <3>5 DEF Branching
  <2>. QED
    BY <2>1 DEF Branching
<1>. QED
  BY <1>1, <1>3, <1>7, <1>8, <1>9 DEF Neat, Spelt, Spells

LEMMA SameNeat ==
    ASSUME NEW t \in [Nodes -> TreeNodes], Formed(t, {}), NEW p, Neat(t, p),
           NEW u \in [Nodes -> TreeNodes], SameTree(t, u)
    PROVE  Neat(u, p)
BY SpeltSame, BranchingSame DEF Neat

\* With only the root there is nothing to spell.
LEMMA NewTreeNeat == \E p : Neat(NewTree, p)
<1>. DEFINE p == [x \in Nodes |-> NewTree[x].tokens]
<1>1. NewTree \in [Nodes -> TreeNodes] /\ Formed(NewTree, {}) /\ AliveNodes(NewTree) = {}
  BY NewTreeOK
<1>2. \A x \in Nodes : NewTree[x].parent = INVALID
  <2>1. TAKE x \in Nodes
  <2>. DEFINE alive == x = ROOT
  <2>2. NewTree[x] = [DeadNode EXCEPT !.alive = alive]
    BY DEF NewTree
  <2>. HIDE DEF alive
  <2>. QED
    BY <2>2 DEF DeadNode
<1>3. \A x \in Nodes : NewTree[x].tokens \in Seq(Nat)
  BY <1>1, NodeFields
<1>. HIDE DEF p
<1>4. p \in [Nodes -> Seq(Nat)] /\ \A x \in Nodes : p[x] = NewTree[x].tokens
  BY <1>3 DEF p
<1>5. Branching(NewTree)
  BY <1>1 DEF Branching
<1>6. Spells(NewTree, p)
  BY <1>2, <1>4 DEF Spells
<1>7. Clean(NewTree)
  BY <1>2 DEF Clean
<1>. QED
  BY <1>5, <1>6, <1>7 DEF Neat, Spelt

\* Until a failed eviction has cut nodes off, every node spells a sequence and
\* no two children of one start alike; and the root has one child at most
\* unless a second has come.
TreeInv ==
    "full" \notin mishaps =>
        /\ \E p : Neat(room.kv.tree, p)
        /\ "forked" \notin mishaps => Len(room.kv.tree[ROOT].kids) <= 1

LEMMA TreeInit == Init => TreeInv
<1>. SUFFICES ASSUME Init PROVE TreeInv
  OBVIOUS
<1>1. room.kv.tree = NewTree
  BY DEF Init, NewRoom, NewSpace
<1>2. NewTree[ROOT].kids = <<>>
  <2>. DEFINE alive == ROOT = ROOT
  <2>1. NewTree[ROOT] = [DeadNode EXCEPT !.alive = alive]
    BY TheConstants DEF NewTree
  <2>. HIDE DEF alive
  <2>. QED
    BY <2>1 DEF DeadNode
<1>3. Len(<<>>) <= 1
  OBVIOUS
<1>. QED
  BY <1>1, <1>2, <1>3, NewTreeNeat DEF TreeInv

LEMMA ReturnedIs ==
    ASSUME NEW q \in Rooms, NEW more, Returned(q, more)
    PROVE  /\ room' \in Rooms /\ room'.kv.tree = q.kv.tree /\ room'.published = q.published
           /\ mishaps \subseteq mishaps' /\ more \subseteq mishaps'
           /\ Len(q.kv.tree[ROOT].kids) > 1 => "forked" \in mishaps'
<1>. DEFINE kw == [q.kv EXCEPT !.ok = TRUE]
<1>1. kw \in Spaces /\ kw.tree = q.kv.tree
  <2>. DEFINE ok == TRUE
  <2>1. ok \in BOOLEAN /\ q.kv \in Spaces
    BY RoomFields
  <2>. HIDE DEF ok
  <2>2. \A l : l = [q.kv EXCEPT !.ok = ok] => l \in Spaces /\ l.tree = q.kv.tree
    BY <2>1, WithOk
  <2>3. kw = [q.kv EXCEPT !.ok = ok]
    BY DEF ok
  <2>. QED
    BY <2>2, <2>3
<1>2. room' = [q EXCEPT !.kv = kw]
  BY DEF Returned
<1>3. mishaps \subseteq mishaps' /\ more \subseteq mishaps'
      /\ (Len(q.kv.tree[ROOT].kids) > 1 => "forked" \in mishaps')
  BY DEF Returned
<1>. HIDE DEF kw
<1>. QED
  BY <1>1, <1>2, <1>3, WithKv

\* A call that leaves the tree neat keeps the invariant when it returns.
LEMMA TreeReturned ==
    ASSUME NEW q, NEW more, Returned(q, more),
           "full" \notin mishaps => q \in Rooms,
           "full" \notin mishaps' => \E p : Neat(q.kv.tree, p)
    PROVE  TreeInv'
<1>. SUFFICES ASSUME "full" \notin mishaps'
              PROVE  /\ \E p : Neat(room'.kv.tree, p)
                     /\ "forked" \notin mishaps' => Len(room'.kv.tree[ROOT].kids) <= 1
  BY DEF TreeInv
<1>1. "full" \notin mishaps
  BY DEF Returned
<1>2. /\ room'.kv.tree = q.kv.tree
      /\ Len(q.kv.tree[ROOT].kids) > 1 => "forked" \in mishaps'
  BY <1>1, ReturnedIs
<1>3. Len(q.kv.tree[ROOT].kids) \in Nat
  <2>1. q.kv.tree[ROOT].kids \in Seq(Nodes)
    BY <1>1, RoomFields, SpaceFields, NodeFields, TheConstants
  <2>. QED
    BY <2>1, LenProperties
<1>4. "forked" \notin mishaps' => Len(q.kv.tree[ROOT].kids) <= 1
  BY <1>2, <1>3
<1>. QED
  BY <1>2, <1>4

\* What every call but publish does to a room in order: its tree stays neat
\* unless the call fails on a full list, and nothing new is published.
TreeKept(r, q, more) ==
    /\ q \in Rooms /\ NoneNew(r, q)
    /\ "full" \notin more => \A p : Neat(r.kv.tree, p) => \E l : Neat(q.kv.tree, l)

LEMMA CalledKeeps ==
    ASSUME NEW r \in Rooms, Sound(r.kv), NEW q, NEW s, Called(r, q, s), NEW more
    PROVE  TreeKept(r, q, more)
<1>1. q \in Rooms /\ NoneNew(r, q) /\ SameTree(r.kv.tree, q.kv.tree)
  BY DEF Called
<1>2. /\ r.kv.tree \in [Nodes -> TreeNodes] /\ q.kv.tree \in [Nodes -> TreeNodes]
      /\ Formed(r.kv.tree, {})
  BY <1>1, RoomFields, SpaceFields DEF Sound
<1>3. \A p : Neat(r.kv.tree, p) => Neat(q.kv.tree, p)
  BY <1>1, <1>2, SameNeat
<1>. QED
  BY <1>1, <1>3 DEF TreeKept

LEMMA DropKeeps ==
    ASSUME NEW r \in Rooms, Sound(r.kv), Fine(r.kv), NEW s \in Slots, NEW q, q = drop(r, s), NEW more
    PROVE  TreeKept(r, q, more)
<1>1. q \in Rooms /\ q.kv.tree = r.kv.tree /\ NoneNew(r, q)
  BY DropOK
<1>. QED
  BY <1>1 DEF TreeKept

LEMMA ReclaimKeeps ==
    ASSUME NEW r \in Rooms, Sound(r.kv), Fine(r.kv), NEW need \in Nat, NEW q, q = reclaim(r, need),
           NEW more, ~Fine(q.kv) /\ TooMany(n_free(q.kv.pool) - n_free(r.kv.pool)) => "full" \in more
    PROVE  TreeKept(r, q, more)
<1>1. q \in Rooms /\ Thinned(r.kv, q.kv) /\ q.published = r.published
  BY ReclaimOK
<1>2. /\ r.kv.tree \in [Nodes -> TreeNodes] /\ q.kv.tree \in [Nodes -> TreeNodes]
      /\ Formed(r.kv.tree, {})
  BY <1>1, RoomFields, SpaceFields DEF Sound
<1>3. Pruned(r.kv.tree, q.kv.tree)
  BY <1>1 DEF Thinned
<1>4. ASSUME "full" \notin more, NEW p, Neat(r.kv.tree, p) PROVE \E l : Neat(q.kv.tree, l)
  <2>1. Sound(q.kv)
    BY <1>1, <1>4 DEF Thinned
  <2>2. Formed(q.kv.tree, {})
    BY <2>1 DEF Sound
  <2>. QED
    BY <1>2, <1>3, <1>4, <2>2, PrunedNeat
<1>. QED
  BY <1>1, <1>4 DEF TreeKept, NoneNew

\* publish: the tree stays neat, and where it did not raise the request is
\* published and the cache is what it was and the request's sequence.
LEMMA PublishKeeps ==
    ASSUME NEW r \in Rooms, Sound(r.kv), Fine(r.kv), NEW s \in Slots, NEW q, q = publish(r, s),
           NEW p, Neat(r.kv.tree, p)
    PROVE  /\ q \in Rooms /\ \E l : Neat(q.kv.tree, l)
           /\ \A t \in Slots : ~r.published[t] /\ q.published[t] =>
                Cached(q.kv.tree) = Cached(r.kv.tree) \cup Prefixes(tokens_of(r.kv, t))
<1>1. /\ q \in Rooms /\ q.kv = commit(r.kv, s)
      /\ \A t \in Slots \ {s} : q.published[t] = r.published[t]
      /\ ~Fine(q.kv) => q.published = r.published
  BY PublishOK
<1>2. /\ \E l : Neat(q.kv.tree, l)
      /\ Fine(q.kv) =>
           \A x : x \in Cached(q.kv.tree)
                    <=> x \in Cached(r.kv.tree) \/ x \in Prefixes(tokens_of(r.kv, s))
  <2>1. PICK kw : kw = commit(r.kv, s)
    OBVIOUS
  <2>2. /\ \E l : Neat(kw.tree, l)
        /\ Fine(kw) =>
             \A x : x \in Cached(kw.tree)
                      <=> x \in Cached(r.kv.tree) \/ x \in Prefixes(tokens_of(r.kv, s))
    BY <2>1, CommitWrites
  <2>. QED
    BY <1>1, <2>1, <2>2
<1>3. ASSUME NEW t \in Slots, ~r.published[t], q.published[t]
      PROVE  Cached(q.kv.tree) = Cached(r.kv.tree) \cup Prefixes(tokens_of(r.kv, t))
  <2>1. t = s /\ Fine(q.kv)
    BY <1>1, <1>3
  <2>. DEFINE a == Cached(q.kv.tree)
              b == Cached(r.kv.tree)
              c == Prefixes(tokens_of(r.kv, t))
  <2>2. \A x : x \in a <=> x \in b \/ x \in c
    BY <1>2, <2>1
  <2>. HIDE DEF a, b, c
  <2>3. a = b \cup c
    BY <2>2
  <2>. QED
    BY <2>3 DEF a, b, c
<1>. QED
  BY <1>1, <1>2, <1>3

\* A step from a room in order is a call that keeps the tree, a publication, or
\* does not touch it.
LEMMA StepsAre ==
    ASSUME KvInv, [Next]_vars, "full" \notin mishaps
    PROVE  \/ \E q, more : Returned(q, more) /\ TreeKept(room, q, more)
           \/ \E s \in Slots : Publish(s)
           \/ /\ room'.kv = room.kv /\ room'.published = room.published
              /\ mishaps' = mishaps
<1>0. room \in Rooms /\ Sound(room.kv) /\ Fine(room.kv)
  BY DEF KvInv
<1>c. MAX_REQUESTS \in Nat /\ MAX_SEQ_TOKENS \in Nat /\ MAX_BLOCKS \in Nat
  BY TheConstants
<1>1. ASSUME NEW id \in 1 .. MAX_REQUESTS, NEW prompt \in Prompts, NEW n_now \in 1 .. Len(prompt),
             Admit(id, prompt, n_now)
      PROVE  \E q, more : Returned(q, more) /\ TreeKept(room, q, more)
  <2>. DEFINE s == FreeSlot(room.kv)
              r == admit(room, id, prompt, n_now)
              more == TableFull(r, s) \cup LeftBehind(s)
  <2>1. LiveSlots(room.kv) # Slots /\ Returned(r, more)
    BY <1>1 DEF Admit
  <2>2. prompt \in Seq(Nat) /\ Len(prompt) \in 1 .. MAX_SEQ_TOKENS /\ id \in Nat
    BY <1>c, RoomAssumption
  <2>. HIDE DEF more
  <2>3. Called(room, r, s)
    <3>. HIDE DEF r, s
    <3>. QED
      BY <1>0, <2>1, <2>2, AdmitOK DEF r, s
  <2>. HIDE DEF r, s
  <2>4. TreeKept(room, r, more)
    BY <1>0, <2>3, CalledKeeps
  <2>. QED
    BY <2>1, <2>4, SMTT(60)
<1>2. ASSUME NEW s \in Slots, NEW n \in 1 .. MAX_SEQ_TOKENS, NEW tok \in Tokens, Extend(s, n, tok)
      PROVE  \E q, more : Returned(q, more) /\ TreeKept(room, q, more)
  <2>. DEFINE r == extend(room, s, n)
              more == TableFull(r, s)
  <2>1. /\ room.kv.rq[s].live /\ room.kv.rq[s].ntok + n <= MAX_SEQ_TOKENS
        /\ Returned(r, more)
    BY <1>2 DEF Extend, LiveSlots
  <2>2. n \in Nat \ {0}
    BY <1>c
  <2>. HIDE DEF more
  <2>3. Called(room, r, s)
    <3>. HIDE DEF r
    <3>. QED
      BY <1>0, <2>1, <2>2, ExtendOK DEF r
  <2>. HIDE DEF r
  <2>4. TreeKept(room, r, more)
    BY <1>0, <2>3, CalledKeeps
  <2>. QED
    BY <2>1, <2>4
<1>3. ASSUME NEW s \in Slots, Drop(s)
      PROVE  \E q, more : Returned(q, more) /\ TreeKept(room, q, more)
  <2>. DEFINE r == drop(room, s)
              more == {}
  <2>1. Returned(r, more)
    BY <1>3 DEF Drop
  <2>. HIDE DEF more
  <2>2. TreeKept(room, r, more)
    <3>. HIDE DEF r
    <3>. QED
      BY <1>0, DropKeeps DEF r
  <2>. HIDE DEF r
  <2>. QED
    BY <2>1, <2>2
<1>4. ASSUME NEW need \in 1 .. MAX_BLOCKS, Reclaim(need)
      PROVE  \E q, more : Returned(q, more) /\ TreeKept(room, q, more)
  <2>. DEFINE r == reclaim(room, need)
              more == ListFull(r)
  <2>1. Returned(r, more)
    BY <1>4 DEF Reclaim
  <2>2. need \in Nat
    BY <1>c
  <2>3. r = reclaim(room, need)
    OBVIOUS
  <2>. HIDE DEF r
  <2>4. ASSUME ~Fine(r.kv), TooMany(n_free(r.kv.pool) - n_free(room.kv.pool))
        PROVE  "full" \in more
    <3>1. r.kv.ok \in BOOLEAN
      BY <1>0, <2>2, <2>3, ReclaimOK, RoomFields, SpaceFields
    <3>2. ~r.kv.ok
      BY <2>4, <3>1, Zenon DEF Fine
    <3>3. ListFull(r) = {"full"}
      BY <2>4, <3>2 DEF TooMany, ListFull
    <3>. QED
      BY <3>3
  <2>. HIDE DEF more
  <2>5. TreeKept(room, r, more)
    BY <1>0, <2>2, <2>3, <2>4, ReclaimKeeps
  <2>. QED
    BY <2>1, <2>5
<1>5. ASSUME NEW limit \in 1 .. FREED_BOUND, TakeFreed(limit)
      PROVE  /\ room'.kv = room.kv /\ room'.published = room.published
             /\ mishaps' = mishaps
  <2>. DEFINE p == room.freed_pending
              least == Min({p, limit})
              left == p - least
  <2>1. room' = [room EXCEPT !.freed_pending = left] /\ mishaps' = mishaps
    BY <1>5 DEF TakeFreed, take_freed_upto
  <2>2. p \in Nat /\ limit \in Nat
    BY <1>0, RoomFields, RoomAssumption
  <2>3. left \in Nat
    <3>. HIDE DEF p
    <3>1. least \in Nat /\ least <= p
      BY <2>2, MinOfTwo
    <3>. HIDE DEF least
    <3>. QED
      BY <2>2, <3>1
  <2>. HIDE DEF left
  <2>. QED
    BY <1>0, <2>1, <2>3, WithPending
<1>6. CASE UNCHANGED vars
  BY <1>6 DEF vars
<1>7. ASSUME NEW s \in Slots, NEW last \in 1 .. MAX_SEQ_TOKENS, Run(s, last)
      PROVE  /\ room'.kv = room.kv /\ room'.published = room.published
             /\ mishaps' = mishaps
  BY <1>7 DEF Run
<1>. QED
  BY <1>1, <1>2, <1>3, <1>4, <1>5, <1>6, <1>7 DEF Next

LEMMA TreeNext == KvInv /\ TreeInv /\ [Next]_vars => TreeInv'
<1>. SUFFICES ASSUME KvInv, TreeInv, [Next]_vars, "full" \notin mishaps' PROVE TreeInv'
  BY DEF TreeInv
<1>1. "full" \notin mishaps
  <2>1. CASE UNCHANGED vars
    BY <2>1, SMTT(60) DEF vars
  <2>2. CASE Next
    BY <2>2, ZenonT(60) DEF Next, Admit, Extend, Run, Publish, Drop, Reclaim, TakeFreed, Returned
  <2>. QED
    BY <2>1, <2>2
<1>2. /\ room \in Rooms /\ Sound(room.kv) /\ Fine(room.kv)
      /\ \E p : Neat(room.kv.tree, p)
  BY <1>1 DEF KvInv, TreeInv
<1>3. PICK p : Neat(room.kv.tree, p)
  BY <1>2
<1>4. ASSUME NEW q, NEW more, Returned(q, more), TreeKept(room, q, more) PROVE TreeInv'
  <2>1. q \in Rooms
    BY <1>4 DEF TreeKept
  <2>2. "full" \notin more
    BY <1>4, <2>1, ReturnedIs
  <2>3. \E l : Neat(q.kv.tree, l)
    BY <1>3, <1>4, <2>2 DEF TreeKept
  <2>. QED
    BY <1>4, <2>1, <2>3, TreeReturned
<1>5. ASSUME NEW s \in Slots, Publish(s) PROVE TreeInv'
  <2>. DEFINE q == publish(room, s)
              more == Uneven(s)
  <2>1. Returned(q, more)
    BY <1>5 DEF Publish
  <2>2. q = publish(room, s)
    OBVIOUS
  <2>. HIDE DEF q, more
  <2>3. q \in Rooms /\ \E l : Neat(q.kv.tree, l)
    BY <1>2, <1>3, <2>2, PublishKeeps
  <2>. QED
    BY <2>1, <2>3, TreeReturned
<1>6. CASE room'.kv = room.kv /\ mishaps' = mishaps
  BY <1>6 DEF TreeInv
<1>. QED
  BY <1>1, <1>4, <1>5, <1>6, StepsAre

\* Until a call has failed on a full list, the prefix tree spells a sequence at
\* every node and tells the children of every node but the root apart by their
\* first tokens; and the root has one child at most until a second has come.
THEOREM TreeInvariant == Spec => [](KvInv /\ TreeInv)
<1>1. Init => KvInv /\ TreeInv
  BY KvInit, TreeInit
<1>2. KvInv /\ TreeInv /\ [Next]_vars => KvInv' /\ TreeInv'
  BY KvNext, TreeNext
<1>. QED
  BY <1>1, <1>2, PTL DEF Spec

LEMMA PublishStep ==
    ASSUME KvInv, TreeInv, [Next]_vars, NEW t \in Slots,
           "full" \notin mishaps, ~room.published[t], room'.published[t]
    PROVE  Cached(room'.kv.tree) = Cached(room.kv.tree) \cup Prefixes(tokens_of(room.kv, t))
<1>1. /\ room \in Rooms /\ Sound(room.kv) /\ Fine(room.kv)
      /\ \E p : Neat(room.kv.tree, p)
  BY DEF KvInv, TreeInv
<1>2. PICK p : Neat(room.kv.tree, p)
  BY <1>1
<1>3. ASSUME NEW q, NEW more, Returned(q, more), TreeKept(room, q, more) PROVE FALSE
  <2>1. q \in Rooms /\ NoneNew(room, q)
    BY <1>3 DEF TreeKept
  <2>2. room'.published = q.published
    BY <1>3, <2>1, ReturnedIs
  <2>. QED
    BY <2>1, <2>2 DEF NoneNew
<1>4. ASSUME NEW s \in Slots, Publish(s)
      PROVE  Cached(room'.kv.tree)
               = Cached(room.kv.tree) \cup Prefixes(tokens_of(room.kv, t))
  <2>. DEFINE q == publish(room, s)
              more == Uneven(s)
  <2>1. Returned(q, more)
    BY <1>4 DEF Publish
  <2>2. q = publish(room, s)
    OBVIOUS
  <2>. HIDE DEF q, more
  <2>3. /\ q \in Rooms
        /\ \A x \in Slots : ~room.published[x] /\ q.published[x] =>
             Cached(q.kv.tree) = Cached(room.kv.tree) \cup Prefixes(tokens_of(room.kv, x))
    BY <1>1, <1>2, <2>2, PublishKeeps
  <2>4. room'.published = q.published /\ room'.kv.tree = q.kv.tree
    BY <2>1, <2>3, ReturnedIs
  <2>. QED
    BY <2>3, <2>4
<1>. QED
  BY <1>3, <1>4, StepsAre

\* KvRoom.publish adds the request's sequence to the cache, prefix by prefix,
\* and loses or invents nothing, however match, split_node and add_tail had to
\* cut the tree for it, until a call has failed on a full list.
THEOREM PublishAddsExactly == Spec => PublishAddsExactlyThat
<1>1. ASSUME KvInv, TreeInv, [Next]_vars
      PROVE  \A s \in Slots :
               "full" \notin mishaps /\ ~room.published[s] /\ room'.published[s] =>
                  Cached(room'.kv.tree)
                    = Cached(room.kv.tree) \cup Prefixes(tokens_of(room.kv, s))
  BY <1>1, PublishStep
<1>2. KvInv /\ TreeInv /\ [Next]_vars
        => [\A s \in Slots :
               "full" \notin mishaps /\ ~room.published[s] /\ room'.published[s] =>
                  Cached(room'.kv.tree)
                    = Cached(room.kv.tree) \cup Prefixes(tokens_of(room.kv, s))]_vars
  BY <1>1, SMTT(60)
<1>. QED
  BY <1>2, TreeInvariant, PTL DEF Spec, PublishAddsExactlyThat
-----------------------------------------------------------------------------
(* The longest prefix *)

\* The l-th token x spells is one of its own, and the first l are those of q.
Carries(t, p, x, l, q) ==
    /\ x \in AliveNodes(t) /\ l \in Nat
    /\ Len(p[t[x].parent]) < l /\ l <= Len(p[x])
    /\ \A i \in 1 .. l : p[x][i] = q[i]

\* The first n tokens x spells are its parent's, the others its own.
Owning(t, p, x, n) ==
    /\ n \in Nat /\ Len(p[x]) \in Nat /\ n < Len(p[x])
    /\ \A i \in 1 .. n : p[x][i] = p[t[x].parent][i]
    /\ p[x][n + 1] = t[x].tokens[1]
    /\ n = 0 => t[x].parent = ROOT
    /\ n # 0 => t[x].parent \in AliveNodes(t)
    /\ x \in ToSet(t[t[x].parent].kids)

\* The tokens of a node come after those of its parent.
LEMMA OwnTokens ==
    ASSUME NEW t \in [Nodes -> TreeNodes], Formed(t, {}), NEW p, Spells(t, p),
           NEW x \in AliveNodes(t), NEW n, n = Len(p[t[x].parent])
    PROVE  Owning(t, p, x, n)
<1>1. PICK y, a, b, q : y = t[x].parent /\ a = p[y] /\ b = t[x].tokens /\ q = p[x]
  OBVIOUS
<1>2. Hanging(t, p, x)
  BY ParentIs
<1>3. /\ a \in Seq(Nat) /\ b \in Seq(Nat) /\ Len(b) \in Nat \ {0} /\ q = a \o b
      /\ Len(q) = Len(a) + Len(b) /\ Len(a) \in Nat /\ p[ROOT] = <<>>
      /\ y \in AliveNodes(t) \cup {ROOT} /\ x \in ToSet(t[y].kids)
  BY <1>1, <1>2 DEF Hanging
<1>4. \A i \in 1 .. Len(a) + Len(b) : q[i] = IF i <= Len(a) THEN a[i] ELSE b[i - Len(a)]
  BY <1>3, ConcatProperties
<1>5. n = Len(a)
  BY <1>1
<1>6. n \in Nat /\ Len(q) \in Nat /\ n < Len(q)
  BY <1>3, <1>5
<1>7. \A i \in 1 .. n : q[i] = a[i]
  BY <1>3, <1>4, <1>5
<1>8. q[n + 1] = b[1]
  <2>1. n + 1 \in 1 .. Len(a) + Len(b) /\ ~(n + 1 <= Len(a)) /\ (n + 1) - Len(a) = 1
    BY <1>3, <1>5
  <2>. QED
    BY <1>4, <2>1
<1>9. ASSUME y # ROOT PROVE n # 0
  <2>1. y \in AliveNodes(t)
    BY <1>3, <1>9
  <2>2. Hanging(t, p, y)
    BY <2>1, ParentIs
  <2>3. Len(p[y]) = Len(p[t[y].parent]) + Len(t[y].tokens) /\ Len(p[t[y].parent]) \in Nat
        /\ Len(t[y].tokens) \in Nat \ {0}
    BY <2>2, SMTT(60) DEF Hanging
  <2>. DEFINE u == Len(p[t[y].parent])
              v == Len(t[y].tokens)
  <2>4. n = u + v /\ u \in Nat /\ v \in Nat \ {0}
    BY <1>1, <1>5, <2>3
  <2>. HIDE DEF u, v
  <2>. QED
    BY <2>4
<1>10. y = ROOT => n = 0
  <2>1. Len(<<>>) = 0
    OBVIOUS
  <2>. QED
    BY <1>1, <1>3, <1>5, <2>1
<1>. QED
  BY <1>1, <1>3, <1>6, <1>7, <1>8, <1>9, <1>10 DEF Owning

\* The parent of a node carries the sequence up to where the node takes over.
LEMMA ParentCarries ==
    ASSUME NEW t \in [Nodes -> TreeNodes], Formed(t, {}), NEW p, Spells(t, p),
           NEW l, NEW q, NEW x, Carries(t, p, x, l, q), NEW n, n = Len(p[t[x].parent]), n # 0
    PROVE  Carries(t, p, t[x].parent, n, q)
<1>1. PICK y : y = t[x].parent
  OBVIOUS
<1>2. x \in AliveNodes(t) /\ l \in Nat /\ n < l /\ \A i \in 1 .. l : p[x][i] = q[i]
  BY DEF Carries
<1>3. n \in Nat /\ y \in AliveNodes(t) /\ \A i \in 1 .. n : p[x][i] = p[y][i]
  BY <1>1, <1>2, OwnTokens DEF Owning
<1>4. \A i \in 1 .. n : p[y][i] = q[i]
  BY <1>2, <1>3
<1>5. Len(p[t[y].parent]) < Len(p[y]) /\ Len(p[y]) = n
  <2>1. \A m : m = Len(p[t[y].parent]) => m < Len(p[y])
    BY <1>3, OwnTokens DEF Owning
  <2>. QED
    BY <1>1, <2>1
<1>. QED
  BY <1>1, <1>3, <1>4, <1>5 DEF Carries

\* The root has one child at most.
OneEntry(t) == \A c, d \in ToSet(t[ROOT].kids) : c = d

\* In a tree entered at one place, one node at most carries the l-th token.
LEMMA OneCarries ==
    ASSUME NEW t \in [Nodes -> TreeNodes], Formed(t, {}), NEW p, Neat(t, p), OneEntry(t), NEW q
    PROVE  \A l, x, z : Carries(t, p, x, l, q) /\ Carries(t, p, z, l, q) => x = z
<1>. DEFINE L == {l \in Nat : \E x, z \in AliveNodes(t) :
                    Carries(t, p, x, l, q) /\ Carries(t, p, z, l, q) /\ x # z}
<1>0. Spells(t, p) /\ Branching(t)
  BY DEF Neat, Spelt
<1>. SUFFICES ASSUME L # {} PROVE FALSE
  BY DEF Carries
<1>1. L \in SUBSET Nat
  OBVIOUS
<1>2. PICK l \in L : \A k \in L : l <= k
  <2>. HIDE DEF L
  <2>. QED
    BY <1>1, LeastOf
<1>3. PICK x, z \in AliveNodes(t) : Carries(t, p, x, l, q) /\ Carries(t, p, z, l, q) /\ x # z
  BY <1>2
<1>4. l \in Nat /\ \A k \in Nat : k < l => k \notin L
  BY <1>2
<1>5. \A k \in Nat : k < l =>
        \A v, w : Carries(t, p, v, k, q) /\ Carries(t, p, w, k, q) => v = w
  BY <1>4 DEF Carries
<1>. HIDE DEF L
<1>6. PICK m, n : m = Len(p[t[x].parent]) /\ n = Len(p[t[z].parent])
  OBVIOUS
<1>7. /\ m \in Nat /\ n \in Nat /\ m < l /\ n < l /\ l <= Len(p[x]) /\ l <= Len(p[z])
      /\ Len(p[x]) \in Nat /\ Len(p[z]) \in Nat
      /\ \A i \in 1 .. l : p[x][i] = q[i] /\ p[z][i] = q[i]
  BY <1>0, <1>3, <1>6, OwnTokens, ZenonT(60) DEF Owning, Carries
<1>8. ASSUME NEW v, NEW w, NEW k, Carries(t, p, v, l, q), Carries(t, p, w, l, q),
             k = Len(p[t[w].parent]), Len(p[t[v].parent]) < k
      PROVE  FALSE
  <2>1. k \in Nat /\ k < l
    BY <1>0, <1>8, OwnTokens DEF Owning, Carries
  <2>2. k # 0
    <3>1. \A j : j = Len(p[t[v].parent]) => j \in Nat
      BY <1>0, <1>8, OwnTokens DEF Owning, Carries
    <3>. QED
      BY <1>8, <2>1, <3>1
  <2>3. Carries(t, p, t[w].parent, k, q)
    BY <1>0, <1>8, <2>2, ParentCarries
  <2>4. Carries(t, p, v, k, q)
    BY <1>8, <2>1 DEF Carries
  <2>5. v = t[w].parent
    BY <1>5, <2>1, <2>3, <2>4
  <2>6. l <= k
    BY <1>8, <2>5 DEF Carries
  <2>. QED
    BY <1>4, <2>1, <2>6
<1>9. m = n
  <2>1. ~(m < n)
    BY <1>3, <1>6, <1>8
  <2>2. ~(n < m)
    BY <1>3, <1>6, <1>8
  <2>. QED
    BY <1>7, <2>1, <2>2
<1>13. Owning(t, p, x, m) /\ Owning(t, p, z, n)
  BY <1>0, <1>3, <1>6, OwnTokens
<1>10. x \in ToSet(t[t[x].parent].kids) /\ z \in ToSet(t[t[z].parent].kids)
       /\ p[x][m + 1] = t[x].tokens[1] /\ p[z][n + 1] = t[z].tokens[1]
  BY <1>13 DEF Owning
<1>11. CASE m = 0
  <2>1. t[x].parent = ROOT /\ t[z].parent = ROOT
    BY <1>9, <1>11, <1>13 DEF Owning
  <2>. QED
    BY <1>3, <1>10, <2>1 DEF OneEntry
<1>12. CASE m # 0
  <2>1. Carries(t, p, t[x].parent, m, q) /\ Carries(t, p, t[z].parent, m, q)
    BY <1>0, <1>3, <1>6, <1>9, <1>12, ParentCarries
  <2>2. t[x].parent = t[z].parent
    BY <1>5, <1>7, <2>1
  <2>3. m + 1 \in 1 .. l
    BY <1>4, <1>7
  <2>4. t[x].tokens[1] = t[z].tokens[1]
    BY <1>7, <1>9, <1>10, <2>3
  <2>5. t[x].parent \in AliveNodes(t)
    BY <2>1 DEF Carries
  <2>. QED
    BY <1>0, <1>3, <1>10, <2>2, <2>4, <2>5 DEF Branching
<1>. QED
  BY <1>11, <1>12

\* Where a walk that matched m tokens ends: no child of the root agrees at all,
\* or a node carries the m-th token, agrees no further, and if the walk used it
\* up no child of it has the next.
Stuck(t, p, toks, m) ==
    \/ m = 0 /\ \A x \in ToSet(t[ROOT].kids) : CommonLen(t[x].tokens, toks) = 0
    \/ \E z \in AliveNodes(t) :
          /\ Carries(t, p, z, m, toks) /\ m = CommonLen(p[z], toks)
          /\ m = Len(p[z]) /\ m < Len(toks) => NoneFor(t, z, toks[m + 1])

\* With a single child of the root and all children told apart, that is as far
\* as any node agrees.
LEMMA StuckLongest ==
    ASSUME NEW t \in [Nodes -> TreeNodes], Formed(t, {}), NEW p, Neat(t, p), OneEntry(t),
           NEW toks \in Seq(Nat), NEW m \in Nat, Stuck(t, p, toks, m)
    PROVE  \A x \in AliveNodes(t) : CommonLen(p[x], toks) <= m
<1>. DEFINE Bad == {x \in AliveNodes(t) : ~(CommonLen(p[x], toks) <= m)}
            L == {Len(p[x]) : x \in Bad}
<1>. SUFFICES ASSUME Bad # {} PROVE FALSE
  OBVIOUS
<1>0. Spells(t, p) /\ Branching(t) /\ p \in [Nodes -> Seq(Nat)] /\ Len(toks) \in Nat
  BY LenProperties DEF Neat, Spelt, Spells
<1>s. \A x \in AliveNodes(t) : x \in Nodes /\ p[x] \in Seq(Nat) /\ Len(p[x]) \in Nat
  BY <1>0, LenProperties DEF AliveNodes
<1>1. L \in SUBSET Nat /\ L # {}
  BY <1>s
<1>2. PICK l \in L : \A k \in L : l <= k
  <2>. HIDE DEF L
  <2>. QED
    BY <1>1, LeastOf
<1>3. PICK x \in Bad : l = Len(p[x])
  BY <1>2
<1>4. x \in AliveNodes(t) /\ ~(CommonLen(p[x], toks) <= m)
  BY <1>3
<1>5. \A y \in AliveNodes(t) : Len(p[y]) < Len(p[x]) => CommonLen(p[y], toks) <= m
  <2>1. ASSUME NEW y \in AliveNodes(t), Len(p[y]) < Len(p[x]), ~(CommonLen(p[y], toks) <= m)
        PROVE  FALSE
    <3>1. y \in Bad
      BY <2>1
    <3>2. l <= Len(p[y])
      BY <1>2, <3>1
    <3>. QED
      BY <1>3, <1>s, <2>1, <3>2
  <2>. QED
    BY <2>1
<1>. HIDE DEF L, Bad
<1>6. PICK c, y, n, q : /\ c = CommonLen(p[x], toks) /\ y = t[x].parent /\ n = Len(p[y])
                        /\ q = p[x]
  OBVIOUS
<1>7. /\ n \in Nat /\ Len(q) \in Nat /\ n < Len(q)
      /\ \A i \in 1 .. n : q[i] = p[y][i]
      /\ q[n + 1] = t[x].tokens[1]
      /\ n # 0 => y \in AliveNodes(t)
      /\ x \in ToSet(t[y].kids) /\ q \in Seq(Nat)
  <2>1. n = Len(p[t[x].parent])
    BY <1>6
  <2>2. Owning(t, p, x, n)
    BY <1>0, <1>4, <2>1, OwnTokens
  <2>. QED
    BY <1>4, <1>6, <1>s, <2>2 DEF Owning
<1>8. /\ c \in Nat /\ c <= Len(q) /\ c <= Len(toks) /\ m < c
      /\ \A i \in 1 .. c : q[i] = toks[i]
  <2>1. c = CommonLen(q, toks)
    BY <1>6
  <2>2. /\ c \in Nat /\ c <= Len(q) /\ c <= Len(toks)
        /\ \A i \in 1 .. c : q[i] = toks[i]
    BY <1>7, <2>1, CommonIs
  <2>3. ~(c <= m)
    BY <1>4, <1>6
  <2>. QED
    BY <2>2, <2>3
<1>9. n <= m
  <2>. SUFFICES ASSUME m < n PROVE FALSE
    BY <1>7
  <2>1. y \in AliveNodes(t) /\ n = Len(p[y]) /\ p[y] \in Seq(Nat)
    BY <1>6, <1>7, <1>s
  <2>2. PICK d : d = CommonLen(p[y], toks)
    OBVIOUS
  <2>3. d <= m /\ d \in Nat
    <3>1. d <= m
      BY <1>5, <1>6, <1>7, <2>1, <2>2
    <3>2. d \in Nat
      BY <2>1, <2>2, CommonIs
    <3>. QED
      BY <3>1, <3>2
  <2>4. \A j \in Nat : j <= Len(p[y]) /\ j <= Len(toks) /\ (\A i \in 1 .. j : p[y][i] = toks[i])
                       => j <= d
    BY <2>1, <2>2, CommonIs
  <2>5. m + 1 \in Nat /\ m + 1 <= n /\ m + 1 <= c
    BY <1>7, <1>8
  <2>6. \A i \in 1 .. m + 1 : p[y][i] = toks[i]
    BY <1>7, <1>8, <2>5, SMTT(60)
  <2>8. m + 1 <= Len(toks)
    BY ONLY <1>0, <1>8, m \in Nat, <2>5
  <2>9. m + 1 <= Len(p[y])
    BY <2>1, <2>5
  <2>7. m + 1 <= d
    BY ONLY <2>4, <2>5, <2>6, <2>8, <2>9
  <2>. QED
    BY <2>3, <2>7
<1>10. CASE m = 0 /\ \A v \in ToSet(t[ROOT].kids) : CommonLen(t[v].tokens, toks) = 0
  <2>1. n = 0
    BY <1>7, <1>9, <1>10
  <2>2. y = ROOT /\ t[x].tokens = q
    <3>1. Hanging(t, p, x)
      BY <1>0, <1>4, ParentIs
    <3>2. y \in AliveNodes(t) \cup {ROOT} /\ q = p[y] \o t[x].tokens /\ p[y] \in Seq(Nat)
          /\ t[x].tokens \in Seq(Nat)
      BY <1>6, <3>1 DEF Hanging
    <3>3. y \notin AliveNodes(t)
      <4>1. ASSUME y \in AliveNodes(t) PROVE FALSE
        <5>1. \A j : j = Len(p[t[y].parent]) => j \in Nat /\ Len(p[y]) \in Nat /\ j < Len(p[y])
          BY <1>0, <4>1, OwnTokens DEF Owning
        <5>2. PICK j, u : j = Len(p[t[y].parent]) /\ u = Len(p[y])
          OBVIOUS
        <5>3. j \in Nat /\ u \in Nat /\ j < u
          BY <5>1, <5>2
        <5>4. u = 0
          BY <1>6, <2>1, <5>2
        <5>. QED
          BY ONLY <5>3, <5>4
      <4>. QED
        BY <4>1
    <3>4. p[y] = <<>>
      BY <3>1, <3>2, <3>3 DEF Hanging
    <3>. QED
      BY <3>2, <3>3, <3>4
  <2>3. c = 0
    BY <1>6, <1>7, <1>10, <2>2
  <2>. QED
    BY <1>8, <2>3
<1>11. ASSUME NEW z \in AliveNodes(t), Carries(t, p, z, m, toks), m = CommonLen(p[z], toks),
              m = Len(p[z]) /\ m < Len(toks) => NoneFor(t, z, toks[m + 1])
       PROVE  FALSE
  <2>1. CASE n = m
    <3>1. m # 0
      <4>1. \A j : j = Len(p[t[z].parent]) => j \in Nat /\ j < m
        BY <1>0, <1>11, OwnTokens DEF Owning, Carries
      <4>2. PICK j : j = Len(p[t[z].parent])
        OBVIOUS
      <4>3. j \in Nat /\ j < m
        BY <4>1, <4>2
      <4>. QED
        BY ONLY <4>3
    <3>2. Carries(t, p, x, c, toks)
      BY <1>4, <1>6, <1>7, <1>8, <1>9 DEF Carries
    <3>3. Carries(t, p, y, m, toks)
      <4>1. n = Len(p[t[x].parent]) /\ n # 0
        BY <1>6, <2>1, <3>1
      <4>2. Carries(t, p, t[x].parent, n, toks)
        BY <1>0, <3>2, <4>1, ParentCarries
      <4>. QED
        BY <1>6, <2>1, <4>2
    <3>4. y = z
      BY <1>11, <3>3, OneCarries
    <3>5. m = Len(p[z]) /\ m < Len(toks)
      <4>1. m = Len(p[z])
        BY <1>6, <2>1, <3>4
      <4>2. m < Len(toks)
        BY ONLY <1>0, <1>8, m \in Nat
      <4>. QED
        BY <4>1, <4>2
    <3>6. t[x].tokens[1] # toks[m + 1]
      BY <1>7, <1>11, <3>4, <3>5 DEF NoneFor
    <3>7. m + 1 \in 1 .. c
      BY <1>8
    <3>. QED
      BY <1>7, <1>8, <2>1, <3>6, <3>7
  <2>2. CASE n # m
    <3>1. n < m
      BY <1>7, <1>9, <2>2
    <3>2. Carries(t, p, x, m, toks)
      <4>1. m <= Len(q) /\ \A i \in 1 .. m : q[i] = toks[i]
        BY <1>7, <1>8
      <4>. QED
        BY <1>4, <1>6, <3>1, <4>1 DEF Carries
    <3>3. x = z
      BY <1>11, <3>2, OneCarries
    <3>. QED
      BY <1>6, <1>8, <1>11, <3>3
  <2>. QED
    BY <2>1, <2>2
<1>. QED
  BY <1>10, <1>11 DEF Stuck

\* Where match ends.
LEMMA MatchSticks ==
    ASSUME NEW t \in [Nodes -> TreeNodes], Formed(t, {}), NEW p, Neat(t, p), OneEntry(t),
           NEW toks \in Seq(Nat), NEW m, m = match(t, toks)
    PROVE  m.matched \in Nat /\ m.matched <= Len(toks) /\ Stuck(t, p, toks, m.matched)
<1>0. Spells(t, p) /\ Len(toks) \in Nat
  BY LenProperties DEF Neat, Spelt
<1>1. Found(t, p, toks, m)
  BY <1>0, MatchFinds
<1>2. m.matched \in Nat /\ m.matched <= Len(toks)
  BY <1>1 DEF Found, MatchOK
<1>3. CASE m.path = <<>>
  <2>1. m.matched = 0
    BY <1>1, <1>3 DEF Found
  <2>2. PICK w : w = Walk(t, toks)
    OBVIOUS
  <2>3. Ended(t, toks, w)
    BY <1>0, <2>2, WalkFinds
  <2>4. w.path = <<>>
    BY <1>3, <2>2 DEF match, Matched
  <2>5. FirstKid(t, ROOT) = INVALID \/ CommonLen(t[FirstKid(t, ROOT)].tokens, toks) = 0
    BY <2>3, <2>4 DEF Ended
  <2>6. ASSUME NEW x \in ToSet(t[ROOT].kids) PROVE x = FirstKid(t, ROOT) /\ x # INVALID
    <3>1. t[ROOT].kids \in Seq(Nodes)
      BY NodeFields, TheConstants
    <3>2. x \in Nodes /\ \E i \in 1 .. Len(t[ROOT].kids) : t[ROOT].kids[i] = x
      BY <3>1, KidsIn
    <3>3. Len(t[ROOT].kids) \in Nat /\ 1 \in 1 .. Len(t[ROOT].kids)
      BY <3>1, <3>2, LenProperties
    <3>4. t[ROOT].kids # <<>> /\ Head(t[ROOT].kids) = t[ROOT].kids[1]
      BY <3>1, <3>3
    <3>5. t[ROOT].kids[1] \in ToSet(t[ROOT].kids)
      BY <3>1, <3>3, LenProperties DEF ToSet
    <3>6. FirstKid(t, ROOT) = t[ROOT].kids[1]
      BY <3>4 DEF FirstKid
    <3>. QED
      BY <3>2, <3>5, <3>6, TheConstants DEF OneEntry
  <2>7. \A x \in ToSet(t[ROOT].kids) : CommonLen(t[x].tokens, toks) = 0
    BY <2>5, <2>6
  <2>. QED
    BY <1>2, <2>1, <2>7 DEF Stuck
<1>4. CASE m.path # <<>>
  <2>1. PICK h, k, z : h = Last(m.path) /\ k = m.matched /\ z = h.node
    OBVIOUS
  <2>2. /\ h \in Hops(t) /\ Agreed(t, p, toks, h) /\ k = h.start + h.used
        /\ Onward(t, toks, h, k) = INVALID
    BY <1>1, <1>4, <2>1 DEF Found
  <2>3. z \in AliveNodes(t) /\ h.start \in Nat /\ h.used \in Nat \ {0}
    <3>1. /\ h.node \in AliveNodes(t) /\ h.start \in Nat /\ h.used \in Nat
          /\ h.used \in 1 .. Len(t[h.node].tokens)
      BY <2>2 DEF Hops
    <3>2. h.node \in Nodes
      BY <3>1 DEF AliveNodes
    <3>3. Len(t[h.node].tokens) \in Nat
      BY <3>2, NodeFields, LenProperties
    <3>4. PICK u, v : u = h.used /\ v = Len(t[h.node].tokens)
      OBVIOUS
    <3>5. u \in Nat \ {0}
      <4>1. v \in Nat /\ u \in 1 .. v
        BY <3>1, <3>3, <3>4
      <4>. QED
        BY ONLY <4>1
    <3>. QED
      BY <2>1, <3>1, <3>4, <3>5
  <2>4. AgreedTo(t, p, toks, h, k)
    BY <1>0, <2>2, AgreedSpells
  <2>5. /\ k \in Nat /\ k <= Len(p[z]) /\ k = CommonLen(p[z], toks)
        /\ (HopFull(t, h) <=> k = Len(p[z])) /\ h.start = Len(p[t[z].parent])
    BY <2>1, <2>4 DEF AgreedTo
  <2>6. p[z] \in Seq(Nat)
    BY <1>0, <2>3 DEF Spells, AliveNodes
  <2>7. \A i \in 1 .. k : p[z][i] = toks[i]
    BY <2>5, <2>6, CommonIs
  <2>8. h.start < k
    BY <2>2, <2>3
  <2>9. Carries(t, p, z, k, toks)
    BY <2>3, <2>5, <2>7, <2>8 DEF Carries
  <2>10. ASSUME k = Len(p[z]), k < Len(toks) PROVE NoneFor(t, z, toks[k + 1])
    <3>1. HopFull(t, h)
      BY <2>5, <2>10
    <3>2. Reached(t, t, p, toks, h.node, k)
      BY <2>2, <3>1, ReachedFull
    <3>3. z # ROOT
      BY <2>3 DEF AliveNodes
    <3>. QED
      BY <2>1, <2>10, <3>2, <3>3 DEF Reached
  <2>11. Stuck(t, p, toks, k)
    BY <2>3, <2>5, <2>9, <2>10 DEF Stuck
  <2>. QED
    BY <1>2, <2>1, <2>11
<1>. QED
  BY <1>3, <1>4

\* What match finds is the most any node agrees.
LEMMA MatchLongest ==
    ASSUME NEW t \in [Nodes -> TreeNodes], Formed(t, {}), NEW p, Neat(t, p), OneEntry(t),
           NEW toks \in Seq(Nat)
    PROVE  match(t, toks).matched
             = Max({CommonLen(TokensTo(t, x), toks) : x \in AliveNodes(t)} \cup {0})
<1>. DEFINE S == {CommonLen(TokensTo(t, x), toks) : x \in AliveNodes(t)} \cup {0}
            n == Len(toks)
<1>0. Spells(t, p) /\ n \in Nat /\ p \in [Nodes -> Seq(Nat)]
  BY LenProperties DEF Neat, Spelt, Spells
<1>1. PICK k : k = match(t, toks).matched
  OBVIOUS
<1>2. k \in Nat /\ k <= n /\ Stuck(t, p, toks, k)
  BY <1>1, MatchSticks
<1>3. \A x \in AliveNodes(t) : CommonLen(p[x], toks) <= k
  BY <1>2, StuckLongest
<1>4. \A x \in AliveNodes(t) : TokensTo(t, x) = p[x]
  BY <1>0, TokensToIs
<1>5. \A x \in AliveNodes(t) : CommonLen(p[x], toks) \in 0 .. n
  <2>1. TAKE x \in AliveNodes(t)
  <2>2. p[x] \in Seq(Nat)
    BY <1>0 DEF AliveNodes
  <2>3. PICK c : c = CommonLen(p[x], toks)
    OBVIOUS
  <2>4. c \in Nat /\ c <= Len(toks)
    BY <2>2, <2>3, CommonIs
  <2>. QED
    BY <1>0, <2>3, <2>4
<1>6. S \in SUBSET (0 .. n) /\ S # {}
  BY <1>0, <1>4, <1>5
<1>7. k \in S
  <2>1. k = 0 \/ \E z \in AliveNodes(t) : k = CommonLen(p[z], toks)
    BY <1>2 DEF Stuck
  <2>. QED
    BY <1>4, <2>1
<1>8. \A j \in S : j <= k
  BY <1>2, <1>3, <1>4
<1>. HIDE DEF S
<1>9. PICK e : e = Max(S)
  OBVIOUS
<1>10. e \in S /\ k <= e
  <2>1. Max(S) \in S /\ \A j \in S : Max(S) >= j
    BY <1>0, <1>6, MaxOf
  <2>2. e \in Nat
    <3>1. e \in 0 .. n
      BY <1>6, <1>9, <2>1
    <3>. QED
      BY <1>0, <3>1
  <2>. QED
    BY <1>2, <1>7, <1>9, <2>1, <2>2
<1>11. e <= k /\ e \in Nat
  BY <1>6, <1>8, <1>10
<1>12. k = e
  BY ONLY <1>2, <1>10, <1>11
<1>. QED
  BY <1>1, <1>9, <1>12 DEF S

\* RadixTree.match finds the longest cached prefix, whatever the cache has been
\* through, until the root has got a second child or a call has failed on a
\* full list.
THEOREM LongestPrefixFound == Spec => []LongestPrefixUntilMishap
<1>1. KvInv /\ TreeInv => LongestPrefixUntilMishap
  <2>. SUFFICES ASSUME KvInv, TreeInv, mishaps \cap {"forked", "full"} = {} PROVE LongestPrefix
    BY DEF LongestPrefixUntilMishap
  <2>. DEFINE t == room.kv.tree
  <2>1. "full" \notin mishaps /\ "forked" \notin mishaps
    OBVIOUS
  <2>2. /\ t \in [Nodes -> TreeNodes] /\ Formed(t, {}) /\ Len(t[ROOT].kids) <= 1
        /\ \E p : Neat(t, p)
    <3>1. room.kv \in Spaces /\ Formed(t, {})
      BY <2>1 DEF KvInv, Sound
    <3>. QED
      BY <2>1, <3>1, SpaceFields DEF TreeInv
  <2>. HIDE DEF t
  <2>3. PICK p : Neat(t, p)
    BY <2>2
  <2>4. OneEntry(t)
    <3>1. t[ROOT].kids \in Seq(Nodes)
      BY <2>2, NodeFields, TheConstants
    <3>2. Len(t[ROOT].kids) \in Nat
      BY <3>1, LenProperties
    <3>3. \A c \in ToSet(t[ROOT].kids) : c = t[ROOT].kids[1]
      <4>1. TAKE c \in ToSet(t[ROOT].kids)
      <4>2. PICK i \in 1 .. Len(t[ROOT].kids) : t[ROOT].kids[i] = c
        BY <3>1, KidsIn
      <4>3. i = 1
        BY <2>2, <3>2, <4>2
      <4>. QED
        BY <4>2, <4>3
    <3>. QED
      BY <3>3 DEF OneEntry
  <2>5. ASSUME NEW q \in Prompts
        PROVE  match(t, q).matched
                 = Max({CommonLen(TokensTo(t, x), q) : x \in AliveNodes(t)} \cup {0})
    <3>1. q \in Seq(Nat)
      BY RoomAssumption
    <3>. QED
      BY <2>2, <2>3, <2>4, <3>1, MatchLongest
  <2>. QED
    BY <2>5 DEF LongestPrefix, t
<1>. QED
  BY <1>1, TreeInvariant, PTL
=============================================================================
