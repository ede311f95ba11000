-------------------------- MODULE BlockPoolProofs --------------------------
(***************************************************************************)
(* The pool's books are exact for every number of blocks and of view       *)
(* entries, and counting references is enough to implement exclusive       *)
(* allocation.                                                             *)
(***************************************************************************)
EXTENDS BlockPool, FiniteSetTheorems, SequenceTheorems, TLAPS

\* No id is on the free stack twice.
FreeDistinct ==
    \A i, j \in 1 .. n_free(pool) :
        pool.free_stack[i] = pool.free_stack[j] => i = j

\* An id on the stack is unreferenced, and every unreferenced id is on it.
FreeSound == \A i \in 1 .. n_free(pool) : pool.refcnt[pool.free_stack[i]] = 0

FreeComplete ==
    \A b \in Blocks :
        pool.refcnt[b] = 0 => \E i \in 1 .. n_free(pool) : pool.free_stack[i] = b

\* The inductive invariant: every part of it is needed by the others.  The
\* counts say who holds a block, the stack says who does not.
IInv ==
    /\ TypeOK
    /\ RefcntExact
    /\ FreeDistinct
    /\ FreeSound
    /\ FreeComplete
    /\ CountsExact
-----------------------------------------------------------------------------
LEMMA HoldersFinite ==
    ASSUME NEW b
    PROVE  IsFiniteSet(HoldersOf(b)) /\ IsFiniteSet(HoldersOf(b))'
BY PoolAssumption, FS_Subset DEF HoldersOf

LEMMA InitIInv == Init => IInv
<1> SUFFICES ASSUME Init PROVE IInv
  OBVIOUS
<1> USE PoolAssumption DEF Blocks
<1>1. TypeOK
  BY DEF Init, NewPool, TypeOK
<1>2. RefcntExact
  <2>1. \A b \in Blocks : HoldersOf(b) = {}
    BY DEF Init, HoldersOf
  <2>2. QED
    BY <2>1, FS_EmptySet DEF Init, NewPool, RefcntExact
<1>3. /\ n_free(pool) = MAX_BLOCKS
      /\ \A i \in 1 .. MAX_BLOCKS : pool.free_stack[i] = MAX_BLOCKS - i
      /\ \A b \in 0 .. MAX_BLOCKS - 1 : pool.refcnt[b] = 0
  BY DEF Init, NewPool, n_free
<1>4. FreeDistinct /\ FreeSound
  BY <1>3 DEF FreeDistinct, FreeSound
<1>5. FreeComplete
  <2> SUFFICES ASSUME NEW b \in Blocks
               PROVE  \E i \in 1 .. n_free(pool) : pool.free_stack[i] = b
    BY DEF FreeComplete
  <2>1. MAX_BLOCKS - b \in 1 .. MAX_BLOCKS /\ MAX_BLOCKS - (MAX_BLOCKS - b) = b
    OBVIOUS
  <2>2. QED
    BY <2>1, <1>3
<1>6. CountsExact
  BY <1>3 DEF Init, NewPool, CountsExact
<1>7. QED
  BY <1>1, <1>2, <1>4, <1>5, <1>6 DEF IInv
-----------------------------------------------------------------------------
LEMMA TypedParts ==
    ASSUME TypeOK
    PROVE  /\ pool.refcnt \in [Blocks -> Nat]
           /\ pool.free_stack \in Seq(Blocks)
           /\ pool.used \in Int
           /\ n_free(pool) \in Nat
           /\ held \in [Holders -> Blocks \cup {None}]
BY DEF TypeOK, n_free

\* Popping the tail keeps the rest of the stack in place.
LEMMA PopFacts ==
    ASSUME NEW S, NEW s \in Seq(S), Len(s) > 0
    PROVE  /\ SubSeq(s, 1, Len(s) - 1) \in Seq(S)
           /\ Len(SubSeq(s, 1, Len(s) - 1)) = Len(s) - 1
           /\ \A i \in 1 .. Len(s) - 1 : SubSeq(s, 1, Len(s) - 1)[i] = s[i]
<1> DEFINE m == Len(s) - 1
<1>1. m \in Nat /\ \A i \in 1 .. m : s[i] \in S
  OBVIOUS
<1> HIDE DEF m
<1>2. /\ SubSeq(s, 1, m) \in Seq(S)
      /\ Len(SubSeq(s, 1, m)) = IF 1 <= m THEN m - 1 + 1 ELSE 0
      /\ \A i \in 1 .. m - 1 + 1 : SubSeq(s, 1, m)[i] = s[1 + i - 1]
  BY <1>1, SubSeqProperties
<1>3. /\ Len(SubSeq(s, 1, m)) = m
      /\ \A i \in 1 .. m : SubSeq(s, 1, m)[i] = s[i]
  BY <1>1, <1>2
<1>4. QED
  BY <1>2, <1>3 DEF m

LEMMA FreshTyped ==
    ASSUME TypeOK, Next
    PROVE  fresh' \subseteq Holders
<1>1. ASSUME NEW h \in Holders, alloc_one(h) PROVE fresh' \subseteq Holders
  BY <1>1 DEF alloc_one, TypeOK
<1>2. ASSUME NEW h \in Holders, release(h) PROVE fresh' \subseteq Holders
  BY <1>2 DEF release, TypeOK
<1>3. ASSUME NEW h \in Holders, NEW from \in Holders, retain(h, from)
      PROVE  fresh' \subseteq Holders
  BY <1>3 DEF retain, TypeOK
<1>4. QED
  BY <1>1, <1>2, <1>3 DEF Next

LEMMA AllocIInv ==
    ASSUME IInv, NEW h \in Holders, alloc_one(h)
    PROVE  IInv'
<1> DEFINE n == n_free(pool)
           b == NextFree(pool)
<1>0. /\ TypeOK /\ RefcntExact /\ FreeDistinct
      /\ FreeSound /\ FreeComplete /\ CountsExact
  BY DEF IInv
<1>t. /\ pool.refcnt \in [Blocks -> Nat]
      /\ pool.free_stack \in Seq(Blocks)
      /\ pool.used \in Int
      /\ n \in Nat
      /\ held \in [Holders -> Blocks \cup {None}]
  BY <1>0, TypedParts
<1>1. n > 0 /\ b \in Blocks /\ pool.refcnt[b] = 0
  BY <1>0, <1>t DEF alloc_one, CanAlloc, n_free, NextFree, FreeSound
<1>2. /\ pool' = [ refcnt     |-> [pool.refcnt EXCEPT ![b] = 1],
                   free_stack |-> Popped(pool),
                   used       |-> pool.used + 1 ]
      /\ held[h] = None
      /\ held' = [held EXCEPT ![h] = b]
  BY <1>1 DEF alloc_one, AfterAlloc
<1>3. /\ n_free(pool)' = n - 1
      /\ \A i \in 1 .. n - 1 : pool'.free_stack[i] = pool.free_stack[i]
      /\ pool'.free_stack \in Seq(Blocks)
  BY <1>t, <1>1, <1>2, PopFacts DEF n_free, Popped
<1>f. fresh' \subseteq Holders
  BY <1>0, FreshTyped DEF Next
<1>4. TypeOK'
  BY <1>t, <1>1, <1>2, <1>3, <1>f DEF TypeOK
<1>5. RefcntExact'
  <2> SUFFICES ASSUME NEW c \in Blocks
               PROVE  pool'.refcnt[c] = Cardinality(HoldersOf(c)')
    BY DEF RefcntExact
  <2>1. CASE c = b
    <3>1. Cardinality(HoldersOf(b)) = 0
      BY <1>0, <1>1 DEF RefcntExact
    <3>2. HoldersOf(b) = {}
      BY <3>1, HoldersFinite, FS_EmptySet
    <3>3. HoldersOf(c)' = {h}
      BY <2>1, <3>2, <1>t, <1>2 DEF HoldersOf
    <3>4. QED
      BY <2>1, <3>3, <1>t, <1>1, <1>2, FS_Singleton
  <2>2. CASE c # b
    <3>1. c # None
      BY PoolAssumption
    <3>2. HoldersOf(c)' = HoldersOf(c)
      BY <2>2, <3>1, <1>t, <1>2 DEF HoldersOf
    <3>3. QED
      BY <2>2, <3>2, <1>0, <1>t, <1>1, <1>2 DEF RefcntExact
  <2>3. QED
    BY <2>1, <2>2
<1>6. FreeDistinct'
  BY <1>0, <1>t, <1>1, <1>3 DEF FreeDistinct
<1>7. FreeSound'
  <2> SUFFICES ASSUME NEW i \in 1 .. n - 1
               PROVE  pool'.refcnt[pool.free_stack[i]] = 0
    BY <1>1, <1>3 DEF FreeSound
  <2>1. i \in 1 .. n /\ n \in 1 .. n /\ i # n
    BY <1>t, <1>1
  <2>2. pool.free_stack[i] # b
    BY <2>1, <1>0 DEF FreeDistinct, NextFree
  <2>3. pool.free_stack[i] \in Blocks
    BY <2>1, <1>t DEF n_free
  <2>4. QED
    BY <2>1, <2>2, <2>3, <1>0, <1>t, <1>1, <1>2 DEF FreeSound
<1>8. FreeComplete'
  <2> SUFFICES ASSUME NEW c \in Blocks, pool'.refcnt[c] = 0
               PROVE  \E i \in 1 .. n - 1 : pool'.free_stack[i] = c
    BY <1>3 DEF FreeComplete
  <2>1. c # b /\ pool.refcnt[c] = 0
    BY <1>t, <1>1, <1>2
  <2>2. PICK i \in 1 .. n : pool.free_stack[i] = c
    BY <2>1, <1>0 DEF FreeComplete
  <2>3. i # n
    BY <2>1, <2>2, Zenon DEF NextFree
  <2>4. i \in 1 .. n - 1
    BY <2>3, <1>t, <1>1
  <2>5. QED
    BY <2>2, <2>4, <1>3
<1>9. CountsExact'
  BY <1>0, <1>t, <1>1, <1>2, <1>3 DEF CountsExact
<1>10. QED
  BY <1>4, <1>5, <1>6, <1>7, <1>8, <1>9 DEF IInv
-----------------------------------------------------------------------------
LEMMA RetainIInv ==
    ASSUME IInv, NEW h \in Holders, NEW from \in Holders, retain(h, from)
    PROVE  IInv'
<1> DEFINE b == held[from]
<1>0. /\ TypeOK /\ RefcntExact /\ FreeDistinct
      /\ FreeSound /\ FreeComplete /\ CountsExact
  BY DEF IInv
<1>t. /\ pool.refcnt \in [Blocks -> Nat]
      /\ pool.free_stack \in Seq(Blocks)
      /\ pool.used \in Int
      /\ n_free(pool) \in Nat
      /\ held \in [Holders -> Blocks \cup {None}]
  BY <1>0, TypedParts
<1>1. /\ b \in Blocks /\ b # None /\ pool.refcnt[b] > 0 /\ held[h] = None
      /\ pool'.refcnt = [pool.refcnt EXCEPT ![b] = @ + 1]
      /\ pool'.free_stack = pool.free_stack
      /\ pool'.used = pool.used
      /\ pool' \in [refcnt : [Blocks -> Nat], free_stack : Seq(Blocks), used : Int]
      /\ held' = [held EXCEPT ![h] = b]
  BY <1>0, <1>t DEF retain, CanRetain, AfterRetain, TypeOK
<1>f. fresh' \subseteq Holders
  BY <1>0, FreshTyped DEF Next
<1>2. TypeOK'
  BY <1>t, <1>1, <1>f DEF TypeOK
<1>3. n_free(pool)' = n_free(pool)
  BY <1>1 DEF n_free
<1>4. RefcntExact'
  <2> SUFFICES ASSUME NEW c \in Blocks
               PROVE  pool'.refcnt[c] = Cardinality(HoldersOf(c)')
    BY DEF RefcntExact
  <2>1. CASE c = b
    <3>1. HoldersOf(c)' = HoldersOf(c) \cup {h} /\ h \notin HoldersOf(c)
      BY <2>1, <1>t, <1>1 DEF HoldersOf
    <3>2. Cardinality(HoldersOf(c)') = Cardinality(HoldersOf(c)) + 1
      BY <3>1, HoldersFinite, FS_AddElement
    <3>3. QED
      BY <2>1, <3>2, <1>0, <1>t, <1>1 DEF RefcntExact
  <2>2. CASE c # b
    <3>1. c # None
      BY PoolAssumption
    <3>2. HoldersOf(c)' = HoldersOf(c)
      BY <2>2, <3>1, <1>t, <1>1 DEF HoldersOf
    <3>3. QED
      BY <2>2, <3>2, <1>0, <1>t, <1>1 DEF RefcntExact
  <2>3. QED
    BY <2>1, <2>2
<1>5. FreeDistinct'
  BY <1>0, <1>1, <1>3 DEF FreeDistinct
<1>6. FreeSound'
  <2> SUFFICES ASSUME NEW i \in 1 .. n_free(pool)
               PROVE  pool'.refcnt[pool.free_stack[i]] = 0
    BY <1>1, <1>3 DEF FreeSound
  <2>1. pool.refcnt[pool.free_stack[i]] = 0 /\ pool.free_stack[i] \in Blocks
    BY <1>0, <1>t DEF FreeSound, n_free
  <2>2. QED
    BY <2>1, <1>t, <1>1
<1>7. FreeComplete'
  <2> SUFFICES ASSUME NEW c \in Blocks, pool'.refcnt[c] = 0
               PROVE  \E i \in 1 .. n_free(pool) : pool.free_stack[i] = c
    BY <1>1, <1>3 DEF FreeComplete
  <2>1. pool.refcnt[c] = 0
    BY <1>t, <1>1
  <2>2. QED
    BY <2>1, <1>0 DEF FreeComplete
<1>8. CountsExact'
  BY <1>0, <1>1, <1>3 DEF CountsExact
<1>9. QED
  BY <1>2, <1>4, <1>5, <1>6, <1>7, <1>8 DEF IInv
-----------------------------------------------------------------------------
LEMMA ReleaseIInv ==
    ASSUME IInv, NEW h \in Holders, release(h)
    PROVE  IInv'
<1> DEFINE b == held[h]
           n == n_free(pool)
<1>0. /\ TypeOK /\ RefcntExact /\ FreeDistinct
      /\ FreeSound /\ FreeComplete /\ CountsExact
  BY DEF IInv
<1>t. /\ pool.refcnt \in [Blocks -> Nat]
      /\ pool.free_stack \in Seq(Blocks)
      /\ pool.used \in Int
      /\ n \in Nat
      /\ held \in [Holders -> Blocks \cup {None}]
  BY <1>0, TypedParts
<1>1. /\ b \in Blocks /\ b # None /\ pool.refcnt[b] > 0
      /\ held' = [held EXCEPT ![h] = None]
      /\ pool' = AfterRelease(pool, b)
  BY <1>0, <1>t DEF release, CanRelease
<1>f. fresh' \subseteq Holders
  BY <1>0, FreshTyped DEF Next
<1>2. /\ pool'.refcnt = [pool.refcnt EXCEPT ![b] = @ - 1]
      /\ pool'.refcnt \in [Blocks -> Nat]
  BY <1>0, <1>t, <1>1 DEF AfterRelease, TypeOK
<1>3. RefcntExact'
  <2> SUFFICES ASSUME NEW c \in Blocks
               PROVE  pool'.refcnt[c] = Cardinality(HoldersOf(c)')
    BY DEF RefcntExact
  <2>1. CASE c = b
    <3>1. HoldersOf(c)' = HoldersOf(c) \ {h} /\ h \in HoldersOf(c)
      BY <2>1, <1>t, <1>1 DEF HoldersOf
    <3>2. Cardinality(HoldersOf(c)') = Cardinality(HoldersOf(c)) - 1
      BY <3>1, HoldersFinite, FS_RemoveElement
    <3>3. QED
      BY <2>1, <3>2, <1>0, <1>t, <1>2 DEF RefcntExact
  <2>2. CASE c # b
    <3>1. c # None
      BY PoolAssumption
    <3>2. HoldersOf(c)' = HoldersOf(c)
      BY <2>2, <3>1, <1>t, <1>1 DEF HoldersOf
    <3>3. QED
      BY <2>2, <3>2, <1>0, <1>t, <1>2 DEF RefcntExact
  <2>3. QED
    BY <2>1, <2>2
<1>4. CASE pool.refcnt[b] > 1
  <2>1. /\ pool'.free_stack = pool.free_stack /\ pool'.used = pool.used
        /\ pool' \in [refcnt : [Blocks -> Nat], free_stack : Seq(Blocks), used : Int]
    BY <1>t, <1>1, <1>2, <1>4 DEF AfterRelease
  <2>2. n_free(pool)' = n /\ \A c \in Blocks : pool'.refcnt[c] = 0 <=> pool.refcnt[c] = 0
    BY <2>1, <1>t, <1>1, <1>2, <1>4 DEF n_free
  <2>3. TypeOK'
    BY <2>1, <1>t, <1>1, <1>f DEF TypeOK
  <2>4. FreeDistinct' /\ FreeComplete' /\ CountsExact'
    BY <2>1, <2>2, <1>0 DEF FreeDistinct, FreeComplete, CountsExact
  <2>5. FreeSound'
    <3>1. \A i \in 1 .. n : pool.free_stack[i] \in Blocks
      BY <1>t DEF n_free
    <3>2. QED
      BY <3>1, <2>1, <2>2, <1>0 DEF FreeSound
  <2>6. QED
    BY <2>3, <2>4, <2>5, <1>3 DEF IInv
<1>5. CASE pool.refcnt[b] <= 1
  <2>1. /\ pool' = [ refcnt     |-> [pool.refcnt EXCEPT ![b] = 0],
                     free_stack |-> Append(pool.free_stack, b),
                     used       |-> pool.used - 1 ]
        /\ pool.refcnt[b] = 1
    <3>1. pool.refcnt[b] = 1
      BY <1>t, <1>1, <1>5
    <3>2. [pool.refcnt EXCEPT ![b] = @ - 1] = [pool.refcnt EXCEPT ![b] = 0]
      BY <3>1, <1>t
    <3>3. QED
      BY <3>1, <3>2, <1>1 DEF AfterRelease
  <2>2. /\ n_free(pool)' = n + 1
        /\ pool'.free_stack \in Seq(Blocks)
        /\ pool'.free_stack[n + 1] = b
        /\ \A i \in 1 .. n : pool'.free_stack[i] = pool.free_stack[i]
        /\ \A i \in 1 .. n : pool.free_stack[i] \in Blocks
    BY <2>1, <1>t, <1>1 DEF n_free
  <2>3. TypeOK'
    BY <2>1, <2>2, <1>t, <1>1, <1>f DEF TypeOK
  <2>4. \A i \in 1 .. n : pool.free_stack[i] # b /\ pool.refcnt[pool.free_stack[i]] = 0
    BY <2>1, <1>0 DEF FreeSound
  <2>5. \A i \in 1 .. n + 1 : i \in 1 .. n \/ i = n + 1
    BY <1>t
  <2>6. FreeDistinct'
    BY <2>2, <2>4, <2>5, <1>0 DEF FreeDistinct
  <2>7. FreeSound'
    <3>1. \A c \in Blocks : pool'.refcnt[c] = IF c = b THEN 0 ELSE pool.refcnt[c]
      BY <2>1, <1>t, <1>1
    <3>2. \A i \in 1 .. n : pool'.refcnt[pool'.free_stack[i]] = 0
      BY <3>1, <2>2, <2>4
    <3>3. pool'.refcnt[pool'.free_stack[n + 1]] = 0
      BY <3>1, <2>2, <1>1
    <3>4. QED
      BY <3>2, <3>3, <2>2, <2>5 DEF FreeSound
  <2>8. FreeComplete'
    <3> SUFFICES ASSUME NEW c \in Blocks, pool'.refcnt[c] = 0
                 PROVE  \E i \in 1 .. n + 1 : pool'.free_stack[i] = c
      BY <2>2 DEF FreeComplete
    <3>1. CASE c = b
      BY <3>1, <2>2, <1>t
    <3>2. CASE c # b
      <4>1. pool.refcnt[c] = 0
        BY <3>2, <2>1, <1>t
      <4>2. PICK i \in 1 .. n : pool.free_stack[i] = c
        BY <4>1, <1>0 DEF FreeComplete
      <4>3. i \in 1 .. n + 1 /\ pool'.free_stack[i] = c
        BY <4>2, <2>2, <1>t
      <4>4. QED
        BY <4>3
    <3>3. QED
      BY <3>1, <3>2
  <2>9. CountsExact'
    BY <2>1, <2>2, <1>0, <1>t DEF CountsExact
  <2>10. QED
    BY <2>3, <2>6, <2>7, <2>8, <2>9, <1>3 DEF IInv
<1>6. QED
  BY <1>4, <1>5, <1>t, <1>1
-----------------------------------------------------------------------------
LEMMA NextIInv == IInv /\ [Next]_vars => IInv'
<1> SUFFICES ASSUME IInv, [Next]_vars PROVE IInv'
  OBVIOUS
<1>1. ASSUME NEW h \in Holders, alloc_one(h) PROVE IInv'
  BY <1>1, AllocIInv
<1>2. ASSUME NEW h \in Holders, release(h) PROVE IInv'
  BY <1>2, ReleaseIInv
<1>3. ASSUME NEW h \in Holders, NEW from \in Holders, retain(h, from) PROVE IInv'
  BY <1>3, RetainIInv
<1>4. CASE UNCHANGED vars
  <2>1. pool' = pool /\ held' = held /\ fresh' = fresh
    BY <1>4 DEF vars
  <2>2. QED
    BY <2>1 DEF IInv, TypeOK, RefcntExact, HoldersOf, FreeDistinct, FreeSound,
                FreeComplete, CountsExact, n_free
<1>5. QED
  BY <1>1, <1>2, <1>3, <1>4 DEF Next

\* The five parts of IInv hold in every reachable state of a pool of any size
\* with any finite set of view entries.
THEOREM PoolInvariant == Spec => []IInv
<1>1. Init => IInv
  BY InitIInv
<1>2. IInv /\ [Next]_vars => IInv'
  BY NextIInv
<1>3. QED
  BY <1>1, <1>2, PTL DEF Spec

\* Type correctness of the pool (runtime/kv/pool.mojo).
THEOREM PoolTypeOK == Spec => []TypeOK
<1>1. IInv => TypeOK
  BY DEF IInv
<1>2. QED
  BY <1>1, PoolInvariant, PTL

\* The consistency equation: each block's reference count is the number of
\* view entries that hold it.
THEOREM RefcntIsExact == Spec => []RefcntExact
<1>1. IInv => RefcntExact
  BY DEF IInv
<1>2. QED
  BY <1>1, PoolInvariant, PTL

\* The free stack holds exactly the unreferenced blocks, each once: alloc_one
\* never reaches its double-free error and no block is lost.
THEOREM FreeStackIsExact == Spec => []FreeStackExact
<1>1. IInv => FreeStackExact
  <2> SUFFICES ASSUME IInv PROVE FreeStackExact
    OBVIOUS
  <2>0. TypeOK /\ FreeDistinct /\ FreeSound /\ FreeComplete
    BY DEF IInv
  <2>1. /\ pool.refcnt \in [Blocks -> Nat]
        /\ \A i \in 1 .. n_free(pool) : pool.free_stack[i] \in Blocks
    BY <2>0, TypedParts DEF n_free
  <2>2. {pool.free_stack[i] : i \in 1 .. n_free(pool)} \subseteq Blocks \ Referenced
    BY <2>0, <2>1 DEF FreeSound, Referenced
  <2>3. Blocks \ Referenced \subseteq {pool.free_stack[i] : i \in 1 .. n_free(pool)}
    BY <2>0, <2>1 DEF FreeComplete, Referenced
  <2>4. QED
    BY <2>0, <2>2, <2>3 DEF FreeStackExact, FreeDistinct
<1>2. QED
  BY <1>1, PoolInvariant, PTL

\* check_invariants' last equation: a block is free or used, never both or
\* neither.
THEOREM CountsAreExact == Spec => []CountsExact
<1>1. IInv => CountsExact
  BY DEF IInv
<1>2. QED
  BY <1>1, PoolInvariant, PTL

\* Counts, free stack and the sum of both at once, for any number of blocks and
\* holders: no sequence of alloc_one, retain and release leaks a block.
THEOREM PoolIsSound == Spec => []PoolSound
<1>1. RefcntExact /\ FreeStackExact /\ CountsExact => PoolSound
  BY DEF PoolSound
<1>2. QED
  BY <1>1, RefcntIsExact, FreeStackIsExact, CountsAreExact, PTL
-----------------------------------------------------------------------------
LEMMA AllocRefines ==
    ASSUME IInv, NEW h \in Holders, alloc_one(h)
    PROVE  Refs!Take(h)
<1>0. TypeOK /\ RefcntExact /\ FreeSound
  BY DEF IInv
<1> DEFINE b == NextFree(pool)
<1>1. b \in Blocks /\ pool.refcnt[b] = 0
  BY <1>0, TypedParts DEF alloc_one, CanAlloc, n_free, NextFree, FreeSound
<1>2. held[h] = None /\ held' = [held EXCEPT ![h] = b] /\ fresh' = fresh \cup {h}
  BY <1>1 DEF alloc_one
<1>3. HoldersOf(b) = {}
  <2>1. Cardinality(HoldersOf(b)) = 0
    BY <1>0, <1>1 DEF RefcntExact
  <2>2. QED
    BY <2>1, HoldersFinite, FS_EmptySet
<1>4. b \notin Refs!HeldBlocks
  BY <1>3 DEF HoldersOf, Refs!HeldBlocks
<1>5. QED
  BY <1>1, <1>2, <1>4 DEF Refs!Take

\* Refinement: the counting pool implements exclusive allocation (BlockRefs):
\* a block handed out as fresh is held by no view entry.
THEOREM PoolImplementsRefs == Spec => ImplementsRefs
<1>1. Init => Refs!Init
  BY DEF Init, Refs!Init
<1>2. IInv /\ [Next]_vars => [Refs!Next]_(Refs!vars)
  <2> SUFFICES ASSUME IInv, [Next]_vars PROVE [Refs!Next]_(Refs!vars)
    OBVIOUS
  <2>1. ASSUME NEW h \in Holders, alloc_one(h) PROVE Refs!Next
    BY <2>1, AllocRefines DEF Refs!Next
  <2>2. ASSUME NEW h \in Holders, release(h) PROVE Refs!Next
    BY <2>2 DEF release, Refs!Next, Refs!Drop
  <2>3. ASSUME NEW h \in Holders, NEW from \in Holders, retain(h, from)
        PROVE  Refs!Next
    BY <2>3 DEF retain, Refs!Next, Refs!Share
  <2>4. CASE UNCHANGED vars
    BY <2>4 DEF vars, Refs!vars
  <2>5. QED
    BY <2>1, <2>2, <2>3, <2>4 DEF Next
<1>3. QED
  BY <1>1, <1>2, PoolInvariant, PTL DEF Spec, ImplementsRefs, Refs!Spec
=============================================================================
