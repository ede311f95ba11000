------------------------ MODULE BatchExecutorProofs ------------------------
(* Theorems about BatchExecutor.  The inductive invariant says that the    *)
(* leases and the runs of a step follow one another without gaps (Lending, *)
(* Described), that every row of a planned step is a queued token of one   *)
(* resident request at its own position and no two rows are the same, and  *)
(* that a step that was run left its tokens in the KV (Ran).  Before that,  *)
(* what a pool of leases and a set of runs do: what a sum over their       *)
(* tables is, that a borrow keeps the leases apart and a run is put behind *)
(* all others when there are no gaps.                                      *)
EXTENDS BatchExecutor, FiniteSetTheorems, SequenceTheorems, WellFoundedInduction, TLAPS

\* A nonempty set of naturals has a least element, and Min is that.
LEMMA LeastOf ==
    ASSUME NEW S \in SUBSET Nat, S # {}
    PROVE  \E i \in S : \A j \in S : i <= j
<1>1. PICK i \in S : \A j \in S : ~ (<<j, i>> \in OpToRel(<, Nat))
    <2>1. IsWellFoundedOn(OpToRel(<, Nat), Nat)
        BY NatLessThanWellFounded
    <2> HIDE DEF OpToRel
    <2> QED
        BY <2>1, WFMin
<1>2. OpToRel(<, Nat) = {p \in Nat \X Nat : p[1] < p[2]}
    BY DEF OpToRel
<1>3. ASSUME NEW j \in S PROVE i <= j
    <2>1. ~ (<<j, i>> \in {p \in Nat \X Nat : p[1] < p[2]})
        BY <1>1, <1>2
    <2>2. j \in Nat /\ i \in Nat
        OBVIOUS
    <2>3. ~ (j < i)
        BY <2>1, <2>2
    <2> QED
        BY <2>2, <2>3
<1> QED
    BY <1>3

LEMMA MinOf ==
    ASSUME NEW S \in SUBSET Nat, S # {}
    PROVE  Min(S) \in S /\ \A j \in S : Min(S) <= j
<1>1. \E i \in S : \A j \in S : i <= j
    BY LeastOf
<1> QED
    BY <1>1 DEF Min

LEMMA MaxOfTwo ==
    ASSUME NEW a \in Nat, NEW b \in Nat
    PROVE  Max({a, b}) = IF a >= b THEN a ELSE b
<1> DEFINE m == IF a >= b THEN a ELSE b
<1>1. m \in {a, b} /\ \A y \in {a, b} : m >= y
    OBVIOUS
<1>2. \A x \in {a, b} : (\A y \in {a, b} : x >= y) => x = m
    OBVIOUS
<1> QED
    BY <1>1, <1>2 DEF Max

\* What holds at 0 and goes from m to m + 1 holds up to n.
LEMMA UpTo ==
    ASSUME NEW n \in Nat, NEW S, 0 \in S, \A m \in 0 .. n - 1 : m \in S => m + 1 \in S
    PROVE  \A m \in 0 .. n : m \in S
<1> DEFINE Bad == {m \in 0 .. n : m \notin S}
<1> SUFFICES ASSUME Bad # {} PROVE FALSE
    OBVIOUS
<1>1. Bad \in SUBSET Nat
    OBVIOUS
<1>2. PICK m \in Bad : \A y \in Bad : m <= y
    <2> HIDE DEF Bad
    <2> QED
        BY <1>1, LeastOf
<1>3. m \in 0 .. n /\ m \notin S /\ m # 0
    OBVIOUS
<1>4. m - 1 \in Bad
    BY <1>3
<1> QED
    BY <1>2, <1>3, <1>4
-----------------------------------------------------------------------------
(* Sums: the table a sum over a finite set is read from *)

Pick(s) == CHOOSE x \in s : TRUE
Rest(s) == s \ {Pick(s)}

SumTable(f, S, g) ==
    g = [s \in SUBSET S |-> IF s = {} THEN 0 ELSE f[Pick(s)] + g[Rest(s)]]

\* The subsets of S with at most n elements.
Small(S, n) == {s \in SUBSET S : Cardinality(s) <= n}

LEMMA RestIs ==
    ASSUME NEW s, IsFiniteSet(s), s # {}
    PROVE  /\ Pick(s) \in s /\ IsFiniteSet(Rest(s))
           /\ Cardinality(s) \in Nat /\ Cardinality(s) > 0
           /\ Cardinality(Rest(s)) = Cardinality(s) - 1
<1>1. Pick(s) \in s
    BY DEF Pick
<1>2. IsFiniteSet(Rest(s)) /\ Cardinality(Rest(s)) = Cardinality(s) - 1
    BY <1>1, FS_RemoveElement DEF Rest
<1>3. Cardinality(s) \in Nat /\ Cardinality(s) # 0
    BY FS_CardinalityType, FS_EmptySet
<1> QED
    BY <1>1, <1>2, <1>3

LEMMA SumTableExists ==
    ASSUME NEW f, NEW S, IsFiniteSet(S)
    PROVE  \E g : SumTable(f, S, g)
<1> DEFINE Upto(n, g) ==
             g = [s \in Small(S, n) |-> IF s = {} THEN 0 ELSE f[Pick(s)] + g[Rest(s)]]
           top == Cardinality(S)
           N   == {n \in 0 .. top : \E g : Upto(n, g)}
<1>1. top \in Nat /\ \A s \in SUBSET S : IsFiniteSet(s) /\ Cardinality(s) \in 0 .. top
    BY FS_CardinalityType, FS_Subset
<1>2. 0 \in N
    <2>1. ASSUME NEW s \in Small(S, 0) PROVE s = {}
        BY <1>1, FS_EmptySet DEF Small
    <2> DEFINE g == [s \in Small(S, 0) |-> 0]
    <2>2. Upto(0, g)
        BY <2>1
    <2> QED
        BY <1>1, <2>2
<1>3. ASSUME NEW n \in 0 .. top - 1, n \in N
      PROVE  n + 1 \in N
    <2>1. PICK g : Upto(n, g)
        BY <1>3
    <2> DEFINE h == [s \in Small(S, n + 1) |-> IF s = {} THEN 0 ELSE f[Pick(s)] + g[Rest(s)]]
    <2>2. ASSUME NEW s \in Small(S, n + 1), s # {}
          PROVE  h[Rest(s)] = g[Rest(s)]
        <3>1. IsFiniteSet(s) /\ s \in SUBSET S /\ Cardinality(s) <= n + 1
            BY <1>1 DEF Small
        <3>2. Cardinality(Rest(s)) <= n /\ Cardinality(Rest(s)) <= n + 1 /\ Rest(s) \in SUBSET S
            BY <1>1, <2>2, <3>1, RestIs DEF Rest
        <3>3. Rest(s) \in Small(S, n) /\ Rest(s) \in Small(S, n + 1)
            BY <3>2 DEF Small
        <3> QED
            BY <2>1, <3>3
    <2>3. Upto(n + 1, h)
        BY <2>2
    <2>4. \E e : Upto(n + 1, e)
        BY <2>3
    <2> QED
        BY <1>1, <2>4
<1>4. top \in N
    <2> HIDE DEF N, top
    <2> QED
        BY <1>1, <1>2, <1>3, UpTo
<1>5. Small(S, top) = SUBSET S
    BY <1>1 DEF Small
<1> QED
    BY <1>4, <1>5 DEF SumTable

\* A sum is read from any of its tables' tops.
LEMMA SumIsRead ==
    ASSUME NEW f, NEW S, IsFiniteSet(S)
    PROVE  \E g : SumTable(f, S, g) /\ SumFunctionOnSet(f, S) = g[S]
<1> DEFINE G == CHOOSE g : SumTable(f, S, g)
<1>1. SumTable(f, S, G)
    BY SumTableExists
<1>2. SumFunctionOnSet(f, S) = G[S]
    BY DEF SumFunctionOnSet, FoldFunctionOnSet, MapThenFoldSet, SumTable, Pick, Rest
<1> QED
    BY <1>1, <1>2

LEMMA TableStep ==
    ASSUME NEW f, NEW S, NEW g, SumTable(f, S, g), NEW s \in SUBSET S
    PROVE  g[s] = IF s = {} THEN 0 ELSE f[Pick(s)] + g[Rest(s)]
BY DEF SumTable

\* Induction over the subsets of S by their number of elements.
LEMMA BySize ==
    ASSUME NEW S, IsFiniteSet(S), NEW Good,
           \A s \in SUBSET S :
             (\A t \in SUBSET S : Cardinality(t) < Cardinality(s) => t \in Good) => s \in Good
    PROVE  \A s \in SUBSET S : s \in Good
<1>1. \A s \in SUBSET S : Cardinality(s) \in Nat
    BY FS_CardinalityType, FS_Subset
<1> DEFINE Bad == {n \in Nat : \E s \in SUBSET S : Cardinality(s) = n /\ s \notin Good}
<1> SUFFICES ASSUME NEW s0 \in SUBSET S, s0 \notin Good PROVE FALSE
    OBVIOUS
<1>2. Cardinality(s0) \in Bad
    BY <1>1
<1>3. PICK n \in Bad : \A m \in Bad : n <= m
    <2>1. Bad \in SUBSET Nat /\ Bad # {}
        BY <1>2
    <2> HIDE DEF Bad
    <2> QED
        BY <2>1, LeastOf
<1>4. PICK s \in SUBSET S : Cardinality(s) = n /\ s \notin Good
    BY <1>3
<1>5. \A t \in SUBSET S : Cardinality(t) < Cardinality(s) => t \in Good
    BY <1>1, <1>3, <1>4
<1> QED
    BY <1>4, <1>5

LEMMA TableNat ==
    ASSUME NEW f, NEW S, IsFiniteSet(S), NEW g, SumTable(f, S, g), \A x \in S : f[x] \in Nat
    PROVE  \A s \in SUBSET S : g[s] \in Nat
<1> DEFINE Good == {s \in SUBSET S : g[s] \in Nat}
<1>1. ASSUME NEW s \in SUBSET S,
             \A t \in SUBSET S : Cardinality(t) < Cardinality(s) => t \in Good
      PROVE  s \in Good
    <2>1. CASE s = {}
        BY <2>1, TableStep
    <2>2. CASE s # {}
        <3>1. IsFiniteSet(s)
            BY FS_Subset
        <3>2. Pick(s) \in s /\ Rest(s) \in SUBSET S /\ Cardinality(Rest(s)) < Cardinality(s)
            BY <2>2, <3>1, RestIs DEF Rest
        <3>3. g[s] = f[Pick(s)] + g[Rest(s)]
            BY <2>2, TableStep
        <3> QED
            BY <1>1, <3>2, <3>3
    <2> QED
        BY <2>1, <2>2
<1>2. \A s \in SUBSET S : s \in Good
    <2> HIDE DEF Good
    <2> QED
        BY <1>1, BySize
<1> QED
    BY <1>2

\* Two tables agree where the functions they add up do.
LEMMA TablesMatch ==
    ASSUME NEW f, NEW e, NEW S, NEW T, IsFiniteSet(S), IsFiniteSet(T), NEW g, NEW h,
           SumTable(f, S, g), SumTable(e, T, h),
           NEW s \in SUBSET S, s \in SUBSET T, \A x \in s : f[x] = e[x]
    PROVE  g[s] = h[s]
<1> DEFINE Good == {t \in SUBSET s : g[t] = h[t]}
<1>0. IsFiniteSet(s)
    BY FS_Subset
<1>1. ASSUME NEW t \in SUBSET s,
             \A u \in SUBSET s : Cardinality(u) < Cardinality(t) => u \in Good
      PROVE  t \in Good
    <2>0. t \in SUBSET S /\ t \in SUBSET T
        OBVIOUS
    <2>1. CASE t = {}
        BY <2>0, <2>1, TableStep
    <2>2. CASE t # {}
        <3>1. IsFiniteSet(t)
            BY <1>0, FS_Subset
        <3>2. Pick(t) \in t /\ Rest(t) \in SUBSET s /\ Cardinality(Rest(t)) < Cardinality(t)
            <4>1. Pick(t) \in t /\ Cardinality(Rest(t)) < Cardinality(t)
                BY <2>2, <3>1, RestIs
            <4> QED
                BY <4>1 DEF Rest
        <3>3. g[t] = f[Pick(t)] + g[Rest(t)] /\ h[t] = e[Pick(t)] + h[Rest(t)]
            BY <2>0, <2>2, TableStep
        <3>4. g[Rest(t)] = h[Rest(t)] /\ f[Pick(t)] = e[Pick(t)]
            BY <1>1, <3>2
        <3> QED
            BY <3>3, <3>4
    <2> QED
        BY <2>1, <2>2
<1>2. \A t \in SUBSET s : t \in Good
    <2> HIDE DEF Good
    <2> QED
        BY <1>0, <1>1, BySize
<1> QED
    BY <1>2

\* Whichever element is taken out first.
LEMMA TableAny ==
    ASSUME NEW f, NEW S, IsFiniteSet(S), NEW g, SumTable(f, S, g), \A x \in S : f[x] \in Nat
    PROVE  \A s \in SUBSET S : \A x \in s : g[s] = f[x] + g[s \ {x}]
<1> DEFINE Good == {s \in SUBSET S : \A x \in s : g[s] = f[x] + g[s \ {x}]}
<1>1. ASSUME NEW s \in SUBSET S,
             \A t \in SUBSET S : Cardinality(t) < Cardinality(s) => t \in Good
      PROVE  s \in Good
    <2> SUFFICES ASSUME NEW x \in s PROVE g[s] = f[x] + g[s \ {x}]
        OBVIOUS
    <2> DEFINE y == Pick(s)
    <2>1. IsFiniteSet(s) /\ s # {}
        BY FS_Subset
    <2>2. y \in s /\ Rest(s) = s \ {y} /\ Cardinality(s \ {y}) < Cardinality(s)
        BY <2>1, RestIs DEF Rest
    <2>3. g[s] = f[y] + g[s \ {y}]
        <3>1. g[s] = f[Pick(s)] + g[Rest(s)]
            BY <2>1, TableStep
        <3> QED
            BY <2>2, <3>1
    <2> HIDE DEF y
    <2>4. CASE x # y
        <3>1. Cardinality(s \ {x}) < Cardinality(s)
            <4>1. Cardinality(s \ {x}) = Cardinality(s) - 1 /\ Cardinality(s) \in Nat
                BY <2>1, FS_RemoveElement, FS_CardinalityType
            <4> QED
                BY <4>1
        <3>2. g[s \ {y}] = f[x] + g[(s \ {y}) \ {x}]
            BY <1>1, <2>2, <2>4
        <3>3. g[s \ {x}] = f[y] + g[(s \ {x}) \ {y}]
            BY <1>1, <2>2, <2>4, <3>1
        <3>4. (s \ {y}) \ {x} = (s \ {x}) \ {y}
            OBVIOUS
        <3> DEFINE r == g[(s \ {x}) \ {y}]
        <3>5. r \in Nat
            BY TableNat
        <3>6. f[x] \in Nat /\ f[y] \in Nat
            BY <2>2
        <3>7. g[s] = f[y] + (f[x] + r) /\ g[s \ {x}] = f[y] + r
            BY <2>3, <3>2, <3>3, <3>4
        <3> HIDE DEF r
        <3> QED
            BY <3>5, <3>6, <3>7
    <2> QED
        BY <2>3, <2>4
<1>2. \A s \in SUBSET S : s \in Good
    <2> HIDE DEF Good
    <2> QED
        BY <1>1, BySize
<1> QED
    BY <1>2

LEMMA SumNothing ==
    ASSUME NEW f
    PROVE  SumFunctionOnSet(f, {}) = 0
<1>1. IsFiniteSet({})
    BY FS_EmptySet
<1>2. PICK g : SumTable(f, {}, g) /\ SumFunctionOnSet(f, {}) = g[{}]
    BY <1>1, SumIsRead
<1> QED
    BY <1>2, TableStep

LEMMA SumNat ==
    ASSUME NEW f, NEW S, IsFiniteSet(S), \A x \in S : f[x] \in Nat
    PROVE  SumFunctionOnSet(f, S) \in Nat
<1>1. PICK g : SumTable(f, S, g) /\ SumFunctionOnSet(f, S) = g[S]
    BY SumIsRead
<1> QED
    BY <1>1, TableNat

\* One more element adds what it counts.
LEMMA SumWith ==
    ASSUME NEW f, NEW e, NEW S, IsFiniteSet(S), NEW x, x \notin S, e[x] \in Nat,
           \A y \in S : f[y] \in Nat /\ e[y] = f[y]
    PROVE  SumFunctionOnSet(e, S \cup {x}) = e[x] + SumFunctionOnSet(f, S)
<1> DEFINE T == S \cup {x}
<1>1. IsFiniteSet(T)
    BY FS_AddElement
<1>2. PICK g : SumTable(f, S, g) /\ SumFunctionOnSet(f, S) = g[S]
    BY SumIsRead
<1>3. PICK h : SumTable(e, T, h) /\ SumFunctionOnSet(e, T) = h[T]
    BY <1>1, SumIsRead
<1>4. h[T] = e[x] + h[T \ {x}]
    <2>1. T \in SUBSET T /\ x \in T /\ \A y \in T : e[y] \in Nat
        OBVIOUS
    <2> HIDE DEF T
    <2> QED
        BY <1>1, <1>3, <2>1, TableAny
<1>5. T \ {x} = S
    OBVIOUS
<1>6. h[S] = g[S]
    <2>1. S \in SUBSET S /\ S \in SUBSET T
        OBVIOUS
    <2> HIDE DEF T
    <2> QED
        BY <1>1, <1>2, <1>3, <2>1, TablesMatch
<1> QED
    BY <1>2, <1>3, <1>4, <1>5, <1>6
-----------------------------------------------------------------------------
(* Multiples of ALIGN *)

Sized == ALIGN \in Nat \ {0} /\ MAX_HANDLES \in Nat /\ MAX_BATCH \in Nat

Aligned(n) == \E q \in Nat : n = ALIGN * q

LEMMA TimesMonotone ==
    ASSUME NEW x \in Nat, NEW y \in Nat, NEW b \in Nat, x <= y
    PROVE  b * x <= b * y /\ b * x \in Nat /\ b * y \in Nat
BY SMT

LEMMA TimesSucc ==
    ASSUME NEW x \in Nat, NEW b \in Nat
    PROVE  b * (x + 1) = b * x + b
BY SMT

\* A quotient is the one number of whole times that fit.
LEMMA Quotient ==
    ASSUME NEW b \in Nat \ {0}, NEW q \in Nat, NEW k \in Nat, NEW r \in 0 .. b - 1,
           NEW t \in 0 .. b - 1, b * q + r = b * k + t
    PROVE  q = k
<1>1. \A x, y \in Nat : x + 1 <= y => b * x + b <= b * y
    <2> TAKE x, y \in Nat
    <2> HAVE x + 1 <= y
    <2>1. b * (x + 1) <= b * y /\ b * (x + 1) = b * x + b
        BY TimesMonotone, TimesSucc
    <2> QED
        BY <2>1
<1>2. b * q \in Nat /\ b * k \in Nat
    BY TimesMonotone
<1>3. CASE q + 1 <= k
    <2>1. b * q + b <= b * k
        BY <1>1, <1>3
    <2> QED
        BY <1>2, <2>1
<1>4. CASE k + 1 <= q
    <2>1. b * k + b <= b * q
        BY <1>1, <1>4
    <2> QED
        BY <1>2, <2>1
<1> QED
    BY <1>3, <1>4

LEMMA CeilIs ==
    ASSUME Sized, NEW n \in Nat
    PROVE  /\ ceil_bytes(n) \in Nat /\ Aligned(ceil_bytes(n))
           /\ n <= ceil_bytes(n) /\ ceil_bytes(n) <= n + ALIGN
           /\ Aligned(n) <=> ceil_bytes(n) = n
<1> DEFINE m == n + ALIGN - 1
           q == m \div ALIGN
<1>1. ALIGN \in Nat \ {0} /\ m \in Nat
    BY DEF Sized
<1>2. q \in Nat /\ m % ALIGN \in 0 .. ALIGN - 1 /\ m = ALIGN * q + (m % ALIGN)
    <2> HIDE DEF m
    <2> QED
        BY <1>1, SMT
<1>3. ceil_bytes(n) = ALIGN * q /\ ALIGN * q \in Nat
    <2>1. ALIGN * q \in Nat /\ q * ALIGN = ALIGN * q
        BY <1>1, <1>2, SMT
    <2> QED
        BY <2>1 DEF ceil_bytes
<1>4. ASSUME NEW k \in Nat, n = ALIGN * k PROVE ALIGN * q = n
    <2>1. m = ALIGN * k + (ALIGN - 1) /\ ALIGN - 1 \in 0 .. ALIGN - 1
        BY <1>1, <1>4
    <2>2. q = k
        <3> HIDE DEF m, q
        <3> QED
            BY <1>1, <1>2, <2>1, Quotient
    <2> QED
        BY <1>4, <2>2
<1>5. n <= ALIGN * q /\ ALIGN * q <= n + ALIGN
    <2> DEFINE z == ALIGN * q
    <2>1. z \in Nat /\ n + ALIGN - 1 = z + (m % ALIGN)
        BY <1>2, <1>3
    <2> HIDE DEF z, q
    <2> QED
        BY <1>1, <1>2, <2>1
<1> HIDE DEF m, q
<1> QED
    BY <1>2, <1>3, <1>4, <1>5 DEF Aligned

LEMMA AlignedSum ==
    ASSUME Sized, NEW a \in Nat, NEW b \in Nat, Aligned(a), Aligned(b)
    PROVE  Aligned(a + b)
<1>1. PICK k \in Nat : a = ALIGN * k
    BY DEF Aligned
<1>2. PICK l \in Nat : b = ALIGN * l
    BY DEF Aligned
<1>3. ALIGN * k + ALIGN * l = ALIGN * (k + l) /\ k + l \in Nat
    BY SMT DEF Sized
<1> QED
    BY <1>1, <1>2, <1>3 DEF Aligned
-----------------------------------------------------------------------------
(* Leases *)

Leases == [live : BOOLEAN, begin : Nat, size : Nat]
Pools  == [capacity : Nat, used : Nat, high_water : Nat, lease : [Handles -> Leases]]

\* The sizes a pool has lent: what makes LeasesSound inductive is that not
\* only the beginnings are aligned.
Lent(p) == [h \in Handles |-> p.lease[h].size]

PoolKept(p) ==
    /\ p \in Pools
    /\ PoolSound(p)
    /\ \A h \in LiveHandles(p) : Aligned(Begin(p, h)) /\ Aligned(p.lease[h].size)

LEMMA HandlesFinite ==
    ASSUME Sized, NEW p
    PROVE  /\ IsFiniteSet(Handles) /\ IsFiniteSet(LiveHandles(p)) /\ Handles \in SUBSET Nat
           /\ NO_SLOT \notin Nat
<1>1. IsFiniteSet(Handles) /\ Handles \in SUBSET Nat
    BY FS_Interval DEF Sized, Handles
<1> QED
    BY <1>1, FS_Subset DEF LiveHandles, NO_SLOT

LEMMA FreeIs ==
    ASSUME Sized, NEW p, FreeHandle(p) # NO_SLOT
    PROVE  FreeHandle(p) \in Handles \ LiveHandles(p)
<1>1. LiveHandles(p) # Handles
    BY DEF FreeHandle
<1>2. Handles \ LiveHandles(p) # {} /\ Handles \ LiveHandles(p) \in SUBSET Nat
    BY <1>1, HandlesFinite DEF LiveHandles
<1> QED
    BY <1>1, <1>2, MinOf DEF FreeHandle

LEMMA LeaseFields ==
    ASSUME NEW p \in Pools, NEW h \in Handles
    PROVE  /\ Begin(p, h) \in Nat /\ p.lease[h].size \in Nat /\ p.lease[h].live \in BOOLEAN
           /\ End(p, h) = Begin(p, h) + p.lease[h].size /\ End(p, h) \in Nat
<1>1. p.lease[h] \in Leases
    BY DEF Pools
<1> QED
    BY <1>1 DEF Leases, Begin, End

\* q is p with n bytes from where lent as h.
OneMore(p, q, h, where, n) ==
    /\ q \in Pools /\ q.capacity = p.capacity /\ q.used = p.used + n
    /\ LiveHandles(q) = LiveHandles(p) \cup {h}
    /\ Begin(q, h) = where /\ q.lease[h].size = n /\ End(q, h) = where + n
    /\ \A g \in Handles \ {h} : q.lease[g] = p.lease[g]

LEMMA LeaseAtIs ==
    ASSUME Sized, NEW p \in Pools, FreeHandle(p) # NO_SLOT, NEW where \in Nat, NEW n \in Nat,
           NEW h, h = FreeHandle(p), NEW q, q = LeaseAt(p, where, n)
    PROVE  OneMore(p, q, h, where, n)
<1>1. h \in Handles \ LiveHandles(p)
    BY FreeIs
<1> DEFINE new == [live |-> TRUE, begin |-> where, size |-> n]
<1>2. new \in Leases
    BY DEF Leases
<1>3. where + n \in Nat /\ Max({p.high_water, where + n}) \in Nat
    <2>1. p.high_water \in Nat /\ where + n \in Nat
        BY DEF Pools
    <2> QED
        BY <2>1, MaxOfTwo
<1>4. q = [p EXCEPT !.lease[h] = new, !.used = p.used + n,
                    !.high_water = Max({p.high_water, where + n})]
    BY DEF LeaseAt
<1> HIDE DEF new
<1>5. [p.lease EXCEPT ![h] = new] \in [Handles -> Leases]
    BY <1>1, <1>2 DEF Pools
<1>6. /\ q.capacity = p.capacity /\ q.used = p.used + n
      /\ q.lease = [p.lease EXCEPT ![h] = new]
    BY <1>4 DEF Pools
<1>7. q \in Pools
    <2>1. p.used + n \in Nat
        BY DEF Pools
    <2> DEFINE hw == Max({p.high_water, where + n})
               l  == [p.lease EXCEPT ![h] = new]
               u  == p.used + n
    <2>2. q = [p EXCEPT !.lease = l, !.used = u, !.high_water = hw]
        BY <1>4
    <2>3. hw \in Nat /\ l \in [Handles -> Leases] /\ u \in Nat
        BY <1>3, <1>5, <2>1
    <2> HIDE DEF hw, l, u
    <2> QED
        BY <2>2, <2>3 DEF Pools
<1>8. q.lease[h] = new /\ \A g \in Handles \ {h} : q.lease[g] = p.lease[g]
    BY <1>1, <1>6 DEF Pools
<1>9. LiveHandles(q) = LiveHandles(p) \cup {h}
    <2>1. new.live
        BY DEF new
    <2> QED
        BY <1>1, <1>8, <2>1 DEF LiveHandles
<1>10. Begin(q, h) = where /\ q.lease[h].size = n /\ End(q, h) = where + n
    BY <1>8 DEF new, Begin, End
<1> QED
    BY <1>6, <1>7, <1>8, <1>9, <1>10 DEF OneMore

\* borrow: a lease placed in a gap with room for it is apart from all others.
THEOREM BorrowKeeps ==
    ASSUME Sized, NEW p, PoolKept(p), NEW size \in Nat, CanBorrow(p, size)
    PROVE  PoolKept(Borrow(p, size))
<1> DEFINE live == LiveHandles(p)
           n    == ceil_bytes(size)
           h    == FreeHandle(p)
           where   == Place(p, n)
           q    == Borrow(p, size)
           fits == {a \in GapStarts(p, live) : Room(p, live, a) >= n}
<1>1. p \in Pools /\ LeasesSound(p, live) /\ h # NO_SLOT /\ where # NO_SLOT
    BY DEF PoolKept, PoolSound, CanBorrow
<1>2. n \in Nat /\ n > 0 /\ Aligned(n)
    BY CeilIs DEF CanBorrow
<1>3. /\ h \in Handles \ live /\ live \in SUBSET Handles /\ IsFiniteSet(live)
      /\ \A g \in Handles : /\ Begin(p, g) \in Nat /\ p.lease[g].size \in Nat
                            /\ End(p, g) = Begin(p, g) + p.lease[g].size /\ End(p, g) \in Nat
    BY <1>1, FreeIs, LeaseFields, HandlesFinite DEF LiveHandles
<1> HIDE DEF live, n, h
<1>4. where \in fits
    <2>1. where = IF fits = {} THEN NO_SLOT ELSE Min(fits)
        BY DEF Place, live
    <2>2. fits \in SUBSET Nat
        BY <1>3 DEF GapStarts
    <2> HIDE DEF fits, where
    <2> QED
        BY <1>1, <2>1, <2>2, MinOf
<1>5. /\ where \in {0} \cup {End(p, g) : g \in live}
      /\ \A g \in live : ~(Begin(p, g) <= where /\ where < End(p, g))
      /\ Room(p, live, where) >= n
    <2> HIDE DEF where
    <2> QED
        BY <1>4 DEF GapStarts
<1> HIDE DEF fits, where
<1>6. where \in Nat
    BY <1>3, <1>5
<1>7. Aligned(where)
    <2>1. CASE where = 0
        <3>1. ALIGN * 0 = 0
            BY SMT DEF Sized
        <3> QED
            BY <2>1, <3>1 DEF Aligned
    <2>2. CASE where # 0
        <3>1. PICK g \in live : where = End(p, g)
            BY <1>5, <2>2
        <3>2. Aligned(Begin(p, g)) /\ Aligned(p.lease[g].size)
            BY <3>1 DEF PoolKept, live
        <3> QED
            BY <1>3, <3>1, <3>2, AlignedSum
    <2> QED
        BY <2>1, <2>2
<1>8. /\ where + n <= p.capacity
      /\ \A g \in live : where + n <= Begin(p, g) \/ End(p, g) <= where
    <2> DEFINE ahead == {p.capacity} \cup {Begin(p, g) : g \in {f \in live : Begin(p, f) >= where}}
               m     == Min(ahead)
    <2>1. ahead \in SUBSET Nat /\ p.capacity \in ahead
        BY <1>1, <1>3 DEF Pools
    <2>2. m - where >= n
        BY <1>5 DEF Room
    <2>3. m \in Nat /\ \A a \in ahead : m <= a
        <3> HIDE DEF ahead
        <3> QED
            BY <2>1, MinOf
    <2>4. \A a \in ahead : where + n <= a
        <3> HIDE DEF ahead, m
        <3> QED
            BY <1>2, <1>6, <2>1, <2>2, <2>3
    <2> HIDE DEF m
    <2>5. ASSUME NEW g \in live PROVE where + n <= Begin(p, g) \/ End(p, g) <= where
        <3>1. CASE Begin(p, g) >= where
            <4>1. Begin(p, g) \in ahead
                BY <3>1
            <4> QED
                BY <2>4, <4>1
        <3>2. CASE ~(Begin(p, g) >= where)
            BY <1>3, <1>5, <1>6, <3>2
        <3> QED
            BY <3>1, <3>2
    <2> HIDE DEF ahead
    <2> QED
        BY <2>1, <2>4, <2>5
<1>9. /\ q \in Pools /\ q.capacity = p.capacity /\ q.used = p.used + n
      /\ LiveHandles(q) = live \cup {h}
      /\ Begin(q, h) = where /\ q.lease[h].size = n /\ End(q, h) = where + n
      /\ \A g \in Handles \ {h} : q.lease[g] = p.lease[g]
    <2>1. q = LeaseAt(p, where, n)
        BY DEF Borrow, n, where
    <2>2. FreeHandle(p) # NO_SLOT /\ h = FreeHandle(p)
        BY <1>1 DEF h
    <2> HIDE DEF q
    <2>3. p \in Pools /\ where \in Nat /\ n \in Nat
        BY <1>1, <1>2, <1>6
    <2>4. OneMore(p, q, h, where, n)
        BY <2>1, <2>2, <2>3, LeaseAtIs
    <2> QED
        BY <2>4 DEF OneMore, live
<1> HIDE DEF q
<1>10. \A g \in live : /\ Begin(q, g) = Begin(p, g) /\ q.lease[g].size = p.lease[g].size
                       /\ End(q, g) = End(p, g) /\ g # h
    BY <1>3, <1>9 DEF Begin, End
<1>11. \A g \in LiveHandles(q) : Aligned(Begin(q, g)) /\ Aligned(q.lease[g].size)
    BY <1>2, <1>7, <1>9, <1>10 DEF PoolKept, live
<1>12. LeasesSound(q, LiveHandles(q))
    <2>1. ASSUME NEW g \in LiveHandles(q)
          PROVE  /\ Begin(q, g) >= 0 /\ Begin(q, g) = ceil_bytes(Begin(q, g))
                 /\ q.lease[g].size > 0 /\ End(q, g) <= q.capacity
        <3>1. Begin(q, g) \in Nat
            BY <1>3, <1>6, <1>9, <1>10
        <3>2. Begin(q, g) = ceil_bytes(Begin(q, g))
            BY <1>11, <3>1, CeilIs
        <3>3. q.lease[g].size > 0 /\ End(q, g) <= q.capacity
            BY <1>1, <1>2, <1>8, <1>9, <1>10 DEF LeasesSound
        <3> QED
            BY <3>1, <3>2, <3>3
    <2>2. ASSUME NEW f \in LiveHandles(q), NEW g \in LiveHandles(q), f # g
          PROVE  End(q, f) <= Begin(q, g) \/ End(q, g) <= Begin(q, f)
        <3>1. CASE f \in live /\ g \in live
            BY <1>1, <1>10, <2>2, <3>1 DEF LeasesSound
        <3>2. CASE f = h /\ g \in live
            BY <1>8, <1>9, <1>10, <3>2
        <3>3. CASE g = h /\ f \in live
            BY <1>8, <1>9, <1>10, <3>3
        <3> QED
            BY <1>9, <2>2, <3>1, <3>2, <3>3
    <2> QED
        BY <2>1, <2>2 DEF LeasesSound
<1>13. q.used = SumFunctionOnSet(Lent(q), LiveHandles(q))
    <2>1. Lent(q)[h] = n /\ \A g \in live : Lent(p)[g] \in Nat /\ Lent(q)[g] = Lent(p)[g]
        BY <1>3, <1>9, <1>10 DEF Lent
    <2>2. SumFunctionOnSet(Lent(q), live \cup {h}) = n + SumFunctionOnSet(Lent(p), live)
        <3>1. h \notin live /\ Lent(q)[h] \in Nat
            BY <1>2, <1>3, <2>1
        <3>2. SumFunctionOnSet(Lent(q), live \cup {h})
                = Lent(q)[h] + SumFunctionOnSet(Lent(p), live)
            BY <1>3, <2>1, <3>1, SumWith
        <3> QED
            BY <2>1, <3>2
    <2>3. p.used = SumFunctionOnSet(Lent(p), live) /\ p.used \in Nat
        BY <1>1 DEF PoolKept, PoolSound, Lent, live, Pools
    <2> QED
        BY <1>2, <1>9, <2>2, <2>3
<1> QED
    BY <1>9, <1>11, <1>12, <1>13 DEF PoolKept, PoolSound, Lent, q

\* The leases follow one another from the front, without gaps.
Packed(p) ==
    /\ p.used = 0 \/ \E h \in LiveHandles(p) : Begin(p, h) = 0
    /\ p.used = 0 \/ \E h \in LiveHandles(p) : End(p, h) = p.used
    /\ \A h \in LiveHandles(p) :
         /\ End(p, h) <= p.used
         /\ End(p, h) = p.used \/ \E g \in LiveHandles(p) : Begin(p, g) = End(p, h)

\* Then the only gap is behind them.
LEMMA PackedPlace ==
    ASSUME Sized, NEW p, PoolKept(p), Packed(p), NEW n \in Nat, p.used + n <= p.capacity
    PROVE  Place(p, n) = p.used
<1> DEFINE live == LiveHandles(p)
           fits == {where \in GapStarts(p, live) : Room(p, live, where) >= n}
<1>1. /\ p \in Pools /\ p.used \in Nat /\ p.capacity \in Nat
      /\ \A h \in live : p.lease[h].size > 0
    BY DEF PoolKept, PoolSound, LeasesSound, Pools
<1>2. \A h \in live : /\ Begin(p, h) \in Nat /\ p.lease[h].size \in Nat
                      /\ End(p, h) = Begin(p, h) + p.lease[h].size /\ End(p, h) \in Nat
    BY <1>1, LeaseFields DEF LiveHandles
<1> HIDE DEF live
<1>3. p.used \in GapStarts(p, live)
    BY <1>1, <1>2 DEF GapStarts, Packed, live
<1>4. ASSUME NEW where \in GapStarts(p, live)
      PROVE  where = p.used
    <2>1. /\ where \in {0} \cup {End(p, h) : h \in live}
          /\ \A h \in live : ~(Begin(p, h) <= where /\ where < End(p, h))
        BY <1>4 DEF GapStarts
    <2>2. \A h \in live : where # Begin(p, h)
        BY <1>1, <1>2, <2>1
    <2> QED
        BY <1>1, <1>2, <2>1, <2>2 DEF Packed, live
<1>5. Room(p, live, p.used) = p.capacity - p.used
    <2>1. {Begin(p, h) : h \in {g \in live : Begin(p, g) >= p.used}} = {}
        BY <1>1, <1>2 DEF Packed, live
    <2>2. Min({p.capacity}) = p.capacity
        <3>1. {p.capacity} \in SUBSET Nat /\ {p.capacity} # {}
            BY <1>1
        <3>2. Min({p.capacity}) \in {p.capacity}
            BY <3>1, MinOf
        <3> QED
            BY <3>2
    <2> QED
        BY <2>1, <2>2 DEF Room
<1>6. fits = {p.used}
    <2>1. p.capacity - p.used >= n
        BY <1>1
    <2> QED
        BY <1>3, <1>4, <1>5, <2>1
<1>7. Min(fits) = p.used
    <2>1. fits \in SUBSET Nat /\ fits # {}
        BY <1>1, <1>6
    <2>2. Min(fits) \in fits
        <3> HIDE DEF fits
        <3> QED
            BY <2>1, MinOf
    <2> QED
        BY <1>6, <2>2
<1>8. Place(p, n) = IF fits = {} THEN NO_SLOT ELSE Min(fits)
    BY DEF Place, live
<1> HIDE DEF fits
<1> QED
    BY <1>6, <1>7, <1>8

\* A borrow that the rest of the buffer has room for is given, in the lowest
\* handle, and leaves the leases packed.
LEMMA PackedBorrow ==
    ASSUME Sized, NEW p, PoolKept(p), Packed(p), NEW size \in Nat \ {0},
           NEW k \in Nat, k < MAX_HANDLES, LiveHandles(p) = 0 .. k - 1,
           p.used + ceil_bytes(size) <= p.capacity, NEW q, q = Borrow(p, size)
    PROVE  /\ CanBorrow(p, size) /\ FreeHandle(p) = k
           /\ PoolKept(q) /\ Packed(q) /\ LiveHandles(q) = 0 .. k
           /\ q.capacity = p.capacity /\ q.used = p.used + ceil_bytes(size)
<1> DEFINE n == ceil_bytes(size)
<1>1. /\ p \in Pools /\ p.used \in Nat /\ p.capacity \in Nat
      /\ n \in Nat /\ n > 0
    BY CeilIs DEF PoolKept, Pools
<1> HIDE DEF n
<1>2. Place(p, n) = p.used
    BY <1>1, PackedPlace DEF n
<1>3. FreeHandle(p) = k
    <2>1. k \in Handles /\ \A h \in Handles : h \in 0 .. k - 1 \/ k <= h
        BY DEF Sized, Handles
    <2>2. Handles \ (0 .. k - 1) \in SUBSET Nat /\ k \in Handles \ (0 .. k - 1)
        BY <2>1, HandlesFinite
    <2>3. Min(Handles \ (0 .. k - 1)) = k
        <3>1. Min(Handles \ (0 .. k - 1)) \in Handles \ (0 .. k - 1)
            BY <2>2, MinOf
        <3>2. Min(Handles \ (0 .. k - 1)) <= k
            BY <2>2, MinOf
        <3>3. k <= Min(Handles \ (0 .. k - 1))
            BY <2>1, <3>1
        <3>4. Min(Handles \ (0 .. k - 1)) \in Nat
            BY <2>2, <3>1
        <3> HIDE DEF Min
        <3> QED
            BY <3>2, <3>3, <3>4
    <2> QED
        BY <2>2, <2>3 DEF FreeHandle
<1>4. FreeHandle(p) # NO_SLOT /\ Place(p, n) # NO_SLOT
    BY <1>1, <1>2, <1>3 DEF NO_SLOT
<1>5. CanBorrow(p, size)
    <2>1. n <= p.capacity
        BY <1>1 DEF n
    <2> QED
        BY <1>4, <2>1 DEF CanBorrow, n
<1>6. PoolKept(q)
    BY <1>5, BorrowKeeps
<1>7. OneMore(p, q, k, p.used, n)
    <2>1. q = LeaseAt(p, p.used, n)
        BY <1>2 DEF Borrow, n
    <2>2. k = FreeHandle(p)
        BY <1>3
    <2> QED
        BY <1>1, <1>4, <2>1, <2>2, LeaseAtIs
<1>8. LiveHandles(q) = 0 .. k
    <2>1. (0 .. k - 1) \cup {k} = 0 .. k
        OBVIOUS
    <2> QED
        BY <1>7, <2>1 DEF OneMore
<1>9. Packed(q)
    <2>1. /\ LiveHandles(q) = LiveHandles(p) \cup {k} /\ k \notin LiveHandles(p)
          /\ Begin(q, k) = p.used /\ End(q, k) = p.used + n /\ q.used = p.used + n
        BY <1>7 DEF OneMore
    <2>2. \A h \in LiveHandles(p) : Begin(q, h) = Begin(p, h) /\ End(q, h) = End(p, h)
        <3>1. \A h \in LiveHandles(p) : h \in Handles \ {k}
            BY <2>1 DEF LiveHandles
        <3> QED
            BY <1>7, <3>1 DEF OneMore, Begin, End
    <2>3. \A h \in LiveHandles(p) : End(p, h) \in Nat
        BY <1>1, LeaseFields DEF LiveHandles
    <2>4. \A h \in LiveHandles(q) : End(q, h) <= q.used
        BY <1>1, <2>1, <2>2, <2>3 DEF Packed
    <2>5. \A h \in LiveHandles(q) :
            End(q, h) = q.used \/ \E g \in LiveHandles(q) : Begin(q, g) = End(q, h)
        BY <1>1, <2>1, <2>2, <2>3 DEF Packed
    <2>6. \E h \in LiveHandles(q) : Begin(q, h) = 0
        BY <2>1, <2>2 DEF Packed
    <2> QED
        BY <2>1, <2>4, <2>5, <2>6 DEF Packed
<1> QED
    BY <1>3, <1>5, <1>6, <1>7, <1>8, <1>9 DEF OneMore, n
-----------------------------------------------------------------------------
(* Runs of rows *)

Runs == [owner : Nat \cup {NO_REQUEST}, off : Nat, cnt : Nat]

\* The runs follow one another from row 0 on, and have total rows together.
RunsPacked(b, total) ==
    /\ b \in [BatchSlots -> Runs]
    /\ total \in Nat
    /\ total = 0 \/ \E i \in LiveRuns(b) : b[i].off = 0
    /\ total = 0 \/ \E i \in LiveRuns(b) : RunEnd(b, i) = total
    /\ \A i \in LiveRuns(b) :
         /\ b[i].cnt > 0 /\ RunEnd(b, i) <= total
         /\ RunEnd(b, i) = total \/ \E j \in LiveRuns(b) : b[j].off = RunEnd(b, i)
    /\ RunsApart(b)
    /\ total_tokens(b) = total

LEMMA RunFields ==
    ASSUME NEW b \in [BatchSlots -> Runs], NEW i \in BatchSlots
    PROVE  /\ b[i].off \in Nat /\ b[i].cnt \in Nat /\ b[i].owner \in Nat \cup {NO_REQUEST}
           /\ RunEnd(b, i) = b[i].off + b[i].cnt /\ RunEnd(b, i) \in Nat
<1>1. b[i] \in Runs
    OBVIOUS
<1> QED
    BY <1>1 DEF Runs, RunEnd

LEMMA PackedPlaceRun ==
    ASSUME NEW b, NEW total, RunsPacked(b, total), NEW count \in Nat \ {0}
    PROVE  PlaceRun(b, count) = total
<1> DEFINE live == LiveRuns(b)
           fits == {where \in {0} \cup {RunEnd(b, i) : i \in live} :
                      \A i \in live : RunEnd(b, i) <= where \/ where + count <= b[i].off}
<1>1. \A i \in live : /\ b[i].off \in Nat /\ b[i].cnt \in Nat /\ b[i].cnt > 0
                      /\ RunEnd(b, i) = b[i].off + b[i].cnt /\ RunEnd(b, i) \in Nat
    BY RunFields DEF LiveRuns, RunsPacked
<1>2. total \in Nat
    BY DEF RunsPacked
<1>3. total \in fits
    BY <1>1, <1>2 DEF RunsPacked
<1>4. ASSUME NEW where \in fits PROVE where = total
    <2>1. ASSUME NEW i \in live PROVE where # b[i].off
        BY <1>1, <1>4, <2>1
    <2>2. where \in {0} \cup {RunEnd(b, i) : i \in live}
        BY <1>4
    <2> HIDE DEF fits
    <2> QED
        BY <1>1, <1>2, <2>1, <2>2 DEF RunsPacked
<1>5. fits \in SUBSET Nat /\ fits # {}
    BY <1>2, <1>3, <1>4
<1>6. PlaceRun(b, count) = Min(fits)
    BY DEF PlaceRun
<1> HIDE DEF fits
<1> QED
    BY <1>4, <1>5, <1>6, MinOf

\* A run added to packed runs is put behind them, in the lowest place.
THEOREM PackedAddRun ==
    ASSUME Sized, NEW b, NEW total, RunsPacked(b, total), NEW count \in Nat \ {0},
           NEW request \in Nat, NEW m \in Nat, m < MAX_BATCH, LiveRuns(b) = 0 .. m - 1,
           NEW c, c = AddRun(b, request, count)
    PROVE  /\ LiveRuns(c) = 0 .. m
           /\ c[m] = [owner |-> request, off |-> total, cnt |-> count]
           /\ \A i \in 0 .. m - 1 : c[i] = b[i]
           /\ RunsPacked(c, total + count)
<1> DEFINE new == [owner |-> request, off |-> total, cnt |-> count]
<1>1. /\ b \in [BatchSlots -> Runs] /\ total \in Nat /\ m \in BatchSlots
      /\ BatchSlots \in SUBSET Nat /\ \A i \in BatchSlots : i \in 0 .. m - 1 \/ m <= i
      /\ 0 .. m - 1 \in SUBSET BatchSlots /\ IsFiniteSet(0 .. m - 1) /\ m \notin 0 .. m - 1
    <2>1. b \in [BatchSlots -> Runs] /\ total \in Nat
        BY DEF RunsPacked
    <2>2. IsFiniteSet(0 .. m - 1)
        BY FS_Interval
    <2> QED
        BY <2>1, <2>2 DEF BatchSlots, Sized
<1>2. Min(BatchSlots \ (0 .. m - 1)) = m
    <2> DEFINE F == BatchSlots \ (0 .. m - 1)
    <2>1. F \in SUBSET Nat /\ m \in F /\ \A i \in F : m <= i
        BY <1>1
    <2> HIDE DEF F
    <2>2. Min(F) \in F /\ Min(F) <= m
        BY <2>1, MinOf
    <2>3. \A x \in F : x <= m => x = m
        BY <2>1
    <2>4. Min(F) = m
        BY <2>2, <2>3
    <2> QED
        BY <2>4 DEF F
<1>3. c = [b EXCEPT ![m] = new]
    BY <1>2, PackedPlaceRun DEF AddRun
<1>4. new \in Runs /\ new.owner # NO_REQUEST /\ new.owner = request
      /\ new.off = total /\ new.cnt = count
    BY <1>1 DEF Runs, NO_REQUEST
<1> HIDE DEF new
<1>5. /\ c \in [BatchSlots -> Runs] /\ c[m] = new
      /\ \A i \in BatchSlots \ {m} : c[i] = b[i]
    BY <1>1, <1>3, <1>4
<1>6. LiveRuns(c) = (0 .. m - 1) \cup {m}
    <2>1. \A i \in BatchSlots : i \in LiveRuns(c) <=> i \in 0 .. m - 1 \/ i = m
        BY <1>1, <1>4, <1>5 DEF LiveRuns
    <2> QED
        BY <1>1, <2>1 DEF LiveRuns
<1>7. \A i \in 0 .. m - 1 : /\ c[i] = b[i] /\ RunEnd(c, i) = RunEnd(b, i)
                            /\ b[i].off \in Nat /\ b[i].cnt \in Nat /\ RunEnd(b, i) \in Nat
    BY <1>1, <1>5, RunFields DEF RunEnd
<1>8. RunEnd(c, m) = total + count /\ c[m].off = total /\ c[m].cnt = count
    BY <1>4, <1>5 DEF RunEnd
<1>9. total_tokens(c) = total + count
    <2> DEFINE f == [i \in BatchSlots |-> b[i].cnt]
               e == [i \in BatchSlots |-> c[i].cnt]
               S == 0 .. m - 1
    <2>1. /\ e[m] = count /\ IsFiniteSet(S) /\ m \notin S
          /\ \A i \in S : f[i] \in Nat /\ e[i] = f[i]
        BY <1>1, <1>7, <1>8
    <2>2. total_tokens(b) = SumFunctionOnSet(f, S)
        BY DEF total_tokens
    <2>3. total_tokens(c) = SumFunctionOnSet(e, S \cup {m})
        BY <1>6 DEF total_tokens
    <2> HIDE DEF e, f, S
    <2>4. SumFunctionOnSet(e, S \cup {m}) = e[m] + SumFunctionOnSet(f, S)
        <3>1. e[m] \in Nat /\ IsFiniteSet(S) /\ m \notin S
            BY <2>1
        <3>2. \A y \in S : f[y] \in Nat /\ e[y] = f[y]
            BY <2>1
        <3> QED
            BY <3>1, <3>2, SumWith
    <2>5. total_tokens(b) = total
        BY DEF RunsPacked
    <2> QED
        BY <1>1, <2>1, <2>2, <2>3, <2>4, <2>5
<1>10. RunsApart(c)
    <2> SUFFICES ASSUME NEW i \in LiveRuns(c), NEW j \in LiveRuns(c), i # j
                 PROVE  RunEnd(c, i) <= c[j].off \/ RunEnd(c, j) <= c[i].off
        BY DEF RunsApart
    <2>1. CASE i \in 0 .. m - 1 /\ j \in 0 .. m - 1
        BY <1>7, <2>1 DEF RunsPacked, RunsApart
    <2>2. \A k \in 0 .. m - 1 : RunEnd(c, k) <= c[m].off
        BY <1>7, <1>8 DEF RunsPacked
    <2> QED
        BY <1>6, <2>1, <2>2
<1>11. /\ \E i \in LiveRuns(c) : c[i].off = 0
       /\ RunEnd(c, m) = total + count /\ m \in LiveRuns(c)
    BY <1>1, <1>6, <1>7, <1>8 DEF RunsPacked
<1>12. ASSUME NEW i \in LiveRuns(c)
       PROVE  /\ c[i].cnt > 0 /\ RunEnd(c, i) <= total + count
              /\ RunEnd(c, i) = total + count \/ \E j \in LiveRuns(c) : c[j].off = RunEnd(c, i)
    <2>1. CASE i = m
        <3>1. c[m].cnt > 0 /\ RunEnd(c, m) <= total + count /\ RunEnd(c, m) = total + count
            BY <1>1, <1>8
        <3> QED
            BY <2>1, <3>1
    <2>2. CASE i \in 0 .. m - 1
        <3>1. /\ b[i].cnt > 0 /\ RunEnd(b, i) <= total
              /\ RunEnd(b, i) = total \/ \E j \in 0 .. m - 1 : b[j].off = RunEnd(b, i)
            BY <2>2 DEF RunsPacked
        <3>2. RunEnd(c, i) <= total + count
            BY <1>1, <1>7, <2>2, <3>1
        <3>3. c[i].cnt > 0
            BY <1>7, <2>2, <3>1
        <3>4. ASSUME RunEnd(b, i) # total
              PROVE  \E j \in LiveRuns(c) : c[j].off = RunEnd(c, i)
            <4>1. PICK j \in 0 .. m - 1 : b[j].off = RunEnd(b, i)
                BY <3>1, <3>4
            <4>2. j \in LiveRuns(c) /\ c[j].off = RunEnd(c, i)
                BY <1>6, <1>7, <2>2, <4>1
            <4> QED
                BY <4>2
        <3>5. ASSUME RunEnd(b, i) = total
              PROVE  \E j \in LiveRuns(c) : c[j].off = RunEnd(c, i)
            <4>1. m \in LiveRuns(c) /\ c[m].off = RunEnd(c, i)
                BY <1>6, <1>7, <1>8, <2>2, <3>5
            <4> QED
                BY <4>1
        <3>6. \E j \in LiveRuns(c) : c[j].off = RunEnd(c, i)
            BY <3>4, <3>5
        <3> QED
            BY <3>2, <3>3, <3>6
    <2>3. i = m \/ i \in 0 .. m - 1
        BY <1>6
    <2> QED
        BY <2>1, <2>2, <2>3
<1>13. RunsPacked(c, total + count)
    <2>1. total + count \in Nat
        BY <1>1
    <2> QED
        BY <1>5, <1>9, <1>10, <1>11, <1>12, <2>1 DEF RunsPacked
<1>14. LiveRuns(c) = 0 .. m
    <2>1. (0 .. m - 1) \cup {m} = 0 .. m
        OBVIOUS
    <2> QED
        BY <1>6, <2>1
<1> QED
    BY <1>5, <1>7, <1>13, <1>14 DEF new

\* Without runs, nobody has rows.
LEMMA NoRunsPacked ==
    ASSUME Sized, NEW b
    PROVE  /\ LiveRuns(ClearRuns(b)) = {}
           /\ RunsPacked(ClearRuns(b), 0)
<1> DEFINE c == ClearRuns(b)
<1>1. c \in [BatchSlots -> Runs] /\ \A i \in BatchSlots : c[i].owner = NO_REQUEST
    BY DEF ClearRuns, NoRun, Runs
<1>2. LiveRuns(c) = {}
    BY <1>1 DEF LiveRuns
<1>3. total_tokens(c) = 0
    BY <1>2, SumNothing DEF total_tokens
<1> HIDE DEF c
<1>4. RunsPacked(c, 0)
    BY <1>1, <1>2, <1>3 DEF RunsPacked, RunsApart
<1> QED
    BY <1>2, <1>4 DEF c
-----------------------------------------------------------------------------
TextTokens == Tokens \cup {NO_TOKEN}

Entries == [ live : BOOLEAN, req : Nat, hist : 0 .. MAX_POS, n_prompt : Nat,
             pending : Seq(Tokens), budget : Int, served : 0 .. MAX_ROWS,
             out : Seq(Tokens) ]

BatchRows == [req : Nat, tok : Tokens, pos : Nat]

Typed ==
    /\ slot \in [BatchSlots -> Entries]
    /\ \A i \in BatchSlots : Len(slot[i].pending) <= MAX_ROWS /\ Len(slot[i].out) <= MAX_GEN
    /\ kv \in [BatchSlots -> [Positions -> TextTokens]]
    /\ prompt \in [Requests -> Prompts \cup {<<>>}]
    /\ at \in {"idle", "planned", "run", "advanced"}

\* A resident request is resident once, and its prompt is the one it came with.
Residents ==
    \A i \in LiveEntries :
        /\ \A j \in LiveEntries : slot[i].req = slot[j].req => i = j
        /\ slot[i].req \in Requests
        /\ prompt[slot[i].req] \in Prompts
        /\ slot[i].n_prompt = Len(prompt[slot[i].req])

\* Nothing is lent between steps, and during one the 15 lowest handles are.
Lending ==
    /\ PoolKept(pool) /\ Packed(pool) /\ pool.capacity = scratch_bytes
    /\ IF at = "idle" THEN handles = <<>> /\ LiveHandles(pool) = {}
                      ELSE handles = [k \in 1 .. 15 |-> k - 1] /\ LiveHandles(pool) = 0 .. 14

RowOf(q, j) == [req |-> q.req, tok |-> q.pending[j], pos |-> q.hist + j - 1]

\* The run c holds the first rows that are owed to the entry q.
RunOf(b, rows, c, q, n) ==
    /\ b[c].owner = q.req /\ n = b[c].cnt
    /\ \A j \in 1 .. n : rows[b[c].off + j] = RowOf(q, j)

\* What the turns of the first k slots have described, for slots as s has
\* them: runs without gaps, each of one entry, the rows covered by them.
Described(s, served, b, rows, k) ==
    /\ rows \in Seq(BatchRows) /\ Len(rows) <= MAX_ROWS /\ RunsPacked(b, Len(rows))
    /\ \E m \in 0 .. k : LiveRuns(b) = 0 .. m - 1
    /\ \A c \in LiveRuns(b) :
         \E i \in 0 .. k - 1 : s[i].live /\ RunOf(b, rows, c, s[i], served[i])
    /\ \A c, d \in LiveRuns(b) : b[c].owner = b[d].owner => c = d
    /\ \A i \in 0 .. k - 1 : s[i].live /\ served[i] > 0 =>
         /\ served[i] <= Len(s[i].pending) /\ s[i].hist + served[i] <= MAX_POS
         /\ \E c \in LiveRuns(b) : b[c].owner = s[i].req
    /\ \A l \in 1 .. Len(rows) :
         \E c \in LiveRuns(b) : \E j \in 1 .. b[c].cnt : l = b[c].off + j

Serving == [i \in BatchSlots |-> slot[i].served]

Planning ==
    /\ row \in Seq(BatchRows) /\ Len(row) <= MAX_ROWS
    /\ at \in {"planned", "run"} =>
         row # <<>> /\ Described(slot, Serving, own, row, MAX_BATCH)

\* The rows of a step that was run left their tokens behind the histories.
Ran ==
    at = "run" =>
      \A i \in LiveEntries : \A j \in 1 .. slot[i].served :
          kv[i][slot[i].hist + j - 1] = slot[i].pending[j]

IInv == Typed /\ Residents /\ Lending /\ Planning /\ Ran
-----------------------------------------------------------------------------
(* The constants *)

LEMMA TheConstants ==
    /\ Sized
    /\ MAX_ROWS \in Nat /\ MAX_ROWS > 0 /\ MAX_POS \in Nat /\ MAX_POS > 0
    /\ MAX_GEN \in Nat /\ MAX_GEN > 0 /\ MAX_BATCH > 0 /\ MAX_HANDLES >= 15
    /\ Requests \in SUBSET Nat /\ Tokens \in SUBSET Nat /\ NO_TOKEN \notin Tokens
    /\ Answers \in SUBSET Tokens /\ BatchSlots \in SUBSET Nat /\ BatchSlots = 0 .. MAX_BATCH - 1
    /\ \A p \in Prompts : p \in Seq(Nat) /\ p # <<>>
<1>1. Tokens \in SUBSET Nat /\ Answers \in SUBSET Tokens
    BY ExecutorAssumption DEF Tokens
<1>2. BatchSlots \in SUBSET Nat /\ BatchSlots = 0 .. MAX_BATCH - 1
    BY ExecutorAssumption DEF BatchSlots
<1>3. NO_TOKEN \notin Tokens
    BY <1>1 DEF NO_TOKEN
<1> QED
    BY <1>1, <1>2, <1>3, ExecutorAssumption DEF Sized

LEMMA EntryFields ==
    ASSUME NEW q \in Entries
    PROVE  /\ q.live \in BOOLEAN /\ q.req \in Nat /\ q.hist \in 0 .. MAX_POS /\ q.hist \in Nat
           /\ q.n_prompt \in Nat /\ q.pending \in Seq(Tokens) /\ Len(q.pending) \in Nat
           /\ q.budget \in Int /\ q.served \in 0 .. MAX_ROWS /\ q.served \in Nat
           /\ q.out \in Seq(Tokens) /\ Len(q.out) \in Nat
BY TheConstants DEF Entries
-----------------------------------------------------------------------------
(* The buffers of one step *)

LEMMA TimesBothGrow ==
    ASSUME NEW a \in Nat, NEW b \in Nat, NEW c \in Nat, a <= c
    PROVE  a * b <= c * b /\ a * b \in Nat /\ c * b \in Nat
BY SMT

\* The bytes that are still to be lent, each buffer rounded up.
LEMMA BuffersFit ==
    ASSUME NEW rows \in 1 .. MAX_ROWS, NEW served \in 1 .. MAX_BATCH
    PROVE  /\ \A k \in 1 .. 15 : step_sizes(rows, served)[k] \in Nat \ {0}
           /\ scratch_bytes \in Nat
           /\ \E left \in [0 .. 15 -> Nat] :
                /\ left[0] <= scratch_bytes
                /\ \A k \in 1 .. 15 :
                     left[k - 1] = step_sizes(rows, served)[k] + ALIGN + left[k]
<1> DEFINE h == rows * HIDDEN * 4
           v == rows * KV_DIM * 4
           t == rows * INTER * 4
           p == rows * MAX_POS * 4
           a == served * HIDDEN * 4
           b == served * VOCAB * 4
           A == ALIGN
           s == step_sizes(rows, served)
           left == [k \in 0 .. 15 |->
               IF k = 0 THEN 6*h + 3*v + 3*t + p + a + b + 15*A
               ELSE IF k = 1 THEN 5*h + 3*v + 3*t + p + a + b + 14*A
               ELSE IF k = 2 THEN 4*h + 3*v + 3*t + p + a + b + 13*A
               ELSE IF k = 3 THEN 3*h + 3*v + 3*t + p + a + b + 12*A
               ELSE IF k = 4 THEN 3*h + 2*v + 3*t + p + a + b + 11*A
               ELSE IF k = 5 THEN 3*h + v + 3*t + p + a + b + 10*A
               ELSE IF k = 6 THEN 2*h + v + 3*t + p + a + b + 9*A
               ELSE IF k = 7 THEN 2*h + 3*t + p + a + b + 8*A
               ELSE IF k = 8 THEN h + 3*t + p + a + b + 7*A
               ELSE IF k = 9 THEN 3*t + p + a + b + 6*A
               ELSE IF k = 10 THEN 2*t + p + a + b + 5*A
               ELSE IF k = 11 THEN t + p + a + b + 4*A
               ELSE IF k = 12 THEN p + a + b + 3*A
               ELSE IF k = 13 THEN a + b + 2*A
               ELSE IF k = 14 THEN b + A
               ELSE 0]
<1>1. /\ rows \in Nat \ {0} /\ served \in Nat \ {0} /\ MAX_ROWS \in Nat /\ MAX_BATCH \in Nat
      /\ HIDDEN \in Nat \ {0} /\ KV_DIM \in Nat \ {0} /\ INTER \in Nat \ {0}
      /\ VOCAB \in Nat \ {0} /\ MAX_POS \in Nat \ {0} /\ A \in Nat \ {0}
      /\ rows <= MAX_ROWS /\ served <= MAX_BATCH
    BY ExecutorAssumption
<1>2. \A x, y \in Nat \ {0} : x * y * 4 \in Nat \ {0}
    BY SMT
<1>3. /\ h \in Nat \ {0} /\ v \in Nat \ {0} /\ t \in Nat \ {0} /\ p \in Nat \ {0}
      /\ a \in Nat \ {0} /\ b \in Nat \ {0}
    BY <1>1, <1>2
<1>4. /\ s[1] = h /\ s[2] = h /\ s[3] = h /\ s[4] = v /\ s[5] = v /\ s[6] = h /\ s[7] = v
      /\ s[8] = h /\ s[9] = h /\ s[10] = t /\ s[11] = t /\ s[12] = t /\ s[13] = p
      /\ s[14] = a /\ s[15] = b
    BY DEF step_sizes
<1>5. \A k \in 1 .. 15 : \/ k = 1 \/ k = 2 \/ k = 3 \/ k = 4 \/ k = 5 \/ k = 6 \/ k = 7
                         \/ k = 8 \/ k = 9 \/ k = 10 \/ k = 11 \/ k = 12 \/ k = 13
                         \/ k = 14 \/ k = 15
    OBVIOUS
<1> HIDE DEF s
<1>6. \A k \in 1 .. 15 : s[k] \in Nat \ {0}
    <2> HIDE DEF h, v, t, p, a, b
    <2> QED
        BY <1>3, <1>4, <1>5
<1>7. scratch_bytes \in Nat /\ left[0] <= scratch_bytes
    <2> DEFINE M == MAX_ROWS
               total == 4 * (M * (6 * HIDDEN + 3 * KV_DIM + 3 * INTER + MAX_POS)
                              + MAX_BATCH * (HIDDEN + VOCAB)) + 16 * A
    <2>1. /\ rows * HIDDEN <= M * HIDDEN /\ rows * KV_DIM <= M * KV_DIM
          /\ rows * INTER <= M * INTER /\ rows * MAX_POS <= M * MAX_POS
          /\ served * HIDDEN <= MAX_BATCH * HIDDEN /\ served * VOCAB <= MAX_BATCH * VOCAB
        BY <1>1, TimesBothGrow
    <2>2. /\ M * HIDDEN \in Nat /\ M * KV_DIM \in Nat /\ M * INTER \in Nat /\ M * MAX_POS \in Nat
          /\ MAX_BATCH * HIDDEN \in Nat /\ MAX_BATCH * VOCAB \in Nat
          /\ rows * HIDDEN \in Nat /\ rows * KV_DIM \in Nat /\ rows * INTER \in Nat
          /\ rows * MAX_POS \in Nat /\ served * HIDDEN \in Nat /\ served * VOCAB \in Nat
        BY <1>1, TimesBothGrow
    <2>3. total = 24 * (M * HIDDEN) + 12 * (M * KV_DIM) + 12 * (M * INTER) + 4 * (M * MAX_POS)
                    + 4 * (MAX_BATCH * HIDDEN) + 4 * (MAX_BATCH * VOCAB) + 16 * A
        <3>1. M * (6 * HIDDEN + 3 * KV_DIM + 3 * INTER + MAX_POS)
                = 6 * (M * HIDDEN) + 3 * (M * KV_DIM) + 3 * (M * INTER) + M * MAX_POS
            BY <1>1, SMT
        <3>2. MAX_BATCH * (HIDDEN + VOCAB) = MAX_BATCH * HIDDEN + MAX_BATCH * VOCAB
            BY <1>1, SMT
        <3> QED
            BY <1>1, <2>2, <3>1, <3>2
    <2>4. /\ h = 4 * (rows * HIDDEN) /\ v = 4 * (rows * KV_DIM) /\ t = 4 * (rows * INTER)
          /\ p = 4 * (rows * MAX_POS) /\ a = 4 * (served * HIDDEN) /\ b = 4 * (served * VOCAB)
        BY <1>1, SMT
    <2>5. left[0] = 6*h + 3*v + 3*t + p + a + b + 15*A
        OBVIOUS
    <2>6. total \in Nat /\ left[0] <= total
        <3> HIDE DEF h, v, t, p, a, b, left, total, M
        <3> QED
            BY <1>1, <2>1, <2>2, <2>3, <2>4, <2>5
    <2>7. scratch_bytes = ceil_bytes(total)
        BY DEF scratch_bytes
    <2> HIDE DEF left, total
    <2>8. scratch_bytes \in Nat /\ total <= scratch_bytes
        BY <2>6, <2>7, CeilIs, TheConstants
    <2> DEFINE z == left[0]
    <2>9. z \in Nat
        BY <1>1, <1>3, <2>5
    <2> HIDE DEF z
    <2>10. z <= scratch_bytes
        BY <2>6, <2>8, <2>9 DEF z
    <2> QED
        BY <2>8, <2>10 DEF z
<1>8. left \in [0 .. 15 -> Nat]
    <2> HIDE DEF h, v, t, p, a, b
    <2> QED
        BY <1>1, <1>3
<1>9. ASSUME NEW k \in 1 .. 15 PROVE left[k - 1] = s[k] + A + left[k]
    <2> HIDE DEF h, v, t, p, a, b
    <2> QED
        BY <1>1, <1>3, <1>4, <1>5
<1> HIDE DEF left
<1> QED
    BY <1>6, <1>7, <1>8, <1>9 DEF s

\* The borrows one after another.
Taken(f, n, rows, served) ==
    f = [k \in 0 .. n |-> IF k = 0 THEN [pool |-> pool, handles |-> <<>>, ok |-> TRUE]
                          ELSE Take(f[k - 1], step_sizes(rows, served)[k])]

LEMMA TakenExist ==
    ASSUME NEW rows, NEW served
    PROVE  \E f : Taken(f, 15, rows, served)
<1> DEFINE sizes == step_sizes(rows, served)
           first == [pool |-> pool, handles |-> <<>>, ok |-> TRUE]
           S == {m \in 0 .. 15 : \E f : Taken(f, m, rows, served)}
<1>1. 0 \in S
    <2> DEFINE g == [k \in 0 .. 0 |-> first]
    <2>1. \A k \in 0 .. 0 : k = 0
        OBVIOUS
    <2>2. Taken(g, 0, rows, served)
        BY <2>1 DEF Taken
    <2> QED
        BY <2>2
<1>2. ASSUME NEW m \in 0 .. 15 - 1, m \in S
      PROVE  m + 1 \in S
    <2>1. PICK f : Taken(f, m, rows, served)
        BY <1>2
    <2> DEFINE g == [k \in 0 .. m + 1 |-> IF k <= m THEN f[k] ELSE Take(f[m], sizes[m + 1])]
    <2>2. ASSUME NEW k \in 0 .. m + 1
          PROVE  g[k] = IF k = 0 THEN first ELSE Take(g[k - 1], sizes[k])
        <3>1. CASE k = m + 1
            <4>1. k # 0 /\ ~(k <= m) /\ k - 1 = m /\ m \in 0 .. m + 1 /\ m <= m
                BY <3>1
            <4>2. g[m] = f[m]
                BY <4>1
            <4> QED
                BY <3>1, <4>1, <4>2
        <3>2. CASE k # m + 1
            <4>1. k <= m /\ k \in 0 .. m
                BY <3>2
            <4>2. k # 0 => k - 1 <= m /\ k - 1 \in 0 .. m + 1
                BY <4>1
            <4>3. f[k] = IF k = 0 THEN first ELSE Take(f[k - 1], sizes[k])
                BY <2>1, <4>1 DEF Taken
            <4>4. k # 0 => g[k - 1] = f[k - 1]
                BY <4>2
            <4> QED
                BY <4>1, <4>3, <4>4
        <3> QED
            BY <3>1, <3>2
    <2>3. Taken(g, m + 1, rows, served)
        BY <2>2 DEF Taken
    <2>4. m + 1 \in 0 .. 15
        OBVIOUS
    <2> QED
        BY <2>3, <2>4
<1>3. \A m \in 0 .. 15 : m \in S
    <2> HIDE DEF S
    <2> QED
        BY <1>1, <1>2, UpTo
<1> QED
    BY <1>3

LEMMA AppendNext ==
    ASSUME NEW k \in Nat
    PROVE  Append([i \in 1 .. k |-> i - 1], k) = [i \in 1 .. k + 1 |-> i - 1]
<1> DEFINE s == [i \in 1 .. k |-> i - 1]
           t == [i \in 1 .. k + 1 |-> i - 1]
<1>1. s \in Seq(Nat) /\ Len(s) = k /\ \A i \in 1 .. k : s[i] = i - 1
    OBVIOUS
<1>2. t \in Seq(Nat) /\ Len(t) = k + 1 /\ \A i \in 1 .. k + 1 : t[i] = i - 1
    OBVIOUS
<1> HIDE DEF s, t
<1>3. /\ Append(s, k) \in Seq(Nat) /\ Len(Append(s, k)) = k + 1
      /\ \A i \in 1 .. k : Append(s, k)[i] = s[i]
      /\ Append(s, k)[k + 1] = k
    BY <1>1, AppendProperties
<1>4. \A i \in 1 .. k + 1 : Append(s, k)[i] = t[i]
    BY <1>1, <1>2, <1>3
<1>5. Append(s, k) = t
    BY <1>2, <1>3, <1>4, SeqEqual
<1> QED
    BY <1>5 DEF s, t

\* Between steps the pool has room for all 15 buffers, so that no step fails
\* for want of memory.
LEMMA StepBuffers ==
    ASSUME Lending, at = "idle", NEW rows \in 1 .. MAX_ROWS, NEW served \in 1 .. MAX_BATCH,
           NEW b, b = Borrowed(rows, served)
    PROVE  /\ b.ok /\ b.handles = [k \in 1 .. 15 |-> k - 1]
           /\ PoolKept(b.pool) /\ Packed(b.pool) /\ b.pool.capacity = scratch_bytes
           /\ LiveHandles(b.pool) = 0 .. 14
<1> DEFINE sizes == step_sizes(rows, served)
<1>1. PICK f : Taken(f, 15, rows, served) /\ b = f[15]
    <2> DEFINE G == CHOOSE f : Taken(f, 15, rows, served)
    <2>1. Taken(G, 15, rows, served)
        BY TakenExist
    <2>2. b = G[15]
        BY DEF Borrowed, Taken
    <2> QED
        BY <2>1, <2>2
<1>2. /\ \A k \in 1 .. 15 : sizes[k] \in Nat \ {0}
      /\ scratch_bytes \in Nat
    BY BuffersFit
<1>3. PICK left \in [0 .. 15 -> Nat] :
          /\ left[0] <= scratch_bytes
          /\ \A k \in 1 .. 15 : left[k - 1] = sizes[k] + ALIGN + left[k]
    BY BuffersFit
<1>4. Sized /\ ALIGN \in Nat /\ 15 <= MAX_HANDLES /\ MAX_HANDLES \in Nat
    BY TheConstants DEF Sized
<1> HIDE DEF sizes
<1> DEFINE Good(k) == /\ f[k].ok = TRUE /\ f[k].handles = [i \in 1 .. k |-> i - 1]
                      /\ PoolKept(f[k].pool) /\ Packed(f[k].pool)
                      /\ f[k].pool.capacity = scratch_bytes
                      /\ LiveHandles(f[k].pool) = 0 .. k - 1
                      /\ f[k].pool.used + left[k] <= scratch_bytes
           S == {k \in 0 .. 15 : Good(k)}
<1>5. 0 \in S
    <2>1. f[0] = [pool |-> pool, handles |-> <<>>, ok |-> TRUE]
        BY <1>1 DEF Taken
    <2>2. pool.used = 0 /\ LiveHandles(pool) = 0 .. 0 - 1
        <3>1. LiveHandles(pool) = {} /\ Packed(pool)
            BY DEF Lending
        <3>2. pool.used = 0
            BY <3>1 DEF Packed
        <3>3. 0 .. 0 - 1 = {}
            OBVIOUS
        <3> QED
            BY <3>1, <3>2, <3>3
    <2>3. <<>> = [i \in 1 .. 0 |-> i - 1]
        OBVIOUS
    <2>4. pool.used + left[0] <= scratch_bytes
        BY <1>3, <2>2
    <2>5. f[0].ok = TRUE /\ f[0].handles = [i \in 1 .. 0 |-> i - 1] /\ f[0].pool = pool
        BY <2>1, <2>3
    <2>6. PoolKept(pool) /\ Packed(pool) /\ pool.capacity = scratch_bytes
        BY DEF Lending
    <2>7. /\ PoolKept(f[0].pool) /\ Packed(f[0].pool) /\ f[0].pool.capacity = scratch_bytes
          /\ LiveHandles(f[0].pool) = 0 .. 0 - 1 /\ f[0].pool.used + left[0] <= scratch_bytes
        BY <2>2, <2>4, <2>5, <2>6
    <2>8. Good(0)
        BY <2>5, <2>7
    <2> HIDE DEF Good
    <2> QED
        BY <2>8
<1>6. ASSUME NEW k \in 0 .. 15 - 1, k \in S
      PROVE  k + 1 \in S
    <2>1. k \in Nat /\ k + 1 \in 1 .. 15 /\ k < MAX_HANDLES /\ (k + 1) - 1 = k
        BY <1>4
    <2>2. Good(k)
        BY <1>6
    <2>3. f[k + 1] = Take(f[k], sizes[k + 1])
        <3>1. k + 1 \in 0 .. 15 /\ k + 1 # 0
            BY <2>1
        <3>2. f[k + 1] = IF k + 1 = 0 THEN [pool |-> pool, handles |-> <<>>, ok |-> TRUE]
                         ELSE Take(f[(k + 1) - 1], step_sizes(rows, served)[k + 1])
            BY <1>1, <3>1 DEF Taken
        <3> QED
            BY <2>1, <3>1, <3>2 DEF sizes
    <2> DEFINE p == f[k].pool
               n == sizes[k + 1]
               c == ceil_bytes(n)
               q == Borrow(p, n)
    <2>4. n \in Nat \ {0} /\ c \in Nat /\ c <= n + ALIGN
        BY <1>2, <1>4, <2>1, CeilIs
    <2>5. left[k] = n + ALIGN + left[k + 1] /\ left[k] \in Nat /\ left[k + 1] \in Nat
        BY <1>3, <2>1
    <2>6. p.used \in Nat
        BY <2>2 DEF PoolKept, Pools
    <2> HIDE DEF Good
    <2>7. p.used + c + left[k + 1] <= scratch_bytes /\ p.used + c <= scratch_bytes
        <3>1. p.used + left[k] <= scratch_bytes
            BY <2>2 DEF Good
        <3> HIDE DEF p, n, c
        <3> QED
            BY <1>2, <1>4, <2>4, <2>5, <2>6, <3>1
    <2>8. /\ PoolKept(p) /\ Packed(p) /\ p.capacity = scratch_bytes
          /\ LiveHandles(p) = 0 .. k - 1 /\ f[k].ok = TRUE
          /\ f[k].handles = [i \in 1 .. k |-> i - 1]
        BY <2>2 DEF Good
    <2>9. /\ CanBorrow(p, n) /\ FreeHandle(p) = k
          /\ PoolKept(q) /\ Packed(q) /\ LiveHandles(q) = 0 .. k
          /\ q.capacity = p.capacity /\ q.used = p.used + c
        <3> HIDE DEF p, n, q
        <3>1. p.used + ceil_bytes(n) <= p.capacity
            BY <2>7, <2>8
        <3> QED
            BY <1>4, <2>1, <2>4, <2>8, <3>1, PackedBorrow DEF q
    <2>10. f[k + 1] = [pool |-> q, handles |-> Append(f[k].handles, k), ok |-> TRUE]
        BY <2>3, <2>8, <2>9 DEF Take
    <2>11. Append([i \in 1 .. k |-> i - 1], k) = [i \in 1 .. k + 1 |-> i - 1]
        BY <2>1, AppendNext
    <2> HIDE DEF p, q, n, c
    <2>12. /\ f[k + 1].ok = TRUE /\ f[k + 1].pool = q
           /\ f[k + 1].handles = [i \in 1 .. k + 1 |-> i - 1]
        <3> DEFINE hs == Append(f[k].handles, k)
        <3>1. hs = [i \in 1 .. k + 1 |-> i - 1]
            BY <2>8, <2>11
        <3>2. f[k + 1] = [pool |-> q, handles |-> hs, ok |-> TRUE]
            BY <2>10
        <3> HIDE DEF hs
        <3> QED
            BY <3>1, <3>2
    <2>13. q.used + left[k + 1] <= scratch_bytes /\ q.capacity = scratch_bytes
        BY <2>7, <2>8, <2>9
    <2>14. LiveHandles(f[k + 1].pool) = 0 .. (k + 1) - 1
        BY <2>1, <2>9, <2>12
    <2>15. Good(k + 1)
        BY <2>9, <2>12, <2>13, <2>14 DEF Good
    <2> QED
        BY <2>1, <2>15
<1>7. Good(15)
    <2>1. \A k \in 0 .. 15 : k \in S
        <3> HIDE DEF S
        <3> QED
            BY <1>5, <1>6, UpTo
    <2>2. 15 \in S
        <3>1. 15 \in 0 .. 15
            OBVIOUS
        <3> HIDE DEF S
        <3> QED
            BY <2>1, <3>1
    <2> QED
        BY <2>2
<1>8. 0 .. 15 - 1 = 0 .. 14
    OBVIOUS
<1> QED
    BY <1>1, <1>7, <1>8

\* finish gives back all that was lent, and then nothing is.
LEMMA AllGivenBack ==
    ASSUME Lending, at # "idle", NEW q, q = GivenBack
    PROVE  /\ PoolKept(q) /\ Packed(q) /\ q.capacity = scratch_bytes /\ LiveHandles(q) = {}
<1> DEFINE live == LiveHandles(pool)
           l    == [h \in Handles |-> IF h \in live THEN NoLease ELSE pool.lease[h]]
<1>1. /\ handles = [k \in 1 .. 15 |-> k - 1] /\ live = 0 .. 14 /\ PoolKept(pool)
      /\ pool \in Pools /\ pool.capacity = scratch_bytes
    BY DEF Lending, PoolKept
<1>2. ToSet(handles) = live
    <2>1. DOMAIN handles = 1 .. 15 /\ \A k \in 1 .. 15 : handles[k] = k - 1
        BY <1>1
    <2>2. \A h \in 0 .. 14 : h + 1 \in 1 .. 15 /\ (h + 1) - 1 = h
        OBVIOUS
    <2> QED
        BY <1>1, <2>1, <2>2 DEF ToSet
<1>3. pool.used = SumFunctionOnSet([h \in Handles |-> pool.lease[h].size], live)
      /\ pool.used \in Nat
    BY <1>1 DEF PoolKept, PoolSound, Pools
<1> HIDE DEF live
<1>4. q = [pool EXCEPT !.lease = l, !.used = pool.used - pool.used]
    BY <1>2, <1>3 DEF GivenBack, GivenBackOf
<1>5. l \in [Handles -> Leases]
    BY <1>1 DEF Pools, Leases, NoLease
<1>6. q \in Pools /\ q.lease = l /\ q.used = 0 /\ q.capacity = scratch_bytes
    <2>1. pool.used - pool.used = 0
        BY <1>3
    <2> DEFINE z == pool.used - pool.used
    <2>2. z = 0 /\ z \in Nat
        BY <2>1
    <2>3. q = [pool EXCEPT !.lease = l, !.used = z]
        BY <1>4
    <2> HIDE DEF l, z
    <2>4. q \in Pools /\ q.lease = l /\ q.used = z /\ q.capacity = pool.capacity
        BY <1>1, <1>5, <2>2, <2>3 DEF Pools
    <2> QED
        BY <1>1, <2>2, <2>4
<1>7. LiveHandles(q) = {}
    BY <1>1, <1>6 DEF LiveHandles, live, NoLease
<1>8. q.used = SumFunctionOnSet([h \in Handles |-> q.lease[h].size], LiveHandles(q))
    BY <1>6, <1>7, SumNothing
<1> QED
    BY <1>6, <1>7, <1>8 DEF PoolKept, PoolSound, LeasesSound, Packed
-----------------------------------------------------------------------------
(* The turns of plan *)

LEMMA TheSlots ==
    ASSUME Typed, NEW i \in BatchSlots
    PROVE  /\ slot[i] \in Entries /\ i \in Nat /\ i < MAX_BATCH
           /\ Len(slot[i].pending) <= MAX_ROWS /\ Len(slot[i].out) <= MAX_GEN
<1>1. BatchSlots = 0 .. MAX_BATCH - 1 /\ MAX_BATCH \in Nat
    BY TheConstants DEF Sized
<1> QED
    BY <1>1 DEF Typed

\* c is a followed by b.
Follows(a, b, c, S) ==
    /\ c \in Seq(S) /\ Len(c) = Len(a) + Len(b)
    /\ \A l \in 1 .. Len(a) : c[l] = a[l]
    /\ \A l \in 1 .. Len(b) : c[Len(a) + l] = b[l]

LEMMA ConcatFollows ==
    ASSUME NEW S, NEW a \in Seq(S), NEW b \in Seq(S), NEW c, c = a \o b
    PROVE  Follows(a, b, c, S)
BY DEF Follows

LEMMA RowsOfIs ==
    ASSUME NEW q \in Entries, NEW n \in Nat, n <= Len(q.pending)
    PROVE  /\ RowsOf(q, n) \in Seq(BatchRows) /\ Len(RowsOf(q, n)) = n
           /\ \A j \in 1 .. n : RowsOf(q, n)[j] = RowOf(q, j)
<1>1. /\ q.req \in Nat /\ q.pending \in Seq(Tokens) /\ q.hist \in Nat /\ Len(q.pending) \in Nat
    BY EntryFields
<1>2. ASSUME NEW j \in 1 .. n
      PROVE  RowOf(q, j) \in BatchRows
    <2>1. j \in 1 .. Len(q.pending)
        BY <1>1
    <2>2. q.pending[j] \in Tokens
        BY <1>1, <2>1, ElementOfSeq
    <2>3. q.hist + j - 1 \in Nat
        BY <1>1
    <2> QED
        BY <1>1, <2>2, <2>3 DEF RowOf, BatchRows
<1>3. RowsOf(q, n) = [j \in 1 .. n |-> RowOf(q, j)]
    BY DEF RowsOf, RowOf
<1> QED
    BY <1>2, <1>3

\* A slot that gets no rows.
LEMMA DescribeNone ==
    ASSUME NEW k \in BatchSlots, NEW served \in [BatchSlots -> 0 .. MAX_ROWS], NEW b, NEW rows,
           Described(slot, served, b, rows, k), NEW z, z = [served EXCEPT ![k] = 0]
    PROVE  Described(slot, z, b, rows, k + 1)
<1>1. k \in Nat /\ \A i \in 0 .. k - 1 : i \in BatchSlots /\ i # k /\ i \in 0 .. (k + 1) - 1
    <2>1. MAX_BATCH \in Nat
        BY TheConstants DEF Sized
    <2> QED
        BY <2>1 DEF BatchSlots
<1>2. z[k] = 0 /\ \A i \in 0 .. k - 1 : z[i] = served[i]
    BY <1>1
<1>3. \A m \in 0 .. k : m \in 0 .. k + 1
    BY <1>1
<1>4. \A i \in 0 .. (k + 1) - 1 : i \in 0 .. k - 1 \/ i = k
    BY <1>1
<1>5. rows \in Seq(BatchRows) /\ Len(rows) <= MAX_ROWS /\ RunsPacked(b, Len(rows))
    BY DEF Described
<1>6. \E m \in 0 .. k + 1 : LiveRuns(b) = 0 .. m - 1
    BY <1>3 DEF Described
<1>7. \A c \in LiveRuns(b) :
        \E i \in 0 .. (k + 1) - 1 : slot[i].live /\ RunOf(b, rows, c, slot[i], z[i])
    <2> TAKE c \in LiveRuns(b)
    <2>1. PICK i \in 0 .. k - 1 : slot[i].live /\ RunOf(b, rows, c, slot[i], served[i])
        BY DEF Described
    <2>2. i \in 0 .. (k + 1) - 1 /\ z[i] = served[i]
        BY <1>1, <1>2
    <2> QED
        BY <2>1, <2>2
<1>8. \A c, d \in LiveRuns(b) : b[c].owner = b[d].owner => c = d
    BY DEF Described
<1>9. \A i \in 0 .. (k + 1) - 1 : slot[i].live /\ z[i] > 0 =>
         /\ z[i] <= Len(slot[i].pending) /\ slot[i].hist + z[i] <= MAX_POS
         /\ \E c \in LiveRuns(b) : b[c].owner = slot[i].req
    <2> TAKE i \in 0 .. (k + 1) - 1
    <2>1. CASE i = k
        BY <1>2, <2>1
    <2>2. CASE i \in 0 .. k - 1
        BY <1>2, <2>2 DEF Described
    <2> QED
        BY <1>4, <2>1, <2>2
<1>10. \A l \in 1 .. Len(rows) : \E c \in LiveRuns(b) : \E j \in 1 .. b[c].cnt : l = b[c].off + j
    BY DEF Described
<1> QED
    BY <1>5, <1>6, <1>7, <1>8, <1>9, <1>10 DEF Described

\* A slot that gets the next n rows.
LEMMA DescribeNext ==
    ASSUME Typed, Residents, NEW k \in BatchSlots, slot[k].live,
           NEW served \in [BatchSlots -> 0 .. MAX_ROWS], NEW b, NEW rows,
           Described(slot, served, b, rows, k),
           NEW n \in Nat \ {0}, n <= Len(slot[k].pending), n <= MAX_ROWS - Len(rows),
           slot[k].hist + n <= MAX_POS,
           NEW z, z = [served EXCEPT ![k] = n],
           NEW c, c = AddRun(b, slot[k].req, n),
           NEW r, r = rows \o RowsOf(slot[k], n)
    PROVE  Described(slot, z, c, r, k + 1)
<1> DEFINE q == slot[k]
           L == Len(rows)
<1>1. /\ k \in Nat /\ k < MAX_BATCH /\ MAX_BATCH \in Nat /\ Sized /\ MAX_ROWS \in Nat
      /\ \A i \in 0 .. k - 1 : i \in BatchSlots /\ i # k /\ i \in 0 .. (k + 1) - 1
      /\ \A i \in 0 .. (k + 1) - 1 : i \in 0 .. k - 1 \/ i = k
    BY TheConstants DEF BatchSlots, Sized
<1>2. z[k] = n /\ \A i \in 0 .. k - 1 : z[i] = served[i]
    BY <1>1
<1>3. /\ rows \in Seq(BatchRows) /\ L \in Nat /\ L <= MAX_ROWS /\ RunsPacked(b, L)
    BY DEF Described
<1>4. PICK m \in 0 .. k : LiveRuns(b) = 0 .. m - 1
    BY DEF Described
<1>5. /\ m \in Nat /\ m < MAX_BATCH /\ m + 1 \in 0 .. k + 1 /\ (m + 1) - 1 = m
      /\ \A i \in 0 .. m : (i \in 0 .. m - 1 \/ i = m)
      /\ \A i \in 0 .. m - 1 : i \in 0 .. m
      /\ m \in 0 .. m
    BY <1>1
<1>6. q \in Entries /\ q.req \in Nat
    BY TheSlots, EntryFields
<1>7. /\ LiveRuns(c) = 0 .. m
      /\ c[m] = [owner |-> q.req, off |-> L, cnt |-> n]
      /\ \A i \in 0 .. m - 1 : c[i] = b[i]
      /\ RunsPacked(c, L + n)
    <2>1. c = AddRun(b, q.req, n)
        OBVIOUS
    <2> HIDE DEF q, L
    <2> QED
        BY <1>1, <1>3, <1>4, <1>5, <1>6, <2>1, PackedAddRun
<1>8. c[m].owner = q.req /\ c[m].off = L /\ c[m].cnt = n
    BY <1>7
<1>9. /\ r \in Seq(BatchRows) /\ Len(r) = L + n
      /\ \A l \in 1 .. L : r[l] = rows[l]
      /\ \A j \in 1 .. n : r[L + j] = RowOf(q, j)
    <2>1. /\ RowsOf(q, n) \in Seq(BatchRows) /\ Len(RowsOf(q, n)) = n
          /\ \A j \in 1 .. n : RowsOf(q, n)[j] = RowOf(q, j)
        BY <1>6, RowsOfIs
    <2>2. Follows(rows, RowsOf(q, n), r, BatchRows)
        <3>1. r = rows \o RowsOf(q, n)
            OBVIOUS
        <3> HIDE DEF q
        <3> QED
            BY <1>3, <2>1, <3>1, ConcatFollows
    <2> HIDE DEF q
    <2> QED
        BY <2>1, <2>2 DEF Follows
<1> HIDE DEF q, L
<1>10. \A d \in 0 .. m - 1 : \A j \in 1 .. b[d].cnt :
            /\ b[d].off + j \in 1 .. L
            /\ r[b[d].off + j] = rows[b[d].off + j]
    <2> TAKE d \in 0 .. m - 1
    <2> TAKE j \in 1 .. b[d].cnt
    <2>1. d \in BatchSlots /\ b \in [BatchSlots -> Runs]
        BY <1>3, <1>4 DEF RunsPacked, LiveRuns
    <2>2. b[d].off \in Nat /\ b[d].cnt \in Nat /\ RunEnd(b, d) = b[d].off + b[d].cnt
        BY <2>1, RunFields
    <2>3. RunEnd(b, d) <= L
        BY <1>3, <1>4 DEF RunsPacked
    <2>4. b[d].off + j \in 1 .. L
        <3> DEFINE o == b[d].off
                   e == b[d].cnt
        <3>1. o \in Nat /\ e \in Nat /\ o + e <= L /\ j \in 1 .. e
            BY <2>2, <2>3
        <3> HIDE DEF o, e
        <3>2. o + j \in 1 .. L
            BY <1>3, <3>1
        <3> QED
            BY <3>2 DEF o
    <2> QED
        BY <1>9, <2>4
<1>11. \A d \in LiveRuns(c) :
         \E i \in 0 .. (k + 1) - 1 : slot[i].live /\ RunOf(c, r, d, slot[i], z[i])
    <2> TAKE d \in LiveRuns(c)
    <2>1. CASE d \in 0 .. m - 1
        <3>1. PICK i \in 0 .. k - 1 : slot[i].live /\ RunOf(b, rows, d, slot[i], served[i])
            BY <1>4, <2>1 DEF Described
        <3>2. c[d] = b[d] /\ z[i] = served[i] /\ i \in 0 .. (k + 1) - 1
            BY <1>1, <1>2, <1>7, <2>1
        <3>3. RunOf(c, r, d, slot[i], z[i])
            <4>1. b[d].owner = slot[i].req /\ served[i] = b[d].cnt
                BY <3>1 DEF RunOf
            <4>2. \A j \in 1 .. b[d].cnt : rows[b[d].off + j] = RowOf(slot[i], j)
                BY <3>1, <4>1 DEF RunOf
            <4>3. \A j \in 1 .. b[d].cnt : r[c[d].off + j] = rows[b[d].off + j]
                BY <1>10, <2>1, <3>2
            <4>4. \A j \in 1 .. b[d].cnt : r[c[d].off + j] = RowOf(slot[i], j)
                BY <4>2, <4>3
            <4> QED
                BY <3>2, <4>1, <4>4 DEF RunOf
        <3> QED
            BY <3>1, <3>2, <3>3
    <2>2. CASE d = m
        <3>1. RunOf(c, r, m, q, n)
            BY <1>8, <1>9 DEF RunOf
        <3>2. RunOf(c, r, d, slot[k], z[k])
            BY <1>2, <2>2, <3>1 DEF q
        <3>3. k \in 0 .. (k + 1) - 1
            BY <1>1
        <3> QED
            BY <3>2, <3>3
    <2> QED
        BY <1>5, <1>7, <2>1, <2>2
<1>12. \A d \in 0 .. m - 1 : c[d].owner # c[m].owner
    <2> TAKE d \in 0 .. m - 1
    <2>1. PICK i \in 0 .. k - 1 : slot[i].live /\ RunOf(b, rows, d, slot[i], served[i])
        BY <1>4 DEF Described
    <2>2. c[d].owner = slot[i].req /\ i \in LiveEntries /\ k \in LiveEntries /\ i # k
        BY <1>1, <1>7, <2>1 DEF RunOf, LiveEntries
    <2> QED
        BY <1>8, <2>2 DEF Residents, q
<1>13. \A d, e \in LiveRuns(c) : c[d].owner = c[e].owner => d = e
    <2> TAKE d, e \in LiveRuns(c)
    <2> HAVE c[d].owner = c[e].owner
    <2>1. ASSUME d \in 0 .. m - 1, e \in 0 .. m - 1 PROVE d = e
        <3>1. b[d].owner = b[e].owner
            BY <1>7, <2>1
        <3>2. \A x, y \in LiveRuns(b) : b[x].owner = b[y].owner => x = y
            BY DEF Described
        <3> QED
            BY <1>4, <2>1, <3>1, <3>2
    <2>2. (d \in 0 .. m - 1 \/ d = m) /\ (e \in 0 .. m - 1 \/ e = m)
        BY <1>5, <1>7
    <2> QED
        BY <1>12, <2>1, <2>2
<1>14. \A i \in 0 .. (k + 1) - 1 : slot[i].live /\ z[i] > 0 =>
         /\ z[i] <= Len(slot[i].pending) /\ slot[i].hist + z[i] <= MAX_POS
         /\ \E d \in LiveRuns(c) : c[d].owner = slot[i].req
    <2> TAKE i \in 0 .. (k + 1) - 1
    <2> HAVE slot[i].live /\ z[i] > 0
    <2>1. CASE i = k
        <3>1. m \in LiveRuns(c) /\ c[m].owner = slot[i].req
            BY <1>5, <1>7, <1>8, <2>1 DEF q
        <3>2. z[i] <= Len(slot[i].pending) /\ slot[i].hist + z[i] <= MAX_POS
            BY <1>2, <2>1
        <3> QED
            BY <3>1, <3>2
    <2>2. CASE i \in 0 .. k - 1
        <3>1. /\ z[i] <= Len(slot[i].pending) /\ slot[i].hist + z[i] <= MAX_POS
              /\ \E d \in LiveRuns(b) : b[d].owner = slot[i].req
            BY <1>2, <2>2 DEF Described
        <3>2. PICK d \in 0 .. m - 1 : b[d].owner = slot[i].req
            BY <1>4, <3>1
        <3>3. d \in LiveRuns(c) /\ c[d].owner = slot[i].req
            BY <1>5, <1>7, <3>2
        <3> QED
            BY <3>1, <3>3
    <2> QED
        BY <1>1, <2>1, <2>2
<1>15. \A l \in 1 .. L + n : \E d \in LiveRuns(c) : \E j \in 1 .. c[d].cnt : l = c[d].off + j
    <2> TAKE l \in 1 .. L + n
    <2>1. CASE l \in 1 .. L
        <3>1. PICK d \in 0 .. m - 1 : \E j \in 1 .. b[d].cnt : l = b[d].off + j
            BY <1>4, <2>1 DEF Described, L
        <3>2. d \in LiveRuns(c) /\ c[d] = b[d]
            BY <1>5, <1>7
        <3> QED
            BY <3>1, <3>2
    <2>2. CASE l \notin 1 .. L
        <3>1. l - L \in 1 .. n /\ l = L + (l - L)
            BY <1>3, <2>2
        <3>2. m \in LiveRuns(c) /\ l - L \in 1 .. c[m].cnt /\ l = c[m].off + (l - L)
            BY <1>5, <1>7, <1>8, <3>1
        <3> QED
            BY <3>2
    <2> QED
        BY <2>1, <2>2
<1>16. L + n <= MAX_ROWS
    BY <1>1, <1>3 DEF L
<1>17. \E mm \in 0 .. k + 1 : LiveRuns(c) = 0 .. mm - 1
    BY <1>5, <1>7
<1>18. r \in Seq(BatchRows) /\ Len(r) <= MAX_ROWS /\ RunsPacked(c, Len(r))
    BY <1>7, <1>9, <1>16
<1>19. \A l \in 1 .. Len(r) : \E d \in LiveRuns(c) : \E j \in 1 .. c[d].cnt : l = c[d].off + j
    BY <1>9, <1>15
<1> QED
    BY <1>11, <1>13, <1>14, <1>17, <1>18, <1>19 DEF Described

Plans == [ served : [BatchSlots -> 0 .. MAX_ROWS], own : [BatchSlots -> Runs],
           row : Seq(BatchRows), ok : BOOLEAN ]

PlanSoFar(pl, k) ==
    /\ pl \in Plans
    /\ pl.ok => Described(slot, pl.served, pl.own, pl.row, k)

LEMMA MinOfTwo ==
    ASSUME NEW a \in Nat, NEW b \in Nat, NEW m, m = Min({a, b})
    PROVE  m \in Nat /\ m <= a /\ m <= b
<1>1. {a, b} \in SUBSET Nat /\ {a, b} # {}
    OBVIOUS
<1>2. m \in {a, b} /\ \A j \in {a, b} : m <= j
    BY <1>1, MinOf
<1> QED
    BY <1>2

LEMMA TurnPlans ==
    ASSUME Typed, Residents, NEW k \in BatchSlots, NEW pl, PlanSoFar(pl, k),
           NEW e, e = PlanEntry(pl, k)
    PROVE  PlanSoFar(e, k + 1)
<1> DEFINE q == slot[k]
           n == Width(pl, q)
<1>1. /\ pl \in Plans /\ q \in Entries /\ MAX_ROWS \in Nat
      /\ q.live \in BOOLEAN /\ pl.ok \in BOOLEAN /\ q.req \in Nat
      /\ Len(q.pending) \in Nat /\ q.hist \in Nat
    BY TheSlots, EntryFields, TheConstants DEF PlanSoFar, Plans
<1>2. /\ pl.served \in [BatchSlots -> 0 .. MAX_ROWS] /\ pl.own \in [BatchSlots -> Runs]
      /\ pl.row \in Seq(BatchRows)
    BY <1>1 DEF Plans
<1>3. CASE ~pl.ok
    <2>1. e = pl
        BY <1>3 DEF PlanEntry
    <2> QED
        BY <1>1, <1>3, <2>1 DEF PlanSoFar
<1>4. ASSUME pl.ok, NEW z, z = [pl.served EXCEPT ![k] = 0],
             e.served = z, e.own = pl.own, e.row = pl.row, e \in Plans
      PROVE  PlanSoFar(e, k + 1)
    <2>1. Described(slot, pl.served, pl.own, pl.row, k)
        BY <1>4 DEF PlanSoFar
    <2>2. Described(slot, z, pl.own, pl.row, k + 1)
        BY <1>2, <1>4, <2>1, DescribeNone
    <2> QED
        BY <1>4, <2>2 DEF PlanSoFar
<1>5. CASE pl.ok
    <2>1. Described(slot, pl.served, pl.own, pl.row, k)
        BY <1>5 DEF PlanSoFar
    <2>2. /\ total_tokens(pl.own) = Len(pl.row) /\ Len(pl.row) \in Nat
          /\ Len(pl.row) <= MAX_ROWS
        BY <2>1 DEF Described, RunsPacked
    <2>3. n \in Nat /\ n <= Len(q.pending) /\ n <= MAX_ROWS - Len(pl.row) /\ n \in 0 .. MAX_ROWS
        <3>1. n = Min({Len(q.pending), MAX_ROWS - Len(pl.row)})
            BY <2>2 DEF Width
        <3>2. MAX_ROWS - Len(pl.row) \in Nat
            BY <1>1, <2>2
        <3> HIDE DEF q, n
        <3>3. n \in Nat /\ n <= Len(q.pending) /\ n <= MAX_ROWS - Len(pl.row)
            BY <1>1, <3>1, <3>2, MinOfTwo
        <3> QED
            BY <1>1, <2>2, <3>3
    <2> DEFINE z == [pl.served EXCEPT ![k] = 0]
               y == [pl.served EXCEPT ![k] = n]
    <2>4. z \in [BatchSlots -> 0 .. MAX_ROWS] /\ y \in [BatchSlots -> 0 .. MAX_ROWS]
        <3>1. 0 \in 0 .. MAX_ROWS
            BY <1>1
        <3> HIDE DEF n, q
        <3> QED
            BY <1>2, <2>3, <3>1
    <2>5. CASE ~q.live \/ n <= 0
        <3>1. e = [pl EXCEPT !.served = z]
            BY <1>5, <2>5 DEF PlanEntry
        <3> HIDE DEF z
        <3>2. e.served = z /\ e.own = pl.own /\ e.row = pl.row /\ e \in Plans
            BY <1>1, <2>4, <3>1 DEF Plans
        <3> QED
            BY <1>4, <1>5, <3>2 DEF z
    <2>6. CASE q.live /\ ~(n <= 0) /\ q.hist + n > MAX_POS
        <3>1. e = [pl EXCEPT !.served = z, !.ok = FALSE]
            BY <1>5, <2>6 DEF PlanEntry
        <3> HIDE DEF z
        <3>2. e.ok = FALSE /\ e \in Plans
            BY <1>1, <2>4, <3>1 DEF Plans
        <3> QED
            BY <3>2 DEF PlanSoFar
    <2>7. CASE q.live /\ ~(n <= 0) /\ ~(q.hist + n > MAX_POS)
        <3> DEFINE c == AddRun(pl.own, q.req, n)
                   r == pl.row \o RowsOf(q, n)
        <3>1. e = [pl EXCEPT !.served = y, !.own = c, !.row = r]
            BY <1>5, <2>7 DEF PlanEntry, Served
        <3>2. n \in Nat \ {0} /\ q.hist + n <= MAX_POS
            <4>1. MAX_POS \in Nat
                BY TheConstants
            <4> HIDE DEF q, n
            <4> QED
                BY <1>1, <2>3, <2>7, <4>1
        <3>3. Described(slot, y, c, r, k + 1)
            <4> HIDE DEF n
            <4> QED
                BY <1>2, <2>1, <2>3, <2>7, <3>2, DescribeNext
        <3> HIDE DEF y, c, r
        <3>4. c \in [BatchSlots -> Runs] /\ r \in Seq(BatchRows)
            BY <3>3 DEF Described, RunsPacked
        <3>5. e \in Plans /\ e.served = y /\ e.own = c /\ e.row = r
            BY <1>1, <2>4, <3>1, <3>4 DEF Plans
        <3> QED
            BY <3>3, <3>5 DEF PlanSoFar
    <2> QED
        BY <1>1, <2>5, <2>6, <2>7
<1> QED
    BY <1>1, <1>3, <1>5

LEMMA NothingPlanned ==
    ASSUME Typed
    PROVE  PlanSoFar(Unplanned, 0)
<1> DEFINE c  == ClearRuns(own)
           sv == [i \in BatchSlots |-> slot[i].served]
<1>1. LiveRuns(c) = {} /\ RunsPacked(c, 0) /\ c \in [BatchSlots -> Runs]
    <2>1. LiveRuns(c) = {} /\ RunsPacked(c, 0)
        BY NoRunsPacked, TheConstants
    <2> QED
        BY <2>1 DEF RunsPacked
<1>2. sv \in [BatchSlots -> 0 .. MAX_ROWS]
    BY TheSlots, EntryFields
<1> HIDE DEF c, sv
<1>3. Unplanned = [served |-> sv, own |-> c, row |-> <<>>, ok |-> TRUE]
    BY DEF Unplanned, c, sv
<1>4. <<>> \in Seq(BatchRows) /\ Len(<<>>) = 0 /\ 0 <= MAX_ROWS
    BY TheConstants
<1>5. LiveRuns(c) = 0 .. 0 - 1 /\ 0 \in 0 .. 0 /\ 0 .. 0 - 1 = {} /\ 1 .. 0 = {}
    BY <1>1
<1>6. Described(slot, sv, c, <<>>, 0)
    BY <1>1, <1>4, <1>5 DEF Described
<1>7. Unplanned \in Plans
    BY <1>1, <1>2, <1>3, <1>4 DEF Plans
<1> QED
    BY <1>3, <1>6, <1>7 DEF PlanSoFar

\* The turns one after another.
Turns(f, n) ==
    f = [k \in 0 .. n |-> IF k = 0 THEN Unplanned ELSE PlanEntry(f[k - 1], k - 1)]

LEMMA TurnsExist ==
    ASSUME NEW n \in Nat
    PROVE  \E f : Turns(f, n)
<1> DEFINE S == {m \in 0 .. n : \E f : Turns(f, m)}
<1>1. 0 \in S
    <2> DEFINE g == [k \in 0 .. 0 |-> Unplanned]
    <2>1. \A k \in 0 .. 0 : k = 0
        OBVIOUS
    <2>2. Turns(g, 0)
        BY <2>1 DEF Turns
    <2> QED
        BY <2>2
<1>2. ASSUME NEW m \in 0 .. n - 1, m \in S
      PROVE  m + 1 \in S
    <2>1. PICK f : Turns(f, m)
        BY <1>2
    <2> DEFINE g == [k \in 0 .. m + 1 |-> IF k <= m THEN f[k] ELSE PlanEntry(f[m], m)]
    <2>2. ASSUME NEW k \in 0 .. m + 1
          PROVE  g[k] = IF k = 0 THEN Unplanned ELSE PlanEntry(g[k - 1], k - 1)
        <3>1. CASE k = m + 1
            <4>1. k # 0 /\ ~(k <= m) /\ k - 1 = m /\ m \in 0 .. m + 1 /\ m <= m
                BY <3>1
            <4>2. g[m] = f[m]
                BY <4>1
            <4> QED
                BY <4>1, <4>2
        <3>2. CASE k # m + 1
            <4>1. k <= m /\ k \in 0 .. m
                BY <3>2
            <4>2. k # 0 => k - 1 <= m /\ k - 1 \in 0 .. m + 1
                BY <4>1
            <4>3. f[k] = IF k = 0 THEN Unplanned ELSE PlanEntry(f[k - 1], k - 1)
                BY <2>1, <4>1 DEF Turns
            <4>4. k # 0 => g[k - 1] = f[k - 1]
                BY <4>2
            <4> QED
                BY <4>1, <4>3, <4>4
        <3> QED
            BY <3>1, <3>2
    <2>3. Turns(g, m + 1)
        BY <2>2 DEF Turns
    <2>4. m + 1 \in 0 .. n
        OBVIOUS
    <2> QED
        BY <2>3, <2>4
<1>3. \A m \in 0 .. n : m \in S
    <2> HIDE DEF S
    <2> QED
        BY <1>1, <1>2, UpTo
<1> QED
    BY <1>3

\* What all turns together describe.
LEMMA PlannedIs ==
    ASSUME Typed, Residents
    PROVE  PlanSoFar(Planned, MAX_BATCH)
<1>0. MAX_BATCH \in Nat /\ BatchSlots = 0 .. MAX_BATCH - 1
    BY TheConstants DEF Sized
<1>1. PICK f : Turns(f, MAX_BATCH) /\ Planned = f[MAX_BATCH]
    <2> DEFINE G == CHOOSE f : Turns(f, MAX_BATCH)
    <2>1. Turns(G, MAX_BATCH)
        BY <1>0, TurnsExist
    <2>2. Planned = G[MAX_BATCH]
        BY DEF Planned, Turns
    <2> QED
        BY <2>1, <2>2
<1> DEFINE S == {k \in 0 .. MAX_BATCH : PlanSoFar(f[k], k)}
<1>2. 0 \in S
    <2>1. f[0] = Unplanned
        BY <1>0, <1>1 DEF Turns
    <2> QED
        BY <1>0, <2>1, NothingPlanned
<1>3. ASSUME NEW k \in 0 .. MAX_BATCH - 1, k \in S
      PROVE  k + 1 \in S
    <2>1. k + 1 \in 0 .. MAX_BATCH /\ k + 1 # 0 /\ (k + 1) - 1 = k /\ k \in BatchSlots
        BY <1>0
    <2>2. f[k + 1] = PlanEntry(f[k], k)
        <3>1. f[k + 1] = IF k + 1 = 0 THEN Unplanned ELSE PlanEntry(f[(k + 1) - 1], (k + 1) - 1)
            BY <1>1, <2>1 DEF Turns
        <3> QED
            BY <2>1, <3>1
    <2>3. PlanSoFar(f[k], k)
        BY <1>3
    <2>4. PlanSoFar(f[k + 1], k + 1)
        BY <2>1, <2>2, <2>3, TurnPlans
    <2> QED
        BY <2>1, <2>4
<1>4. \A k \in 0 .. MAX_BATCH : k \in S
    <2> HIDE DEF S
    <2> QED
        BY <1>0, <1>2, <1>3, UpTo
<1> QED
    BY <1>0, <1>1, <1>4
-----------------------------------------------------------------------------
(* The actions *)

LEMMA FreeEntryIs ==
    /\ FreeEntry \in Entries /\ ~FreeEntry.live
    /\ Len(FreeEntry.pending) <= MAX_ROWS /\ Len(FreeEntry.out) <= MAX_GEN
BY TheConstants DEF FreeEntry, Entries

LEMMA EntryOf ==
    ASSUME NEW r \in Nat, NEW m \in Nat, NEW h \in 0 .. MAX_POS, NEW s \in Seq(Tokens),
           NEW budget \in Int
    PROVE  [ live |-> TRUE, req |-> r, hist |-> h, n_prompt |-> m, pending |-> s,
             budget |-> budget, served |-> 0, out |-> <<>> ] \in Entries
<1>1. 0 \in 0 .. MAX_ROWS
    BY TheConstants
<1> QED
    BY <1>1 DEF Entries

\* What is cached of n tokens is never all of them, and is in the vocabulary.
LEMMA CachedIs ==
    ASSUME NEW p \in Prompts, NEW n \in 1 .. Len(p), NEW m \in Matches(p, n),
           NEW c, c = Cached(m, n)
    PROVE  /\ c \in Nat /\ c < n /\ c <= MAX_POS /\ n \in Nat
           /\ \A k \in 1 .. c : p[k] \in Tokens
<1>1. n \in Nat /\ n > 0 /\ m \in 0 .. n /\ m <= MAX_POS /\ MAX_POS \in Nat
    BY TheConstants DEF Matches
<1>2. c \in Nat /\ c < n /\ c <= m
    BY <1>1 DEF Cached
<1>3. \A k \in 1 .. c : k \in 1 .. m
    BY <1>1, <1>2
<1> QED
    BY <1>1, <1>2, <1>3 DEF Matches

\* What add records.
LEMMA EnteredIs ==
    ASSUME NEW r \in Requests, NEW p \in Prompts, NEW n \in 1 .. Len(p), n <= MAX_ROWS,
           NEW c \in Nat, c < n, c <= MAX_POS, NEW s \in Queues(p, n, c),
           NEW budget \in Budgets, NEW e, e = Entered(r, Len(p), c, s, budget)
    PROVE  /\ e \in Entries /\ e.live /\ e.req = r /\ e.n_prompt = Len(p) /\ e.hist = c
           /\ Len(e.pending) = n - c /\ n - c \in Nat /\ n - c <= MAX_ROWS
           /\ e.out = <<>> /\ e.budget = budget /\ e.served = 0
<1> DEFINE m == Len(p)
           l == n - c
<1>1. /\ m \in Nat /\ r \in Nat /\ budget \in Int /\ c \in 0 .. MAX_POS
      /\ l \in Nat /\ l <= MAX_ROWS
    BY TheConstants, ExecutorAssumption
<1>2. s \in [1 .. l -> Tokens]
    BY DEF Queues
<1> HIDE DEF m, l
<1>3. s \in Seq(Tokens) /\ Len(s) = l
    BY <1>1, <1>2
<1>4. e = [FreeEntry EXCEPT !.live = TRUE, !.req = r, !.n_prompt = m, !.hist = c,
                            !.pending = s, !.budget = budget]
    BY DEF Entered, m
<1>5. e = [ live |-> TRUE, req |-> r, hist |-> c, n_prompt |-> m, pending |-> s,
            budget |-> budget, served |-> 0, out |-> <<>> ]
    BY <1>4 DEF FreeEntry
<1>6. e \in Entries
    BY <1>1, <1>3, <1>5, EntryOf
<1>7. /\ e.live = TRUE /\ e.req = r /\ e.n_prompt = m /\ e.hist = c /\ e.pending = s
      /\ e.out = <<>> /\ e.budget = budget /\ e.served = 0
    BY <1>5
<1> QED
    BY <1>1, <1>3, <1>6, <1>7 DEF m, l

\* The slot add takes, what it records there, and the KV it finds there.
Joins(i, e, r, p, n, c) ==
    /\ i \in BatchSlots /\ i \notin LiveEntries
    /\ c \in Nat /\ c < n /\ n \in Nat /\ n <= Len(p)
    /\ e \in Entries /\ e.live /\ e.req = r /\ e.n_prompt = Len(p) /\ e.hist = c
    /\ Len(e.pending) = n - c /\ Len(e.pending) <= MAX_ROWS /\ e.out = <<>>
    /\ slot' = [slot EXCEPT ![i] = e]
    /\ kv'[i] \in [Positions -> TextTokens]
    /\ kv' = [kv EXCEPT ![i] = kv'[i]]

LEMMA AddJoins ==
    ASSUME IInv, NEW r \in Requests, NEW p \in Prompts, NEW n \in 1 .. Len(p),
           NEW m \in Matches(p, n), NEW budget \in Budgets, add(r, p, n, m, budget)
    PROVE  \E i, e, c : Joins(i, e, r, p, n, c)
<1> DEFINE i == Min(BatchSlots \ LiveEntries)
           c == Cached(m, n)
           v == [k \in Positions |-> IF k < c THEN p[k + 1] ELSE kv[i][k]]
<1>1. i \in BatchSlots /\ i \notin LiveEntries
    <2>1. BatchSlots \ LiveEntries \in SUBSET Nat /\ BatchSlots \ LiveEntries # {}
        BY TheConstants DEF add, LiveEntries
    <2> QED
        BY <2>1, MinOf
<1>2. /\ c \in Nat /\ c < n /\ c <= MAX_POS /\ n \in Nat
      /\ \A k \in 1 .. c : p[k] \in Tokens
    BY CachedIs
<1>3. n <= MAX_ROWS /\ n <= Len(p) /\ kv' = [kv EXCEPT ![i] = v]
    BY TheConstants DEF add
<1>4. PICK s \in Queues(p, n, c) : slot' = [slot EXCEPT ![i] = Entered(r, Len(p), c, s, budget)]
    BY DEF add
<1> DEFINE e == Entered(r, Len(p), c, s, budget)
<1>5. /\ e \in Entries /\ e.live /\ e.req = r /\ e.n_prompt = Len(p) /\ e.hist = c
      /\ Len(e.pending) = n - c /\ n - c <= MAX_ROWS /\ e.out = <<>>
    BY <1>2, <1>3, EnteredIs
<1>6. slot' = [slot EXCEPT ![i] = e]
    BY <1>4
<1> HIDE DEF i, c, e
<1>7. v \in [Positions -> TextTokens]
    <2>1. kv[i] \in [Positions -> TextTokens]
        BY <1>1 DEF IInv, Typed
    <2>2. ASSUME NEW k \in Positions, k < c PROVE p[k + 1] \in TextTokens
        <3>1. k + 1 \in 1 .. c
            BY <1>2, <2>2 DEF Positions
        <3> QED
            BY <1>2, <3>1 DEF TextTokens
    <2> QED
        BY <2>1, <2>2
<1> HIDE DEF v
<1>8. kv' = [kv EXCEPT ![i] = kv'[i]] /\ kv'[i] = v
    BY <1>1, <1>3 DEF IInv, Typed
<1>9. Joins(i, e, r, p, n, c)
    BY <1>1, <1>2, <1>3, <1>5, <1>6, <1>7, <1>8 DEF Joins
<1> QED
    BY <1>9

\* Steps between steps of the model only have to keep the entries and prompts.
LEMMA IdleStep ==
    ASSUME IInv, at = "idle", UNCHANGED step, Typed', Residents'
    PROVE  IInv'
<1>1. Lending'
    BY DEF IInv, Lending, step, LiveHandles, PoolKept, PoolSound, LeasesSound, Packed, Begin, End
<1>2. Planning' /\ Ran'
    BY DEF IInv, Planning, Ran, step
<1> QED
    BY <1>1, <1>2 DEF IInv

LEMMA AddKeeps ==
    ASSUME IInv, NEW r \in Requests, NEW p \in Prompts, NEW n \in 1 .. Len(p),
           NEW m \in Matches(p, n), NEW budget \in Budgets, add(r, p, n, m, budget)
    PROVE  IInv'
<1>1. PICK i, e, c : Joins(i, e, r, p, n, c)
    BY AddJoins
<1>2. /\ i \in BatchSlots /\ i \notin LiveEntries
      /\ e \in Entries /\ e.live /\ e.req = r /\ e.n_prompt = Len(p)
      /\ Len(e.pending) <= MAX_ROWS /\ Len(e.out) <= MAX_GEN
    <2>1. Len(<<>>) <= MAX_GEN
        BY TheConstants
    <2> QED
        BY <1>1, <2>1 DEF Joins
<1>3. /\ slot' = [slot EXCEPT ![i] = e] /\ prompt' = [prompt EXCEPT ![r] = p]
      /\ kv' \in [BatchSlots -> [Positions -> TextTokens]]
      /\ at = "idle" /\ UNCHANGED step /\ ~Resident(r) /\ at' = at
    BY <1>1 DEF add, step, Joins, IInv, Typed
<1>4. /\ slot' \in [BatchSlots -> Entries] /\ slot'[i] = e
      /\ \A j \in BatchSlots \ {i} : slot'[j] = slot[j]
      /\ prompt' \in [Requests -> Prompts \cup {<<>>}] /\ prompt'[r] = p
      /\ \A s \in Requests \ {r} : prompt'[s] = prompt[s]
    BY <1>2, <1>3 DEF IInv, Typed
<1>5. Typed'
    BY <1>2, <1>3, <1>4 DEF IInv, Typed
<1>6. LiveEntries' = LiveEntries \cup {i}
    BY <1>2, <1>4 DEF LiveEntries
<1>7. \A j \in LiveEntries : /\ slot'[j] = slot[j] /\ j # i
                             /\ slot[j].req # r /\ slot[j].req \in Requests
    BY <1>2, <1>3, <1>4 DEF LiveEntries, Resident, IInv, Residents
<1>8. Residents'
    <2> SUFFICES ASSUME NEW j \in LiveEntries'
                 PROVE  /\ \A k \in LiveEntries' : slot'[j].req = slot'[k].req => j = k
                        /\ slot'[j].req \in Requests
                        /\ prompt'[slot'[j].req] \in Prompts
                        /\ slot'[j].n_prompt = Len(prompt'[slot'[j].req])
        BY DEF Residents
    <2>1. CASE j = i
        BY <1>2, <1>4, <1>6, <1>7, <2>1
    <2>2. CASE j \in LiveEntries
        BY <1>2, <1>4, <1>6, <1>7, <2>2 DEF IInv, Residents
    <2> QED
        BY <1>6, <2>1, <2>2
<1> QED
    BY <1>3, <1>5, <1>8, IdleStep

\* The next token of a resident's prompt.
LEMMA FedToken ==
    ASSUME IInv, NEW i \in BatchSlots, feed(i), NEW tok,
           tok = prompt[slot[i].req][slot[i].hist + Len(slot[i].pending) + 1]
    PROVE  tok \in Tokens
BY DEF feed

LEMMA FeedKeeps ==
    ASSUME IInv, NEW i \in BatchSlots, feed(i)
    PROVE  IInv'
<1> DEFINE q   == slot[i]
           tok == prompt[q.req][q.hist + Len(q.pending) + 1]
           l   == Append(q.pending, tok)
           e   == [q EXCEPT !.pending = l]
<1>1. /\ q \in Entries /\ q.pending \in Seq(Tokens) /\ Len(q.pending) \in Nat
      /\ Len(q.pending) < MAX_ROWS /\ Len(q.out) <= MAX_GEN /\ MAX_ROWS \in Nat
    BY TheSlots, EntryFields, TheConstants DEF IInv, feed
<1>2. tok \in Tokens
    BY FedToken
<1>3. slot' = [slot EXCEPT ![i] = e] /\ at = "idle" /\ UNCHANGED <<step, kv, prompt>>
    BY DEF feed
<1> HIDE DEF tok
<1>4. l \in Seq(Tokens) /\ Len(l) <= MAX_ROWS
    BY <1>1, <1>2, AppendProperties
<1> HIDE DEF q, l
<1>5. /\ e \in Entries /\ Len(e.pending) <= MAX_ROWS /\ Len(e.out) <= MAX_GEN
      /\ e.live = q.live /\ e.req = q.req /\ e.n_prompt = q.n_prompt
    BY <1>1, <1>4 DEF Entries
<1> HIDE DEF e
<1>6. /\ slot' \in [BatchSlots -> Entries] /\ slot'[i] = e
      /\ \A j \in BatchSlots \ {i} : slot'[j] = slot[j]
    BY <1>3, <1>5 DEF IInv, Typed
<1>7. Typed'
    BY <1>3, <1>5, <1>6 DEF IInv, Typed, step
<1>8. \A j \in BatchSlots : /\ slot'[j].live = slot[j].live /\ slot'[j].req = slot[j].req
                            /\ slot'[j].n_prompt = slot[j].n_prompt
    BY <1>5, <1>6 DEF q
<1>9. Residents'
    BY <1>3, <1>8 DEF IInv, Residents, LiveEntries
<1> QED
    BY <1>3, <1>7, <1>9, IdleStep

LEMMA DropKeeps ==
    ASSUME IInv, NEW i \in BatchSlots, drop(i)
    PROVE  IInv'
<1> DEFINE r == slot[i].req
<1>1. /\ slot' = [slot EXCEPT ![i] = FreeEntry] /\ prompt' = [prompt EXCEPT ![r] = <<>>]
      /\ at = "idle" /\ UNCHANGED <<step, kv>> /\ i \in LiveEntries
    BY DEF drop, LiveEntries
<1>2. r \in Requests
    BY <1>1 DEF IInv, Residents
<1>3. /\ slot' \in [BatchSlots -> Entries] /\ slot'[i] = FreeEntry
      /\ \A j \in BatchSlots \ {i} : slot'[j] = slot[j]
      /\ prompt' \in [Requests -> Prompts \cup {<<>>}]
      /\ \A s \in Requests \ {r} : prompt'[s] = prompt[s]
    BY <1>1, <1>2, FreeEntryIs DEF IInv, Typed
<1>4. Typed'
    BY <1>1, <1>3, FreeEntryIs DEF IInv, Typed, step
<1>5. LiveEntries' = LiveEntries \ {i}
    BY <1>1, <1>3, FreeEntryIs DEF LiveEntries
<1>6. \A j \in LiveEntries' : /\ slot'[j] = slot[j] /\ j \in LiveEntries
                              /\ slot[j].req # r /\ slot[j].req \in Requests
    BY <1>1, <1>3, <1>5 DEF IInv, Residents, LiveEntries
<1>7. Residents'
    BY <1>3, <1>6 DEF IInv, Residents
<1> QED
    BY <1>1, <1>4, <1>7, IdleStep

\* What is described of a step depends on no more of the slots than this.
LEMMA DescribedSame ==
    ASSUME NEW s, NEW z, NEW served, NEW v, NEW b, NEW rows, NEW k,
           Described(s, served, b, rows, k),
           \A i \in 0 .. k - 1 : /\ z[i].live = s[i].live /\ z[i].req = s[i].req
                                 /\ z[i].pending = s[i].pending /\ z[i].hist = s[i].hist
                                 /\ v[i] = served[i]
    PROVE  Described(z, v, b, rows, k)
<1>1. \A i \in 0 .. k - 1 : \A j : RowOf(z[i], j) = RowOf(s[i], j)
    BY DEF RowOf
<1>2. \A c \in LiveRuns(b) :
         \E i \in 0 .. k - 1 : z[i].live /\ RunOf(b, rows, c, z[i], v[i])
    <2> TAKE c \in LiveRuns(b)
    <2>1. PICK i \in 0 .. k - 1 : s[i].live /\ RunOf(b, rows, c, s[i], served[i])
        BY DEF Described
    <2>2. RunOf(b, rows, c, z[i], v[i])
        BY <1>1, <2>1 DEF RunOf
    <2> QED
        BY <2>1, <2>2
<1>3. \A i \in 0 .. k - 1 : z[i].live /\ v[i] > 0 =>
         /\ v[i] <= Len(z[i].pending) /\ z[i].hist + v[i] <= MAX_POS
         /\ \E c \in LiveRuns(b) : b[c].owner = z[i].req
    <2> TAKE i \in 0 .. k - 1
    <2> HAVE z[i].live /\ v[i] > 0
    <2>1. /\ served[i] <= Len(s[i].pending) /\ s[i].hist + served[i] <= MAX_POS
          /\ \E c \in LiveRuns(b) : b[c].owner = s[i].req
        BY DEF Described
    <2> QED
        BY <2>1
<1> QED
    BY <1>2, <1>3 DEF Described

\* A step with rows has runs, at most one of each slot.
LEMMA RunsCounted ==
    ASSUME NEW s, NEW served, NEW b, NEW rows,
           Described(s, served, b, rows, MAX_BATCH), rows # <<>>
    PROVE  /\ Len(rows) \in 1 .. MAX_ROWS
           /\ Cardinality(LiveRuns(b)) \in 1 .. MAX_BATCH
<1>1. rows \in Seq(BatchRows) /\ Len(rows) <= MAX_ROWS /\ MAX_ROWS \in Nat /\ MAX_BATCH \in Nat
    BY TheConstants DEF Described, Sized
<1>2. Len(rows) \in 1 .. MAX_ROWS
    <2>1. Len(rows) \in Nat /\ Len(rows) # 0
        BY <1>1, EmptySeq
    <2> QED
        BY <1>1, <2>1
<1>3. PICK m \in 0 .. MAX_BATCH : LiveRuns(b) = 0 .. m - 1
    BY DEF Described
<1>4. LiveRuns(b) # {}
    <2>1. 1 \in 1 .. Len(rows)
        BY <1>2
    <2> QED
        BY <2>1 DEF Described
<1>5. m >= 1 /\ m \in Nat
    BY <1>1, <1>3, <1>4
<1>6. Cardinality(0 .. m - 1) = m
    <2>1. 0 \in Int /\ m - 1 \in Int /\ 0 <= m - 1 /\ (m - 1) - 0 + 1 = m
        BY <1>5
    <2> DEFINE h == m - 1
    <2>2. h \in Int /\ 0 \in Int /\ ~(0 > h) /\ h - 0 + 1 = m
        BY <2>1
    <2> HIDE DEF h
    <2>3. Cardinality(0 .. h) = IF 0 > h THEN 0 ELSE h - 0 + 1
        BY <2>2, FS_Interval
    <2>4. Cardinality(0 .. h) = m
        BY <2>2, <2>3
    <2> QED
        BY <2>4 DEF h
<1> QED
    BY <1>1, <1>2, <1>3, <1>5, <1>6

\* plan changes nothing of a slot but what is served of it.
LEMMA PlanFields ==
    ASSUME IInv, plan, NEW i \in BatchSlots
    PROVE  /\ slot'[i] \in Entries /\ slot'[i].served = Planned.served[i]
           /\ slot'[i].live = slot[i].live /\ slot'[i].req = slot[i].req
           /\ slot'[i].n_prompt = slot[i].n_prompt /\ slot'[i].hist = slot[i].hist
           /\ slot'[i].pending = slot[i].pending /\ slot'[i].out = slot[i].out
           /\ slot'[i].budget = slot[i].budget
<1> DEFINE q == slot[i]
           n == Planned.served[i]
<1>1. Planned \in Plans
    BY PlannedIs DEF IInv, PlanSoFar
<1>2. q \in Entries /\ n \in 0 .. MAX_ROWS
    BY <1>1, TheSlots DEF IInv, Plans
<1>3. slot'[i] = [q EXCEPT !.served = n]
    BY DEF plan
<1> HIDE DEF q, n
<1>4. /\ slot'[i] \in Entries /\ slot'[i].served = n
      /\ slot'[i].live = q.live /\ slot'[i].req = q.req
      /\ slot'[i].n_prompt = q.n_prompt /\ slot'[i].hist = q.hist
      /\ slot'[i].pending = q.pending /\ slot'[i].out = q.out
      /\ slot'[i].budget = q.budget
    BY <1>2, <1>3 DEF Entries
<1> QED
    BY <1>4 DEF q, n

LEMMA PlanKeeps ==
    ASSUME IInv, plan
    PROVE  IInv'
<1> DEFINE pl == Planned
<1>0. at = "idle" /\ MAX_BATCH \in Nat /\ BatchSlots = 0 .. MAX_BATCH - 1
    BY TheConstants DEF plan, Sized
<1>1. PlanSoFar(pl, MAX_BATCH)
    BY PlannedIs DEF IInv
<1>2. pl \in Plans
    BY <1>1 DEF PlanSoFar
<1>3. /\ slot' = [i \in BatchSlots |-> [slot[i] EXCEPT !.served = pl.served[i]]]
      /\ own' = pl.own
      /\ row' = IF pl.ok THEN pl.row ELSE <<>>
      /\ \/ /\ pl.ok /\ pl.row # <<>>
            /\ \E b \in {Borrowed(Len(pl.row), Cardinality(LiveRuns(pl.own)))} :
                 /\ pool' = b.pool
                 /\ handles' = b.handles
                 /\ at' = IF b.ok THEN "planned" ELSE "idle"
         \/ /\ ~pl.ok \/ pl.row = <<>>
            /\ UNCHANGED <<pool, handles, at>>
      /\ UNCHANGED <<kv, prompt>>
    BY DEF plan
<1> HIDE DEF pl
<1>4. ASSUME NEW i \in BatchSlots
      PROVE  /\ slot'[i] \in Entries /\ slot'[i].served = pl.served[i]
             /\ slot'[i].live = slot[i].live /\ slot'[i].req = slot[i].req
             /\ slot'[i].n_prompt = slot[i].n_prompt /\ slot'[i].hist = slot[i].hist
             /\ slot'[i].pending = slot[i].pending /\ slot'[i].out = slot[i].out
    BY PlanFields DEF pl
<1>5. at' \in {"idle", "planned"} => Typed'
    <2> HAVE at' \in {"idle", "planned"}
    <2>1. slot' \in [BatchSlots -> Entries]
        BY <1>3, <1>4
    <2> QED
        BY <1>3, <1>4, <2>1 DEF IInv, Typed
<1>6. Residents'
    <2>1. \A i \in BatchSlots : /\ slot'[i].live = slot[i].live /\ slot'[i].req = slot[i].req
                                /\ slot'[i].n_prompt = slot[i].n_prompt
        BY <1>4
    <2>2. LiveEntries' = LiveEntries
        BY <2>1 DEF LiveEntries
    <2>3. \A i \in LiveEntries : /\ slot'[i].req = slot[i].req
                                 /\ slot'[i].n_prompt = slot[i].n_prompt
        BY <2>1 DEF LiveEntries
    <2>4. prompt' = prompt
        BY <1>3
    <2> QED
        BY <2>2, <2>3, <2>4 DEF IInv, Residents
<1>7. CASE pl.ok /\ pl.row # <<>>
    <2>1. Described(slot, pl.served, pl.own, pl.row, MAX_BATCH)
        BY <1>1, <1>7 DEF PlanSoFar
    <2> DEFINE n == Len(pl.row)
               m == Cardinality(LiveRuns(pl.own))
               b == Borrowed(n, m)
    <2>2. n \in 1 .. MAX_ROWS /\ m \in 1 .. MAX_BATCH
        BY <1>7, <2>1, RunsCounted
    <2>3. pool' = b.pool /\ handles' = b.handles /\ at' = IF b.ok THEN "planned" ELSE "idle"
        BY <1>3, <1>7
    <2>10. b = Borrowed(n, m)
        OBVIOUS
    <2> HIDE DEF n, m, b
    <2>4. /\ b.ok /\ b.handles = [k \in 1 .. 15 |-> k - 1]
          /\ PoolKept(b.pool) /\ Packed(b.pool) /\ b.pool.capacity = scratch_bytes
          /\ LiveHandles(b.pool) = 0 .. 14
        BY <1>0, <2>2, <2>10, StepBuffers DEF IInv
    <2>5. at' = "planned"
        BY <2>3, <2>4
    <2>6. Lending'
        <3>1. PoolKept(pool') /\ Packed(pool') /\ pool'.capacity = scratch_bytes
            BY <2>3, <2>4
        <3>2. LiveHandles(pool') = 0 .. 14
            BY <2>3, <2>4
        <3> QED
            BY <2>3, <2>4, <2>5, <3>1, <3>2 DEF Lending
    <2>7. Described(slot', Serving', own', row', MAX_BATCH)
        <3>1. own' = pl.own /\ row' = pl.row
            BY <1>3, <1>7
        <3>2. \A i \in 0 .. MAX_BATCH - 1 :
                 /\ slot'[i].live = slot[i].live /\ slot'[i].req = slot[i].req
                 /\ slot'[i].pending = slot[i].pending /\ slot'[i].hist = slot[i].hist
                 /\ Serving'[i] = pl.served[i]
            BY <1>0, <1>4 DEF Serving
        <3> QED
            BY <2>1, <3>1, <3>2, DescribedSame
    <2>8. row' \in Seq(BatchRows) /\ Len(row') <= MAX_ROWS /\ row' # <<>>
        BY <1>3, <1>7, <2>1 DEF Described
    <2>9. Planning'
        BY <2>7, <2>8 DEF Planning, Described, RunOf, RunsPacked, RunsApart, RunEnd, LiveRuns,
                          total_tokens
    <2> QED
        BY <1>5, <1>6, <2>5, <2>6, <2>9 DEF IInv, Ran
<1>8. CASE ~pl.ok \/ pl.row = <<>>
    <2>1. UNCHANGED <<pool, handles, at>> /\ at' = "idle" /\ row' = <<>>
        BY <1>0, <1>3, <1>8
    <2>2. Lending'
        BY <2>1 DEF IInv, Lending, LiveHandles, PoolKept, PoolSound, LeasesSound, Packed, Begin, End
    <2>3. row' \in Seq(BatchRows) /\ Len(row') <= MAX_ROWS
        BY <2>1, TheConstants
    <2>4. Planning' /\ Ran'
        BY <2>1, <2>3 DEF Planning, Ran
    <2> QED
        BY <1>5, <1>6, <2>1, <2>2, <2>4 DEF IInv
<1> QED
    BY <1>3, <1>7, <1>8
-----------------------------------------------------------------------------
(* The rows of a planned step *)

\* Every row of a resident request is the one of its entry and of its place
\* in the queue.
LEMMA RowsAreRunsOf ==
    ASSUME Typed, Residents, Described(slot, Serving, own, row, MAX_BATCH),
           NEW i \in BatchSlots, NEW k \in Leaves(i)
    PROVE  \E c \in LiveRuns(own) : \E j \in 1 .. slot[i].served :
              own[c].owner = slot[i].req /\ k = own[c].off + j /\ row[k] = RowOf(slot[i], j)
<1>1. row \in Seq(BatchRows) /\ BatchSlots = 0 .. MAX_BATCH - 1
    BY TheConstants DEF Described
<1>2. k \in 1 .. Len(row) /\ slot[i].live /\ row[k].req = slot[i].req
    BY <1>1 DEF Leaves
<1>3. PICK c \in LiveRuns(own) : \E j \in 1 .. own[c].cnt : k = own[c].off + j
    BY <1>2 DEF Described
<1>4. PICK j \in 1 .. own[c].cnt : k = own[c].off + j
    BY <1>3
<1>5. PICK h \in BatchSlots : slot[h].live /\ RunOf(own, row, c, slot[h], Serving[h])
    BY <1>1 DEF Described
<1>6. Serving[h] = own[c].cnt /\ own[c].owner = slot[h].req /\ row[k] = RowOf(slot[h], j)
    BY <1>4, <1>5 DEF RunOf
<1>7. row[k].req = slot[h].req
    BY <1>6 DEF RowOf
<1>8. h = i
    BY <1>2, <1>5, <1>7 DEF Residents, LiveEntries
<1>9. slot[i].served = own[c].cnt
    BY <1>6, <1>8 DEF Serving
<1> QED
    BY <1>4, <1>6, <1>8, <1>9

\* What is served of a queue has its rows.
LEMMA ServedHasRows ==
    ASSUME Typed, Residents, Described(slot, Serving, own, row, MAX_BATCH),
           NEW i \in LiveEntries, NEW j \in 1 .. slot[i].served
    PROVE  \E k \in Leaves(i) : row[k] = RowOf(slot[i], j)
<1>1. i \in BatchSlots /\ slot[i].live /\ BatchSlots = 0 .. MAX_BATCH - 1
    BY TheConstants DEF LiveEntries
<1>2. Serving[i] = slot[i].served /\ slot[i].served \in Nat /\ Serving[i] > 0
    BY <1>1, TheSlots, EntryFields DEF Serving
<1>3. PICK c \in LiveRuns(own) : own[c].owner = slot[i].req
    BY <1>1, <1>2 DEF Described
<1>4. PICK h \in BatchSlots : slot[h].live /\ RunOf(own, row, c, slot[h], Serving[h])
    BY <1>1 DEF Described
<1>5. h = i
    BY <1>1, <1>3, <1>4 DEF Residents, LiveEntries, RunOf
<1> DEFINE k == own[c].off + j
<1>6. own[c].cnt = slot[i].served /\ row[k] = RowOf(slot[i], j)
    BY <1>2, <1>4, <1>5 DEF RunOf
<1>7. k \in 1 .. Len(row)
    <2>1. RunsPacked(own, Len(row)) /\ Len(row) \in Nat
        BY DEF Described
    <2>2. own[c].off \in Nat /\ own[c].cnt \in Nat /\ RunEnd(own, c) = own[c].off + own[c].cnt
        BY <2>1, RunFields DEF RunsPacked, LiveRuns
    <2>3. RunEnd(own, c) <= Len(row)
        BY <2>1 DEF RunsPacked
    <2> DEFINE o == own[c].off
    <2>4. o \in Nat /\ o + slot[i].served <= Len(row)
        BY <1>6, <2>2, <2>3
    <2> HIDE DEF o
    <2>5. o + j \in 1 .. Len(row)
        BY <1>2, <2>1, <2>4
    <2> QED
        BY <2>5 DEF o
<1>8. row[k].req = slot[i].req
    BY <1>6 DEF RowOf
<1> HIDE DEF k
<1>9. DOMAIN row = 1 .. Len(row)
    BY DEF Described
<1>10. k \in Leaves(i)
    BY <1>1, <1>7, <1>8, <1>9 DEF Leaves
<1> QED
    BY <1>6, <1>10 DEF k

\* No two rows of a request are for the same position.
LEMMA RowsApart ==
    ASSUME Typed, Residents, Described(slot, Serving, own, row, MAX_BATCH),
           NEW i \in BatchSlots, NEW k \in Leaves(i), NEW l \in Leaves(i),
           row[k].pos = row[l].pos
    PROVE  k = l
<1>1. PICK c \in LiveRuns(own), j \in 1 .. slot[i].served :
         own[c].owner = slot[i].req /\ k = own[c].off + j /\ row[k] = RowOf(slot[i], j)
    BY RowsAreRunsOf
<1>2. PICK d \in LiveRuns(own), m \in 1 .. slot[i].served :
         own[d].owner = slot[i].req /\ l = own[d].off + m /\ row[l] = RowOf(slot[i], m)
    BY RowsAreRunsOf
<1>3. c = d
    BY <1>1, <1>2 DEF Described
<1>4. slot[i].hist \in Nat /\ slot[i].served \in Nat
    BY TheSlots, EntryFields
<1>5. slot[i].hist + j - 1 = slot[i].hist + m - 1
    BY <1>1, <1>2 DEF RowOf
<1>6. j = m
    BY <1>4, <1>5
<1> QED
    BY <1>1, <1>2, <1>3, <1>6

LEMMA MaxOfOne ==
    ASSUME NEW k \in Nat
    PROVE  Max({k}) = k
BY DEF Max

\* What forward leaves at the positions of one slot.
LEMMA ForwardLeaves ==
    ASSUME IInv, forward, NEW i \in BatchSlots, NEW p \in Positions
    PROVE  /\ kv'[i][p] = kv[i][p] \/ \E k \in Leaves(i) : row[k].pos = p /\ kv'[i][p] = row[k].tok
           /\ \A k \in Leaves(i) : row[k].pos = p => kv'[i][p] = row[k].tok
<1> DEFINE put == {k \in Leaves(i) : row[k].pos = p}
<1>1. at = "planned" /\ Described(slot, Serving, own, row, MAX_BATCH)
    BY DEF forward, IInv, Planning
<1>2. kv'[i][p] = IF put = {} THEN kv[i][p] ELSE row[Max(put)].tok
    BY DEF forward
<1>3. Leaves(i) \in SUBSET Nat
    <2>1. DOMAIN row = 1 .. Len(row)
        BY <1>1 DEF Described
    <2> QED
        BY <2>1 DEF Leaves
<1>4. ASSUME NEW k \in put PROVE kv'[i][p] = row[k].tok /\ k \in Leaves(i) /\ row[k].pos = p
    <2>1. \A l \in put : l = k
        BY <1>1, RowsApart DEF IInv
    <2>2. put = {k} /\ k \in Nat
        BY <1>3, <2>1
    <2>3. Max(put) = k
        BY <2>2, MaxOfOne
    <2> HIDE DEF put
    <2>4. put # {}
        BY <1>4
    <2> QED
        BY <1>2, <2>3, <2>4 DEF put
<1> QED
    BY <1>2, <1>4

\* The rows of a request leave its queue's front behind its history, which
\* they do not touch.
LEMMA Forwarded ==
    ASSUME IInv, forward, NEW i \in LiveEntries
    PROVE  /\ \A j \in 1 .. slot[i].served :
                kv'[i][slot[i].hist + j - 1] = slot[i].pending[j]
           /\ \A p \in 0 .. slot[i].hist - 1 : kv'[i][p] = kv[i][p]
<1>0. Typed /\ Residents
    BY DEF IInv
<1>1. at = "planned" /\ Described(slot, Serving, own, row, MAX_BATCH)
    BY DEF forward, IInv, Planning
<1>2. /\ i \in BatchSlots /\ slot[i].live /\ BatchSlots = 0 .. MAX_BATCH - 1
      /\ slot[i].hist \in Nat /\ slot[i].served \in Nat /\ MAX_POS \in Nat
      /\ slot[i].hist \in 0 .. MAX_POS
    BY <1>0, TheConstants, TheSlots, EntryFields DEF LiveEntries
<1>3. slot[i].served > 0 => slot[i].hist + slot[i].served <= MAX_POS
    BY <1>1, <1>2 DEF Described, Serving
<1>4. ASSUME NEW j \in 1 .. slot[i].served
      PROVE  kv'[i][slot[i].hist + j - 1] = slot[i].pending[j]
    <2>1. PICK k \in Leaves(i) : row[k] = RowOf(slot[i], j)
        BY <1>0, <1>1, ServedHasRows
    <2>2. slot[i].hist + j - 1 \in Positions
        <3> DEFINE h == slot[i].hist
                   n == slot[i].served
        <3>1. /\ h \in Nat /\ n \in Nat /\ j \in 1 .. n /\ MAX_POS \in Nat
              /\ n > 0 => h + n <= MAX_POS
            BY <1>2, <1>3
        <3> HIDE DEF h, n
        <3>2. h + j - 1 \in Positions
            BY <3>1 DEF Positions
        <3> QED
            BY <3>2 DEF h
    <2>3. row[k].pos = slot[i].hist + j - 1 /\ row[k].tok = slot[i].pending[j]
        BY <2>1 DEF RowOf
    <2> QED
        BY <1>2, <2>2, <2>3, ForwardLeaves
<1>5. ASSUME NEW p \in 0 .. slot[i].hist - 1
      PROVE  kv'[i][p] = kv[i][p]
    <2>1. p \in Positions
        BY <1>2 DEF Positions
    <2>2. ASSUME NEW k \in Leaves(i) PROVE row[k].pos # p
        <3>1. PICK j \in 1 .. slot[i].served : row[k] = RowOf(slot[i], j)
            BY <1>0, <1>1, <1>2, RowsAreRunsOf
        <3>2. row[k].pos = slot[i].hist + j - 1
            BY <3>1 DEF RowOf
        <3> DEFINE h == slot[i].hist
        <3>3. h \in Nat /\ p \in 0 .. h - 1 /\ j \in Nat \ {0}
            BY <1>2
        <3> HIDE DEF h
        <3>4. h + j - 1 # p
            BY <3>3
        <3> QED
            BY <3>2, <3>4 DEF h
    <2> QED
        BY <1>2, <2>1, <2>2, ForwardLeaves
<1> QED
    BY <1>4, <1>5

LEMMA ForwardKeeps ==
    ASSUME IInv, forward
    PROVE  IInv'
<1>1. /\ at = "planned" /\ at' = "run"
      /\ UNCHANGED <<slot, own, row, pool, handles, prompt>>
    BY DEF forward
<1>2. Described(slot, Serving, own, row, MAX_BATCH) /\ row \in Seq(BatchRows)
    BY <1>1 DEF IInv, Planning
<1>3. kv' \in [BatchSlots -> [Positions -> TextTokens]]
    <2>1. ASSUME NEW i \in BatchSlots, NEW p \in Positions
          PROVE  kv'[i][p] \in TextTokens
        <3>1. kv[i][p] \in TextTokens
            BY DEF IInv, Typed
        <3>2. ASSUME NEW k \in Leaves(i) PROVE row[k].tok \in TextTokens
            <4>1. k \in 1 .. Len(row)
                BY <1>2 DEF Leaves
            <4>2. row[k] \in BatchRows
                BY <1>2, <4>1, ElementOfSeq
            <4> QED
                BY <4>2 DEF BatchRows, TextTokens
        <3> QED
            BY <3>1, <3>2, ForwardLeaves
    <2>2. /\ kv' = [i \in BatchSlots |-> kv'[i]]
          /\ \A i \in BatchSlots : kv'[i] = [p \in Positions |-> kv'[i][p]]
        BY DEF forward
    <2>3. ASSUME NEW i \in BatchSlots PROVE kv'[i] \in [Positions -> TextTokens]
        <3> DEFINE f == kv'[i]
        <3>1. f = [p \in Positions |-> f[p]] /\ \A p \in Positions : f[p] \in TextTokens
            BY <2>1, <2>2
        <3> HIDE DEF f
        <3>2. f \in [Positions -> TextTokens]
            BY <3>1
        <3> QED
            BY <3>2 DEF f
    <2> DEFINE g == kv'
    <2>4. g = [i \in BatchSlots |-> g[i]] /\ \A i \in BatchSlots : g[i] \in [Positions -> TextTokens]
        BY <2>2, <2>3
    <2> HIDE DEF g
    <2>5. g \in [BatchSlots -> [Positions -> TextTokens]]
        BY <2>4
    <2> QED
        BY <2>5 DEF g
<1>4. Typed'
    BY <1>1, <1>3 DEF IInv, Typed
<1>5. Residents' /\ LiveEntries' = LiveEntries
    BY <1>1 DEF IInv, Residents, LiveEntries
<1>6. Lending'
    BY <1>1 DEF IInv, Lending, LiveHandles, PoolKept, PoolSound, LeasesSound, Packed, Begin, End
<1>7. Planning'
    <2>1. Serving' = Serving
        BY <1>1 DEF Serving
    <2>2. Described(slot', Serving', own', row', MAX_BATCH)
        BY <1>1, <1>2, <2>1
    <2>3. row' \in Seq(BatchRows) /\ Len(row') <= MAX_ROWS /\ row' # <<>>
        BY <1>1 DEF IInv, Planning
    <2> QED
        BY <2>2, <2>3 DEF Planning
<1>8. Ran'
    BY <1>1, <1>5, Forwarded DEF Ran
<1> QED
    BY <1>4, <1>5, <1>6, <1>7, <1>8 DEF IInv
-----------------------------------------------------------------------------
(* The end of a step *)

RestOf(q) == SubSeq(q.pending, q.served + 1, Len(q.pending))

IsServed(q) == q.live /\ q.served > 0

Fits(q) == IsServed(q) => q.served <= Len(q.pending) /\ q.hist + q.served <= MAX_POS

\* e is q after the answer tok: what was served is history now, and what is
\* owed at the end of the prompt is recorded and queued.
AdvanceOf(q, tok, e) ==
    /\ e.hist = q.hist + q.served
    /\ e.pending = IF RestOf(q) = <<>> /\ e.hist >= q.n_prompt
                   THEN IF q.budget > 1 THEN <<tok>> ELSE <<>>
                   ELSE RestOf(q)
    /\ e.out = IF RestOf(q) = <<>> /\ e.hist >= q.n_prompt /\ Len(q.out) < MAX_GEN
               THEN Append(q.out, tok) ELSE q.out
    /\ e.budget = IF RestOf(q) = <<>> /\ e.hist >= q.n_prompt THEN q.budget - 1 ELSE q.budget

LEMMA RestIsQueue ==
    ASSUME NEW q \in Entries, Fits(q), IsServed(q)
    PROVE  /\ RestOf(q) \in Seq(Tokens) /\ Len(RestOf(q)) = Len(q.pending) - q.served
           /\ \A j \in 1 .. Len(q.pending) - q.served : RestOf(q)[j] = q.pending[q.served + j]
<1> DEFINE s == q.pending
           n == q.served
<1>1. s \in Seq(Tokens) /\ Len(s) \in Nat /\ n \in Nat /\ n <= Len(s) /\ n > 0
    BY EntryFields DEF Fits, IsServed
<1> HIDE DEF s, n
<1>2. RestOf(q) = SubSeq(s, n + 1, Len(s))
    BY DEF RestOf, s, n
<1>3. \A i \in n + 1 .. Len(s) : s[i] \in Tokens
    BY <1>1, ElementOfSeq
<1>4. /\ SubSeq(s, n + 1, Len(s)) \in Seq(Tokens)
      /\ Len(SubSeq(s, n + 1, Len(s))) = Len(s) - n
      /\ \A j \in 1 .. Len(s) - n : SubSeq(s, n + 1, Len(s))[j] = s[n + j]
    BY <1>1, <1>3
<1> QED
    BY <1>2, <1>4 DEF s, n

LEMMA AdvancedIs ==
    ASSUME NEW q \in Entries, Len(q.pending) <= MAX_ROWS, Len(q.out) <= MAX_GEN, Fits(q),
           NEW tok \in Answers, NEW e, e = Advanced(q, tok)
    PROVE  /\ e \in Entries /\ Len(e.pending) <= MAX_ROWS /\ Len(e.out) <= MAX_GEN
           /\ e.live = q.live /\ e.req = q.req /\ e.n_prompt = q.n_prompt
           /\ IF IsServed(q) THEN AdvanceOf(q, tok, e) ELSE e = q
<1>1. /\ q.live \in BOOLEAN /\ q.req \in Nat /\ q.hist \in Nat
      /\ q.n_prompt \in Nat /\ q.pending \in Seq(Tokens) /\ Len(q.pending) \in Nat
      /\ q.budget \in Int /\ q.served \in 0 .. MAX_ROWS /\ q.served \in Nat
      /\ q.out \in Seq(Tokens) /\ Len(q.out) \in Nat
    BY EntryFields
<1>2. /\ MAX_ROWS \in Nat /\ MAX_ROWS > 0 /\ MAX_GEN \in Nat /\ MAX_POS \in Nat
      /\ tok \in Tokens /\ tok # NO_TOKEN
    BY TheConstants
<1>3. CASE ~IsServed(q)
    <2>1. e = q
        BY <1>1, <1>3 DEF Advanced, IsServed
    <2> QED
        BY <1>3, <2>1
<1>4. CASE IsServed(q)
    <2> DEFINE h == q.hist + q.served
               r == RestOf(q)
               c == Consumed(q)
    <2>1. h \in 0 .. MAX_POS /\ r \in Seq(Tokens) /\ Len(r) \in Nat /\ Len(r) <= MAX_ROWS
        <3> DEFINE a == q.hist
                   b == q.served
                   l == Len(q.pending)
        <3>1. r \in Seq(Tokens) /\ Len(r) = l - b
            BY <1>4, RestIsQueue
        <3>2. /\ a \in Nat /\ b \in Nat /\ l \in Nat /\ l <= MAX_ROWS /\ b <= l
              /\ a + b <= MAX_POS
            BY <1>1, <1>4 DEF Fits
        <3> HIDE DEF a, b, l, r
        <3>3. a + b \in 0 .. MAX_POS /\ l - b \in Nat /\ l - b <= MAX_ROWS
            BY <1>2, <3>2
        <3> QED
            BY <3>1, <3>3 DEF a, b
    <2>2. c = [q EXCEPT !.hist = h, !.pending = r]
        BY DEF Consumed, RestOf
    <2> HIDE DEF h, r, c
    <2>3. /\ c \in Entries /\ c.live = q.live /\ c.req = q.req /\ c.n_prompt = q.n_prompt
          /\ c.hist = h /\ c.pending = r /\ c.out = q.out /\ c.budget = q.budget
        BY <2>1, <2>2 DEF Entries
    <2>4. Owes(c) <=> r = <<>> /\ h >= q.n_prompt
        BY <2>3 DEF Owes
    <2>5. CASE ~Owes(c)
        <3>1. e = c
            BY <1>4, <2>5 DEF Advanced, c, IsServed
        <3>2. AdvanceOf(q, tok, e)
            BY <2>3, <2>4, <2>5, <3>1 DEF AdvanceOf, r, h
        <3> QED
            BY <1>4, <2>1, <2>3, <3>1, <3>2
    <2>6. CASE Owes(c)
        <3> DEFINE o == IF Len(q.out) < MAX_GEN THEN Append(q.out, tok) ELSE q.out
                   b == q.budget - 1
                   p == IF q.budget > 1 THEN <<tok>> ELSE <<>>
        <3>1. o \in Seq(Tokens) /\ Len(o) <= MAX_GEN /\ b \in Int
            BY <1>1, <1>2, AppendProperties
        <3>2. p \in Seq(Tokens) /\ Len(p) <= MAX_ROWS
            BY <1>2
        <3>3. e = Spoken(c, tok)
            BY <1>2, <1>4, <2>6 DEF Advanced, c, IsServed
        <3>4. r = <<>>
            BY <2>4, <2>6
        <3>5. Append(<<>>, tok) = <<tok>>
            OBVIOUS
        <3>6. e = [c EXCEPT !.out = o, !.budget = b, !.pending = p]
            <4>1. e = [c EXCEPT !.out = IF Len(c.out) < MAX_GEN THEN Append(c.out, tok) ELSE c.out,
                                !.budget = c.budget - 1,
                                !.pending = IF c.budget > 1 THEN Append(c.pending, tok)
                                                            ELSE c.pending]
                BY <2>3, <3>3 DEF Spoken
            <4> QED
                BY <2>3, <3>4, <3>5, <4>1
        <3> HIDE DEF o, b, p
        <3>7. /\ e \in Entries /\ e.live = c.live /\ e.req = c.req /\ e.n_prompt = c.n_prompt
              /\ e.hist = c.hist /\ e.pending = p /\ e.out = o /\ e.budget = b
            BY <2>3, <3>1, <3>2, <3>6 DEF Entries
        <3>8. AdvanceOf(q, tok, e)
            BY <2>3, <2>4, <2>6, <3>7 DEF AdvanceOf, r, h, o, b, p
        <3> QED
            BY <1>4, <2>3, <3>1, <3>2, <3>7, <3>8
    <2> QED
        BY <2>5, <2>6
<1> QED
    BY <1>3, <1>4

\* When a step has been run, what is served fits its queue and its region.
LEMMA RunFits ==
    ASSUME IInv, at = "run", NEW i \in BatchSlots
    PROVE  Fits(slot[i])
<1>1. Described(slot, Serving, own, row, MAX_BATCH)
    BY DEF IInv, Planning
<1>2. i \in 0 .. MAX_BATCH - 1 /\ Serving[i] = slot[i].served
    BY TheConstants DEF Serving
<1> QED
    BY <1>1, <1>2 DEF Described, Fits, IsServed

LEMMA AdvanceKeeps ==
    ASSUME IInv, NEW chosen \in [BatchSlots -> Answers], advance(chosen)
    PROVE  IInv'
<1>1. /\ at = "run" /\ at' = "advanced" /\ slot' = [i \in BatchSlots |-> Advanced(slot[i], chosen[i])]
      /\ UNCHANGED <<own, row, pool, handles, kv, prompt>>
    BY DEF advance
<1>2. ASSUME NEW i \in BatchSlots
      PROVE  /\ slot'[i] \in Entries
             /\ Len(slot'[i].pending) <= MAX_ROWS /\ Len(slot'[i].out) <= MAX_GEN
             /\ slot'[i].live = slot[i].live /\ slot'[i].req = slot[i].req
             /\ slot'[i].n_prompt = slot[i].n_prompt
    <2>1. /\ slot[i] \in Entries /\ Len(slot[i].pending) <= MAX_ROWS /\ Len(slot[i].out) <= MAX_GEN
          /\ Fits(slot[i]) /\ chosen[i] \in Answers /\ slot'[i] = Advanced(slot[i], chosen[i])
        BY <1>1, RunFits, TheSlots DEF IInv
    <2> QED
        BY <2>1, AdvancedIs
<1>3. slot' \in [BatchSlots -> Entries]
    BY <1>1, <1>2
<1>4. Typed'
    BY <1>1, <1>2, <1>3 DEF IInv, Typed
<1>5. Residents'
    BY <1>1, <1>2 DEF IInv, Residents, LiveEntries
<1>6. Lending'
    BY <1>1 DEF IInv, Lending, LiveHandles, PoolKept, PoolSound, LeasesSound, Packed, Begin, End
<1>7. Planning' /\ Ran'
    BY <1>1 DEF IInv, Planning, Ran
<1> QED
    BY <1>4, <1>5, <1>6, <1>7 DEF IInv

LEMMA FinishKeeps ==
    ASSUME IInv, finish
    PROVE  IInv'
<1>1. /\ at = "advanced" /\ at' = "idle" /\ pool' = GivenBack /\ handles' = <<>>
      /\ UNCHANGED <<slot, own, row, kv, prompt>>
    BY DEF finish
<1> DEFINE q == GivenBack
<1>2. PoolKept(q) /\ Packed(q) /\ q.capacity = scratch_bytes /\ LiveHandles(q) = {}
    BY <1>1, AllGivenBack DEF IInv
<1> HIDE DEF q
<1>3. pool' = q
    BY <1>1 DEF q
<1>4. /\ PoolKept(pool') /\ Packed(pool') /\ pool'.capacity = scratch_bytes
      /\ LiveHandles(pool') = {}
    BY <1>2, <1>3
<1>5. Lending'
    BY <1>1, <1>4 DEF Lending
<1>6. Typed' /\ Residents'
    BY <1>1 DEF IInv, Typed, Residents, LiveEntries
<1>7. Planning' /\ Ran'
    BY <1>1 DEF IInv, Planning, Ran
<1> QED
    BY <1>5, <1>6, <1>7 DEF IInv

LEMMA InitHolds ==
    Init => IInv
<1> SUFFICES ASSUME Init PROVE IInv
    OBVIOUS
<1>1. Typed
    <2>1. NO_TOKEN \in TextTokens
        BY DEF TextTokens
    <2> QED
        BY <2>1, FreeEntryIs DEF Init, Typed
<1>2. LiveEntries = {}
    BY FreeEntryIs DEF Init, LiveEntries
<1>3. Lending
    <2> DEFINE c == scratch_bytes
               q == NewBatchPool(c)
    <2>1. c \in Nat
        <3>1. 1 \in 1 .. MAX_ROWS /\ 1 \in 1 .. MAX_BATCH
            BY TheConstants DEF Sized
        <3> QED
            BY <3>1, BuffersFit
    <2> HIDE DEF c
    <2>2. NoLease \in Leases
        BY DEF NoLease, Leases
    <2>3. q \in Pools /\ q.used = 0 /\ q.capacity = c /\ q.lease = [h \in Handles |-> NoLease]
        BY <2>1, <2>2 DEF NewBatchPool, Pools
    <2>4. LiveHandles(q) = {}
        BY <2>3 DEF LiveHandles, NoLease
    <2>5. q.used = SumFunctionOnSet([h \in Handles |-> q.lease[h].size], LiveHandles(q))
        BY <2>3, <2>4, SumNothing
    <2>6. PoolKept(q) /\ Packed(q)
        BY <2>3, <2>4, <2>5 DEF PoolKept, PoolSound, LeasesSound, Packed
    <2>7. pool = q /\ at = "idle" /\ handles = <<>>
        BY DEF Init, c
    <2> HIDE DEF q
    <2> QED
        BY <2>3, <2>4, <2>6, <2>7 DEF Lending, c
<1>4. Planning /\ Ran
    BY TheConstants DEF Init, Planning, Ran
<1> QED
    BY <1>1, <1>2, <1>3, <1>4 DEF IInv, Residents

LEMMA NextHolds ==
    IInv /\ [Next]_vars => IInv'
<1> SUFFICES ASSUME IInv, [Next]_vars PROVE IInv'
    OBVIOUS
<1>1. ASSUME NEW r \in Requests, NEW p \in Prompts, NEW budget \in Budgets,
             NEW n \in 1 .. Len(p), NEW m \in Matches(p, n), add(r, p, n, m, budget)
      PROVE  IInv'
    BY <1>1, AddKeeps
<1>2. ASSUME NEW i \in BatchSlots, feed(i) PROVE IInv'
    BY <1>2, FeedKeeps
<1>3. ASSUME NEW i \in BatchSlots, drop(i) PROVE IInv'
    BY <1>3, DropKeeps
<1>4. ASSUME plan PROVE IInv'
    BY <1>4, PlanKeeps
<1>5. ASSUME forward PROVE IInv'
    BY <1>5, ForwardKeeps
<1>6. ASSUME NEW chosen \in [BatchSlots -> Answers], advance(chosen) PROVE IInv'
    BY <1>6, AdvanceKeeps
<1>7. ASSUME finish PROVE IInv'
    BY <1>7, FinishKeeps
<1>8. ASSUME UNCHANGED vars PROVE IInv'
    <2>1. Typed' /\ Residents'
        BY <1>8 DEF vars, IInv, Typed, Residents, LiveEntries
    <2>2. Lending'
        BY <1>8 DEF vars, IInv, Lending, LiveHandles, PoolKept, PoolSound, LeasesSound, Packed,
                    Begin, End
    <2>3. Ran'
        BY <1>8 DEF vars, IInv, Ran, LiveEntries
    <2>4. Planning'
        <3>1. Serving' = Serving
            BY <1>8 DEF vars, Serving
        <3>2. UNCHANGED <<slot, own, row, at>>
            BY <1>8 DEF vars
        <3>3. at' \in {"planned", "run"} => Described(slot', Serving', own', row', MAX_BATCH)
            BY <3>1, <3>2 DEF IInv, Planning
        <3> QED
            BY <3>2, <3>3 DEF IInv, Planning
    <2> QED
        BY <2>1, <2>2, <2>3, <2>4 DEF IInv
<1> QED
    BY <1>1, <1>2, <1>3, <1>4, <1>5, <1>6, <1>7, <1>8 DEF Next, Arrive

\* In every reachable state leases and runs follow one another without gaps,
\* every row of a planned step is one queued token at its own position, and a
\* step that was run has left its tokens behind the histories.
THEOREM Invariance == Spec => []IInv
BY InitHolds, NextHolds, PTL DEF Spec
-----------------------------------------------------------------------------
(* Results *)

LEMMA InvTypes ==
    ASSUME IInv
    PROVE  TypeOK
<1>1. \A i \in BatchSlots :
         /\ slot[i].live \in BOOLEAN /\ slot[i].hist \in 0 .. MAX_POS
         /\ Len(slot[i].pending) <= MAX_ROWS /\ slot[i].served \in 0 .. MAX_ROWS
         /\ Len(slot[i].out) <= MAX_GEN
    BY TheSlots, EntryFields DEF IInv
<1>2. kv \in [BatchSlots -> [Positions -> Tokens \cup {NO_TOKEN}]]
    BY DEF IInv, Typed, TextTokens
<1> QED
    BY <1>1, <1>2 DEF TypeOK, IInv, Typed, Planning

\* The executor's records, rows and memory keep their types and bounds.
THEOREM TypeCorrect == Spec => []TypeOK
BY Invariance, InvTypes, PTL

\* The slot of a resident request.
LEMMA SlotOf ==
    ASSUME Residents, NEW i \in LiveEntries
    PROVE  Resident(slot[i].req) /\ slot_of(slot[i].req) = i
<1>1. Resident(slot[i].req)
    BY DEF Resident
<1>2. \A j \in LiveEntries : slot[j].req = slot[i].req => j = i
    BY DEF Residents
<1> QED
    BY <1>1, <1>2 DEF slot_of

LEMMA CutIs ==
    ASSUME NEW S, NEW s \in Seq(S), NEW o \in Nat, NEW n \in Nat, o + n <= Len(s),
           NEW a, a = SubSeq(s, o + 1, o + n)
    PROVE  a \in Seq(S) /\ Len(a) = n /\ \A j \in 1 .. n : a[j] = s[o + j]
<1>1. \A j \in o + 1 .. o + n : s[j] \in S
    BY ElementOfSeq
<1>2. /\ SubSeq(s, o + 1, o + n) \in Seq(S)
      /\ Len(SubSeq(s, o + 1, o + n)) = n
      /\ \A j \in 1 .. n : SubSeq(s, o + 1, o + n)[j] = s[o + j]
    BY <1>1
<1> QED
    BY <1>2

LEMMA InvOwned ==
    ASSUME IInv
    PROVE  RowsAreOwned
<1>1. TypeOK
    BY InvTypes
<1>2. BuffersComeBack
    <2>1. PoolSound(pool)
        BY DEF IInv, Lending, PoolKept
    <2>2. CASE at = "idle"
        BY <2>1, <2>2 DEF IInv, Lending, BuffersComeBack
    <2>3. CASE at # "idle"
        <3>1. handles = [k \in 1 .. 15 |-> k - 1]
            BY <2>3 DEF IInv, Lending
        <3>2. Len(handles) = 15
            BY <3>1
        <3> QED
            BY <2>1, <2>3, <3>2 DEF BuffersComeBack
    <2> QED
        BY <2>2, <2>3
<1>3. ASSUME at \in {"planned", "run"}
      PROVE  /\ Len(row) = total_tokens(own) /\ Len(row) \in 1 .. MAX_ROWS
             /\ RunsApart(own)
             /\ \A k \in LiveRuns(own) :
                  LET q == slot[slot_of(own[k].owner)]
                  IN  /\ Resident(own[k].owner)
                      /\ q.served = own[k].cnt
                      /\ SubSeq(row, own[k].off + 1, RunEnd(own, k))
                           = [j \in 1 .. q.served |->
                                [req |-> q.req, tok |-> q.pending[j], pos |-> q.hist + j - 1]]
    <2>1. row # <<>> /\ Described(slot, Serving, own, row, MAX_BATCH)
        BY <1>3 DEF IInv, Planning
    <2>2. RunsPacked(own, Len(row)) /\ row \in Seq(BatchRows) /\ Len(row) \in Nat
        BY <2>1 DEF Described
    <2>3. Len(row) = total_tokens(own) /\ RunsApart(own)
        BY <2>2 DEF RunsPacked
    <2>4. Len(row) \in 1 .. MAX_ROWS
        BY <2>1, RunsCounted
    <2>5. ASSUME NEW k \in LiveRuns(own), NEW q, q = slot[slot_of(own[k].owner)]
          PROVE  /\ Resident(own[k].owner)
                 /\ q.served = own[k].cnt
                 /\ SubSeq(row, own[k].off + 1, RunEnd(own, k))
                      = [j \in 1 .. q.served |->
                           [req |-> q.req, tok |-> q.pending[j], pos |-> q.hist + j - 1]]
        <3>1. PICK i \in BatchSlots : slot[i].live /\ RunOf(own, row, k, slot[i], Serving[i])
            BY <2>1, TheConstants DEF Described
        <3>2. own[k].owner = slot[i].req /\ i \in LiveEntries
            BY <3>1 DEF RunOf, LiveEntries
        <3>3. Resident(own[k].owner) /\ q = slot[i]
            <4>1. Resident(slot[i].req) /\ slot_of(slot[i].req) = i
                BY <3>2, SlotOf DEF IInv
            <4> QED
                BY <2>5, <3>2, <4>1
        <3> DEFINE o == own[k].off
                   n == own[k].cnt
                   a == SubSeq(row, o + 1, RunEnd(own, k))
                   b == [j \in 1 .. n |-> RowOf(q, j)]
        <3>4. q.served = n /\ \A j \in 1 .. n : row[o + j] = RowOf(q, j)
            BY <3>1, <3>3 DEF RunOf, Serving
        <3>5. o \in Nat /\ n \in Nat /\ RunEnd(own, k) = o + n /\ o + n <= Len(row)
            BY <2>2, RunFields DEF RunsPacked, LiveRuns
        <3> HIDE DEF o, n
        <3>6. a \in Seq(BatchRows) /\ Len(a) = n /\ \A j \in 1 .. n : a[j] = row[o + j]
            <4>1. a = SubSeq(row, o + 1, o + n)
                BY <3>5
            <4> QED
                BY <2>2, <3>5, <4>1, CutIs
        <3>7. b \in Seq(BatchRows) /\ Len(b) = n /\ \A j \in 1 .. n : b[j] = RowOf(q, j)
            <4>1. \A j \in 1 .. n : row[o + j] \in BatchRows
                BY <2>2, <3>5, ElementOfSeq
            <4>2. \A j \in 1 .. n : RowOf(q, j) \in BatchRows
                BY <3>4, <4>1
            <4> QED
                BY <3>5, <4>2
        <3> HIDE DEF a, b
        <3>8. \A j \in 1 .. n : a[j] = b[j]
            BY <3>4, <3>6, <3>7
        <3>9. a = b
            BY <3>6, <3>7, <3>8, SeqEqual
        <3> QED
            BY <3>3, <3>4, <3>9 DEF a, b, o, n, RowOf
    <2> QED
        BY <2>3, <2>4, <2>5
<1> QED
    BY <1>1, <1>2, <1>3 DEF RowsAreOwned

\* What a step runs in is its own: a resident's run holds the front of its
\* queue at the positions behind its history, nobody else's rows are in it,
\* and the step's buffers lie apart and come back.
THEOREM OwnedRows == Spec => []RowsAreOwned
BY Invariance, InvOwned, PTL
-----------------------------------------------------------------------------
(* What batching promises: every request is run as if it were alone *)

EntryText(q, v) == [k \in 1 .. q.hist |-> v[k - 1]] \o q.pending

EntryStream(q, v) ==
    [ open |-> TRUE, text |-> EntryText(q, v), done |-> q.hist,
      want |-> q.n_prompt, out |-> q.out, left |-> q.budget ]

\* A resident's stream is what its slot and its KV say, anybody else's closed.
StreamsAreRead ==
    Residents =>
      \A r \in Requests :
        /\ \A i \in LiveEntries : slot[i].req = r => StreamOf(r) = EntryStream(slot[i], kv[i])
        /\ (\A i \in LiveEntries : slot[i].req # r) => StreamOf(r) = Alone!Closed

LEMMA StreamsNow ==
    StreamsAreRead
<1> SUFFICES ASSUME Residents, NEW r \in Requests
             PROVE  /\ \A i \in LiveEntries :
                         slot[i].req = r => StreamOf(r) = EntryStream(slot[i], kv[i])
                    /\ (\A i \in LiveEntries : slot[i].req # r) => StreamOf(r) = Alone!Closed
    BY DEF StreamsAreRead
<1>1. ASSUME NEW i \in LiveEntries, slot[i].req = r
      PROVE  StreamOf(r) = EntryStream(slot[i], kv[i])
    <2>1. Resident(r) /\ slot_of(r) = i
        BY <1>1, SlotOf
    <2> QED
        BY <2>1 DEF StreamOf, EntryStream, EntryText, Text
<1>2. ASSUME \A i \in LiveEntries : slot[i].req # r
      PROVE  StreamOf(r) = Alone!Closed
    BY <1>2 DEF StreamOf, Resident, Alone!Closed
<1> QED
    BY <1>1, <1>2

LEMMA StreamsThen ==
    StreamsAreRead'
BY StreamsNow, PTL

LEMMA TextIs ==
    ASSUME NEW q \in Entries, NEW v \in [Positions -> TextTokens], NEW t, t = EntryText(q, v)
    PROVE  /\ t \in Seq(TextTokens) /\ Len(t) = q.hist + Len(q.pending)
           /\ \A k \in 1 .. q.hist : t[k] = v[k - 1]
           /\ \A k \in 1 .. Len(q.pending) : t[q.hist + k] = q.pending[k]
<1> DEFINE n == q.hist
           a == [k \in 1 .. n |-> v[k - 1]]
           b == q.pending
<1>1. n \in Nat /\ n <= MAX_POS /\ MAX_POS \in Nat /\ b \in Seq(TextTokens)
    <2>1. b \in Seq(Tokens) /\ n \in 0 .. MAX_POS
        BY EntryFields
    <2>2. MAX_POS \in Nat
        BY TheConstants
    <2> HIDE DEF b, n
    <2>3. b \in Seq(TextTokens)
        BY <2>1 DEF TextTokens
    <2> QED
        BY <2>1, <2>2, <2>3
<1>2. t = a \o b
    BY DEF EntryText
<1> HIDE DEF n
<1>3. a \in Seq(TextTokens) /\ Len(a) = n /\ \A k \in 1 .. n : a[k] = v[k - 1]
    <2>1. \A k \in 1 .. n : k - 1 \in Positions
        BY <1>1 DEF Positions
    <2> QED
        BY <1>1, <2>1
<1> HIDE DEF a, b
<1>4. Follows(a, b, t, TextTokens)
    BY <1>1, <1>2, <1>3, ConcatFollows
<1> QED
    BY <1>3, <1>4 DEF Follows, n, b

\* A request whose slot says the same has the same stream.
LEMMA StreamKept ==
    ASSUME Residents, Residents', NEW r \in Requests,
           \A j \in BatchSlots : (slot[j].live /\ slot[j].req = r) = (slot'[j].live /\ slot'[j].req = r),
           \A j \in BatchSlots : slot[j].live /\ slot[j].req = r =>
               EntryStream(slot'[j], kv'[j]) = EntryStream(slot[j], kv[j])
    PROVE  StreamOf(r)' = StreamOf(r)
<1>1. CASE \E j \in LiveEntries : slot[j].req = r
    <2>1. PICK j \in LiveEntries : slot[j].req = r
        BY <1>1
    <2>2. j \in BatchSlots /\ slot[j].live
        BY <2>1 DEF LiveEntries
    <2>3. j \in LiveEntries' /\ slot'[j].req = r
        BY <2>1, <2>2 DEF LiveEntries
    <2>4. StreamOf(r) = EntryStream(slot[j], kv[j])
        BY <2>1, StreamsNow DEF StreamsAreRead
    <2>5. StreamOf(r)' = EntryStream(slot'[j], kv'[j])
        BY <2>3, StreamsThen DEF StreamsAreRead
    <2> QED
        BY <2>1, <2>2, <2>4, <2>5
<1>2. CASE \A j \in LiveEntries : slot[j].req # r
    <2>1. \A j \in LiveEntries' : slot'[j].req # r
        BY <1>2 DEF LiveEntries
    <2>2. StreamOf(r) = Alone!Closed
        BY <1>2, StreamsNow DEF StreamsAreRead
    <2>3. StreamOf(r)' = Alone!Closed
        BY <2>1, StreamsThen DEF StreamsAreRead
    <2> QED
        BY <2>2, <2>3
<1> QED
    BY <1>1, <1>2

Streams == [r \in Requests |-> StreamOf(r)]

\* A step that leaves every resident's stream alone.
LEMMA SameStreams ==
    ASSUME IInv, IInv',
           \A j \in BatchSlots : /\ slot'[j].live = slot[j].live /\ slot'[j].req = slot[j].req
                                 /\ slot[j].live => EntryStream(slot'[j], kv'[j])
                                                      = EntryStream(slot[j], kv[j])
    PROVE  UNCHANGED Streams
<1>1. ASSUME NEW r \in Requests PROVE StreamOf(r)' = StreamOf(r)
    BY StreamKept DEF IInv
<1> QED
    BY <1>1 DEF Streams

LEMMA PlanStutters ==
    ASSUME IInv, IInv', plan
    PROVE  UNCHANGED Streams
<1>1. kv' = kv
    BY DEF plan
<1>2. ASSUME NEW j \in BatchSlots
      PROVE  /\ slot'[j].live = slot[j].live /\ slot'[j].req = slot[j].req
             /\ EntryStream(slot'[j], kv'[j]) = EntryStream(slot[j], kv[j])
    BY <1>1, PlanFields DEF EntryStream, EntryText
<1> QED
    BY <1>2, SameStreams

LEMMA ForwardStutters ==
    ASSUME IInv, IInv', forward
    PROVE  UNCHANGED Streams
<1>1. slot' = slot
    BY DEF forward
<1>2. ASSUME NEW j \in BatchSlots, slot[j].live
      PROVE  EntryStream(slot'[j], kv'[j]) = EntryStream(slot[j], kv[j])
    <2>1. slot[j].hist \in Nat
        BY TheSlots, EntryFields DEF IInv
    <2>2. \A p \in 0 .. slot[j].hist - 1 : kv'[j][p] = kv[j][p]
        BY <1>2, Forwarded DEF LiveEntries
    <2> DEFINE n == slot[j].hist
    <2>3. \A k \in 1 .. n : k - 1 \in 0 .. n - 1
        <3> HIDE DEF n
        <3> QED
            BY <2>1 DEF n
    <2>4. [k \in 1 .. n |-> kv'[j][k - 1]] = [k \in 1 .. n |-> kv[j][k - 1]]
        BY <2>2, <2>3
    <2>5. EntryText(slot'[j], kv'[j]) = EntryText(slot[j], kv[j])
        BY <1>1, <2>4 DEF EntryText
    <2> QED
        BY <1>1, <2>5 DEF EntryStream
<1> QED
    BY <1>1, <1>2, SameStreams

\* add opens the stream of the request it adds.
LEMMA AddOpens ==
    ASSUME IInv, IInv', NEW r \in Requests, NEW p \in Prompts, NEW n \in 1 .. Len(p),
           NEW m \in Matches(p, n), NEW budget \in Budgets, add(r, p, n, m, budget)
    PROVE  Alone!Open(r)
<1>1. PICK i, e, c : Joins(i, e, r, p, n, c)
    BY AddJoins
<1>2. /\ i \in BatchSlots /\ i \notin LiveEntries
      /\ c \in Nat /\ c < n /\ n \in Nat /\ n <= Len(p) /\ Len(p) \in Nat
      /\ e \in Entries /\ e.live /\ e.req = r /\ e.n_prompt = Len(p) /\ e.hist = c
      /\ Len(e.pending) = n - c /\ e.out = <<>>
    BY <1>1, TheConstants DEF Joins
<1> DEFINE v == kv'[i]
<1>3. /\ slot' = [slot EXCEPT ![i] = e] /\ ~Resident(r)
      /\ v \in [Positions -> TextTokens] /\ \A j \in BatchSlots \ {i} : kv'[j] = kv[j]
    BY <1>1 DEF add, Joins, IInv, Typed
<1>4. slot'[i] = e /\ \A j \in BatchSlots \ {i} : slot'[j] = slot[j]
    BY <1>2, <1>3 DEF IInv, Typed
<1>5. \A j \in LiveEntries : slot[j].req # r
    BY <1>3 DEF Resident
<1>6. StreamOf(r) = Alone!Closed
    BY <1>5, StreamsNow DEF StreamsAreRead, IInv
<1>7. StreamOf(r)' = EntryStream(e, v)
    <2>1. i \in LiveEntries'
        BY <1>2, <1>4 DEF LiveEntries
    <2>2. StreamOf(r)' = EntryStream(slot'[i], kv'[i])
        BY <1>2, <1>4, <2>1, StreamsThen DEF StreamsAreRead, IInv
    <2> QED
        BY <1>4, <2>2
<1> HIDE DEF v
<1>8. ASSUME NEW other \in Requests \ {r}
      PROVE  StreamOf(other)' = StreamOf(other)
    <2>1. \A j \in BatchSlots :
            (slot[j].live /\ slot[j].req = other) = (slot'[j].live /\ slot'[j].req = other)
        <3> TAKE j \in BatchSlots
        <3>1. CASE j = i
            <4>1. ~slot[j].live
                BY <1>2, <3>1 DEF LiveEntries
            <4>2. slot'[j].req # other
                BY <1>2, <1>4, <3>1
            <4> QED
                BY <4>1, <4>2
        <3>2. CASE j # i
            BY <1>4, <3>2
        <3> QED
            BY <3>1, <3>2
    <2>2. ASSUME NEW j \in BatchSlots, slot[j].live
          PROVE  EntryStream(slot'[j], kv'[j]) = EntryStream(slot[j], kv[j])
        <3>1. j # i
            BY <1>2, <2>2 DEF LiveEntries
        <3> QED
            BY <1>3, <1>4, <3>1
    <2> QED
        BY <2>1, <2>2, StreamKept DEF IInv
<1> DEFINE t == EntryText(e, v)
<1>9. Len(t) = n
    <2>1. Len(t) = c + Len(e.pending)
        BY <1>2, <1>3, TextIs
    <2> HIDE DEF t
    <2> QED
        BY <1>2, <2>1
<1> HIDE DEF t
<1>10. EntryStream(e, v) = [ open |-> TRUE, text |-> t, done |-> c, want |-> Len(p),
                             out |-> <<>>, left |-> e.budget ]
    BY <1>2 DEF EntryStream, t
<1>11. c \in 0 .. Len(t) - 1 /\ Len(t) <= Len(p)
    BY <1>2, <1>9
<1>12. /\ ~StreamOf(r).open /\ StreamOf(r)'.open
       /\ StreamOf(r)'.done \in 0 .. Len(StreamOf(r)'.text) - 1
       /\ StreamOf(r)'.out = <<>> /\ Len(StreamOf(r)'.text) <= StreamOf(r)'.want
    BY <1>6, <1>7, <1>10, <1>11 DEF Alone!Closed
<1> QED
    BY <1>8, <1>12 DEF Alone!Open, Alone!IsOpen

LEMMA WithText ==
    ASSUME NEW x, NEW t, NEW w, NEW h, NEW n, NEW o, NEW b,
           NEW s, s = [open |-> x, text |-> t, done |-> h, want |-> n, out |-> o, left |-> b]
    PROVE  [s EXCEPT !.text = w]
             = [open |-> x, text |-> w, done |-> h, want |-> n, out |-> o, left |-> b]
OBVIOUS

\* feed gives the stream of the slot's request its token.
LEMMA FeedGives ==
    ASSUME IInv, IInv', NEW i \in BatchSlots, feed(i), NEW r, r = slot[i].req
    PROVE  r \in Requests /\ Alone!Give(r)
<1> DEFINE q   == slot[i]
           tok == prompt[q.req][q.hist + Len(q.pending) + 1]
           e   == [q EXCEPT !.pending = Append(q.pending, tok)]
           v   == kv[i]
<1>1. /\ q \in Entries /\ q.live /\ q.pending \in Seq(Tokens) /\ Len(q.pending) \in Nat
      /\ q.hist \in Nat /\ q.n_prompt \in Nat /\ q.hist + Len(q.pending) + 1 <= q.n_prompt
    BY TheSlots, EntryFields DEF IInv, feed
<1>2. tok \in Tokens
    BY FedToken
<1>3. slot' = [slot EXCEPT ![i] = e] /\ kv' = kv
    BY DEF feed
<1>4. i \in LiveEntries /\ r \in Requests /\ r = q.req
    BY <1>1 DEF IInv, Residents, LiveEntries
<1>5. v \in [Positions -> TextTokens]
    BY DEF IInv, Typed
<1> DEFINE l == Append(q.pending, tok)
<1> HIDE DEF tok
<1>6. /\ l \in Seq(Tokens) /\ Len(l) = Len(q.pending) + 1
      /\ \A k \in 1 .. Len(q.pending) : l[k] = q.pending[k]
      /\ l[Len(q.pending) + 1] = tok
    BY <1>1, <1>2, AppendProperties
<1>7. e = [q EXCEPT !.pending = l]
    OBVIOUS
<1> HIDE DEF q, l, e, v
<1>8. /\ e \in Entries /\ e.live = q.live /\ e.req = q.req /\ e.hist = q.hist
      /\ e.n_prompt = q.n_prompt /\ e.out = q.out /\ e.budget = q.budget /\ e.pending = l
    BY <1>1, <1>6, <1>7 DEF Entries
<1>9. slot'[i] = e /\ \A j \in BatchSlots \ {i} : slot'[j] = slot[j]
    BY <1>3 DEF IInv, Typed
<1> DEFINE t == EntryText(q, v)
           u == EntryText(e, v)
<1>10. /\ t \in Seq(TextTokens) /\ Len(t) = q.hist + Len(q.pending)
       /\ \A k \in 1 .. q.hist : t[k] = v[k - 1]
       /\ \A k \in 1 .. Len(q.pending) : t[q.hist + k] = q.pending[k]
    BY <1>1, <1>5, TextIs
<1>11. /\ u \in Seq(TextTokens) /\ Len(u) = q.hist + Len(l)
       /\ \A k \in 1 .. q.hist : u[k] = v[k - 1]
       /\ \A k \in 1 .. Len(l) : u[q.hist + k] = l[k]
    <2>1. /\ u \in Seq(TextTokens) /\ Len(u) = e.hist + Len(e.pending)
          /\ \A k \in 1 .. e.hist : u[k] = v[k - 1]
          /\ \A k \in 1 .. Len(e.pending) : u[e.hist + k] = e.pending[k]
        BY <1>5, <1>8, TextIs
    <2> HIDE DEF u
    <2> QED
        BY <1>8, <2>1
<1> HIDE DEF t, u
<1>12. u = Append(t, tok)
    <2> DEFINE w == Append(t, tok)
               h == q.hist
               m == Len(q.pending)
    <2>1. tok \in TextTokens
        BY <1>2 DEF TextTokens
    <2>2. /\ w \in Seq(TextTokens) /\ Len(w) = Len(t) + 1
          /\ \A k \in 1 .. Len(t) : w[k] = t[k]
          /\ w[Len(t) + 1] = tok
        BY <1>10, <2>1, AppendProperties
    <2>3. h \in Nat /\ m \in Nat /\ Len(t) = h + m /\ Len(u) = h + (m + 1)
        BY <1>1, <1>6, <1>10, <1>11
    <2> HIDE DEF w, h, m
    <2>4. Len(w) = Len(u)
        BY <2>2, <2>3
    <2>5. ASSUME NEW k \in 1 .. Len(u) PROVE u[k] = w[k]
        <3>1. CASE k \in 1 .. h
            <4>1. k \in 1 .. Len(t)
                BY <2>3, <3>1
            <4> QED
                BY <1>10, <1>11, <2>2, <3>1, <4>1 DEF h
        <3>2. CASE k \in h + 1 .. h + m
            <4>1. k - h \in 1 .. m /\ k - h \in 1 .. m + 1 /\ h + (k - h) = k /\ k \in 1 .. Len(t)
                BY <2>3, <3>2
            <4>2. u[h + (k - h)] = l[k - h]
                BY <1>6, <1>11, <4>1 DEF h, m
            <4>3. t[h + (k - h)] = q.pending[k - h]
                BY <1>10, <4>1 DEF h, m
            <4>4. l[k - h] = q.pending[k - h]
                BY <1>6, <4>1 DEF m
            <4> QED
                BY <2>2, <4>1, <4>2, <4>3, <4>4
        <3>3. CASE k = h + (m + 1)
            <4>1. m + 1 \in 1 .. m + 1 /\ k = Len(t) + 1
                BY <2>3, <3>3
            <4>2. u[h + (m + 1)] = l[m + 1]
                BY <1>6, <1>11, <4>1 DEF h, m
            <4> QED
                BY <1>6, <2>2, <3>3, <4>1, <4>2 DEF m
        <3>4. k \in 1 .. h \/ k \in h + 1 .. h + m \/ k = h + (m + 1)
            BY <2>3
        <3> QED
            BY <3>1, <3>2, <3>3, <3>4
    <2>6. u = w
        BY <1>11, <2>2, <2>4, <2>5, SeqEqual
    <2> QED
        BY <2>6 DEF w
<1>13. StreamOf(r) = EntryStream(q, v)
    BY <1>4, StreamsNow DEF StreamsAreRead, IInv, q, v
<1>14. StreamOf(r)' = EntryStream(e, v)
    <2>1. i \in LiveEntries' /\ slot'[i].req = r
        BY <1>1, <1>4, <1>8, <1>9 DEF LiveEntries
    <2>2. StreamOf(r)' = EntryStream(slot'[i], kv'[i])
        BY <1>4, <2>1, StreamsThen DEF StreamsAreRead, IInv
    <2> QED
        BY <1>3, <1>9, <2>2 DEF v
<1>15. ASSUME NEW other \in Requests \ {r}
       PROVE  StreamOf(other)' = StreamOf(other)
    <2>1. \A j \in BatchSlots :
            (slot[j].live /\ slot[j].req = other) = (slot'[j].live /\ slot'[j].req = other)
        BY <1>4, <1>8, <1>9 DEF q
    <2>2. ASSUME NEW j \in BatchSlots, slot[j].live, slot[j].req = other
          PROVE  EntryStream(slot'[j], kv'[j]) = EntryStream(slot[j], kv[j])
        <3>1. j # i
            BY <1>4, <2>2 DEF q
        <3> QED
            BY <1>3, <1>9, <3>1
    <2> QED
        BY <2>1, <2>2, StreamKept DEF IInv
<1>16. EntryStream(e, v) = [EntryStream(q, v) EXCEPT !.text = Append(t, tok)]
    <2>1. EntryStream(q, v) = [ open |-> TRUE, text |-> t, done |-> q.hist,
                                want |-> q.n_prompt, out |-> q.out, left |-> q.budget ]
        BY DEF EntryStream, t
    <2>2. EntryStream(e, v) = [ open |-> TRUE, text |-> u, done |-> q.hist,
                                want |-> q.n_prompt, out |-> q.out, left |-> q.budget ]
        BY <1>8 DEF EntryStream, u
    <2> DEFINE w == Append(t, tok)
    <2>3. u = w
        BY <1>12
    <2> DEFINE h == q.hist
               n == q.n_prompt
               o == q.out
               b == q.budget
               x == TRUE
    <2> HIDE DEF w, h, n, o, b, x
    <2>4. EntryStream(e, v) = [EntryStream(q, v) EXCEPT !.text = w]
        <3>1. EntryStream(q, v)
                = [open |-> x, text |-> t, done |-> h, want |-> n, out |-> o, left |-> b]
            BY <2>1 DEF h, n, o, b, x
        <3>2. EntryStream(e, v)
                = [open |-> x, text |-> w, done |-> h, want |-> n, out |-> o, left |-> b]
            BY <2>2, <2>3 DEF h, n, o, b, x
        <3>3. [EntryStream(q, v) EXCEPT !.text = w]
                = [open |-> x, text |-> w, done |-> h, want |-> n, out |-> o, left |-> b]
            BY <3>1, WithText
        <3> QED
            BY <3>2, <3>3
    <2> QED
        BY <2>4 DEF w
<1>17. /\ StreamOf(r).open /\ Len(StreamOf(r).text) < StreamOf(r).want
       /\ StreamOf(r).text = t
    <2>1. StreamOf(r).open = TRUE /\ StreamOf(r).text = t /\ StreamOf(r).want = q.n_prompt
        BY <1>13 DEF EntryStream, t
    <2> DEFINE h == q.hist
               m == Len(q.pending)
               w == q.n_prompt
    <2>2. h \in Nat /\ m \in Nat /\ w \in Nat /\ h + m + 1 <= w /\ Len(t) = h + m
        BY <1>1, <1>10
    <2> HIDE DEF h, m, w
    <2>3. Len(t) < w
        BY <2>2
    <2> QED
        BY <2>1, <2>3 DEF w
<1>18. StreamOf(r)' = [StreamOf(r) EXCEPT !.text = Append(StreamOf(r).text, tok)]
    BY <1>13, <1>14, <1>16, <1>17
<1>19. Streams' = [Streams EXCEPT ![r].text = Append(@, tok)]
    <2> DEFINE z == [StreamOf(r) EXCEPT !.text = Append(StreamOf(r).text, tok)]
    <2>1. Streams[r] = StreamOf(r)
        BY <1>4 DEF Streams
    <2>2. [Streams EXCEPT ![r].text = Append(@, tok)] = [Streams EXCEPT ![r] = z]
        BY <2>1
    <2>3. StreamOf(r)' = z
        BY <1>18
    <2> HIDE DEF z
    <2>4. Streams' = [Streams EXCEPT ![r] = z]
        BY <1>4, <1>15, <2>3 DEF Streams
    <2> QED
        BY <2>2, <2>4
<1>20. Alone!Give(r)
    BY <1>2, <1>4, <1>17, <1>19 DEF Alone!Give, Alone!IsOpen, Streams
<1> QED
    BY <1>4, <1>20

\* drop closes the stream of the request it drops.
LEMMA DropCloses ==
    ASSUME IInv, IInv', NEW i \in BatchSlots, drop(i), NEW r, r = slot[i].req
    PROVE  r \in Requests /\ Alone!Close(r)
<1>1. /\ slot' = [slot EXCEPT ![i] = FreeEntry] /\ kv' = kv /\ slot[i].live /\ i \in LiveEntries
    BY DEF drop, LiveEntries
<1>2. r \in Requests /\ \A j \in LiveEntries : slot[j].req = r => j = i
    BY <1>1 DEF IInv, Residents
<1>3. ~slot'[i].live /\ \A j \in BatchSlots \ {i} : slot'[j] = slot[j]
    BY <1>1, FreeEntryIs DEF IInv, Typed
<1>4. StreamOf(r) = EntryStream(slot[i], kv[i])
    BY <1>1, <1>2, StreamsNow DEF StreamsAreRead, IInv
<1>5. StreamOf(r)' = Alone!Closed
    <2>1. \A j \in LiveEntries' : slot'[j].req # r
        <3> TAKE j \in LiveEntries'
        <3>1. j \in LiveEntries /\ j # i /\ slot'[j] = slot[j]
            BY <1>3 DEF LiveEntries
        <3> QED
            BY <1>2, <3>1
    <2> QED
        BY <1>2, <2>1, StreamsThen DEF StreamsAreRead, IInv
<1>6. ASSUME NEW other \in Requests \ {r}
      PROVE  StreamOf(other)' = StreamOf(other)
    <2>1. \A j \in BatchSlots :
            (slot[j].live /\ slot[j].req = other) = (slot'[j].live /\ slot'[j].req = other)
        <3> TAKE j \in BatchSlots
        <3>1. CASE j = i
            BY <1>3, <3>1
        <3>2. CASE j # i
            BY <1>3, <3>2
        <3> QED
            BY <3>1, <3>2
    <2>2. ASSUME NEW j \in BatchSlots, slot[j].live, slot[j].req = other
          PROVE  EntryStream(slot'[j], kv'[j]) = EntryStream(slot[j], kv[j])
        <3>1. j # i
            BY <2>2
        <3> QED
            BY <1>1, <1>3, <3>1
    <2> QED
        BY <2>1, <2>2, StreamKept DEF IInv
<1>7. Streams' = [Streams EXCEPT ![r] = Alone!Closed]
    BY <1>2, <1>5, <1>6 DEF Streams
<1>8. StreamOf(r).open
    BY <1>4 DEF EntryStream
<1> QED
    BY <1>2, <1>7, <1>8 DEF Alone!Close, Alone!IsOpen, Streams

\* What advance makes of the text: the same, or one answer longer.
LEMMA AdvancedText ==
    ASSUME NEW q \in Entries, NEW e \in Entries, Fits(q), IsServed(q), NEW tok \in Tokens,
           AdvanceOf(q, tok, e), NEW v \in [Positions -> TextTokens],
           \A j \in 1 .. q.served : v[q.hist + j - 1] = q.pending[j],
           NEW t, t = EntryText(q, v), NEW u, u = EntryText(e, v)
    PROVE  /\ q.served \in 1 .. Len(t) - q.hist
           /\ e.hist = Len(t) <=> RestOf(q) = <<>>
           /\ u = IF RestOf(q) = <<>> /\ e.hist >= q.n_prompt /\ q.budget > 1
                  THEN Append(t, tok) ELSE t
<1> DEFINE h == q.hist
           n == q.served
           m == Len(q.pending)
           s == RestOf(q)
           g == e.hist
           p == e.pending
<1>1. /\ h \in Nat /\ n \in Nat /\ n > 0 /\ m \in Nat /\ n <= m /\ g = h + n
      /\ s \in Seq(Tokens) /\ Len(s) = m - n
      /\ \A j \in 1 .. m - n : s[j] = q.pending[n + j]
    BY EntryFields, RestIsQueue DEF Fits, IsServed, AdvanceOf
<1>2. /\ t \in Seq(TextTokens) /\ Len(t) = h + m
      /\ \A k \in 1 .. h : t[k] = v[k - 1]
      /\ \A k \in 1 .. m : t[h + k] = q.pending[k]
    BY TextIs
<1>3. /\ u \in Seq(TextTokens) /\ Len(u) = g + Len(p)
      /\ \A k \in 1 .. g : u[k] = v[k - 1]
      /\ \A k \in 1 .. Len(p) : u[g + k] = p[k]
    BY TextIs
<1>4. p = IF s = <<>> /\ g >= q.n_prompt THEN IF q.budget > 1 THEN <<tok>> ELSE <<>> ELSE s
    BY DEF AdvanceOf
<1>5. \A j \in 1 .. n : v[h + j - 1] = q.pending[j]
    OBVIOUS
<1> HIDE DEF h, n, m, s, g, p
<1>6. (s = <<>>) <=> m = n
    BY <1>1, EmptySeq
<1>7. \A k \in 1 .. g : u[k] = t[k]
    <2> TAKE k \in 1 .. g
    <2>1. CASE k <= h
        <3>1. k \in 1 .. h
            BY <1>1, <2>1
        <3> QED
            BY <1>2, <1>3, <3>1
    <2>2. CASE ~(k <= h)
        <3>1. k - h \in 1 .. n /\ k - h \in 1 .. m /\ h + (k - h) = k /\ h + (k - h) - 1 = k - 1
            BY <1>1, <2>2
        <3>2. t[h + (k - h)] = q.pending[k - h]
            BY <1>2, <3>1
        <3>3. v[h + (k - h) - 1] = q.pending[k - h]
            BY <1>5, <3>1
        <3>4. u[k] = v[k - 1]
            BY <1>3
        <3> QED
            BY <3>1, <3>2, <3>3, <3>4
    <2> QED
        BY <2>1, <2>2
<1>8. CASE ~(s = <<>> /\ g >= q.n_prompt)
    <2>1. p = s
        BY <1>4, <1>8
    <2>2. Len(u) = Len(t)
        BY <1>1, <1>2, <1>3, <2>1
    <2>3. ASSUME NEW k \in 1 .. Len(u) PROVE u[k] = t[k]
        <3>1. CASE k \in 1 .. g
            BY <1>7, <3>1
        <3>2. CASE k \notin 1 .. g
            <4>1. /\ k - g \in 1 .. m - n /\ g + (k - g) = k /\ n + (k - g) \in 1 .. m
                  /\ h + (n + (k - g)) = k
                BY <1>1, <1>2, <2>2, <3>2
            <4> DEFINE x == k - g
                       y == n + x
            <4>2. x \in 1 .. m - n /\ g + x = k /\ y \in 1 .. m /\ h + y = k
                BY <4>1
            <4>3. s[x] = q.pending[y]
                BY <1>1, <4>2
            <4> HIDE DEF x, y
            <4>4. u[g + x] = p[x] /\ t[h + y] = q.pending[y]
                BY <1>1, <1>2, <1>3, <2>1, <4>2
            <4> QED
                BY <2>1, <4>2, <4>3, <4>4
        <3> QED
            BY <3>1, <3>2
    <2>4. u = t
        BY <1>2, <1>3, <2>2, <2>3, SeqEqual
    <2> QED
        BY <1>1, <1>2, <1>6, <1>8, <2>4 DEF h, n, s, g
<1>9. CASE s = <<>> /\ g >= q.n_prompt /\ ~(q.budget > 1)
    <2>1. p = <<>> /\ Len(p) = 0
        BY <1>4, <1>9
    <2>2. m = n
        BY <1>6, <1>9
    <2>3. Len(u) = Len(t) /\ Len(u) = g
        BY <1>1, <1>2, <1>3, <2>1, <2>2
    <2>4. u = t
        BY <1>2, <1>3, <1>7, <2>3, SeqEqual
    <2> QED
        BY <1>1, <1>2, <1>6, <1>9, <2>2, <2>4 DEF h, n, s, g
<1>10. CASE s = <<>> /\ g >= q.n_prompt /\ q.budget > 1
    <2> DEFINE w == Append(t, tok)
    <2>1. p = <<tok>> /\ Len(p) = 1 /\ p[1] = tok
        BY <1>4, <1>10
    <2>2. m = n
        BY <1>6, <1>10
    <2>3. Len(u) = Len(t) + 1 /\ Len(t) = g /\ g \in Nat
        BY <1>1, <1>2, <1>3, <2>1, <2>2
    <2>4. tok \in TextTokens
        BY DEF TextTokens
    <2>5. /\ w \in Seq(TextTokens) /\ Len(w) = Len(t) + 1
          /\ \A k \in 1 .. Len(t) : w[k] = t[k]
          /\ w[Len(t) + 1] = tok
        BY <1>2, <2>4, AppendProperties
    <2> HIDE DEF w
    <2>6. ASSUME NEW k \in 1 .. Len(u) PROVE u[k] = w[k]
        <3>1. CASE k \in 1 .. g
            BY <1>7, <2>3, <2>5, <3>1
        <3>2. CASE k = g + 1
            <4>1. u[g + 1] = p[1]
                BY <1>3, <2>1
            <4> QED
                BY <2>1, <2>3, <2>5, <3>2, <4>1
        <3>3. k \in 1 .. g \/ k = g + 1
            BY <2>3
        <3> QED
            BY <3>1, <3>2, <3>3
    <2>7. u = w
        BY <1>3, <2>3, <2>5, <2>6, SeqEqual
    <2> QED
        BY <1>1, <1>2, <1>6, <1>10, <2>2, <2>7 DEF h, n, s, g, w
<1> QED
    BY <1>8, <1>9, <1>10

LEMMA WithDone ==
    ASSUME NEW x, NEW t, NEW w, NEW h, NEW n, NEW o, NEW b,
           NEW s, s = [open |-> x, text |-> t, done |-> h, want |-> n, out |-> o, left |-> b]
    PROVE  [s EXCEPT !.done = w]
             = [open |-> x, text |-> t, done |-> w, want |-> n, out |-> o, left |-> b]
OBVIOUS

Recorded(s, p, c, u) == [s EXCEPT !.out = p, !.left = c, !.text = u]

LEMMA WithAnswer ==
    ASSUME NEW x, NEW t, NEW h, NEW n, NEW o, NEW b, NEW u, NEW p, NEW c,
           NEW s, s = [open |-> x, text |-> t, done |-> h, want |-> n, out |-> o, left |-> b]
    PROVE  Recorded(s, p, c, u)
             = [open |-> x, text |-> u, done |-> h, want |-> n, out |-> p, left |-> c]
<1> DEFINE s1 == [s EXCEPT !.out = p]
           s2 == [s1 EXCEPT !.left = c]
           s3 == [s2 EXCEPT !.text = u]
<1>1. s1 = [open |-> x, text |-> t, done |-> h, want |-> n, out |-> p, left |-> b]
    OBVIOUS
<1> HIDE DEF s1
<1>2. s2 = [open |-> x, text |-> t, done |-> h, want |-> n, out |-> p, left |-> c]
    BY <1>1
<1> HIDE DEF s2
<1>3. s3 = [open |-> x, text |-> u, done |-> h, want |-> n, out |-> p, left |-> c]
    BY <1>2, WithText
<1> QED
    BY <1>3 DEF s1, s2, Recorded

\* The stream of a served entry: what was served is done, and at the end of
\* a complete prompt the answer is added.
LEMMA ServedStream ==
    ASSUME NEW q \in Entries, NEW e \in Entries, Fits(q), IsServed(q), NEW tok \in Tokens,
           AdvanceOf(q, tok, e), e.n_prompt = q.n_prompt,
           NEW v \in [Positions -> TextTokens],
           \A j \in 1 .. q.served : v[q.hist + j - 1] = q.pending[j],
           NEW s, s = EntryStream(q, v), NEW z, z = EntryStream(e, v)
    PROVE  /\ q.served \in 1 .. Len(s.text) - s.done
           /\ z = IF Alone!Owed(Alone!Ran(s, q.served))
                  THEN Alone!Answered(Alone!Ran(s, q.served), tok)
                  ELSE Alone!Ran(s, q.served)
<1> DEFINE t == EntryText(q, v)
           u == EntryText(e, v)
           g == e.hist
           h == q.hist
           n == q.n_prompt
           o == q.out
           b == q.budget
           x == TRUE
           a == Alone!Ran(s, q.served)
           last == RestOf(q) = <<>> /\ g >= n
<1>1. /\ q.served \in 1 .. Len(t) - h
      /\ g = Len(t) <=> RestOf(q) = <<>>
      /\ u = IF RestOf(q) = <<>> /\ g >= n /\ b > 1 THEN Append(t, tok) ELSE t
    BY AdvancedText
<1>2. /\ g = h + q.served
      /\ e.out = IF last /\ Len(o) < MAX_GEN THEN Append(o, tok) ELSE o
      /\ e.budget = IF last THEN b - 1 ELSE b
    BY DEF AdvanceOf
<1>3. s = [open |-> x, text |-> t, done |-> h, want |-> n, out |-> o, left |-> b]
    BY DEF EntryStream
<1>4. z = [open |-> x, text |-> u, done |-> g, want |-> n, out |-> e.out, left |-> e.budget]
    BY DEF EntryStream
<1>5. a = [s EXCEPT !.done = s.done + q.served]
    BY DEF Alone!Ran
<1> HIDE DEF t, u, g, h, n, o, b, x, a
<1>6. s.text = t /\ s.done = h
    BY <1>3
<1>7. a = [s EXCEPT !.done = g]
    BY <1>2, <1>5, <1>6
<1>8. a = [open |-> x, text |-> t, done |-> g, want |-> n, out |-> o, left |-> b]
    BY <1>3, <1>7, WithDone
<1>9. a.text = t /\ a.done = g /\ a.want = n /\ a.out = o /\ a.left = b
    BY <1>8
<1>10. Alone!Owed(a) <=> last
    BY <1>1, <1>9 DEF Alone!Owed
<1>11. CASE ~last
    <2>1. u = t /\ e.out = o /\ e.budget = b
        BY <1>1, <1>2, <1>11
    <2>2. z = a
        BY <1>4, <1>8, <2>1
    <2> QED
        BY <1>1, <1>6, <1>10, <1>11, <2>2 DEF a
<1>12. CASE last
    <2> DEFINE p == IF Len(o) < MAX_GEN THEN Append(o, tok) ELSE o
               c == b - 1
               w == IF b > 1 THEN Append(t, tok) ELSE t
    <2>1. u = w /\ e.out = p /\ e.budget = c
        BY <1>1, <1>2, <1>12
    <2>2. Alone!Answered(a, tok)
            = [a EXCEPT !.out  = IF Len(a.out) < MAX_GEN THEN Append(a.out, tok) ELSE a.out,
                        !.left = a.left - 1,
                        !.text = IF a.left > 1 THEN Append(a.text, tok) ELSE a.text]
        BY DEF Alone!Answered
    <2>3. Alone!Answered(a, tok) = [a EXCEPT !.out = p, !.left = c, !.text = w]
        BY <1>9, <2>2
    <2> HIDE DEF p, c, w
    <2>4. Alone!Answered(a, tok)
            = [open |-> x, text |-> w, done |-> g, want |-> n, out |-> p, left |-> c]
        <3>1. Recorded(a, p, c, w)
                = [open |-> x, text |-> w, done |-> g, want |-> n, out |-> p, left |-> c]
            BY <1>8, WithAnswer
        <3> QED
            BY <2>3, <3>1 DEF Recorded
    <2>5. z = Alone!Answered(a, tok)
        BY <1>4, <2>1, <2>4
    <2> QED
        BY <1>1, <1>6, <1>10, <1>12, <2>5 DEF a
<1> QED
    BY <1>11, <1>12

\* A step that was run serves somebody.
LEMMA SomebodyServed ==
    ASSUME IInv, at = "run"
    PROVE  \E i \in LiveEntries : IsServed(slot[i])
<1>1. row # <<>> /\ Described(slot, Serving, own, row, MAX_BATCH)
    BY DEF IInv, Planning
<1>2. 1 \in 1 .. Len(row)
    BY <1>1, RunsCounted
<1>3. PICK c \in LiveRuns(own) : \E j \in 1 .. own[c].cnt : 1 = own[c].off + j
    BY <1>1, <1>2 DEF Described
<1>4. PICK i \in BatchSlots : slot[i].live /\ RunOf(own, row, c, slot[i], Serving[i])
    BY <1>1, TheConstants DEF Described
<1>5. slot[i].served = own[c].cnt /\ slot[i].served \in Nat
    BY <1>4, TheSlots, EntryFields DEF RunOf, Serving, IInv
<1>6. slot[i].served > 0
    BY <1>3, <1>5
<1> QED
    BY <1>4, <1>6 DEF LiveEntries, IsServed

\* advance is one step of the model for the requests with rows in it.
LEMMA AdvanceComputes ==
    ASSUME IInv, IInv', NEW chosen \in [BatchSlots -> Answers], advance(chosen)
    PROVE  Alone!Compute
<1>1. at = "run" /\ kv' = kv /\ slot' = [i \in BatchSlots |-> Advanced(slot[i], chosen[i])]
    BY DEF advance
<1>2. ASSUME NEW i \in BatchSlots
      PROVE  /\ slot[i] \in Entries /\ slot'[i] \in Entries /\ Fits(slot[i]) /\ chosen[i] \in Tokens
             /\ slot'[i].live = slot[i].live /\ slot'[i].req = slot[i].req
             /\ slot'[i].n_prompt = slot[i].n_prompt
             /\ IsServed(slot[i]) => AdvanceOf(slot[i], chosen[i], slot'[i])
             /\ ~IsServed(slot[i]) => slot'[i] = slot[i]
    <2>1. /\ slot[i] \in Entries /\ Len(slot[i].pending) <= MAX_ROWS /\ Len(slot[i].out) <= MAX_GEN
          /\ Fits(slot[i]) /\ chosen[i] \in Answers /\ slot'[i] = Advanced(slot[i], chosen[i])
        BY <1>1, RunFits, TheSlots DEF IInv
    <2>2. /\ slot'[i] \in Entries
          /\ slot'[i].live = slot[i].live /\ slot'[i].req = slot[i].req
          /\ slot'[i].n_prompt = slot[i].n_prompt
          /\ IF IsServed(slot[i]) THEN AdvanceOf(slot[i], chosen[i], slot'[i])
                                  ELSE slot'[i] = slot[i]
        BY <2>1, AdvancedIs
    <2>3. chosen[i] \in Tokens
        BY <2>1, TheConstants
    <2> QED
        BY <2>1, <2>2, <2>3
<1> DEFINE S == {r \in Requests : \E i \in LiveEntries : slot[i].req = r /\ IsServed(slot[i])}
<1>3. ASSUME NEW r \in S
      PROVE  Alone!IsOpen(r) /\ Alone!Served(r)
    <2>1. PICK i \in LiveEntries : slot[i].req = r /\ IsServed(slot[i])
        OBVIOUS
    <2>2. i \in BatchSlots /\ i \in LiveEntries' /\ slot'[i].req = r /\ r \in Requests
        BY <1>2, <2>1 DEF LiveEntries
    <2> DEFINE s == EntryStream(slot[i], kv[i])
               z == EntryStream(slot'[i], kv[i])
               n == slot[i].served
               tok == chosen[i]
    <2>3. StreamOf(r) = s
        BY <2>1, <2>2, StreamsNow DEF StreamsAreRead, IInv
    <2>4. StreamOf(r)' = z
        <3>1. StreamOf(r)' = EntryStream(slot'[i], kv'[i])
            BY <2>2, StreamsThen DEF StreamsAreRead, IInv
        <3> QED
            BY <1>1, <3>1
    <2>5. \A j \in 1 .. n : kv[i][slot[i].hist + j - 1] = slot[i].pending[j]
        BY <1>1, <2>1 DEF IInv, Ran
    <2>6. kv[i] \in [Positions -> TextTokens]
        BY <2>2 DEF IInv, Typed
    <2>7. /\ n \in 1 .. Len(s.text) - s.done
          /\ z = IF Alone!Owed(Alone!Ran(s, n))
                 THEN Alone!Answered(Alone!Ran(s, n), tok) ELSE Alone!Ran(s, n)
        BY <1>2, <2>1, <2>2, <2>5, <2>6, ServedStream
    <2>8. tok \in Tokens /\ s.open
        BY <1>2, <2>2 DEF EntryStream
    <2> HIDE DEF s, z, n, tok, S
    <2>9. Streams[r] = s /\ Streams'[r] = z
        BY <2>2, <2>3, <2>4 DEF Streams
    <2>10. Alone!IsOpen(r)
        BY <2>8, <2>9 DEF Alone!IsOpen, Streams
    <2>11. Alone!Served(r)
        BY <2>7, <2>8, <2>9 DEF Alone!Served, Streams
    <2> QED
        BY <2>10, <2>11
<1>4. ASSUME NEW r \in Requests \ S
      PROVE  StreamOf(r)' = StreamOf(r)
    <2>1. \A j \in BatchSlots :
            (slot[j].live /\ slot[j].req = r) = (slot'[j].live /\ slot'[j].req = r)
        BY <1>2
    <2>2. ASSUME NEW j \in BatchSlots, slot[j].live, slot[j].req = r
          PROVE  EntryStream(slot'[j], kv'[j]) = EntryStream(slot[j], kv[j])
        <3>1. ~IsServed(slot[j])
            BY <2>2 DEF LiveEntries
        <3> QED
            BY <1>1, <1>2, <3>1
    <2> QED
        BY <2>1, <2>2, StreamKept DEF IInv
<1>5. S # {}
    <2>1. PICK i \in LiveEntries : IsServed(slot[i])
        BY <1>1, SomebodyServed
    <2>2. slot[i].req \in Requests
        BY DEF IInv, Residents
    <2> QED
        BY <2>1, <2>2
<1> HIDE DEF S
<1>6. S \in SUBSET {r \in Requests : Alone!IsOpen(r)}
    BY <1>3 DEF S
<1>7. \A r \in Requests \ S : Streams'[r] = Streams[r]
    BY <1>4 DEF Streams
<1>8. Streams' \in [Requests -> {Streams'[r] : r \in Requests}]
    <2> DEFINE f == Streams'
    <2>1. f = [r \in Requests |-> f[r]]
        BY DEF Streams
    <2> HIDE DEF f
    <2>2. f \in [Requests -> {f[r] : r \in Requests}]
        BY <2>1
    <2> QED
        BY <2>2 DEF f
<1> QED
    BY <1>3, <1>5, <1>6, <1>7, <1>8 DEF Alone!Compute, Streams

LEMMA StartsClosed ==
    Init => Alone!Init
<1> SUFFICES ASSUME Init PROVE Alone!Init
    OBVIOUS
<1>1. LiveEntries = {} /\ IInv
    BY FreeEntryIs, InitHolds DEF Init, LiveEntries
<1>2. \A r \in Requests : StreamOf(r) = Alone!Closed
    BY <1>1, StreamsNow DEF StreamsAreRead, IInv
<1> QED
    BY <1>2 DEF Alone!Init

LEMMA StepsAlone ==
    IInv /\ IInv' /\ [Next]_vars => [Alone!Next]_Streams
<1> SUFFICES ASSUME IInv, IInv', [Next]_vars PROVE [Alone!Next]_Streams
    OBVIOUS
<1>1. ASSUME NEW r \in Requests, NEW p \in Prompts, NEW budget \in Budgets,
             NEW n \in 1 .. Len(p), NEW m \in Matches(p, n), add(r, p, n, m, budget)
      PROVE  Alone!Next
    BY <1>1, AddOpens DEF Alone!Next
<1>2. ASSUME NEW i \in BatchSlots, feed(i) PROVE Alone!Next
    BY <1>2, FeedGives DEF Alone!Next
<1>3. ASSUME NEW i \in BatchSlots, drop(i) PROVE Alone!Next
    BY <1>3, DropCloses DEF Alone!Next
<1>4. ASSUME plan PROVE UNCHANGED Streams
    BY <1>4, PlanStutters
<1>5. ASSUME forward PROVE UNCHANGED Streams
    BY <1>5, ForwardStutters
<1>6. ASSUME NEW chosen \in [BatchSlots -> Answers], advance(chosen) PROVE Alone!Next
    BY <1>6, AdvanceComputes DEF Alone!Next
<1>7. ASSUME finish \/ UNCHANGED vars PROVE UNCHANGED Streams
    <2>1. UNCHANGED <<slot, kv>>
        BY <1>7 DEF finish, vars
    <2> QED
        BY <2>1, SameStreams
<1> QED
    BY <1>1, <1>2, <1>3, <1>4, <1>5, <1>6, <1>7 DEF Next, Arrive

\* Batching is invisible: each request's text is run in order, once, from the
\* first token that is not cached on, at its own positions, and its answers
\* follow its whole prompt, whoever shares its steps.
THEOREM ExecutorRunsAlone == Spec => RunsAlone
<1>1. Init => Alone!Init
    BY StartsClosed
<1>2. IInv /\ IInv' /\ [Next]_vars => [Alone!Next]_[r \in Requests |-> StreamOf(r)]
    BY StepsAlone DEF Streams
<1> QED
    BY <1>1, <1>2, Invariance, PTL DEF Spec, RunsAlone, Alone!Spec
=============================================================================
