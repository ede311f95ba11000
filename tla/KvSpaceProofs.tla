--------------------------- MODULE KvSpaceProofs ---------------------------
(***************************************************************************)
(* What the operations of the KV space do to the references, for every     *)
(* size of the pool, the tree, the tables and the blocks.  A view is the   *)
(* list of blocks of one page table or of one tree node; the counts are    *)
(* right when a block's count is the number of places it has in all views. *)
(* Every loop of the source is a recursive function here, and is followed  *)
(* by the set of values it may have after i turns (Loop).                  *)
(***************************************************************************)
EXTENDS KvRoom, FiniteSetTheorems, SequenceTheorems, WellFoundedInduction, TLAPS

(* Numbers *)

LEMMA LeastOf ==
    ASSUME NEW S \in SUBSET Nat, S # {}
    PROVE  \E i \in S : \A j \in S : i <= j
<1>1. PICK i \in S : \A j \in S : ~ (<<j, i>> \in OpToRel(<, Nat))
  <2>1. IsWellFoundedOn(OpToRel(<, Nat), Nat)
    BY NatLessThanWellFounded
  <2>. HIDE DEF OpToRel
  <2>. QED
    BY <2>1, WFMin
<1>2. OpToRel(<, Nat) = {p \in Nat \X Nat : p[1] < p[2]}
  BY DEF OpToRel
<1>3. ASSUME NEW j \in S PROVE i <= j
  <2>1. ~ (<<j, i>> \in {p \in Nat \X Nat : p[1] < p[2]})
    BY <1>1, <1>2
  <2>2. j \in Nat /\ i \in Nat
    OBVIOUS
  <2>3. ~ (j < i)
    BY <2>1, <2>2
  <2>. QED
    BY <2>2, <2>3
<1>. QED
  BY <1>3

\* What holds at 0 and goes from m to m + 1 holds up to n.
LEMMA UpTo ==
    ASSUME NEW n \in Nat, NEW S, 0 \in S, \A m \in 0 .. n - 1 : m \in S => m + 1 \in S
    PROVE  \A m \in 0 .. n : m \in S
<1>. DEFINE Bad == {m \in 0 .. n : m \notin S}
<1>. SUFFICES ASSUME Bad # {} PROVE FALSE
  OBVIOUS
<1>1. Bad \in SUBSET Nat
  OBVIOUS
<1>2. PICK m \in Bad : \A y \in Bad : m <= y
  <2>. HIDE DEF Bad
  <2>. QED
    BY <1>1, LeastOf
<1>3. m \in 0 .. n /\ m \notin S /\ m # 0
  OBVIOUS
<1>4. m - 1 \in Bad
  BY <1>3
<1>. QED
  BY <1>2, <1>3, <1>4

LEMMA MinOf ==
    ASSUME NEW S \in SUBSET Nat, S # {}
    PROVE  Min(S) \in S /\ \A j \in S : Min(S) <= j
<1>1. \E i \in S : \A j \in S : i <= j
  BY LeastOf
<1>. QED
  BY <1>1 DEF Min

LEMMA MaxOf ==
    ASSUME NEW n \in Nat, NEW S \in SUBSET (0 .. n), S # {}
    PROVE  Max(S) \in S /\ \A j \in S : Max(S) >= j
<1>. DEFINE Far == {k \in 0 .. n : n - k \in S}
<1>1. Far \in SUBSET Nat /\ Far # {}
  <2>1. PICK x \in S : TRUE
    OBVIOUS
  <2>2. x \in 0 .. n /\ n - x \in 0 .. n /\ n - (n - x) = x
    BY <2>1
  <2>3. n - x \in Far
    BY <2>1, <2>2
  <2>4. Far \in SUBSET Nat
    OBVIOUS
  <2>. HIDE DEF Far
  <2>. QED
    BY <2>3, <2>4
<1>2. PICK k \in Far : \A j \in Far : k <= j
  <2>. HIDE DEF Far
  <2>. QED
    BY <1>1, LeastOf
<1>3. n - k \in S
  OBVIOUS
<1>4. ASSUME NEW j \in S PROVE n - k >= j
  <2>1. n - j \in Far /\ j \in 0 .. n
    BY <1>4
  <2>2. k <= n - j /\ k \in 0 .. n
    BY <1>2, <2>1
  <2>. QED
    BY <2>1, <2>2
<1>5. \E i \in S : \A j \in S : i >= j
  BY <1>3, <1>4
<1>. QED
  BY <1>5 DEF Max

LEMMA MinOfTwo ==
    ASSUME NEW a \in Int, NEW b \in Int
    PROVE  Min({a, b}) = IF a <= b THEN a ELSE b
<1>. DEFINE m == IF a <= b THEN a ELSE b
<1>1. m \in {a, b} /\ \A y \in {a, b} : m <= y
  OBVIOUS
<1>2. \A x \in {a, b} : (\A y \in {a, b} : x <= y) => x = m
  OBVIOUS
<1>. QED
  BY <1>1, <1>2 DEF Min

LEMMA MinOfThree ==
    ASSUME NEW a \in Int, NEW b \in Int, NEW c \in Int
    PROVE  /\ Min({a, b, c}) \in {a, b, c}
           /\ Min({a, b, c}) <= a /\ Min({a, b, c}) <= b /\ Min({a, b, c}) <= c
<1>1. \E x \in {a, b, c} : \A y \in {a, b, c} : x <= y
  <2>1. CASE a <= b /\ a <= c
    BY <2>1
  <2>2. CASE b <= a /\ b <= c
    BY <2>2
  <2>3. CASE c <= a /\ c <= b
    BY <2>3
  <2>. QED
    BY <2>1, <2>2, <2>3
<1>2. Min({a, b, c}) \in {a, b, c} /\ \A y \in {a, b, c} : Min({a, b, c}) <= y
  BY <1>1 DEF Min
<1>. QED
  BY <1>2

LEMMA TimesGrow ==
    ASSUME NEW x \in Nat, NEW y \in Nat, NEW b \in Nat, x <= y
    PROVE  b * x <= b * y /\ b * x \in Nat /\ b * y \in Nat
BY SMT

LEMMA TimesNext ==
    ASSUME NEW x \in Nat, NEW b \in Nat
    PROVE  b * (x + 1) = b * x + b /\ b * x \in Nat /\ x * b = b * x
BY SMT

LEMMA DivIs ==
    ASSUME NEW n \in Nat, NEW b \in Nat \ {0}
    PROVE  /\ n \div b \in Nat /\ n % b \in 0 .. b - 1
           /\ n = b * (n \div b) + (n % b) /\ b * (n \div b) \in Nat
<1>1. n \div b \in Nat /\ n % b \in 0 .. b - 1 /\ n = b * (n \div b) + (n % b)
  BY SMT
<1>. QED
  BY <1>1, TimesNext

\* The number of whole blocks for n tokens is the one number of blocks that
\* is enough and not one too many.
LEMMA CeilUnique ==
    ASSUME NEW b \in Nat \ {0}, NEW c \in Nat, NEW d \in Nat, NEW n \in Nat,
           n <= b * c, b * c < n + b, n <= b * d, b * d < n + b
    PROVE  c = d
<1>1. \A x, y \in Nat : x + 1 <= y => b * x + b <= b * y
  <2>. TAKE x, y \in Nat
  <2>. HAVE x + 1 <= y
  <2>1. b * (x + 1) <= b * y /\ b * (x + 1) = b * x + b
    BY TimesGrow, TimesNext
  <2>. QED
    BY <2>1
<1>2. b * c \in Nat /\ b * d \in Nat
  BY TimesNext
<1>3. CASE c + 1 <= d
  <2>1. b * c + b <= b * d
    BY <1>1, <1>3
  <2>. QED
    BY <1>2, <2>1
<1>4. CASE d + 1 <= c
  <2>1. b * d + b <= b * c
    BY <1>1, <1>4
  <2>. QED
    BY <1>2, <2>1
<1>. QED
  BY <1>3, <1>4

LEMMA CeilIs ==
    ASSUME NEW b \in Nat \ {0}, NEW n \in Nat
    PROVE  /\ ceil_div(n, b) \in Nat
           /\ n <= b * ceil_div(n, b) /\ b * ceil_div(n, b) < n + b
           /\ b * ceil_div(n, b) \in Nat
<1>. DEFINE m == n + b - 1
            q == m \div b
<1>1. m \in Nat /\ ceil_div(n, b) = q
  BY DEF ceil_div
<1>2. q \in Nat /\ m % b \in 0 .. b - 1 /\ m = b * q + (m % b) /\ b * q \in Nat
  <2>. HIDE DEF m
  <2>. QED
    BY <1>1, DivIs
<1>. DEFINE z == b * q
<1>3. z \in Nat /\ n + b - 1 = z + (m % b)
  BY <1>2
<1>. HIDE DEF z, q
<1>4. n <= z /\ z < n + b
  BY <1>2, <1>3
<1>. QED
  BY <1>1, <1>2, <1>4 DEF z

LEMMA CeilOf ==
    ASSUME NEW b \in Nat \ {0}, NEW n \in Nat, NEW c \in Nat, n <= b * c, b * c < n + b
    PROVE  ceil_div(n, b) = c
BY CeilIs, CeilUnique

LEMMA CeilGrows ==
    ASSUME NEW b \in Nat \ {0}, NEW n \in Nat, NEW m \in Nat, n <= m
    PROVE  ceil_div(n, b) <= ceil_div(m, b)
<1>. DEFINE c == ceil_div(n, b)
            d == ceil_div(m, b)
<1>1. c \in Nat /\ d \in Nat /\ b * c < n + b /\ m <= b * d
  BY CeilIs
<1>. HIDE DEF c, d
<1>2. SUFFICES ASSUME d + 1 <= c PROVE FALSE
  BY <1>1 DEF c, d
<1>3. b * (d + 1) <= b * c /\ b * (d + 1) = b * d + b /\ b * d \in Nat /\ b * c \in Nat
  BY <1>1, <1>2, TimesGrow, TimesNext
<1>. QED
  BY <1>1, <1>3

\* Whole blocks in front do not change how many the rest needs.
LEMMA CeilShift ==
    ASSUME NEW b \in Nat \ {0}, NEW q \in Nat, NEW n \in Nat
    PROVE  ceil_div(b * q + n, b) = q + ceil_div(n, b)
<1>. DEFINE c == ceil_div(n, b)
<1>1. c \in Nat /\ n <= b * c /\ b * c < n + b /\ b * c \in Nat
  BY CeilIs
<1>. HIDE DEF c
<1>2. b * (q + c) = b * q + b * c /\ b * q \in Nat
  BY <1>1, SMT
<1>3. q + c \in Nat /\ b * q + n \in Nat
  BY <1>1, <1>2
<1>4. b * q + n <= b * (q + c) /\ b * (q + c) < (b * q + n) + b
  BY <1>1, <1>2
<1>5. ceil_div(b * q + n, b) = q + c
  BY <1>3, <1>4, CeilOf
<1>. QED
  BY <1>5 DEF c

LEMMA CeilPositive ==
    ASSUME NEW b \in Nat \ {0}, NEW n \in Nat \ {0}
    PROVE  ceil_div(n, b) \in Nat \ {0}
<1>1. ceil_div(n, b) \in Nat /\ n <= b * ceil_div(n, b)
  BY CeilIs
<1>2. ceil_div(n, b) # 0
  <2>1. SUFFICES ASSUME ceil_div(n, b) = 0 PROVE FALSE
    OBVIOUS
  <2>2. b * 0 = 0
    BY SMT
  <2>. QED
    BY <1>1, <2>1, <2>2
<1>. QED
  BY <1>1, <1>2
-----------------------------------------------------------------------------
(* Loops *)

\* V[i] are the values a loop may have after i turns, F[i] is its i-th turn.
IsLoop(n, V, F, base) ==
    n \in Nat /\ base \in V[0] /\ \A i \in 1 .. n : \A x \in V[i - 1] : F[i][x] \in V[i]

LoopOf(n, V, F, base, g) ==
    /\ g = [i \in 0 .. n |-> IF i = 0 THEN base ELSE F[i][g[i - 1]]]
    /\ \A i \in 0 .. n : g[i] \in V[i]

LEMMA Loop ==
    ASSUME NEW n, NEW V, NEW F, NEW base, IsLoop(n, V, F, base)
    PROVE  \E g : LoopOf(n, V, F, base, g)
<1>0. n \in Nat /\ base \in V[0] /\ \A i \in 1 .. n : \A x \in V[i - 1] : F[i][x] \in V[i]
  BY DEF IsLoop
<1>. DEFINE Builds(m, g) ==
              /\ g = [i \in 0 .. m |-> IF i = 0 THEN base ELSE F[i][g[i - 1]]]
              /\ \A i \in 0 .. m : g[i] \in V[i]
            N == {m \in 0 .. n : \E g : Builds(m, g)}
<1>1. 0 \in N
  <2>. DEFINE g == [i \in 0 .. 0 |-> base]
  <2>1. Builds(0, g)
    BY <1>0
  <2>2. \E e : Builds(0, e)
    BY <2>1
  <2>. QED
    BY <1>0, <2>2
<1>2. ASSUME NEW m \in 0 .. n - 1, m \in N PROVE m + 1 \in N
  <2>1. PICK g : Builds(m, g)
    BY <1>2
  <2>. DEFINE h == [i \in 0 .. m + 1 |-> IF i = m + 1 THEN F[i][g[m]] ELSE g[i]]
  <2>2. \A i \in 0 .. m : h[i] = g[i]
    OBVIOUS
  <2>3. h[m + 1] = F[m + 1][h[m]]
    BY <2>2
  <2>4. \A i \in 0 .. m + 1 : h[i] = IF i = 0 THEN base ELSE F[i][h[i - 1]]
    <3>1. TAKE i \in 0 .. m + 1
    <3>2. CASE i = m + 1
      BY <2>3, <3>2
    <3>3. CASE i = 0
      BY <2>1, <2>2, <3>3
    <3>4. CASE i \in 1 .. m
      <4>1. h[i] = g[i] /\ h[i - 1] = g[i - 1] /\ i \in 0 .. m
        BY <2>2, <3>4
      <4>2. g[i] = F[i][g[i - 1]]
        BY <2>1, <3>4
      <4>. QED
        BY <3>4, <4>1, <4>2
    <3>. QED
      BY <3>2, <3>3, <3>4
  <2>5. \A i \in 0 .. m + 1 : h[i] \in V[i]
    <3>1. g[m] \in V[m] /\ m + 1 \in 1 .. n /\ (m + 1) - 1 = m
      BY <1>0, <2>1
    <3>2. F[m + 1][g[m]] \in V[m + 1]
      BY <1>0, <3>1
    <3>. QED
      BY <2>1, <3>2
  <2>6. h = [i \in 0 .. m + 1 |-> IF i = 0 THEN base ELSE F[i][h[i - 1]]]
    <3>1. h = [i \in 0 .. m + 1 |-> h[i]]
      OBVIOUS
    <3>. HIDE DEF h
    <3>. QED
      BY <2>4, <3>1
  <2>7. Builds(m + 1, h)
    BY <2>5, <2>6
  <2>8. \E e : Builds(m + 1, e)
    BY <2>7
  <2>9. m + 1 \in 0 .. n
    BY <1>0
  <2>. HIDE DEF Builds
  <2>. QED
    BY <2>8, <2>9
<1>3. n \in N
  <2>. HIDE DEF N
  <2>. QED
    BY <1>0, <1>1, <1>2, UpTo
<1>4. PICK g : Builds(n, g)
  <2>. HIDE DEF Builds
  <2>. QED
    BY <1>3
<1>5. LoopOf(n, V, F, base, g)
  BY <1>4 DEF LoopOf
<1>. QED
  BY <1>5

LoopIs(n, V, F, base, g) ==
    /\ g = [i \in 0 .. n |-> g[i]]
    /\ g[0] = base
    /\ \A i \in 1 .. n : g[i] = F[i][g[i - 1]]
    /\ \A i \in 0 .. n : g[i] \in V[i]

LEMMA LoopRuns ==
    ASSUME NEW n, NEW V, NEW F, NEW base, IsLoop(n, V, F, base)
    PROVE  \E g : LoopIs(n, V, F, base, g)
<1>1. n \in Nat /\ base \in V[0] /\ \A i \in 1 .. n : \A x \in V[i - 1] : F[i][x] \in V[i]
  BY DEF IsLoop
<1>o. PICK g : LoopOf(n, V, F, base, g)
  BY Loop
<1>2. /\ g = [i \in 0 .. n |-> IF i = 0 THEN base ELSE F[i][g[i - 1]]]
      /\ \A i \in 0 .. n : g[i] \in V[i]
  BY <1>o DEF LoopOf
<1>3. g[0] = base /\ \A i \in 1 .. n : g[i] = F[i][g[i - 1]]
  BY <1>1, <1>2
<1>4. g = [i \in 0 .. n |-> g[i]]
  BY <1>2
<1>5. LoopIs(n, V, F, base, g)
  BY <1>2, <1>3, <1>4 DEF LoopIs
<1>. QED
  BY <1>5

LEMMA LoopTurn ==
    ASSUME NEW n \in Nat, NEW V, NEW h, h[0] \in V[0],
           \A i \in 1 .. n : h[i - 1] \in V[i - 1] => h[i] \in V[i]
    PROVE  \A i \in 0 .. n : h[i] \in V[i]
<1>. DEFINE S == {i \in 0 .. n : h[i] \in V[i]}
<1>1. 0 \in S
  OBVIOUS
<1>2. ASSUME NEW m \in 0 .. n - 1, m \in S PROVE m + 1 \in S
  <2>1. m + 1 \in 1 .. n /\ (m + 1) - 1 = m /\ h[m] \in V[m]
    BY <1>2
  <2>. QED
    BY <2>1
<1>3. \A m \in 0 .. n : m \in S
  <2>. HIDE DEF S
  <2>. QED
    BY <1>1, <1>2, UpTo
<1>. QED
  BY <1>3
-----------------------------------------------------------------------------
(* Counting *)

\* How often b is among the first n entries of p, and in all of p.
Among(p, n, b) == Cardinality({i \in 1 .. n : p[i] = b})
Times(p, b)    == Among(p, Len(p), b)

LEMMA AmongStep ==
    ASSUME NEW p, NEW n \in Nat, NEW b
    PROVE  /\ Among(p, n, b) \in Nat
           /\ Among(p, 0, b) = 0
           /\ Among(p, n + 1, b) = Among(p, n, b) + IF p[n + 1] = b THEN 1 ELSE 0
<1>. DEFINE T(m) == {i \in 1 .. m : p[i] = b}
<1>1. \A m \in Nat : IsFiniteSet(T(m)) /\ Cardinality(T(m)) \in Nat
  <2>1. TAKE m \in Nat
  <2>2. IsFiniteSet(1 .. m) /\ T(m) \in SUBSET (1 .. m)
    BY FS_Interval
  <2>3. IsFiniteSet(T(m))
    BY <2>2, FS_Subset
  <2>. QED
    BY <2>3, FS_CardinalityType
<1>2. T(0) = {}
  OBVIOUS
<1>3. T(n + 1) = IF p[n + 1] = b THEN T(n) \cup {n + 1} ELSE T(n)
  OBVIOUS
<1>4. n + 1 \notin T(n)
  OBVIOUS
<1>5. Cardinality(T(n + 1)) = Cardinality(T(n)) + IF p[n + 1] = b THEN 1 ELSE 0
  <2>1. CASE p[n + 1] = b
    <3>1. Cardinality(T(n) \cup {n + 1}) = Cardinality(T(n)) + 1
      <4>. HIDE DEF T
      <4>. QED
        BY <1>1, <1>4, FS_AddElement
    <3>. QED
      BY <1>3, <2>1, <3>1
  <2>2. CASE p[n + 1] # b
    <3>1. T(n + 1) = T(n)
      BY <1>3, <2>2
    <3>. HIDE DEF T
    <3>. QED
      BY <1>1, <2>2, <3>1
  <2>. QED
    BY <2>1, <2>2
<1>6. Cardinality(T(0)) = 0
  BY <1>2, FS_EmptySet
<1>7. \A m : Among(p, m, b) = Cardinality(T(m))
  BY DEF Among
<1>. HIDE DEF T
<1>. QED
  BY <1>1, <1>5, <1>6, <1>7

LEMMA AmongNone ==
    ASSUME NEW p, NEW b
    PROVE  Among(p, 0, b) = 0
<1>1. 0 \in Nat
  OBVIOUS
<1>. QED
  BY <1>1, AmongStep

LEMMA AmongNat ==
    ASSUME NEW p, NEW n \in Nat, NEW b
    PROVE  Among(p, n, b) \in Nat
BY AmongStep

LEMMA AmongNext ==
    ASSUME NEW p, NEW n \in Nat, NEW m, m = n + 1, NEW b
    PROVE  Among(p, m, b) = Among(p, n, b) + IF p[m] = b THEN 1 ELSE 0
BY AmongStep

LEMMA AmongSome ==
    ASSUME NEW p, NEW n \in Nat, NEW i \in 1 .. n
    PROVE  Among(p, n, p[i]) > 0
<1>. DEFINE T == {j \in 1 .. n : p[j] = p[i]}
<1>1. IsFiniteSet(1 .. n) /\ T \in SUBSET (1 .. n)
  BY FS_Interval
<1>2. IsFiniteSet(T) /\ T # {}
  BY <1>1, FS_Subset
<1>3. Cardinality(T) \in Nat /\ Cardinality(T) # 0
  <2>. HIDE DEF T
  <2>. QED
    BY <1>2, FS_CardinalityType, FS_EmptySet
<1>4. Among(p, n, p[i]) = Cardinality(T)
  BY DEF Among
<1>. QED
  BY <1>3, <1>4

LEMMA AmongUpTo ==
    ASSUME NEW p, NEW n \in Nat, NEW m \in 0 .. n, NEW b
    PROVE  Among(p, m, b) <= Among(p, n, b)
<1>1. IsFiniteSet({i \in 1 .. n : p[i] = b})
  <2>1. IsFiniteSet(1 .. n)
    BY FS_Interval
  <2>. QED
    BY <2>1, FS_Subset
<1>2. {i \in 1 .. m : p[i] = b} \subseteq {i \in 1 .. n : p[i] = b}
  OBVIOUS
<1>. QED
  BY <1>1, <1>2, FS_Subset DEF Among

LEMMA AmongSame ==
    ASSUME NEW p, NEW q, NEW n \in Nat, NEW b, \A i \in 1 .. n : p[i] = q[i]
    PROVE  Among(p, n, b) = Among(q, n, b)
<1>1. {i \in 1 .. n : p[i] = b} = {i \in 1 .. n : q[i] = b}
  OBVIOUS
<1>. QED
  BY <1>1 DEF Among

LEMMA TimesEmpty ==
    ASSUME NEW b
    PROVE  Times(<<>>, b) = 0
<1>1. Len(<<>>) = 0
  OBVIOUS
<1>. QED
  BY <1>1, AmongNone DEF Times

LEMMA TimesAppend ==
    ASSUME NEW S, NEW p \in Seq(S), NEW e \in S, NEW b
    PROVE  Times(Append(p, e), b) = Times(p, b) + IF e = b THEN 1 ELSE 0
<1>. DEFINE q == Append(p, e)
<1>1. Len(q) = Len(p) + 1 /\ Len(p) \in Nat /\ q[Len(p) + 1] = e
      /\ \A i \in 1 .. Len(p) : q[i] = p[i]
  BY AppendProperties, LenProperties
<1>. HIDE DEF q
<1>2. Among(q, Len(p) + 1, b) = Among(q, Len(p), b) + IF q[Len(p) + 1] = b THEN 1 ELSE 0
  <2>. DEFINE n == Len(p)
  <2>1. n \in Nat
    BY <1>1
  <2>. HIDE DEF n
  <2>. DEFINE m == n + 1
  <2>2. m = n + 1
    OBVIOUS
  <2>. HIDE DEF m
  <2>3. Among(q, m, b) = Among(q, n, b) + IF q[m] = b THEN 1 ELSE 0
    BY <2>1, <2>2, AmongNext
  <2>. QED
    BY <2>3 DEF n, m
<1>3. Among(q, Len(p), b) = Among(p, Len(p), b)
  BY <1>1, AmongSame
<1>. QED
  BY <1>1, <1>2, <1>3 DEF Times, q

LEMMA TimesCut ==
    ASSUME NEW S, NEW p \in Seq(S), NEW k \in 0 .. Len(p), NEW b
    PROVE  Times(p, b) = Times(SubSeq(p, 1, k), b) + Times(SubSeq(p, k + 1, Len(p)), b)
<1>. DEFINE f == SubSeq(p, 1, k)
            r == SubSeq(p, k + 1, Len(p))
            n == Len(p) - k
<1>1. Len(p) \in Nat /\ (\A i \in 1 .. Len(p) : p[i] \in S) /\ n \in Nat
  BY LenProperties, ElementOfSeq
<1>2. Len(f) = k /\ \A i \in 1 .. k : f[i] = p[i]
  <2>1. \A i \in 1 .. k : p[i] \in S
    BY <1>1
  <2>2. /\ Len(f) = IF 1 <= k THEN k - 1 + 1 ELSE 0
        /\ \A i \in 1 .. k - 1 + 1 : f[i] = p[1 + i - 1]
    BY <1>1, <2>1, SubSeqProperties
  <2>. HIDE DEF f
  <2>. QED
    BY <1>1, <2>2
<1>3. Len(r) = n /\ \A i \in 1 .. n : r[i] = p[k + i]
  <2>1. \A i \in k + 1 .. Len(p) : p[i] \in S
    BY <1>1
  <2>2. /\ Len(r) = IF k + 1 <= Len(p) THEN Len(p) - (k + 1) + 1 ELSE 0
        /\ \A i \in 1 .. Len(p) - (k + 1) + 1 : r[i] = p[(k + 1) + i - 1]
    BY <1>1, <2>1, SubSeqProperties
  <2>3. Len(p) - (k + 1) + 1 = n /\ \A i \in 1 .. n : (k + 1) + i - 1 = k + i
    BY <1>1
  <2>. HIDE DEF r
  <2>4. Len(r) = n
    BY <1>1, <2>2
  <2>. HIDE DEF n
  <2>5. \A i \in 1 .. n : r[i] = p[k + i]
    BY <2>2, <2>3
  <2>. QED
    BY <2>4, <2>5
<1>. HIDE DEF f, r, n
<1>4. Len(p) = k + n /\ k \in Nat /\ n \in Nat
  BY <1>1 DEF n
<1>. DEFINE P == {m \in 0 .. n : Among(p, k + m, b) = Among(p, k, b) + Among(r, m, b)}
<1>5. n \in P
  <2>1. 0 \in P
    <3>1. Among(r, 0, b) = 0
      BY AmongNone
    <3>2. Among(p, k, b) \in Nat
      BY <1>4, AmongNat
    <3>. QED
      BY <1>4, <3>1, <3>2
  <2>2. ASSUME NEW m \in 0 .. n - 1, m \in P PROVE m + 1 \in P
    <3>1. /\ Among(p, k + m + 1, b) = Among(p, k + m, b) + IF p[k + m + 1] = b THEN 1 ELSE 0
          /\ Among(r, m + 1, b) = Among(r, m, b) + IF r[m + 1] = b THEN 1 ELSE 0
          /\ Among(p, k, b) \in Nat /\ Among(r, m, b) \in Nat
      <4>1. k + m \in Nat /\ m \in Nat
        BY <1>4
      <4>. QED
        BY <1>4, <4>1, AmongNext, AmongNat, SMTT(60)
    <3>2. r[m + 1] = p[k + m + 1] /\ m + 1 \in 0 .. n /\ k + (m + 1) = k + m + 1
      <4>1. r[m + 1] = p[k + (m + 1)] /\ k + (m + 1) = k + m + 1
        BY <1>3, <1>4
      <4>. QED
        BY <1>4, <4>1
    <3>3. Among(p, k + m, b) = Among(p, k, b) + Among(r, m, b)
      BY <2>2
    <3>4. Among(p, k + (m + 1), b) = Among(p, k, b) + Among(r, m + 1, b)
      BY <3>1, <3>2, <3>3
    <3>. QED
      BY <3>2, <3>4
  <2>3. \A m \in 0 .. n : m \in P
    <3>. HIDE DEF P
    <3>. QED
      BY <1>4, <2>1, <2>2, UpTo
  <2>. HIDE DEF P
  <2>. QED
    BY <1>4, <2>3
<1>6. Among(p, k, b) = Among(f, k, b)
  BY <1>2, AmongSame
<1>7. Among(p, Len(p), b) = Among(p, k, b) + Among(r, n, b)
  BY <1>4, <1>5
<1>. QED
  BY <1>2, <1>3, <1>6, <1>7 DEF Times, f, r
-----------------------------------------------------------------------------
(* Types *)

Pools == [refcnt : [Blocks -> Nat], free_stack : Seq(Blocks), used : Int]

\* A run of a page table lies inside one block.
Runs == {r \in [block : Blocks, start : Nat, len : Nat \ {0}] : r.start + r.len <= block_size}

Requests == [ live : BOOLEAN, id : Nat, ntok : 0 .. MAX_SEQ_TOKENS, priv : BOOLEAN,
              tok : [1 .. MAX_SEQ_TOKENS -> Nat], table : Seq(Runs) ]

TreeNodes == [ alive : BOOLEAN, parent : Nodes \cup {INVALID}, kids : Seq(Nodes),
               tokens : Seq(Nat), offset : Nat, blocks : Seq(Blocks), freq : Nat ]

Spaces == [ pool : Pools, tree : [Nodes -> TreeNodes], rq : [Slots -> Requests],
            ok : BOOLEAN ]

LEMMA TheConstants ==
    /\ block_size \in Nat \ {0} /\ MAX_BLOCKS \in Nat \ {0} /\ MAX_REQUESTS \in Nat \ {0}
    /\ MAX_NODES \in Nat \ {0, 1} /\ MAX_NODE_TOKENS \in Nat \ {0}
    /\ MAX_NODE_BLOCKS \in Nat /\ MAX_BLOCKS_PER_SEQ \in Nat /\ MAX_SEQ_TOKENS \in Nat
    /\ Slots = 0 .. MAX_REQUESTS - 1 /\ Nodes = 0 .. MAX_NODES - 1
    /\ Blocks = 0 .. MAX_BLOCKS - 1
    /\ ROOT = 0 /\ INVALID = -1 /\ ROOT \in Nodes /\ INVALID \notin Nodes
BY RoomAssumption DEF Slots, Nodes, Blocks, ROOT, INVALID

LEMMA SpaceFields ==
    ASSUME NEW kv \in Spaces
    PROVE  /\ kv.pool \in Pools /\ kv.tree \in [Nodes -> TreeNodes]
           /\ kv.rq \in [Slots -> Requests] /\ kv.ok \in BOOLEAN
BY DEF Spaces

LEMMA RequestFields ==
    ASSUME NEW q \in Requests
    PROVE  /\ q.live \in BOOLEAN /\ q.id \in Nat /\ q.ntok \in 0 .. MAX_SEQ_TOKENS
           /\ q.priv \in BOOLEAN /\ q.tok \in [1 .. MAX_SEQ_TOKENS -> Nat]
           /\ q.table \in Seq(Runs)
BY DEF Requests

LEMMA NodeFields ==
    ASSUME NEW t \in [Nodes -> TreeNodes], NEW x \in Nodes
    PROVE  /\ t[x] \in TreeNodes
           /\ t[x].alive \in BOOLEAN /\ t[x].parent \in Nodes \cup {INVALID}
           /\ t[x].kids \in Seq(Nodes) /\ t[x].tokens \in Seq(Nat)
           /\ t[x].offset \in Nat /\ t[x].blocks \in Seq(Blocks) /\ t[x].freq \in Nat
<1>1. t[x] \in TreeNodes
  OBVIOUS
<1>. QED
  BY <1>1 DEF TreeNodes

LEMMA RunFields ==
    ASSUME NEW r \in Runs
    PROVE  /\ r.block \in Blocks /\ r.start \in Nat /\ r.len \in Nat \ {0}
           /\ r.start + r.len <= block_size
BY DEF Runs

LEMMA RunMade ==
    ASSUME NEW b \in Blocks, NEW start \in Nat, NEW len \in Nat \ {0},
           start + len <= block_size
    PROVE  [block |-> b, start |-> start, len |-> len] \in Runs
<1>. DEFINE r == [block |-> b, start |-> start, len |-> len]
<1>1. r \in [block : Blocks, start : Nat, len : Nat \ {0}]
  OBVIOUS
<1>2. r.start + r.len <= block_size
  OBVIOUS
<1>. QED
  BY <1>1, <1>2 DEF Runs

LEMMA BlocksOfTable ==
    ASSUME NEW table \in Seq(Runs)
    PROVE  /\ TableBlocks(table) \in Seq(Blocks) /\ Len(TableBlocks(table)) = Len(table)
           /\ \A i \in 1 .. Len(table) : TableBlocks(table)[i] = table[i].block
<1>1. DOMAIN table = 1 .. Len(table) /\ Len(table) \in Nat
  BY LenProperties
<1>2. \A i \in 1 .. Len(table) : table[i].block \in Blocks
  BY ElementOfSeq, RunFields
<1>3. TableBlocks(table) = [i \in 1 .. Len(table) |-> table[i].block]
  BY <1>1 DEF TableBlocks
<1>4. TableBlocks(table) \in [1 .. Len(table) -> Blocks]
  BY <1>2, <1>3
<1>. DEFINE T == TableBlocks(table)
            n == Len(table)
<1>5. T \in [1 .. n -> Blocks] /\ n \in Nat
  BY <1>1, <1>4
<1>. HIDE DEF T, n
<1>6. T \in Seq(Blocks)
  BY <1>5, SeqDef
<1>7. Len(T) = n
  BY <1>5, <1>6, LenProperties
<1>. QED
  BY <1>3, <1>6, <1>7 DEF T, n
-----------------------------------------------------------------------------
(* Views *)

Keys == ({"request"} \X Slots) \cup ({"node"} \X Nodes)

NodeView(t, x) == IF x \in AliveNodes(t) THEN t[x].blocks ELSE <<>>

Views(kv) ==
    [k \in Keys |-> IF k[1] = "request" THEN TableBlocks(kv.rq[k[2]].table)
                                        ELSE NodeView(kv.tree, k[2])]

\* The places of b in view k, and in all of them.
PlacesIn(F, k, b) == {<<k[1], k[2], i>> : i \in {i \in 1 .. Len(F[k]) : F[k][i] = b}}
Places(F, b) == UNION {PlacesIn(F, k, b) : k \in Keys}

\* The number of references to b there should be.
Refs(kv, b) == Cardinality(HoldersIn(kv, Slots, b))

LEMMA KeysAre ==
    /\ \A s \in Slots : <<"request", s>> \in Keys
    /\ \A x \in Nodes : <<"node", x>> \in Keys
    /\ \A k \in Keys : \/ k[1] = "request" /\ k[2] \in Slots /\ k = <<"request", k[2]>>
                       \/ k[1] = "node" /\ k[2] \in Nodes /\ k = <<"node", k[2]>>
    /\ IsFiniteSet(Keys)
<1>1. IsFiniteSet(Slots) /\ IsFiniteSet(Nodes)
  BY TheConstants, FS_Interval
<1>2. IsFiniteSet({"request"}) /\ IsFiniteSet({"node"})
  BY FS_Singleton
<1>3. IsFiniteSet({"request"} \X Slots)
  BY <1>1, <1>2, FS_Product
<1>4. IsFiniteSet({"node"} \X Nodes)
  BY <1>1, <1>2, FS_Product
<1>5. IsFiniteSet(Keys)
  BY <1>3, <1>4, FS_Union DEF Keys
<1>. QED
  BY <1>5 DEF Keys

LEMMA ViewsTyped ==
    ASSUME NEW kv \in Spaces
    PROVE  /\ Views(kv) \in [Keys -> Seq(Blocks)]
           /\ \A s \in Slots : Views(kv)[<<"request", s>>] = TableBlocks(kv.rq[s].table)
           /\ \A x \in Nodes : Views(kv)[<<"node", x>>] = NodeView(kv.tree, x)
<1>1. \A s \in Slots : TableBlocks(kv.rq[s].table) \in Seq(Blocks)
  <2>1. TAKE s \in Slots
  <2>2. kv.rq[s] \in Requests
    BY SpaceFields
  <2>3. kv.rq[s].table \in Seq(Runs)
    BY <2>2, RequestFields
  <2>. QED
    BY <2>3, BlocksOfTable
<1>2. \A x \in Nodes : NodeView(kv.tree, x) \in Seq(Blocks)
  <2>1. TAKE x \in Nodes
  <2>2. kv.tree[x].blocks \in Seq(Blocks)
    BY SpaceFields, NodeFields
  <2>3. <<>> \in Seq(Blocks)
    BY EmptySeq
  <2>. QED
    BY <2>2, <2>3 DEF NodeView
<1>3. \A k \in Keys : Views(kv)[k] = IF k[1] = "request" THEN TableBlocks(kv.rq[k[2]].table)
                                                         ELSE NodeView(kv.tree, k[2])
  BY DEF Views
<1>4. \A k \in Keys : Views(kv)[k] \in Seq(Blocks)
  <2>1. TAKE k \in Keys
  <2>2. CASE k[1] = "request" /\ k[2] \in Slots
    BY <1>1, <1>3, <2>2
  <2>3. CASE k[1] = "node" /\ k[2] \in Nodes
    BY <1>2, <1>3, <2>3
  <2>. QED
    BY <2>2, <2>3, KeysAre
<1>5. Views(kv) \in [Keys -> Seq(Blocks)]
  <2>1. Views(kv) = [k \in Keys |-> Views(kv)[k]]
    BY DEF Views
  <2>. QED
    BY <1>4, <2>1
<1>6. \A s \in Slots : Views(kv)[<<"request", s>>] = TableBlocks(kv.rq[s].table)
  <2>1. TAKE s \in Slots
  <2>. DEFINE k == <<"request", s>>
  <2>2. k \in Keys /\ k[1] = "request" /\ k[2] = s
    BY KeysAre
  <2>3. k[1] = "request"
    BY <2>2
  <2>. HIDE DEF k
  <2>4. Views(kv)[k] = TableBlocks(kv.rq[s].table)
    BY <1>3, <2>2, <2>3
  <2>. QED
    BY <2>4 DEF k
<1>7. \A x \in Nodes : Views(kv)[<<"node", x>>] = NodeView(kv.tree, x)
  <2>1. TAKE x \in Nodes
  <2>. DEFINE k == <<"node", x>>
  <2>2. k \in Keys /\ k[1] = "node" /\ k[2] = x
    BY KeysAre
  <2>3. ~ k[1] = "request"
    BY <2>2
  <2>. HIDE DEF k
  <2>4. Views(kv)[k] = NodeView(kv.tree, x)
    BY <1>3, <2>2, <2>3
  <2>. QED
    BY <2>4 DEF k
<1>. QED
  BY <1>5, <1>6, <1>7

LEMMA PlacesCounted ==
    ASSUME NEW F \in [Keys -> Seq(Blocks)], NEW k \in Keys, NEW b
    PROVE  IsFiniteSet(PlacesIn(F, k, b)) /\ Cardinality(PlacesIn(F, k, b)) = Times(F[k], b)
<1>. DEFINE T == {i \in 1 .. Len(F[k]) : F[k][i] = b}
            f == [i \in T |-> <<k[1], k[2], i>>]
<1>1. Len(F[k]) \in Nat
  <2>1. F[k] \in Seq(Blocks)
    OBVIOUS
  <2>. QED
    BY <2>1, LenProperties
<1>2. IsFiniteSet(T)
  <2>1. IsFiniteSet(1 .. Len(F[k])) /\ T \in SUBSET (1 .. Len(F[k]))
    BY <1>1, FS_Interval
  <2>. QED
    BY <2>1, FS_Subset
<1>3. PlacesIn(F, k, b) = {f[i] : i \in T}
  BY DEF PlacesIn
<1>4. \A i, j \in T : f[i] = f[j] => i = j
  OBVIOUS
<1>5. f \in Bijection(T, {f[i] : i \in T})
  <2>1. f \in [T -> {f[i] : i \in T}]
    OBVIOUS
  <2>2. DOMAIN f = T
    OBVIOUS
  <2>. HIDE DEF f, T
  <2>3. f \in Injection(T, {f[i] : i \in T})
    BY <1>4, <2>1, <2>2 DEF Injection, IsInjective
  <2>4. f \in Surjection(T, {f[i] : i \in T})
    BY <2>1 DEF Surjection
  <2>. QED
    BY <2>3, <2>4 DEF Bijection
<1>6. IsFiniteSet({f[i] : i \in T}) /\ Cardinality({f[i] : i \in T}) = Cardinality(T)
  <2>. HIDE DEF f, T
  <2>1. ExistsBijection(T, {f[i] : i \in T})
    BY <1>5 DEF ExistsBijection
  <2>. QED
    BY <1>2, <2>1, FS_Bijection
<1>7. Cardinality(T) = Times(F[k], b)
  BY DEF Times, Among
<1>. HIDE DEF T, f
<1>. QED
  BY <1>3, <1>6, <1>7

LEMMA PlacesFinite ==
    ASSUME NEW F \in [Keys -> Seq(Blocks)], NEW K \in SUBSET Keys, NEW b
    PROVE  IsFiniteSet(UNION {PlacesIn(F, k, b) : k \in K})
<1>. DEFINE C == {PlacesIn(F, k, b) : k \in K}
            g == [k \in K |-> PlacesIn(F, k, b)]
<1>1. IsFiniteSet(K)
  BY KeysAre, FS_Subset
<1>2. g \in Surjection(K, C)
  BY DEF Surjection
<1>3. IsFiniteSet(C)
  <2>. HIDE DEF g, C
  <2>. QED
    BY <1>1, <1>2, FS_Surjection
<1>4. \A T \in C : IsFiniteSet(T)
  BY PlacesCounted
<1>. HIDE DEF C
<1>5. IsFiniteSet(UNION C)
  BY <1>3, <1>4, FS_UNION
<1>. QED
  BY <1>5 DEF C

\* Changing one view changes the number of places by what that view loses and
\* gains.
LEMMA PlacesChange ==
    ASSUME NEW F \in [Keys -> Seq(Blocks)], NEW k \in Keys, NEW p \in Seq(Blocks), NEW b
    PROVE  /\ Cardinality(Places(F, b)) \in Nat
           /\ Times(F[k], b) \in Nat /\ Times(F[k], b) <= Cardinality(Places(F, b))
           /\ Times(p, b) \in Nat
           /\ Cardinality(Places([F EXCEPT ![k] = p], b))
                = Cardinality(Places(F, b)) - Times(F[k], b) + Times(p, b)
<1>. DEFINE G == [F EXCEPT ![k] = p]
            R == UNION {PlacesIn(F, j, b) : j \in Keys \ {k}}
<1>1. G \in [Keys -> Seq(Blocks)] /\ G[k] = p /\ \A j \in Keys \ {k} : G[j] = F[j]
  OBVIOUS
<1>. HIDE DEF G
<1>2. R = UNION {PlacesIn(G, j, b) : j \in Keys \ {k}}
  <2>1. \A j \in Keys \ {k} : PlacesIn(G, j, b) = PlacesIn(F, j, b)
    BY <1>1 DEF PlacesIn
  <2>. QED
    BY <2>1
<1>3. Places(F, b) = R \cup PlacesIn(F, k, b)
  BY DEF Places
<1>4. Places(G, b) = R \cup PlacesIn(G, k, b)
  BY <1>2 DEF Places
<1>5. \A H \in {F, G} : R \cap PlacesIn(H, k, b) = {}
  <2>1. ASSUME NEW H, NEW h \in R, h \in PlacesIn(H, k, b) PROVE FALSE
    <3>1. PICK j \in Keys \ {k} : h \in PlacesIn(F, j, b)
      BY <2>1
    <3>2. h[1] = j[1] /\ h[2] = j[2]
      BY <3>1 DEF PlacesIn
    <3>3. h[1] = k[1] /\ h[2] = k[2]
      BY <2>1 DEF PlacesIn
    <3>4. j = k
      BY <3>2, <3>3, KeysAre
    <3>. QED
      BY <3>4
  <2>. HIDE DEF R
  <2>. QED
    BY <2>1
<1>6. IsFiniteSet(R)
  <2>1. Keys \ {k} \in SUBSET Keys
    OBVIOUS
  <2>. QED
    BY <2>1, PlacesFinite
<1>7. /\ IsFiniteSet(PlacesIn(F, k, b)) /\ Cardinality(PlacesIn(F, k, b)) = Times(F[k], b)
      /\ IsFiniteSet(PlacesIn(G, k, b)) /\ Cardinality(PlacesIn(G, k, b)) = Times(p, b)
  BY <1>1, PlacesCounted
<1>. HIDE DEF R
<1>8. Cardinality({}) = 0
  BY FS_EmptySet
<1>9. Cardinality(Places(F, b)) = Cardinality(R) + Times(F[k], b)
  <2>1. Cardinality(R \cup PlacesIn(F, k, b))
          = Cardinality(R) + Cardinality(PlacesIn(F, k, b)) - Cardinality(R \cap PlacesIn(F, k, b))
    BY <1>6, <1>7, FS_Union
  <2>2. Cardinality(R) \in Nat /\ Times(F[k], b) \in Nat
    BY <1>6, <1>7, FS_CardinalityType
  <2>3. Cardinality(R \cap PlacesIn(F, k, b)) = 0
    BY <1>5, <1>8
  <2>4. Cardinality(PlacesIn(F, k, b)) = Times(F[k], b)
    BY <1>7
  <2>5. Cardinality(R \cup PlacesIn(F, k, b)) = Cardinality(R) + Times(F[k], b)
    BY <2>1, <2>2, <2>3, <2>4
  <2>. QED
    BY <1>3, <2>5
<1>10. Cardinality(Places(G, b)) = Cardinality(R) + Times(p, b)
  <2>1. Cardinality(R \cup PlacesIn(G, k, b))
          = Cardinality(R) + Cardinality(PlacesIn(G, k, b)) - Cardinality(R \cap PlacesIn(G, k, b))
    BY <1>6, <1>7, FS_Union
  <2>2. Cardinality(R) \in Nat /\ Times(p, b) \in Nat
    BY <1>6, <1>7, FS_CardinalityType
  <2>3. Cardinality(R \cap PlacesIn(G, k, b)) = 0
    BY <1>5, <1>8
  <2>4. Cardinality(PlacesIn(G, k, b)) = Times(p, b)
    BY <1>7
  <2>5. Cardinality(R \cup PlacesIn(G, k, b)) = Cardinality(R) + Times(p, b)
    BY <2>1, <2>2, <2>3, <2>4
  <2>. QED
    BY <1>4, <2>5
<1>11. Cardinality(R) \in Nat /\ Times(F[k], b) \in Nat /\ Times(p, b) \in Nat
  BY <1>6, <1>7, FS_CardinalityType
<1>. QED
  BY <1>9, <1>10, <1>11 DEF G

LEMMA RefsAre ==
    ASSUME NEW kv \in Spaces, NEW b
    PROVE  Refs(kv, b) = Cardinality(Places(Views(kv), b))
<1>. DEFINE F == Views(kv)
            InTable(s) == {<<"request", s, i>> :
                   i \in {i \in DOMAIN kv.rq[s].table : kv.rq[s].table[i].block = b}}
            InNode(x) == {<<"node", x, i>> :
                   i \in {i \in DOMAIN kv.tree[x].blocks : kv.tree[x].blocks[i] = b}}
            A == UNION {InTable(s) : s \in Slots}
            B == UNION {InNode(x) : x \in AliveNodes(kv.tree)}
<1>1. ASSUME NEW s \in Slots
      PROVE  InTable(s) = PlacesIn(F, <<"request", s>>, b)
  <2>. DEFINE T == kv.rq[s].table
  <2>1. T \in Seq(Runs)
    BY SpaceFields, RequestFields
  <2>2. DOMAIN T = 1 .. Len(T) /\ F[<<"request", s>>] = TableBlocks(T)
    BY <2>1, LenProperties, ViewsTyped
  <2>3. /\ Len(TableBlocks(T)) = Len(T)
        /\ \A i \in 1 .. Len(T) : TableBlocks(T)[i] = T[i].block
    BY <2>1, BlocksOfTable
  <2>. HIDE DEF F, T
  <2>4. {i \in DOMAIN T : T[i].block = b} = {i \in 1 .. Len(TableBlocks(T)) : TableBlocks(T)[i] = b}
    BY <2>2, <2>3
  <2>5. PlacesIn(F, <<"request", s>>, b)
          = {<<"request", s, i>> : i \in {i \in 1 .. Len(TableBlocks(T)) : TableBlocks(T)[i] = b}}
    BY <2>2 DEF PlacesIn
  <2>. QED
    BY <2>4, <2>5 DEF T
<1>2. ASSUME NEW x \in AliveNodes(kv.tree)
      PROVE  InNode(x) = PlacesIn(F, <<"node", x>>, b)
  <2>. DEFINE T == kv.tree[x].blocks
  <2>0. x \in Nodes
    BY DEF AliveNodes
  <2>1. T \in Seq(Blocks)
    BY <2>0, SpaceFields, NodeFields
  <2>2. DOMAIN T = 1 .. Len(T) /\ F[<<"node", x>>] = T
    BY <2>0, <2>1, LenProperties, ViewsTyped DEF NodeView
  <2>. HIDE DEF F, T
  <2>3. PlacesIn(F, <<"node", x>>, b)
          = {<<"node", x, i>> : i \in {i \in 1 .. Len(T) : T[i] = b}}
    BY <2>2 DEF PlacesIn
  <2>. QED
    BY <2>2, <2>3 DEF T
<1>3. ASSUME NEW x \in Nodes \ AliveNodes(kv.tree)
      PROVE  PlacesIn(F, <<"node", x>>, b) = {}
  <2>1. F[<<"node", x>>] = <<>>
    BY ViewsTyped DEF NodeView
  <2>2. Len(<<>>) = 0
    OBVIOUS
  <2>. HIDE DEF F
  <2>. QED
    BY <2>1, <2>2 DEF PlacesIn
<1>4. HoldersIn(kv, Slots, b) = A \cup B
  BY DEF HoldersIn
<1>5. A = UNION {PlacesIn(F, <<"request", s>>, b) : s \in Slots}
  <2>. HIDE DEF F, InTable
  <2>. QED
    BY <1>1
<1>6. B = UNION {PlacesIn(F, <<"node", x>>, b) : x \in Nodes}
  <2>0. \A x \in AliveNodes(kv.tree) : x \in Nodes
    BY DEF AliveNodes
  <2>1. B = UNION {PlacesIn(F, <<"node", x>>, b) : x \in AliveNodes(kv.tree)}
    <3>. HIDE DEF F, InNode
    <3>. QED
      BY <1>2
  <2>. HIDE DEF F, B
  <2>. QED
    BY <1>3, <2>0, <2>1
<1>. HIDE DEF A, B, F, InTable, InNode
<1>7. A \cup B \subseteq Places(F, b)
  BY <1>5, <1>6, KeysAre DEF Places
<1>8. Places(F, b) \subseteq A \cup B
  <2>. SUFFICES ASSUME NEW k \in Keys, NEW h \in PlacesIn(F, k, b) PROVE h \in A \cup B
    BY DEF Places
  <2>1. CASE k[2] \in Slots /\ k = <<"request", k[2]>>
    BY <1>5, <2>1
  <2>2. CASE k[2] \in Nodes /\ k = <<"node", k[2]>>
    BY <1>6, <2>2
  <2>. QED
    BY <2>1, <2>2, KeysAre
<1>. QED
  BY <1>4, <1>7, <1>8 DEF Refs, F

SameNodes(kv, kw) == \A x \in Nodes : NodeView(kw.tree, x) = NodeView(kv.tree, x)
SameTables(kv, kw) == \A s \in Slots : kw.rq[s].table = kv.rq[s].table

LEMMA ViewsEqual ==
    ASSUME NEW kw \in Spaces, NEW G \in [Keys -> Seq(Blocks)],
           \A s \in Slots : G[<<"request", s>>] = TableBlocks(kw.rq[s].table),
           \A x \in Nodes : G[<<"node", x>>] = NodeView(kw.tree, x)
    PROVE  Views(kw) = G
<1>1. \A k \in Keys : Views(kw)[k] = G[k]
  <2>1. TAKE k \in Keys
  <2>2. CASE k[2] \in Slots /\ k = <<"request", k[2]>>
    <3>1. Views(kw)[<<"request", k[2]>>] = G[<<"request", k[2]>>]
      BY <2>2, ViewsTyped
    <3>. QED
      BY <2>2, <3>1
  <2>3. CASE k[2] \in Nodes /\ k = <<"node", k[2]>>
    <3>1. Views(kw)[<<"node", k[2]>>] = G[<<"node", k[2]>>]
      BY <2>3, ViewsTyped
    <3>. QED
      BY <2>3, <3>1
  <2>. QED
    BY <2>2, <2>3, KeysAre
<1>2. Views(kw) \in [Keys -> Seq(Blocks)]
  BY ViewsTyped
<1>. QED
  BY <1>1, <1>2

LEMMA RefsSame ==
    ASSUME NEW kv \in Spaces, NEW kw \in Spaces, SameNodes(kv, kw), SameTables(kv, kw), NEW b
    PROVE  Refs(kw, b) = Refs(kv, b)
<1>1. Views(kv) \in [Keys -> Seq(Blocks)]
      /\ (\A s \in Slots : Views(kv)[<<"request", s>>] = TableBlocks(kw.rq[s].table))
      /\ (\A x \in Nodes : Views(kv)[<<"node", x>>] = NodeView(kw.tree, x))
  BY ViewsTyped DEF SameNodes, SameTables
<1>2. Views(kw) = Views(kv)
  BY <1>1, ViewsEqual
<1>. QED
  BY <1>2, RefsAre

LEMMA RefsTable ==
    ASSUME NEW kv \in Spaces, NEW kw \in Spaces, NEW s \in Slots, SameNodes(kv, kw),
           \A r \in Slots \ {s} : kw.rq[r].table = kv.rq[r].table, NEW b
    PROVE  /\ Refs(kv, b) \in Nat /\ Times(TableBlocks(kv.rq[s].table), b) \in Nat
           /\ Times(TableBlocks(kv.rq[s].table), b) <= Refs(kv, b)
           /\ Times(TableBlocks(kw.rq[s].table), b) \in Nat
           /\ Refs(kw, b) = Refs(kv, b) - Times(TableBlocks(kv.rq[s].table), b)
                              + Times(TableBlocks(kw.rq[s].table), b)
<1>. DEFINE F == Views(kv)
            k == <<"request", s>>
            p == TableBlocks(kw.rq[s].table)
            G == [F EXCEPT ![k] = p]
<1>1. /\ F \in [Keys -> Seq(Blocks)] /\ k \in Keys
      /\ (\A r \in Slots : F[<<"request", r>>] = TableBlocks(kv.rq[r].table))
      /\ (\A x \in Nodes : F[<<"node", x>>] = NodeView(kv.tree, x))
  BY ViewsTyped, KeysAre
<1>2. p \in Seq(Blocks)
  <2>1. kw.rq[s].table \in Seq(Runs)
    BY SpaceFields, RequestFields
  <2>. QED
    BY <2>1, BlocksOfTable
<1>. HIDE DEF F, p, k
<1>g. G \in [Keys -> Seq(Blocks)] /\ G[k] = p /\ \A j \in Keys \ {k} : G[j] = F[j]
  BY <1>1, <1>2
<1>. HIDE DEF G
<1>3. Views(kw) = G
  <2>1. G \in [Keys -> Seq(Blocks)]
    BY <1>g
  <2>2. \A r \in Slots : G[<<"request", r>>] = TableBlocks(kw.rq[r].table)
    <3>1. SUFFICES ASSUME NEW r \in Slots PROVE G[<<"request", r>>] = TableBlocks(kw.rq[r].table)
      OBVIOUS
    <3>2. <<"request", r>> \in Keys
      BY KeysAre
    <3>3. CASE r = s
      BY <1>g, <3>3 DEF p, k
    <3>4. CASE r # s
      <4>1. <<"request", r>> # k
        BY <3>4 DEF k
      <4>2. G[<<"request", r>>] = F[<<"request", r>>]
        BY <3>2, <4>1, <1>g
      <4>3. F[<<"request", r>>] = TableBlocks(kv.rq[r].table)
        BY <1>1
      <4>. QED
        BY <3>4, <4>2, <4>3
    <3>. QED
      BY <3>3, <3>4
  <2>3. \A x \in Nodes : G[<<"node", x>>] = NodeView(kw.tree, x)
    <3>1. SUFFICES ASSUME NEW x \in Nodes PROVE G[<<"node", x>>] = NodeView(kw.tree, x)
      OBVIOUS
    <3>2. <<"node", x>> \in Keys /\ <<"node", x>> # k
      BY KeysAre DEF k
    <3>3. G[<<"node", x>>] = F[<<"node", x>>]
      BY <1>g, <3>2
    <3>. QED
      BY <1>1, <3>3 DEF SameNodes
  <2>. QED
    BY <2>1, <2>2, <2>3, ViewsEqual
<1>4. F[k] = TableBlocks(kv.rq[s].table)
  BY <1>1 DEF k
<1>5. /\ Cardinality(Places(F, b)) \in Nat
      /\ Times(F[k], b) \in Nat /\ Times(F[k], b) <= Cardinality(Places(F, b))
      /\ Times(p, b) \in Nat
      /\ Cardinality(Places(G, b)) = Cardinality(Places(F, b)) - Times(F[k], b) + Times(p, b)
  BY <1>1, <1>2, PlacesChange DEF G
<1>6. Refs(kv, b) = Cardinality(Places(F, b)) /\ Refs(kw, b) = Cardinality(Places(G, b))
  BY <1>3, RefsAre DEF F
<1>. QED
  BY <1>4, <1>5, <1>6 DEF p

LEMMA RefsNode ==
    ASSUME NEW kv \in Spaces, NEW kw \in Spaces, NEW y \in Nodes, SameTables(kv, kw),
           \A x \in Nodes \ {y} : NodeView(kw.tree, x) = NodeView(kv.tree, x), NEW b
    PROVE  /\ Refs(kv, b) \in Nat /\ Times(NodeView(kv.tree, y), b) \in Nat
           /\ Times(NodeView(kv.tree, y), b) <= Refs(kv, b)
           /\ Times(NodeView(kw.tree, y), b) \in Nat
           /\ Refs(kw, b) = Refs(kv, b) - Times(NodeView(kv.tree, y), b)
                              + Times(NodeView(kw.tree, y), b)
<1>. DEFINE F == Views(kv)
            k == <<"node", y>>
            p == NodeView(kw.tree, y)
            G == [F EXCEPT ![k] = p]
<1>1. /\ F \in [Keys -> Seq(Blocks)] /\ k \in Keys
      /\ (\A r \in Slots : F[<<"request", r>>] = TableBlocks(kv.rq[r].table))
      /\ (\A x \in Nodes : F[<<"node", x>>] = NodeView(kv.tree, x))
  BY ViewsTyped, KeysAre
<1>2. p \in Seq(Blocks)
  <2>1. /\ Views(kw) \in [Keys -> Seq(Blocks)]
        /\ Views(kw)[<<"node", y>>] = NodeView(kw.tree, y)
    BY ViewsTyped
  <2>. QED
    BY <1>1, <2>1
<1>. HIDE DEF F, p, k
<1>g. G \in [Keys -> Seq(Blocks)] /\ G[k] = p /\ \A j \in Keys \ {k} : G[j] = F[j]
  BY <1>1, <1>2
<1>. HIDE DEF G
<1>3. Views(kw) = G
  <2>1. G \in [Keys -> Seq(Blocks)]
    BY <1>g
  <2>2. \A x \in Nodes : G[<<"node", x>>] = NodeView(kw.tree, x)
    <3>1. SUFFICES ASSUME NEW x \in Nodes PROVE G[<<"node", x>>] = NodeView(kw.tree, x)
      OBVIOUS
    <3>2. <<"node", x>> \in Keys
      BY KeysAre
    <3>3. CASE x = y
      BY <1>g, <3>3 DEF p, k
    <3>4. CASE x # y
      <4>1. <<"node", x>> # k
        BY <3>4 DEF k
      <4>2. G[<<"node", x>>] = F[<<"node", x>>]
        BY <3>2, <4>1, <1>g
      <4>3. F[<<"node", x>>] = NodeView(kv.tree, x)
        BY <1>1
      <4>. QED
        BY <3>4, <4>2, <4>3
    <3>. QED
      BY <3>3, <3>4
  <2>3. \A r \in Slots : G[<<"request", r>>] = TableBlocks(kw.rq[r].table)
    <3>1. SUFFICES ASSUME NEW r \in Slots PROVE G[<<"request", r>>] = TableBlocks(kw.rq[r].table)
      OBVIOUS
    <3>2. <<"request", r>> \in Keys /\ <<"request", r>> # k
      BY KeysAre DEF k
    <3>3. G[<<"request", r>>] = F[<<"request", r>>]
      BY <1>g, <3>2
    <3>. QED
      BY <1>1, <3>3 DEF SameTables
  <2>. QED
    BY <2>1, <2>2, <2>3, ViewsEqual
<1>4. F[k] = NodeView(kv.tree, y)
  BY <1>1 DEF k
<1>5. /\ Cardinality(Places(F, b)) \in Nat
      /\ Times(F[k], b) \in Nat /\ Times(F[k], b) <= Cardinality(Places(F, b))
      /\ Times(p, b) \in Nat
      /\ Cardinality(Places(G, b)) = Cardinality(Places(F, b)) - Times(F[k], b) + Times(p, b)
  BY <1>1, <1>2, PlacesChange DEF G
<1>6. Refs(kv, b) = Cardinality(Places(F, b)) /\ Refs(kw, b) = Cardinality(Places(G, b))
  BY <1>3, RefsAre DEF F
<1>. QED
  BY <1>4, <1>5, <1>6 DEF p
-----------------------------------------------------------------------------
(* The pool *)

LEMMA PoolFields ==
    ASSUME NEW p \in Pools
    PROVE  /\ p.refcnt \in [Blocks -> Nat] /\ p.free_stack \in Seq(Blocks) /\ p.used \in Int
           /\ n_free(p) = Len(p.free_stack) /\ n_free(p) \in Nat
           /\ DOMAIN p.free_stack = 1 .. n_free(p)
           /\ \A i \in 1 .. n_free(p) : p.free_stack[i] \in Blocks
<1>1. p.refcnt \in [Blocks -> Nat] /\ p.free_stack \in Seq(Blocks) /\ p.used \in Int
  BY DEF Pools
<1>2. /\ Len(p.free_stack) \in Nat /\ DOMAIN p.free_stack = 1 .. Len(p.free_stack)
      /\ \A i \in 1 .. Len(p.free_stack) : p.free_stack[i] \in Blocks
  BY <1>1, LenProperties, ElementOfSeq
<1>. QED
  BY <1>1, <1>2 DEF n_free

\* The free list in terms of the stack's positions.
FreeListIs(p) ==
    /\ \A i, j \in 1 .. n_free(p) : p.free_stack[i] = p.free_stack[j] => i = j
    /\ \A i \in 1 .. n_free(p) : p.refcnt[p.free_stack[i]] = 0
    /\ \A b \in Blocks : p.refcnt[b] = 0 => \E i \in 1 .. n_free(p) : p.free_stack[i] = b
    /\ n_free(p) + p.used = MAX_BLOCKS

LEMMA FreeListSame ==
    ASSUME NEW p \in Pools
    PROVE  FreeListExact(p) <=> FreeListIs(p)
<1>1. /\ DOMAIN p.free_stack = 1 .. n_free(p)
      /\ \A i \in 1 .. n_free(p) : p.free_stack[i] \in Blocks
  BY PoolFields
<1>2. IsInjective(p.free_stack)
        <=> \A i, j \in 1 .. n_free(p) : p.free_stack[i] = p.free_stack[j] => i = j
  BY <1>1 DEF IsInjective
<1>3. ToSet(p.free_stack) = {p.free_stack[i] : i \in 1 .. n_free(p)}
  BY <1>1 DEF ToSet
<1>4. ToSet(p.free_stack) = {b \in Blocks : p.refcnt[b] = 0}
        <=> /\ \A i \in 1 .. n_free(p) : p.refcnt[p.free_stack[i]] = 0
            /\ \A b \in Blocks : p.refcnt[b] = 0 => \E i \in 1 .. n_free(p) : p.free_stack[i] = b
  <2>1. ASSUME {p.free_stack[i] : i \in 1 .. n_free(p)} = {b \in Blocks : p.refcnt[b] = 0}
        PROVE  /\ \A i \in 1 .. n_free(p) : p.refcnt[p.free_stack[i]] = 0
               /\ \A b \in Blocks : p.refcnt[b] = 0 => \E i \in 1 .. n_free(p) : p.free_stack[i] = b
    BY <1>1, <2>1
  <2>2. ASSUME /\ \A i \in 1 .. n_free(p) : p.refcnt[p.free_stack[i]] = 0
               /\ \A b \in Blocks : p.refcnt[b] = 0 => \E i \in 1 .. n_free(p) : p.free_stack[i] = b
        PROVE  {p.free_stack[i] : i \in 1 .. n_free(p)} = {b \in Blocks : p.refcnt[b] = 0}
    BY <1>1, <2>2
  <2>. QED
    BY <1>3, <2>1, <2>2
<1>. QED
  BY <1>2, <1>4 DEF FreeListExact, FreeListIs

LEMMA PopFacts ==
    ASSUME NEW S, NEW s \in Seq(S), s # <<>>
    PROVE  /\ SubSeq(s, 1, Len(s) - 1) \in Seq(S)
           /\ Len(s) \in Nat \ {0}
           /\ Len(SubSeq(s, 1, Len(s) - 1)) = Len(s) - 1
           /\ \A i \in 1 .. Len(s) - 1 : SubSeq(s, 1, Len(s) - 1)[i] = s[i]
<1>0. Len(s) \in Nat \ {0}
  BY EmptySeq, LenProperties
<1>. DEFINE m == Len(s) - 1
<1>1. m \in Nat /\ \A i \in 1 .. m : s[i] \in S
  BY <1>0
<1>. HIDE DEF m
<1>2. /\ SubSeq(s, 1, m) \in Seq(S)
      /\ Len(SubSeq(s, 1, m)) = IF 1 <= m THEN m - 1 + 1 ELSE 0
      /\ \A i \in 1 .. m - 1 + 1 : SubSeq(s, 1, m)[i] = s[1 + i - 1]
  BY <1>1, SubSeqProperties
<1>3. /\ Len(SubSeq(s, 1, m)) = m
      /\ \A i \in 1 .. m : SubSeq(s, 1, m)[i] = s[i]
  BY <1>1, <1>2
<1>. QED
  BY <1>0, <1>2, <1>3 DEF m

\* A pool in order: its free list is what its counts say.
PoolOK(p) == p \in Pools /\ FreeListExact(p)

LEMMA AllocOK ==
    ASSUME NEW p, PoolOK(p), CanAlloc(p)
    PROVE  /\ NextFree(p) \in Blocks /\ p.refcnt[NextFree(p)] = 0
           /\ PoolOK(AfterAlloc(p))
           /\ AfterAlloc(p).refcnt = [p.refcnt EXCEPT ![NextFree(p)] = 1]
<1>. DEFINE n == n_free(p)
            b == NextFree(p)
            q == [ refcnt     |-> [p.refcnt EXCEPT ![b] = 1],
                   free_stack |-> Popped(p),
                   used       |-> p.used + 1 ]
<1>1. p \in Pools /\ FreeListIs(p) /\ n > 0
  BY FreeListSame DEF PoolOK, CanAlloc
<1>2. /\ p.refcnt \in [Blocks -> Nat] /\ p.free_stack \in Seq(Blocks) /\ p.used \in Int
      /\ n = Len(p.free_stack) /\ n \in Nat
      /\ \A i \in 1 .. n : p.free_stack[i] \in Blocks
  BY <1>1, PoolFields
<1>3. b = p.free_stack[n]
  BY DEF NextFree
<1>4. b \in Blocks /\ p.refcnt[b] = 0
  BY <1>1, <1>2, <1>3 DEF FreeListIs
<1>5. AfterAlloc(p) = q
  BY <1>4 DEF AfterAlloc
<1>6. p.free_stack # <<>>
  <2>1. Len(<<>>) = 0
    OBVIOUS
  <2>. HIDE DEF n
  <2>. QED
    BY <1>1, <1>2, <2>1
<1>7. Popped(p) \in Seq(Blocks) /\ Len(Popped(p)) = n - 1
      /\ \A i \in 1 .. n - 1 : Popped(p)[i] = p.free_stack[i]
  BY <1>2, <1>6, PopFacts DEF Popped
<1>8. q \in Pools
  BY <1>2, <1>4, <1>7 DEF Pools
<1>9. /\ n_free(q) = n - 1 /\ q.used = p.used + 1 /\ q.refcnt = [p.refcnt EXCEPT ![b] = 1]
      /\ \A i \in 1 .. n - 1 : q.free_stack[i] = p.free_stack[i]
  BY <1>7 DEF n_free
<1>. HIDE DEF q, n, b
<1>10. FreeListIs(q)
  <2>1. \A i, j \in 1 .. n_free(q) : q.free_stack[i] = q.free_stack[j] => i = j
    <3>1. TAKE i, j \in 1 .. n_free(q)
    <3>2. /\ i \in 1 .. n /\ j \in 1 .. n
          /\ q.free_stack[i] = p.free_stack[i] /\ q.free_stack[j] = p.free_stack[j]
      <4>1. i \in 1 .. n - 1 /\ j \in 1 .. n - 1
        BY <1>9
      <4>2. q.free_stack[i] = p.free_stack[i] /\ q.free_stack[j] = p.free_stack[j]
        BY <1>9, <4>1
      <4>3. \A k \in 1 .. n - 1 : k \in 1 .. n
        BY <1>2
      <4>. QED
        BY <4>1, <4>2, <4>3
    <3>3. p.free_stack[i] = p.free_stack[j] => i = j
      BY <1>1, <3>2 DEF FreeListIs, n
    <3>. QED
      BY <3>2, <3>3
  <2>2. \A i \in 1 .. n_free(q) : q.refcnt[q.free_stack[i]] = 0
    <3>1. TAKE i \in 1 .. n_free(q)
    <3>2. i \in 1 .. n /\ i # n /\ n \in 1 .. n /\ q.free_stack[i] = p.free_stack[i]
      BY <1>1, <1>2, <1>9, SMTT(60)
    <3>3. p.free_stack[i] # b /\ p.refcnt[p.free_stack[i]] = 0
      BY <1>1, <1>3, <3>2 DEF FreeListIs, n
    <3>. QED
      BY <1>2, <1>9, <3>2, <3>3, SMTT(60)
  <2>3. ASSUME NEW c \in Blocks, q.refcnt[c] = 0
        PROVE  \E i \in 1 .. n_free(q) : q.free_stack[i] = c
    <3>1. c # b /\ p.refcnt[c] = 0
      BY <1>2, <1>4, <1>9, <2>3
    <3>2. PICK i \in 1 .. n : p.free_stack[i] = c
      BY <1>1, <3>1 DEF FreeListIs, n
    <3>3. i \in 1 .. n - 1
      BY <1>2, <1>3, <3>1, <3>2
    <3>. QED
      BY <1>9, <3>2, <3>3
  <2>4. n_free(q) + q.used = MAX_BLOCKS
    <3>1. n + p.used = MAX_BLOCKS
      BY <1>1 DEF FreeListIs, n
    <3>2. n_free(q) = n - 1 /\ q.used = p.used + 1 /\ n \in Nat /\ p.used \in Int
      BY <1>2, <1>9
    <3>. HIDE DEF n_free
    <3>. QED
      BY <3>1, <3>2
  <2>. QED
    BY <2>1, <2>2, <2>3, <2>4 DEF FreeListIs
<1>. QED
  BY <1>4, <1>5, <1>8, <1>9, <1>10, FreeListSame DEF PoolOK, b

LEMMA RetainOK ==
    ASSUME NEW p, PoolOK(p), NEW b \in Blocks, p.refcnt[b] > 0
    PROVE  /\ PoolOK(AfterRetain(p, b))
           /\ AfterRetain(p, b).refcnt = [p.refcnt EXCEPT ![b] = p.refcnt[b] + 1]
<1>. DEFINE q == AfterRetain(p, b)
<1>1. p \in Pools /\ FreeListIs(p)
  BY FreeListSame DEF PoolOK
<1>2. /\ p.refcnt \in [Blocks -> Nat] /\ p.free_stack \in Seq(Blocks) /\ p.used \in Int
      /\ n_free(p) = Len(p.free_stack) /\ n_free(p) \in Nat
      /\ \A i \in 1 .. n_free(p) : p.free_stack[i] \in Blocks
  BY <1>1, PoolFields
<1>3. /\ q.refcnt = [p.refcnt EXCEPT ![b] = p.refcnt[b] + 1]
      /\ q.free_stack = p.free_stack /\ q.used = p.used /\ n_free(q) = n_free(p)
  BY DEF AfterRetain, n_free
<1>4. q \in Pools
  BY <1>2 DEF AfterRetain, Pools
<1>. HIDE DEF q
<1>5. \A c \in Blocks : q.refcnt[c] = 0 <=> p.refcnt[c] = 0
  BY <1>2, <1>3
<1>6. FreeListIs(q)
  BY <1>1, <1>2, <1>3, <1>5 DEF FreeListIs
<1>. QED
  BY <1>3, <1>4, <1>6, FreeListSame DEF PoolOK, q

LEMMA ReleaseOK ==
    ASSUME NEW p, PoolOK(p), NEW b \in Blocks, p.refcnt[b] > 0
    PROVE  /\ PoolOK(AfterRelease(p, b))
           /\ AfterRelease(p, b).refcnt = [p.refcnt EXCEPT ![b] = p.refcnt[b] - 1]
           /\ n_free(AfterRelease(p, b)) = n_free(p) + IF p.refcnt[b] = 1 THEN 1 ELSE 0
<1>. DEFINE q == AfterRelease(p, b)
            n == n_free(p)
<1>1. p \in Pools /\ FreeListIs(p)
  BY FreeListSame DEF PoolOK
<1>2. /\ p.refcnt \in [Blocks -> Nat] /\ p.free_stack \in Seq(Blocks) /\ p.used \in Int
      /\ n = Len(p.free_stack) /\ n \in Nat
      /\ \A i \in 1 .. n : p.free_stack[i] \in Blocks
  BY <1>1, PoolFields
<1>3. p.refcnt[b] \in Nat /\ q.refcnt = [p.refcnt EXCEPT ![b] = p.refcnt[b] - 1]
  BY <1>2 DEF AfterRelease
<1>4. CASE p.refcnt[b] # 1
  <2>1. q.free_stack = p.free_stack /\ q.used = p.used /\ n_free(q) = n
    BY <1>4 DEF AfterRelease, n_free
  <2>2. q \in Pools
    <3>1. p.refcnt[b] - 1 \in Nat
      BY <1>3
    <3>2. q = [ refcnt     |-> [p.refcnt EXCEPT ![b] = p.refcnt[b] - 1],
                free_stack |-> p.free_stack,
                used       |-> p.used ]
      BY <1>4 DEF AfterRelease
    <3>. HIDE DEF q
    <3>. QED
      BY <1>2, <3>1, <3>2 DEF Pools
  <2>. HIDE DEF q, n
  <2>3. \A c \in Blocks : q.refcnt[c] = 0 <=> p.refcnt[c] = 0
    BY <1>2, <1>3, <1>4
  <2>4. FreeListIs(q)
    BY <1>1, <1>2, <2>1, <2>3 DEF FreeListIs, n
  <2>5. n_free(q) = n + IF p.refcnt[b] = 1 THEN 1 ELSE 0
    BY <1>2, <1>4, <2>1
  <2>. QED
    BY <1>3, <2>2, <2>4, <2>5, FreeListSame DEF PoolOK, q, n
<1>5. CASE p.refcnt[b] = 1
  <2>1. q.free_stack = Append(p.free_stack, b) /\ q.used = p.used - 1
    BY <1>5 DEF AfterRelease
  <2>2. /\ Append(p.free_stack, b) \in Seq(Blocks)
        /\ Len(Append(p.free_stack, b)) = n + 1
        /\ \A i \in 1 .. n : Append(p.free_stack, b)[i] = p.free_stack[i]
        /\ Append(p.free_stack, b)[n + 1] = b
    BY <1>2, AppendProperties
  <2>3. q \in Pools
    <3>1. q = [ refcnt     |-> [p.refcnt EXCEPT ![b] = p.refcnt[b] - 1],
                free_stack |-> Append(p.free_stack, b),
                used       |-> p.used - 1 ]
      BY <1>5 DEF AfterRelease
    <3>2. p.refcnt[b] - 1 \in Nat
      BY <1>5
    <3>. HIDE DEF q
    <3>. QED
      BY <1>2, <2>2, <3>1, <3>2 DEF Pools
  <2>. HIDE DEF q, n
  <2>4. /\ n_free(q) = n + 1 /\ q.free_stack[n + 1] = b
        /\ \A i \in 1 .. n : q.free_stack[i] = p.free_stack[i]
    BY <2>1, <2>2 DEF n_free
  <2>5. /\ q.refcnt[b] = 0 /\ \A c \in Blocks \ {b} : q.refcnt[c] = p.refcnt[c]
    BY <1>2, <1>3, <1>5
  <2>6. \A i \in 1 .. n : p.free_stack[i] # b /\ p.refcnt[p.free_stack[i]] = 0
    BY <1>1, <1>5 DEF FreeListIs, n
  <2>7. FreeListIs(q)
    <3>1. ASSUME NEW i \in 1 .. n_free(q), NEW j \in 1 .. n_free(q),
                 q.free_stack[i] = q.free_stack[j]
          PROVE  i = j
      <4>1. CASE i \in 1 .. n /\ j \in 1 .. n
        BY <1>1, <2>4, <3>1, <4>1 DEF FreeListIs, n
      <4>2. CASE i = n + 1 \/ j = n + 1
        <5>0. n \in Nat /\ i \in 1 .. n + 1 /\ j \in 1 .. n + 1
          BY <1>2, <2>4
        <5>1. i \in 1 .. n \/ i = n + 1
          <6>. HIDE DEF n
          <6>. QED
            BY <5>0
        <5>2. j \in 1 .. n \/ j = n + 1
          <6>. HIDE DEF n
          <6>. QED
            BY <5>0
        <5>3. i = n + 1 => q.free_stack[i] = b
          BY <2>4
        <5>4. j = n + 1 => q.free_stack[j] = b
          BY <2>4
        <5>5. i \in 1 .. n => q.free_stack[i] # b
          BY <2>4, <2>6
        <5>6. j \in 1 .. n => q.free_stack[j] # b
          BY <2>4, <2>6
        <5>7. i = n + 1 => j = n + 1
          BY <3>1, <5>2, <5>3, <5>6
        <5>8. j = n + 1 => i = n + 1
          BY <3>1, <5>1, <5>4, <5>5
        <5>9. CASE i = n + 1
          BY <5>7, <5>9
        <5>10. CASE j = n + 1
          BY <5>8, <5>10
        <5>. QED
          BY <4>2, <5>9, <5>10
      <4>3. \A k \in 1 .. n + 1 : k \in 1 .. n \/ k = n + 1
        <5>1. n \in Nat
          BY <1>2
        <5>. HIDE DEF n
        <5>. QED
          BY <5>1
      <4>4. i \in 1 .. n + 1 /\ j \in 1 .. n + 1
        BY <2>4
      <4>. QED
        BY <4>1, <4>2, <4>3, <4>4
    <3>2. ASSUME NEW i \in 1 .. n_free(q) PROVE q.refcnt[q.free_stack[i]] = 0
      <4>1. CASE i = n + 1
        BY <2>4, <2>5, <4>1
      <4>2. CASE i \in 1 .. n
        <5>1. q.free_stack[i] = p.free_stack[i] /\ p.free_stack[i] \in Blocks \ {b}
          BY <1>2, <2>4, <2>6, <4>2
        <5>. QED
          BY <2>5, <2>6, <4>2, <5>1
      <4>. QED
        BY <1>2, <2>4, <4>1, <4>2
    <3>3. ASSUME NEW c \in Blocks, q.refcnt[c] = 0
          PROVE  \E i \in 1 .. n_free(q) : q.free_stack[i] = c
      <4>1. CASE c = b
        <5>1. n + 1 \in 1 .. n_free(q) /\ q.free_stack[n + 1] = c
          BY <1>2, <2>4, <4>1
        <5>. QED
          BY <5>1
      <4>2. CASE c # b
        <5>1. p.refcnt[c] = 0
          BY <2>5, <3>3, <4>2
        <5>2. PICK i \in 1 .. n : p.free_stack[i] = c
          BY <1>1, <5>1 DEF FreeListIs, n
        <5>3. i \in 1 .. n_free(q) /\ q.free_stack[i] = c
          BY <1>2, <2>4, <5>2
        <5>. QED
          BY <5>3
      <4>. QED
        BY <4>1, <4>2
    <3>4. n_free(q) + q.used = MAX_BLOCKS
      <4>1. n + p.used = MAX_BLOCKS
        BY <1>1 DEF FreeListIs, n
      <4>2. n_free(q) = n + 1 /\ q.used = p.used - 1 /\ n \in Nat /\ p.used \in Int
        BY <1>2, <2>1, <2>4
      <4>. HIDE DEF n_free
      <4>. QED
        BY <4>1, <4>2
    <3>. QED
      BY <3>1, <3>2, <3>3, <3>4 DEF FreeListIs
  <2>8. n_free(q) = n + IF p.refcnt[b] = 1 THEN 1 ELSE 0
    BY <1>5, <2>4
  <2>. QED
    BY <1>3, <2>3, <2>7, <2>8, FreeListSame DEF PoolOK, q, n
<1>. QED
  BY <1>4, <1>5
-----------------------------------------------------------------------------
(* One part of a space replaced *)

\* No error so far.
Fine(kv) == kv.ok

\* Only the pool differs.
PoolOnly(kv, kw) == kw.tree = kv.tree /\ kw.rq = kv.rq /\ kw.ok = kv.ok

LEMMA WithPool ==
    ASSUME NEW kv \in Spaces, NEW P \in Pools, NEW kw, kw = [kv EXCEPT !.pool = P]
    PROVE  kw \in Spaces /\ kw.pool = P /\ PoolOnly(kv, kw)
<1>1. kv = [pool |-> kv.pool, tree |-> kv.tree, rq |-> kv.rq, ok |-> kv.ok]
  BY DEF Spaces
<1>2. kw = [pool |-> P, tree |-> kv.tree, rq |-> kv.rq, ok |-> kv.ok]
  BY <1>1
<1>. QED
  BY <1>2, SpaceFields DEF Spaces, PoolOnly

LEMMA WithTree ==
    ASSUME NEW kv \in Spaces, NEW t \in [Nodes -> TreeNodes], NEW kw, kw = [kv EXCEPT !.tree = t]
    PROVE  /\ kw \in Spaces /\ kw.pool = kv.pool /\ kw.tree = t
           /\ kw.rq = kv.rq /\ kw.ok = kv.ok
<1>1. kv = [pool |-> kv.pool, tree |-> kv.tree, rq |-> kv.rq, ok |-> kv.ok]
  BY DEF Spaces
<1>2. kw = [pool |-> kv.pool, tree |-> t, rq |-> kv.rq, ok |-> kv.ok]
  BY <1>1
<1>. QED
  BY <1>2, SpaceFields DEF Spaces

LEMMA WithSlots ==
    ASSUME NEW kv \in Spaces, NEW R \in [Slots -> Requests], NEW kw, kw = [kv EXCEPT !.rq = R]
    PROVE  /\ kw \in Spaces /\ kw.pool = kv.pool /\ kw.tree = kv.tree
           /\ kw.rq = R /\ kw.ok = kv.ok
<1>1. kv = [pool |-> kv.pool, tree |-> kv.tree, rq |-> kv.rq, ok |-> kv.ok]
  BY DEF Spaces
<1>2. kw = [pool |-> kv.pool, tree |-> kv.tree, rq |-> R, ok |-> kv.ok]
  BY <1>1
<1>. QED
  BY <1>2, SpaceFields DEF Spaces

LEMMA WithOk ==
    ASSUME NEW kv \in Spaces, NEW ok \in BOOLEAN, NEW kw, kw = [kv EXCEPT !.ok = ok]
    PROVE  /\ kw \in Spaces /\ kw.pool = kv.pool /\ kw.tree = kv.tree
           /\ kw.rq = kv.rq /\ kw.ok = ok
<1>1. kv = [pool |-> kv.pool, tree |-> kv.tree, rq |-> kv.rq, ok |-> kv.ok]
  BY DEF Spaces
<1>2. kw = [pool |-> kv.pool, tree |-> kv.tree, rq |-> kv.rq, ok |-> ok]
  BY <1>1
<1>. QED
  BY <1>2, SpaceFields DEF Spaces

LEMMA WithFail ==
    ASSUME NEW kv \in Spaces
    PROVE  /\ Fail(kv) \in Spaces /\ Fail(kv).pool = kv.pool /\ Fail(kv).tree = kv.tree
           /\ Fail(kv).rq = kv.rq /\ Fail(kv).ok = FALSE
<1>. DEFINE ok == FALSE
            kw == [kv EXCEPT !.ok = ok]
<1>1. Fail(kv) = kw /\ ok \in BOOLEAN
  BY DEF Fail
<1>. HIDE DEF ok
<1>2. /\ kw \in Spaces /\ kw.pool = kv.pool /\ kw.tree = kv.tree
      /\ kw.rq = kv.rq /\ kw.ok = ok
  BY <1>1, WithOk
<1>. HIDE DEF kw
<1>. QED
  BY <1>1, <1>2 DEF ok

LEMMA WithTable ==
    ASSUME NEW q \in Requests, NEW table \in Seq(Runs), NEW r, r = [q EXCEPT !.table = table]
    PROVE  /\ r \in Requests /\ r.table = table /\ r.live = q.live /\ r.id = q.id
           /\ r.ntok = q.ntok /\ r.priv = q.priv /\ r.tok = q.tok
<1>1. q = [live |-> q.live, id |-> q.id, ntok |-> q.ntok, priv |-> q.priv, tok |-> q.tok,
           table |-> q.table]
  BY DEF Requests
<1>2. r = [live |-> q.live, id |-> q.id, ntok |-> q.ntok, priv |-> q.priv, tok |-> q.tok,
           table |-> table]
  BY <1>1
<1>. QED
  BY <1>2, RequestFields DEF Requests

\* Nothing of a request differs but its table; no other request differs.
RestOfSlot(q, r) ==
    r.live = q.live /\ r.id = q.id /\ r.ntok = q.ntok /\ r.priv = q.priv /\ r.tok = q.tok

TableOnly(kv, kw, s) ==
    /\ kw.pool = kv.pool /\ kw.tree = kv.tree /\ kw.ok = kv.ok
    /\ RestOfSlot(kv.rq[s], kw.rq[s])
    /\ \A r \in Slots \ {s} : kw.rq[r] = kv.rq[r]

LEMMA WithSlotTable ==
    ASSUME NEW kv \in Spaces, NEW s \in Slots, NEW table \in Seq(Runs),
           NEW kw, kw = [kv EXCEPT !.rq[s].table = table]
    PROVE  kw \in Spaces /\ kw.rq[s].table = table /\ TableOnly(kv, kw, s)
<1>. DEFINE q == [kv.rq[s] EXCEPT !.table = table]
<1>1. kv.rq[s] \in Requests
  BY SpaceFields
<1>2. /\ q \in Requests /\ q.table = table /\ q.live = kv.rq[s].live /\ q.id = kv.rq[s].id
      /\ q.ntok = kv.rq[s].ntok /\ q.priv = kv.rq[s].priv /\ q.tok = kv.rq[s].tok
  BY <1>1, WithTable
<1>. DEFINE R == [kv.rq EXCEPT ![s] = q]
<1>3. kw = [kv EXCEPT !.rq = R]
  OBVIOUS
<1>4. R \in [Slots -> Requests] /\ R[s] = q /\ \A r \in Slots \ {s} : R[r] = kv.rq[r]
  <2>. HIDE DEF q
  <2>1. kv.rq \in [Slots -> Requests]
    BY SpaceFields
  <2>. QED
    BY <1>2, <2>1
<1>. HIDE DEF q, R
<1>5. \A k : k = [kv EXCEPT !.rq = R]
                => /\ k \in Spaces /\ k.pool = kv.pool /\ k.tree = kv.tree
                   /\ k.ok = kv.ok /\ k.rq = R
  BY <1>4, WithSlots
<1>6. /\ kw \in Spaces /\ kw.pool = kv.pool /\ kw.tree = kv.tree
      /\ kw.ok = kv.ok /\ kw.rq = R
  BY <1>3, <1>5
<1>. QED
  BY <1>2, <1>4, <1>6 DEF TableOnly, RestOfSlot
-----------------------------------------------------------------------------
(* References taken and given back *)

LEMMA RetainBlockOK ==
    ASSUME NEW kv \in Spaces, Fine(kv), PoolOK(kv.pool), NEW b \in Blocks, kv.pool.refcnt[b] > 0,
           NEW kw, kw = RetainBlock(kv, b)
    PROVE  /\ kw \in Spaces /\ PoolOnly(kv, kw) /\ PoolOK(kw.pool)
           /\ kw.pool.refcnt = [kv.pool.refcnt EXCEPT ![b] = kv.pool.refcnt[b] + 1]
<1>. DEFINE P == AfterRetain(kv.pool, b)
<1>1. PoolOK(P) /\ P.refcnt = [kv.pool.refcnt EXCEPT ![b] = kv.pool.refcnt[b] + 1]
  BY RetainOK
<1>2. kw = [kv EXCEPT !.pool = P]
  BY DEF RetainBlock, CanRetain, Fine
<1>3. P \in Pools
  BY <1>1 DEF PoolOK
<1>. HIDE DEF P
<1>4. \A k : k = [kv EXCEPT !.pool = P] => k \in Spaces /\ k.pool = P /\ PoolOnly(kv, k)
  BY <1>3, WithPool
<1>5. kw \in Spaces /\ kw.pool = P /\ PoolOnly(kv, kw)
  BY <1>2, <1>4
<1>. QED
  BY <1>1, <1>5

LEMMA ReleaseBlockOK ==
    ASSUME NEW kv \in Spaces, Fine(kv), PoolOK(kv.pool), NEW b \in Blocks, kv.pool.refcnt[b] > 0,
           NEW kw, kw = ReleaseBlock(kv, b)
    PROVE  /\ kw \in Spaces /\ PoolOnly(kv, kw) /\ PoolOK(kw.pool)
           /\ kw.pool.refcnt = [kv.pool.refcnt EXCEPT ![b] = kv.pool.refcnt[b] - 1]
           /\ n_free(kw.pool) = n_free(kv.pool) + IF kv.pool.refcnt[b] = 1 THEN 1 ELSE 0
<1>. DEFINE P == AfterRelease(kv.pool, b)
<1>1. /\ PoolOK(P) /\ P.refcnt = [kv.pool.refcnt EXCEPT ![b] = kv.pool.refcnt[b] - 1]
      /\ n_free(P) = n_free(kv.pool) + IF kv.pool.refcnt[b] = 1 THEN 1 ELSE 0
  BY ReleaseOK
<1>2. kw = [kv EXCEPT !.pool = P]
  BY DEF ReleaseBlock, CanRelease, Fine
<1>3. P \in Pools
  BY <1>1 DEF PoolOK
<1>. HIDE DEF P
<1>4. \A k : k = [kv EXCEPT !.pool = P] => k \in Spaces /\ k.pool = P /\ PoolOnly(kv, k)
  BY <1>3, WithPool
<1>5. kw \in Spaces /\ kw.pool = P /\ PoolOnly(kv, kw)
  BY <1>2, <1>4
<1>. QED
  BY <1>1, <1>5

\* Every block of a list has a reference, or as many as it has entries in it.
AllHeld(kv, blocks) == \A i \in 1 .. Len(blocks) : kv.pool.refcnt[blocks[i]] > 0
AllOwned(kv, blocks) == \A b \in Blocks : kv.pool.refcnt[b] >= Times(blocks, b)

\* A reference to every block of a list, each of which has one already.
LEMMA RetainBlocksOK ==
    ASSUME NEW kv \in Spaces, Fine(kv), PoolOK(kv.pool), NEW blocks \in Seq(Blocks),
           AllHeld(kv, blocks),
           NEW kw, kw = RetainBlocks(kv, blocks)
    PROVE  /\ kw \in Spaces /\ PoolOnly(kv, kw) /\ PoolOK(kw.pool)
           /\ \A b \in Blocks : kw.pool.refcnt[b] = kv.pool.refcnt[b] + Times(blocks, b)
<1>. DEFINE n == Len(blocks)
            Held(k, i) == /\ k \in Spaces /\ PoolOnly(kv, k) /\ PoolOK(k.pool)
                          /\ \A b \in Blocks : k.pool.refcnt[b]
                                                 = kv.pool.refcnt[b] + Among(blocks, i, b)
            V == [i \in 0 .. n |-> {k \in Spaces : Held(k, i)}]
            F == [i \in 1 .. n |-> [k \in V[i - 1] |-> RetainBlock(k, blocks[i])]]
            h == CHOOSE h : h = [i \in 0 .. n |->
                                   IF i = 0 THEN kv ELSE RetainBlock(h[i - 1], blocks[i])]
<1>n. n \in Nat
  BY LenProperties
<1>1. \A i \in 1 .. n : blocks[i] \in Blocks
  BY ElementOfSeq
<1>c. kv.pool.refcnt \in [Blocks -> Nat]
  BY SpaceFields, PoolFields
<1>2. kv \in V[0]
  <2>1. Held(kv, 0)
    <3>1. \A b \in Blocks : Among(blocks, 0, b) = 0
      BY AmongNone
    <3>. QED
      BY <1>c, <3>1 DEF PoolOnly
  <2>. HIDE DEF Held
  <2>. QED
    BY <1>n, <2>1
<1>3. ASSUME NEW i \in 1 .. n, NEW k \in V[i - 1]
      PROVE  RetainBlock(k, blocks[i]) \in V[i]
  <2>. DEFINE l == RetainBlock(k, blocks[i])
              j == i - 1
              c == blocks[i]
  <2>1. j \in 0 .. n /\ j \in Nat /\ i = j + 1 /\ i \in 0 .. n /\ c \in Blocks
    BY <1>n, <1>1
  <2>2. Held(k, j) /\ k \in Spaces
    BY <2>1
  <2>. HIDE DEF j, c, V
  <2>3. \A b \in Blocks :
          /\ k.pool.refcnt[b] = kv.pool.refcnt[b] + Among(blocks, j, b)
          /\ Among(blocks, j, b) \in Nat /\ kv.pool.refcnt[b] \in Nat
          /\ Among(blocks, i, b) = Among(blocks, j, b) + IF c = b THEN 1 ELSE 0
    <3>1. TAKE b \in Blocks
    <3>2. k.pool.refcnt[b] = kv.pool.refcnt[b] + Among(blocks, j, b)
      BY <2>2
    <3>3. Among(blocks, j, b) \in Nat
      BY <2>1, AmongNat
    <3>4. Among(blocks, i, b) = Among(blocks, j, b) + IF blocks[i] = b THEN 1 ELSE 0
      BY <2>1, AmongNext
    <3>. QED
      BY <1>c, <3>2, <3>3, <3>4 DEF c
  <2>4. Fine(k) /\ k.pool.refcnt[c] > 0
    <3>1. kv.pool.refcnt[c] > 0
      BY <2>1 DEF c, AllHeld
    <3>. QED
      BY <2>1, <2>2, <2>3, <3>1, SMTT(60) DEF PoolOnly, Fine
  <2>5. /\ l \in Spaces /\ PoolOnly(k, l) /\ PoolOK(l.pool)
        /\ l.pool.refcnt = [k.pool.refcnt EXCEPT ![c] = k.pool.refcnt[c] + 1]
    BY <2>1, <2>2, <2>4, RetainBlockOK, SMTT(60) DEF c
  <2>6. k.pool.refcnt \in [Blocks -> Nat]
    BY <2>2, SpaceFields, PoolFields
  <2>. HIDE DEF l
  <2>7. ASSUME NEW b \in Blocks
        PROVE  l.pool.refcnt[b] = kv.pool.refcnt[b] + Among(blocks, i, b)
    <3>0. /\ k.pool.refcnt[b] = kv.pool.refcnt[b] + Among(blocks, j, b)
          /\ Among(blocks, j, b) \in Nat /\ kv.pool.refcnt[b] \in Nat
          /\ Among(blocks, i, b) = Among(blocks, j, b) + IF c = b THEN 1 ELSE 0
      BY <2>3
    <3>1. CASE c = b
      <4>1. l.pool.refcnt[b] = k.pool.refcnt[b] + 1
        BY <2>1, <2>5, <2>6, <3>1
      <4>2. Among(blocks, i, b) = Among(blocks, j, b) + 1
        BY <3>0, <3>1
      <4>. QED
        BY <3>0, <4>1, <4>2, SMTT(60)
    <3>2. CASE c # b
      <4>1. l.pool.refcnt[b] = k.pool.refcnt[b]
        BY <2>1, <2>5, <2>6, <3>2
      <4>. QED
        BY <3>0, <3>2, <4>1
    <3>. QED
      BY <3>1, <3>2
  <2>8. Held(l, i)
    <3>1. PoolOnly(kv, l)
      BY <2>2, <2>5 DEF PoolOnly
    <3>. QED
      BY <2>5, <2>7, <3>1
  <2>. HIDE DEF Held
  <2>9. l \in V[i]
    BY <2>1, <2>5, <2>8 DEF V
  <2>. QED
    BY <2>9 DEF l
<1>. HIDE DEF V
<1>4. \A i \in 1 .. n : \A k \in V[i - 1] : F[i][k] = RetainBlock(k, blocks[i])
  OBVIOUS
<1>. HIDE DEF F
<1>5. PICK g : LoopIs(n, V, F, kv, g)
  <2>1. \A i \in 1 .. n : \A k \in V[i - 1] : F[i][k] \in V[i]
    BY <1>3, <1>4
  <2>. HIDE DEF n, h
  <2>2. IsLoop(n, V, F, kv)
    BY <1>n, <1>2, <2>1 DEF IsLoop
  <2>. QED
    BY <2>2, LoopRuns
<1>6. g = [i \in 0 .. n |-> IF i = 0 THEN kv ELSE RetainBlock(g[i - 1], blocks[i])]
  <2>0. /\ g = [i \in 0 .. n |-> g[i]]
        /\ g[0] = kv
        /\ \A i \in 1 .. n : g[i] = F[i][g[i - 1]]
        /\ \A i \in 0 .. n : g[i] \in V[i]
    BY <1>5 DEF LoopIs
  <2>1. \A i \in 1 .. n : g[i - 1] \in V[i - 1]
    BY <1>n, <2>0
  <2>2. \A i \in 1 .. n : g[i] = RetainBlock(g[i - 1], blocks[i])
    BY <1>4, <2>0, <2>1
  <2>3. \A i \in 0 .. n : g[i] = IF i = 0 THEN kv ELSE RetainBlock(g[i - 1], blocks[i])
    BY <1>n, <2>0, <2>2, SMTT(60)
  <2>. QED
    BY <2>0, <2>3
<1>7. h = [i \in 0 .. n |-> IF i = 0 THEN kv ELSE RetainBlock(h[i - 1], blocks[i])]
  <2>1. \E e : e = [i \in 0 .. n |-> IF i = 0 THEN kv ELSE RetainBlock(e[i - 1], blocks[i])]
    BY <1>6
  <2>. QED
    BY <2>1
<1>8. kw = h[n]
  BY DEF RetainBlocks
<1>. HIDE DEF h
<1>9. \A i \in 0 .. n : h[i] \in V[i]
  <2>1. h[0] = kv /\ \A i \in 1 .. n : h[i] = RetainBlock(h[i - 1], blocks[i])
    BY <1>n, <1>7
  <2>2. \A i \in 1 .. n : h[i - 1] \in V[i - 1] => h[i] \in V[i]
    BY <1>3, <2>1
  <2>. HIDE DEF n
  <2>. QED
    BY <1>n, <1>2, <2>1, <2>2, LoopTurn
<1>10. h[n] \in V[n]
  BY <1>n, <1>9
<1>11. Held(h[n], n)
  <2>. HIDE DEF Held
  <2>. QED
    BY <1>n, <1>10 DEF V
<1>. QED
  BY <1>8, <1>11 DEF Times

\* The references of a list go back, each of which is there to be given back.
LEMMA ReleaseBlocksOK ==
    ASSUME NEW kv \in Spaces, Fine(kv), PoolOK(kv.pool), NEW blocks \in Seq(Blocks),
           AllOwned(kv, blocks),
           NEW kw, kw = ReleaseBlocks(kv, blocks)
    PROVE  /\ kw \in Spaces /\ PoolOnly(kv, kw) /\ PoolOK(kw.pool)
           /\ \A b \in Blocks : kw.pool.refcnt[b] = kv.pool.refcnt[b] - Times(blocks, b)
<1>. DEFINE n == Len(blocks)
            Held(k, i) == /\ k \in Spaces /\ PoolOnly(kv, k) /\ PoolOK(k.pool)
                          /\ \A b \in Blocks : k.pool.refcnt[b]
                                                 = kv.pool.refcnt[b] - Among(blocks, i, b)
            V == [i \in 0 .. n |-> {k \in Spaces : Held(k, i)}]
            F == [i \in 1 .. n |-> [k \in V[i - 1] |-> ReleaseBlock(k, blocks[i])]]
            h == CHOOSE h : h = [i \in 0 .. n |->
                                   IF i = 0 THEN kv ELSE ReleaseBlock(h[i - 1], blocks[i])]
<1>n. n \in Nat
  BY LenProperties
<1>1. \A i \in 1 .. n : blocks[i] \in Blocks
  BY ElementOfSeq
<1>c. kv.pool.refcnt \in [Blocks -> Nat]
  BY SpaceFields, PoolFields
<1>2. kv \in V[0]
  <2>1. Held(kv, 0)
    <3>1. \A b \in Blocks : Among(blocks, 0, b) = 0
      BY AmongNone
    <3>. QED
      BY <1>c, <3>1 DEF PoolOnly
  <2>. HIDE DEF Held
  <2>. QED
    BY <1>n, <2>1
<1>3. ASSUME NEW i \in 1 .. n, NEW k \in V[i - 1]
      PROVE  ReleaseBlock(k, blocks[i]) \in V[i]
  <2>. DEFINE l == ReleaseBlock(k, blocks[i])
              j == i - 1
              c == blocks[i]
  <2>1. j \in 0 .. n /\ j \in Nat /\ i = j + 1 /\ i \in 0 .. n /\ c \in Blocks
    BY <1>n, <1>1
  <2>2. Held(k, j) /\ k \in Spaces
    BY <2>1
  <2>. HIDE DEF j, c, V
  <2>3. \A b \in Blocks :
          /\ k.pool.refcnt[b] = kv.pool.refcnt[b] - Among(blocks, j, b)
          /\ Among(blocks, j, b) \in Nat /\ kv.pool.refcnt[b] \in Nat
          /\ Among(blocks, i, b) = Among(blocks, j, b) + IF c = b THEN 1 ELSE 0
    <3>1. TAKE b \in Blocks
    <3>2. k.pool.refcnt[b] = kv.pool.refcnt[b] - Among(blocks, j, b)
      BY <2>2
    <3>3. Among(blocks, j, b) \in Nat
      BY <2>1, AmongNat
    <3>4. Among(blocks, i, b) = Among(blocks, j, b) + IF blocks[i] = b THEN 1 ELSE 0
      BY <2>1, AmongNext
    <3>. QED
      BY <1>c, <3>2, <3>3, <3>4 DEF c
  <2>4. Fine(k) /\ k.pool.refcnt[c] > 0
    <3>1. /\ Among(blocks, i, c) <= Among(blocks, n, c)
          /\ kv.pool.refcnt[c] >= Among(blocks, n, c)
          /\ Among(blocks, n, c) \in Nat
      BY <1>n, <2>1, AmongUpTo, AmongNat DEF Times, AllOwned
    <3>2. Among(blocks, i, c) = Among(blocks, j, c) + 1
      BY <2>1, <2>3
    <3>. QED
      <4>1. k.pool.refcnt[c] = kv.pool.refcnt[c] - Among(blocks, j, c)
            /\ Among(blocks, j, c) \in Nat /\ kv.pool.refcnt[c] \in Nat
        BY <2>1, <2>3
      <4>2. k.pool.refcnt[c] > 0
        BY <3>1, <3>2, <4>1
      <4>. QED
        BY <2>2, <4>2 DEF PoolOnly, Fine
  <2>5. /\ l \in Spaces /\ PoolOnly(k, l) /\ PoolOK(l.pool)
        /\ l.pool.refcnt = [k.pool.refcnt EXCEPT ![c] = k.pool.refcnt[c] - 1]
    BY <2>1, <2>2, <2>4, ReleaseBlockOK DEF c
  <2>6. k.pool.refcnt \in [Blocks -> Nat]
    BY <2>2, SpaceFields, PoolFields
  <2>. HIDE DEF l
  <2>7. ASSUME NEW b \in Blocks
        PROVE  l.pool.refcnt[b] = kv.pool.refcnt[b] - Among(blocks, i, b)
    <3>0. /\ k.pool.refcnt[b] = kv.pool.refcnt[b] - Among(blocks, j, b)
          /\ Among(blocks, j, b) \in Nat /\ kv.pool.refcnt[b] \in Nat
          /\ Among(blocks, i, b) = Among(blocks, j, b) + IF c = b THEN 1 ELSE 0
      BY <2>3
    <3>1. CASE c = b
      <4>1. l.pool.refcnt[b] = k.pool.refcnt[b] - 1
        BY <2>1, <2>5, <2>6, <3>1
      <4>2. Among(blocks, i, b) = Among(blocks, j, b) + 1
        BY <3>0, <3>1
      <4>. QED
        BY <3>0, <4>1, <4>2
    <3>2. CASE c # b
      <4>1. l.pool.refcnt[b] = k.pool.refcnt[b]
        BY <2>1, <2>5, <2>6, <3>2
      <4>. QED
        BY <3>0, <3>2, <4>1
    <3>. QED
      BY <3>1, <3>2
  <2>8. Held(l, i)
    <3>1. PoolOnly(kv, l)
      BY <2>2, <2>5 DEF PoolOnly
    <3>. QED
      BY <2>5, <2>7, <3>1
  <2>. HIDE DEF Held
  <2>9. l \in V[i]
    BY <2>1, <2>5, <2>8 DEF V
  <2>. QED
    BY <2>9 DEF l
<1>. HIDE DEF V
<1>4. \A i \in 1 .. n : \A k \in V[i - 1] : F[i][k] = ReleaseBlock(k, blocks[i])
  OBVIOUS
<1>. HIDE DEF F
<1>5. PICK g : LoopIs(n, V, F, kv, g)
  <2>1. \A i \in 1 .. n : \A k \in V[i - 1] : F[i][k] \in V[i]
    BY <1>3, <1>4
  <2>. HIDE DEF n, h
  <2>2. IsLoop(n, V, F, kv)
    BY <1>n, <1>2, <2>1 DEF IsLoop
  <2>. QED
    BY <2>2, LoopRuns
<1>6. g = [i \in 0 .. n |-> IF i = 0 THEN kv ELSE ReleaseBlock(g[i - 1], blocks[i])]
  <2>0. /\ g = [i \in 0 .. n |-> g[i]]
        /\ g[0] = kv
        /\ \A i \in 1 .. n : g[i] = F[i][g[i - 1]]
        /\ \A i \in 0 .. n : g[i] \in V[i]
    BY <1>5 DEF LoopIs
  <2>1. \A i \in 1 .. n : g[i - 1] \in V[i - 1]
    BY <1>n, <2>0
  <2>2. \A i \in 1 .. n : g[i] = ReleaseBlock(g[i - 1], blocks[i])
    BY <1>4, <2>0, <2>1
  <2>3. \A i \in 0 .. n : g[i] = IF i = 0 THEN kv ELSE ReleaseBlock(g[i - 1], blocks[i])
    BY <1>n, <2>0, <2>2, SMTT(60)
  <2>. QED
    BY <2>0, <2>3
<1>7. h = [i \in 0 .. n |-> IF i = 0 THEN kv ELSE ReleaseBlock(h[i - 1], blocks[i])]
  <2>1. \E e : e = [i \in 0 .. n |-> IF i = 0 THEN kv ELSE ReleaseBlock(e[i - 1], blocks[i])]
    BY <1>6
  <2>. QED
    BY <2>1
<1>8. kw = h[n]
  BY DEF ReleaseBlocks
<1>. HIDE DEF h
<1>9. \A i \in 0 .. n : h[i] \in V[i]
  <2>1. h[0] = kv /\ \A i \in 1 .. n : h[i] = ReleaseBlock(h[i - 1], blocks[i])
    BY <1>n, <1>7
  <2>2. \A i \in 1 .. n : h[i - 1] \in V[i - 1] => h[i] \in V[i]
    BY <1>3, <2>1
  <2>. HIDE DEF n
  <2>. QED
    BY <1>n, <1>2, <2>1, <2>2, LoopTurn
<1>10. h[n] \in V[n]
  BY <1>n, <1>9
<1>11. Held(h[n], n)
  <2>. HIDE DEF Held
  <2>. QED
    BY <1>n, <1>10 DEF V
<1>. QED
  BY <1>8, <1>11 DEF Times
-----------------------------------------------------------------------------
(* Page tables *)

LEMMA LastOf ==
    ASSUME NEW S, NEW p \in Seq(S), p # <<>>
    PROVE  Len(p) \in Nat \ {0} /\ Len(p) \in 1 .. Len(p) /\ Last(p) = p[Len(p)] /\ Last(p) \in S
<1>1. Len(p) \in Nat \ {0}
  BY EmptySeq, LenProperties
<1>2. Len(p) \in 1 .. Len(p)
  BY <1>1
<1>3. p[Len(p)] \in S
  BY <1>2, ElementOfSeq
<1>. QED
  BY <1>1, <1>2, <1>3 DEF Last

\* q is p with one more entry, e.
OneMore(p, q, e) ==
    \A b \in Blocks : /\ Times(p, b) \in Nat
                      /\ e = b => Times(q, b) = Times(p, b) + 1
                      /\ e # b => Times(q, b) = Times(p, b)

LEMMA TableAppended ==
    ASSUME NEW table \in Seq(Runs), NEW run \in Runs, NEW new, new = Append(table, run)
    PROVE  /\ new \in Seq(Runs) /\ new # <<>> /\ Last(new) = run /\ Len(new) = Len(table) + 1
           /\ OneMore(TableBlocks(table), TableBlocks(new), run.block)
<1>1. /\ new \in Seq(Runs) /\ Len(new) = Len(table) + 1 /\ new[Len(table) + 1] = run
      /\ Len(table) \in Nat /\ \A i \in 1 .. Len(table) : new[i] = table[i]
  BY AppendProperties, LenProperties
<1>2. new # <<>>
  <2>1. Len(<<>>) = 0
    OBVIOUS
  <2>. QED
    BY <1>1, <2>1
<1>3. Last(new) = run
  BY <1>1 DEF Last
<1>. DEFINE p == TableBlocks(table)
            q == TableBlocks(new)
            e == run.block
            n == Len(table)
<1>4. p \in Seq(Blocks) /\ Len(p) = n /\ \A i \in 1 .. n : p[i] = table[i].block
  BY BlocksOfTable
<1>5. q \in Seq(Blocks) /\ Len(q) = n + 1 /\ \A i \in 1 .. n + 1 : q[i] = new[i].block
  BY <1>1, BlocksOfTable
<1>6. e \in Blocks /\ n \in Nat
  BY <1>1, RunFields
<1>7. \A i \in 1 .. n : q[i] = p[i]
  <2>1. TAKE i \in 1 .. n
  <2>2. i \in 1 .. n + 1 /\ new[i] = table[i]
    BY <1>1
  <2>. QED
    BY <1>4, <1>5, <2>2
<1>8. q[n + 1] = e
  <2>1. n + 1 \in 1 .. n + 1
    BY <1>6
  <2>. QED
    BY <1>1, <1>5, <2>1
<1>. HIDE DEF p, q, e, n
<1>9. OneMore(p, q, e)
  <2>0. SUFFICES ASSUME NEW b \in Blocks
                 PROVE  /\ Times(p, b) \in Nat
                        /\ e = b => Times(q, b) = Times(p, b) + 1
                        /\ e # b => Times(q, b) = Times(p, b)
    BY DEF OneMore
  <2>2. Among(q, n, b) = Among(p, n, b) /\ Among(p, n, b) \in Nat
    BY <1>6, <1>7, AmongSame, AmongNat, ZenonT(60)
  <2>. DEFINE m == n + 1
  <2>3. m = n + 1 /\ q[m] = e
    BY <1>8
  <2>. HIDE DEF m
  <2>4. Among(q, m, b) = Among(q, n, b) + IF e = b THEN 1 ELSE 0
    BY <1>6, <2>3, AmongNext
  <2>5. Times(p, b) = Among(p, n, b) /\ Times(q, b) = Among(q, m, b)
    BY <1>4, <1>5, <2>3 DEF Times
  <2>. QED
    BY <2>2, <2>4, <2>5
<1>. QED
  BY <1>1, <1>2, <1>3, <1>9 DEF p, q, e

LEMMA RunWidened ==
    ASSUME NEW r \in Runs, NEW n
    PROVE  [r EXCEPT !.len = n] = [block |-> r.block, start |-> r.start, len |-> n]
<1>1. r \in [block : Blocks, start : Nat, len : Nat \ {0}]
  BY DEF Runs
<1>. QED
  BY <1>1

LEMMA TableWidened ==
    ASSUME NEW table \in Seq(Runs), table # <<>>, NEW n \in Nat,
           Last(table).start + Last(table).len + n <= block_size,
           NEW new, new = Widened(table, n)
    PROVE  /\ new \in Seq(Runs) /\ new # <<>> /\ Len(new) = Len(table)
           /\ Last(new).start = Last(table).start /\ Last(new).len = Last(table).len + n
           /\ TableBlocks(new) = TableBlocks(table)
<1>. DEFINE m == Len(table)
            run == [table[m] EXCEPT !.len = table[m].len + n]
<1>1. m \in Nat \ {0} /\ m \in 1 .. m /\ table[m] \in Runs /\ Last(table) = table[m]
  BY LastOf
<1>2. /\ table[m].block \in Blocks /\ table[m].start \in Nat /\ table[m].len \in Nat \ {0}
  BY <1>1, RunFields
<1>3. table \in [1 .. m -> Runs] /\ DOMAIN table = 1 .. m
  BY LenProperties
<1>4. new = [table EXCEPT ![m] = run]
  BY DEF Widened
<1>5. run \in Runs /\ run.block = table[m].block /\ run.start = table[m].start
      /\ run.len = table[m].len + n
  <2>0. table[m].start + (table[m].len + n) <= block_size
    BY <1>1, <1>2, TheConstants
  <2>1. run = [block |-> table[m].block, start |-> table[m].start, len |-> table[m].len + n]
    BY <1>1, RunWidened
  <2>2. table[m].len + n \in Nat \ {0}
    BY <1>2
  <2>3. [block |-> table[m].block, start |-> table[m].start, len |-> table[m].len + n] \in Runs
    BY <1>2, <2>0, <2>2, RunMade
  <2>. QED
    BY <2>1, <2>3
<1>. HIDE DEF m, run
<1>6. /\ new \in [1 .. m -> Runs] /\ DOMAIN new = 1 .. m /\ new[m] = run
      /\ \A i \in 1 .. m : i # m => new[i] = table[i]
  BY <1>1, <1>3, <1>4, <1>5
<1>7. new \in Seq(Runs) /\ Len(new) = m
  <2>1. new \in Seq(Runs)
    BY <1>1, <1>6, SeqDef
  <2>. QED
    BY <1>1, <1>6, <2>1, LenProperties
<1>8. new # <<>>
  <2>1. Len(<<>>) = 0
    OBVIOUS
  <2>. QED
    BY <1>1, <1>7, <2>1
<1>9. Last(new) = run
  BY <1>6, <1>7 DEF Last
<1>10. TableBlocks(new) = TableBlocks(table)
  <2>1. \A i \in 1 .. m : new[i].block = table[i].block
    BY <1>5, <1>6
  <2>. QED
    BY <1>3, <1>6, <2>1 DEF TableBlocks
<1>. QED
  BY <1>1, <1>5, <1>7, <1>8, <1>9, <1>10 DEF m
-----------------------------------------------------------------------------
(* A space in order *)

NodeShape(node) ==
    /\ Len(node.tokens) \in 1 .. MAX_NODE_TOKENS
    /\ node.offset \in 0 .. block_size - 1
    /\ Len(node.blocks) = BlocksFor(node, Len(node.tokens))
    /\ Len(node.blocks) <= MAX_NODE_BLOCKS

\* A tree in which the nodes of S hang on no parent: the ones an eviction still
\* has to take.
Formed(t, S) ==
    /\ t[ROOT].alive /\ t[ROOT].tokens = <<>>
    /\ t[ROOT].parent = INVALID
    /\ S \subseteq AliveNodes(t)
    /\ \A x \in Nodes : IsInjective(t[x].kids) /\ t[x].parent # x
    /\ \A x \in Nodes : ~t[x].alive => t[x].kids = <<>>
    /\ \A x \in Nodes : \A c \in ToSet(t[x].kids) : t[c].alive /\ t[c].parent = x /\ c \notin S
    /\ \A x \in AliveNodes(t) \ S : t[x].parent # INVALID /\ x \in ToSet(t[t[x].parent].kids)
    /\ \A x \in AliveNodes(t) : NodeShape(t[x])

\* Only a live request owns its last block, which then starts at slot 0.
SlotOK(q) ==
    /\ Len(q.table) <= MAX_BLOCKS_PER_SEQ
    /\ q.priv => q.live /\ q.table # <<>> /\ Last(q.table).start = 0

\* The counts are the references.
Accounted(kv) == \A b \in Blocks : kv.pool.refcnt[b] = Refs(kv, b)

Sound(kv) ==
    /\ kv \in Spaces /\ PoolOK(kv.pool) /\ Accounted(kv) /\ Formed(kv.tree, {})
    /\ \A s \in Slots : SlotOK(kv.rq[s])

LEMMA SoundIsSpace ==
    ASSUME NEW kv, Sound(kv)
    PROVE  kv \in Spaces /\ PoolOK(kv.pool) /\ kv.pool \in Pools
           /\ kv.pool.refcnt \in [Blocks -> Nat]
<1>1. kv \in Spaces
  BY DEF Sound
<1>. QED
  BY <1>1, SpaceFields, PoolFields DEF Sound

LEMMA SoundFail ==
    ASSUME NEW kv, Sound(kv)
    PROVE  Sound(Fail(kv))
<1>1. kv \in Spaces /\ PoolOK(kv.pool) /\ Accounted(kv) /\ Formed(kv.tree, {})
      /\ \A s \in Slots : SlotOK(kv.rq[s])
  BY DEF Sound
<1>2. /\ Fail(kv) \in Spaces /\ Fail(kv).pool = kv.pool /\ Fail(kv).tree = kv.tree
      /\ Fail(kv).rq = kv.rq
  BY <1>1, WithFail
<1>3. \A b : Refs(Fail(kv), b) = Refs(kv, b)
  <2>1. SameNodes(kv, Fail(kv)) /\ SameTables(kv, Fail(kv))
    BY <1>2 DEF SameNodes, SameTables
  <2>. QED
    BY <1>1, <1>2, <2>1, RefsSame
<1>. QED
  BY <1>1, <1>2, <1>3 DEF Sound, Accounted

\* A table changes and the counts with it.
LEMMA SoundTable ==
    ASSUME NEW kv, Sound(kv), NEW s \in Slots, NEW kw \in Spaces, PoolOK(kw.pool),
           kw.tree = kv.tree, \A r \in Slots \ {s} : kw.rq[r] = kv.rq[r],
           SlotOK(kw.rq[s]),
           \A b \in Blocks : kw.pool.refcnt[b]
                               = kv.pool.refcnt[b] - Times(TableBlocks(kv.rq[s].table), b)
                                   + Times(TableBlocks(kw.rq[s].table), b)
    PROVE  Sound(kw)
<1>1. kv \in Spaces /\ Accounted(kv) /\ Formed(kv.tree, {})
      /\ \A r \in Slots : SlotOK(kv.rq[r])
  BY DEF Sound
<1>2. SameNodes(kv, kw) /\ \A r \in Slots \ {s} : kw.rq[r].table = kv.rq[r].table
  BY DEF SameNodes
<1>3. \A b \in Blocks : Refs(kw, b) = Refs(kv, b) - Times(TableBlocks(kv.rq[s].table), b)
                                        + Times(TableBlocks(kw.rq[s].table), b)
  BY <1>1, <1>2, RefsTable
<1>4. Accounted(kw)
  BY <1>1, <1>3 DEF Accounted
<1>5. \A r \in Slots : SlotOK(kw.rq[r])
  BY <1>1
<1>6. Formed(kw.tree, {})
  BY <1>1
<1>. QED
  BY <1>4, <1>5, <1>6 DEF Sound
-----------------------------------------------------------------------------
(* Tokens of a page table *)

LEMMA TokensInIs ==
    ASSUME NEW table \in Seq(Runs)
    PROVE  /\ TokensIn(table)[0] = 0
           /\ \A i \in 0 .. Len(table) : TokensIn(table)[i] \in Nat
           /\ \A i \in 1 .. Len(table) :
                TokensIn(table)[i] = TokensIn(table)[i - 1] + table[i].len
<1>. DEFINE n == Len(table)
            V == [i \in 0 .. n |-> Nat]
            F == [i \in 1 .. n |-> [k \in V[i - 1] |-> k + table[i].len]]
            h == CHOOSE h : h = [i \in 0 .. n |-> IF i = 0 THEN 0 ELSE h[i - 1] + table[i].len]
<1>n. n \in Nat
  BY LenProperties
<1>1. \A i \in 1 .. n : table[i].len \in Nat
  <2>1. TAKE i \in 1 .. n
  <2>2. table[i] \in Runs
    BY ElementOfSeq
  <2>. QED
    BY <2>2, RunFields
<1>2. 0 \in V[0]
  BY <1>n
<1>3. ASSUME NEW i \in 1 .. n, NEW k \in V[i - 1]
      PROVE  k + table[i].len \in V[i]
  <2>1. i \in 0 .. n /\ i - 1 \in 0 .. n
    BY <1>n
  <2>2. k \in Nat
    BY <2>1
  <2>3. k + table[i].len \in Nat
    BY <1>1, <2>2
  <2>. QED
    BY <2>1, <2>3
<1>. HIDE DEF V
<1>4. \A i \in 1 .. n : \A k \in V[i - 1] : F[i][k] = k + table[i].len
  OBVIOUS
<1>. HIDE DEF F
<1>5. PICK g : LoopIs(n, V, F, 0, g)
  <2>1. \A i \in 1 .. n : \A k \in V[i - 1] : F[i][k] \in V[i]
    BY <1>3, <1>4
  <2>. HIDE DEF n, h
  <2>2. IsLoop(n, V, F, 0)
    BY <1>n, <1>2, <2>1 DEF IsLoop
  <2>. QED
    BY <2>2, LoopRuns
<1>6. g = [i \in 0 .. n |-> IF i = 0 THEN 0 ELSE g[i - 1] + table[i].len]
  <2>. HIDE DEF n, h
  <2>0. /\ g = [i \in 0 .. n |-> g[i]]
        /\ g[0] = 0
        /\ \A i \in 1 .. n : g[i] = F[i][g[i - 1]]
        /\ \A i \in 0 .. n : g[i] \in V[i]
    BY <1>5 DEF LoopIs
  <2>1. \A i \in 1 .. n : g[i - 1] \in V[i - 1]
    BY <1>n, <2>0
  <2>2. \A i \in 1 .. n : g[i] = g[i - 1] + table[i].len
    BY <1>4, <2>0, <2>1
  <2>3. ASSUME NEW i \in 0 .. n PROVE g[i] = IF i = 0 THEN 0 ELSE g[i - 1] + table[i].len
    <3>1. CASE i = 0
      BY <2>0, <3>1
    <3>2. CASE i # 0
      <4>1. i \in 1 .. n
        BY <1>n, <3>2
      <4>. QED
        BY <2>2, <3>2, <4>1
    <3>. QED
      BY <3>1, <3>2
  <2>. QED
    BY <2>0, <2>3
<1>7. h = [i \in 0 .. n |-> IF i = 0 THEN 0 ELSE h[i - 1] + table[i].len]
  <2>1. \E e : e = [i \in 0 .. n |-> IF i = 0 THEN 0 ELSE e[i - 1] + table[i].len]
    BY <1>6
  <2>. QED
    BY <2>1
<1>8. TokensIn(table) = h
  BY DEF TokensIn
<1>. HIDE DEF h
<1>9. \A i \in 0 .. n : h[i] \in V[i]
  <2>1. h[0] = 0 /\ \A i \in 1 .. n : h[i] = h[i - 1] + table[i].len
    BY <1>n, <1>7
  <2>2. \A i \in 1 .. n : h[i - 1] \in V[i - 1] => h[i] \in V[i]
    BY <1>3, <2>1
  <2>. HIDE DEF n
  <2>. QED
    BY <1>n, <1>2, <2>1, <2>2, LoopTurn
<1>10. h[n] \in V[n]
  BY <1>n, <1>9
<1>11. h[0] = 0 /\ \A i \in 1 .. n : h[i] = h[i - 1] + table[i].len
  BY <1>n, <1>7
<1>12. \A i \in 0 .. n : h[i] \in Nat
  BY <1>9 DEF V
<1>. QED
  BY <1>8, <1>11, <1>12

\* Tables that agree on their first entries' lengths agree on the tokens there.
LEMMA TokensSame ==
    ASSUME NEW table \in Seq(Runs), NEW new \in Seq(Runs), NEW m \in Nat,
           m <= Len(table), m <= Len(new), \A i \in 1 .. m : new[i].len = table[i].len
    PROVE  \A i \in 0 .. m : TokensIn(new)[i] = TokensIn(table)[i]
<1>. DEFINE S == {i \in 0 .. m : TokensIn(new)[i] = TokensIn(table)[i]}
<1>1. 0 \in S
  BY TokensInIs
<1>2. ASSUME NEW i \in 0 .. m - 1, i \in S PROVE i + 1 \in S
  <2>. DEFINE j == i + 1
  <2>1. Len(table) \in Nat /\ Len(new) \in Nat
    BY LenProperties
  <2>2. j \in 1 .. Len(table) /\ j \in 1 .. Len(new) /\ j \in 1 .. m /\ j - 1 = i /\ j \in 0 .. m
    BY <2>1
  <2>. HIDE DEF j
  <2>3. /\ TokensIn(table)[j] = TokensIn(table)[i] + table[j].len
        /\ TokensIn(new)[j] = TokensIn(new)[i] + new[j].len
    BY <2>2, TokensInIs
  <2>4. TokensIn(new)[i] = TokensIn(table)[i] /\ new[j].len = table[j].len
    BY <1>2, <2>2
  <2>5. TokensIn(new)[j] = TokensIn(table)[j]
    BY <2>3, <2>4
  <2>6. j \in S
    BY <2>2, <2>5
  <2>. QED
    BY <2>6 DEF j
<1>3. \A i \in 0 .. m : i \in S
  <2>. HIDE DEF S
  <2>. QED
    BY <1>1, <1>2, UpTo
<1>. QED
  BY <1>3

LEMMA TokensNat ==
    ASSUME NEW table \in Seq(Runs)
    PROVE  n_tokens(table) \in Nat /\ (table = <<>> => n_tokens(table) = 0)
<1>1. Len(table) \in Nat /\ Len(table) \in 0 .. Len(table)
  BY LenProperties
<1>2. Len(<<>>) = 0
  OBVIOUS
<1>. QED
  BY <1>1, <1>2, TokensInIs DEF n_tokens

LEMMA TokensAppended ==
    ASSUME NEW table \in Seq(Runs), NEW run \in Runs, NEW new, new = Append(table, run)
    PROVE  n_tokens(new) = n_tokens(table) + run.len
<1>. DEFINE n == Len(table)
            m == n + 1
<1>1. new \in Seq(Runs) /\ Len(new) = m /\ new[m] = run /\ n \in Nat
      /\ \A i \in 1 .. n : new[i] = table[i]
  BY AppendProperties, LenProperties
<1>2. m \in 1 .. m /\ n <= m /\ m - 1 = n /\ n \in 0 .. n
  BY <1>1
<1>. HIDE DEF n, m
<1>3. TokensIn(new)[n] = TokensIn(table)[n]
  <2>1. \A i \in 0 .. n : TokensIn(new)[i] = TokensIn(table)[i]
    <3>1. n = Len(table) /\ n <= Len(table) /\ n <= Len(new)
      BY <1>1, <1>2 DEF n
    <3>2. \A i \in 1 .. n : new[i].len = table[i].len
      BY <1>1
    <3>. QED
      BY <1>1, <3>1, <3>2, TokensSame
  <2>. QED
    BY <1>2, <2>1
<1>4. TokensIn(new)[m] = TokensIn(new)[n] + run.len
  BY <1>1, <1>2, TokensInIs
<1>. QED
  BY <1>1, <1>3, <1>4 DEF n_tokens, n

LEMMA TokensWidened ==
    ASSUME NEW table \in Seq(Runs), table # <<>>, NEW n \in Nat,
           Last(table).start + Last(table).len + n <= block_size,
           NEW new, new = Widened(table, n)
    PROVE  n_tokens(new) = n_tokens(table) + n
<1>. DEFINE m == Len(table)
            k == m - 1
<1>1. m \in Nat \ {0} /\ m \in 1 .. m /\ table[m] \in Runs /\ Last(table) = table[m]
  BY LastOf
<1>2. /\ new \in Seq(Runs) /\ new # <<>> /\ Len(new) = m /\ Last(new).len = Last(table).len + n
  BY TableWidened
<1>3. Last(new) = new[m]
  BY <1>2, LastOf
<1>4. DOMAIN table = 1 .. m
  BY LenProperties
<1>5. \A i \in 1 .. m : i # m => new[i] = table[i]
  BY <1>4 DEF Widened
<1>6. k \in Nat /\ k <= m /\ k \in 0 .. k /\ \A i \in 1 .. k : i \in 1 .. m /\ i # m
  BY <1>1
<1>. HIDE DEF m, k
<1>7. TokensIn(new)[k] = TokensIn(table)[k]
  <2>1. \A i \in 1 .. k : new[i].len = table[i].len
    BY <1>5, <1>6
  <2>2. \A i \in 0 .. k : TokensIn(new)[i] = TokensIn(table)[i]
    BY <1>2, <1>6, <2>1, TokensSame DEF m
  <2>. QED
    BY <1>6, <2>2
<1>8. /\ TokensIn(table)[m] = TokensIn(table)[k] + table[m].len
      /\ TokensIn(new)[m] = TokensIn(new)[k] + new[m].len
  BY <1>1, <1>2, TokensInIs DEF m, k
<1>9. table[m].len \in Nat /\ TokensIn(table)[k] \in Nat
  <2>1. k \in 0 .. m
    BY <1>1, <1>6
  <2>2. TokensIn(table)[k] \in Nat
    BY <2>1, TokensInIs DEF m
  <2>. QED
    BY <1>1, <2>2, RunFields
<1>10. n_tokens(table) = TokensIn(table)[m] /\ n_tokens(new) = TokensIn(new)[m]
  BY <1>2 DEF n_tokens, m
<1>11. new[m].len = table[m].len + n
  BY <1>1, <1>2, <1>3
<1>. QED
  BY <1>7, <1>8, <1>9, <1>10, <1>11
-----------------------------------------------------------------------------
(* Fresh blocks *)

\* A call that only lengthened the table of s.
Around(kv, kw, s) ==
    /\ kw \in Spaces /\ kw.tree = kv.tree
    /\ RestOfSlot(kv.rq[s], kw.rq[s])
    /\ \A r \in Slots \ {s} : kw.rq[r] = kv.rq[r]

\* It failed on the full table of s.
FullAt(kv, s) == ~kv.ok /\ Len(kv.rq[s].table) = MAX_BLOCKS_PER_SEQ

\* In order, or given up with the table of s full.
SoundOrFull(kv, s) == Sound(kv) \/ FullAt(kv, s)

\* n more tokens in the table of s, unless the call failed.
Grew(kv, kw, s, n) ==
    Fine(kw) => Sound(kw) /\ n_tokens(kw.rq[s].table) = n_tokens(kv.rq[s].table) + n

\* The last run of s starts its block.
AtStart(kv, s) == kv.rq[s].table # <<>> /\ Last(kv.rq[s].table).start = 0

LEMMA AroundSelf ==
    ASSUME NEW kv \in Spaces, NEW s \in Slots
    PROVE  Around(kv, kv, s)
BY DEF Around, RestOfSlot

LEMMA AroundFail ==
    ASSUME NEW kv \in Spaces, NEW s \in Slots
    PROVE  Around(kv, Fail(kv), s) /\ ~Fine(Fail(kv))
BY WithFail DEF Around, RestOfSlot, Fine

LEMMA AroundTwice ==
    ASSUME NEW kv, NEW k, NEW kw, NEW s, Around(kv, k, s), Around(k, kw, s)
    PROVE  Around(kv, kw, s)
BY DEF Around, RestOfSlot

LEMMA SlotTable ==
    ASSUME NEW kv \in Spaces, NEW s \in Slots
    PROVE  /\ kv.rq[s] \in Requests /\ kv.rq[s].table \in Seq(Runs)
           /\ TableBlocks(kv.rq[s].table) \in Seq(Blocks)
           /\ Len(kv.rq[s].table) \in Nat
<1>1. kv.rq[s] \in Requests
  BY SpaceFields
<1>2. kv.rq[s].table \in Seq(Runs)
  BY <1>1, RequestFields
<1>. QED
  BY <1>1, <1>2, BlocksOfTable, LenProperties

LEMMA FreshRunOK ==
    ASSUME NEW kv, Sound(kv), Fine(kv), NEW s \in Slots, NEW take \in 1 .. block_size,
           NEW kw, kw = FreshRun(kv, s, take)
    PROVE  /\ Around(kv, kw, s) /\ SoundOrFull(kw, s) /\ Grew(kv, kw, s, take)
           /\ Fine(kw) => AtStart(kw, s)
<1>. DEFINE b == NextFree(kv.pool)
            P == AfterAlloc(kv.pool)
            taken == [kv EXCEPT !.pool = P]
            T == kv.rq[s].table
            run == [block |-> b, start |-> 0, len |-> take]
            U == Append(T, run)
            l == [taken EXCEPT !.rq[s].table = U]
<1>1. kv \in Spaces /\ PoolOK(kv.pool) /\ kv.pool.refcnt \in [Blocks -> Nat]
      /\ T \in Seq(Runs) /\ Len(T) \in Nat /\ SlotOK(kv.rq[s])
  BY SoundIsSpace, SlotTable DEF Sound
<1>2. CASE ~CanAlloc(kv.pool)
  <2>1. kw = Fail(kv)
    BY <1>2 DEF FreshRun, Fine
  <2>. QED
    BY <1>1, <2>1, AroundFail, SoundFail DEF SoundOrFull, Grew
<1>3. CASE CanAlloc(kv.pool)
  <2>1. b \in Blocks /\ kv.pool.refcnt[b] = 0 /\ PoolOK(P)
        /\ P.refcnt = [kv.pool.refcnt EXCEPT ![b] = 1]
    BY <1>1, <1>3, AllocOK
  <2>2. P \in Pools
    BY <2>1 DEF PoolOK
  <2>3. kw = IF Len(T) = MAX_BLOCKS_PER_SEQ THEN Fail(taken) ELSE l
    BY <1>3, <2>1 DEF FreshRun, Fine
  <2>. HIDE DEF P, b
  <2>4. \A k : k = [kv EXCEPT !.pool = P] => k \in Spaces /\ k.pool = P /\ PoolOnly(kv, k)
    BY <1>1, <2>2, WithPool
  <2>5. taken \in Spaces /\ taken.pool = P /\ PoolOnly(kv, taken)
    BY <2>4
  <2>. HIDE DEF taken
  <2>6. taken.tree = kv.tree /\ taken.rq = kv.rq /\ taken.ok = kv.ok
    BY <2>5 DEF PoolOnly
  <2>7. Around(kv, taken, s)
    BY <2>5, <2>6 DEF Around, RestOfSlot
  <2>8. CASE Len(T) = MAX_BLOCKS_PER_SEQ
    <3>1. kw = Fail(taken)
      BY <2>3, <2>8
    <3>2. Around(taken, kw, s) /\ ~Fine(kw)
      BY <2>5, <3>1, AroundFail
    <3>3. kw.rq = kv.rq
      BY <2>5, <2>6, <3>1, WithFail
    <3>4. FullAt(kw, s)
      BY <2>8, <3>2, <3>3 DEF FullAt, Fine
    <3>. QED
      BY <2>7, <3>2, <3>4, AroundTwice DEF SoundOrFull, Grew
  <2>9. CASE Len(T) # MAX_BLOCKS_PER_SEQ
    <3>1. kw = l
      BY <2>3, <2>9
    <3>2. run \in Runs
      BY <2>1, TheConstants, RunMade
    <3>3. /\ U \in Seq(Runs) /\ U # <<>> /\ Last(U) = run /\ Len(U) = Len(T) + 1
          /\ OneMore(TableBlocks(T), TableBlocks(U), run.block)
      <4>1. U = Append(T, run)
        OBVIOUS
      <4>. HIDE DEF run, T, U
      <4>. QED
        BY <1>1, <3>2, <4>1, TableAppended
    <3>4. n_tokens(U) = n_tokens(T) + take
      <4>1. run.len = take
        OBVIOUS
      <4>. HIDE DEF run, T
      <4>. QED
        BY <1>1, <3>2, <4>1, TokensAppended
    <3>5. run.block = b /\ run.start = 0
      OBVIOUS
    <3>. HIDE DEF U, run
    <3>6. \A k : k = [taken EXCEPT !.rq[s].table = U]
                   => k \in Spaces /\ k.rq[s].table = U /\ TableOnly(taken, k, s)
      BY <2>5, <3>3, WithSlotTable
    <3>7. l \in Spaces /\ l.rq[s].table = U /\ TableOnly(taken, l, s)
      BY <3>6
    <3>. HIDE DEF l
    <3>8. l.pool = P /\ l.tree = kv.tree /\ Around(kv, l, s)
      BY <2>5, <2>6, <3>7 DEF TableOnly, Around
    <3>9. SlotOK(l.rq[s])
      <4>1. Len(U) <= MAX_BLOCKS_PER_SEQ
        BY <1>1, <2>9, <3>3, TheConstants DEF SlotOK
      <4>2. RestOfSlot(kv.rq[s], l.rq[s])
        BY <3>8 DEF Around
      <4>. QED
        BY <1>1, <3>3, <3>5, <3>7, <4>1, <4>2 DEF SlotOK, RestOfSlot
    <3>10. \A c \in Blocks : l.pool.refcnt[c] = kv.pool.refcnt[c] - Times(TableBlocks(T), c)
                                                  + Times(TableBlocks(U), c)
      <4>1. SUFFICES ASSUME NEW c \in Blocks
                     PROVE  P.refcnt[c] = kv.pool.refcnt[c] - Times(TableBlocks(T), c)
                                            + Times(TableBlocks(U), c)
        BY <3>8
      <4>2. kv.pool.refcnt[c] \in Nat /\ Times(TableBlocks(T), c) \in Nat
        BY <1>1, <3>3 DEF OneMore
      <4>3. CASE c = b
        <5>1. P.refcnt[c] = 1 /\ kv.pool.refcnt[c] = 0
          BY <1>1, <2>1, <4>3
        <5>2. Times(TableBlocks(U), c) = Times(TableBlocks(T), c) + 1
          BY <3>3, <3>5, <4>3 DEF OneMore
        <5>. QED
          BY <4>2, <5>1, <5>2
      <4>4. CASE c # b
        <5>1. P.refcnt[c] = kv.pool.refcnt[c]
          BY <1>1, <2>1, <4>4
        <5>2. Times(TableBlocks(U), c) = Times(TableBlocks(T), c)
          BY <3>3, <3>5, <4>4 DEF OneMore
        <5>. QED
          BY <4>2, <5>1, <5>2
      <4>. QED
        BY <4>3, <4>4
    <3>11. Sound(l)
      <4>1. PoolOK(l.pool) /\ \A r \in Slots \ {s} : l.rq[r] = kv.rq[r]
        BY <2>1, <3>8 DEF Around
      <4>. QED
        BY <3>7, <3>8, <3>9, <3>10, <4>1, SoundTable
    <3>12. AtStart(l, s)
      BY <3>3, <3>5, <3>7 DEF AtStart
    <3>. QED
      BY <3>1, <3>4, <3>7, <3>8, <3>11, <3>12 DEF SoundOrFull, Grew
  <2>. QED
    BY <2>8, <2>9
<1>. QED
  BY <1>2, <1>3

\* The tokens in the first i of the blocks that take n tokens.
Filled(n, i) == IF i * block_size <= n THEN i * block_size ELSE n

LEMMA TakeIs ==
    ASSUME NEW n \in Nat, NEW i \in 1 .. ceil_div(n, block_size), NEW j, j = i - 1
    PROVE  /\ Take(n, i) \in 1 .. block_size
           /\ Filled(n, j) \in Nat /\ Filled(n, i) = Filled(n, j) + Take(n, i)
<1>. DEFINE bs == block_size
            c == ceil_div(n, bs)
            q == n \div bs
            r == n % bs
            z == bs * q
            y == bs * j
            x == bs * i
            w == bs * c
<1>1. bs \in Nat \ {0}
  BY TheConstants
<1>2. c \in Nat /\ n <= w /\ w < n + bs /\ w \in Nat
  BY <1>1, CeilIs
<1>3. q \in Nat /\ r \in 0 .. bs - 1 /\ n = z + r /\ z \in Nat
  BY <1>1, DivIs
<1>. HIDE DEF bs, c, q, r
<1>4. i \in Nat /\ j \in Nat /\ i = j + 1 /\ i <= c
  BY <1>2 DEF c, bs
<1>5. x = y + bs /\ y \in Nat /\ x \in Nat /\ i * bs = x /\ j * bs = y
  <2>1. bs * (j + 1) = bs * j + bs /\ bs * j \in Nat /\ j * bs = bs * j
    BY <1>1, <1>4, TimesNext
  <2>2. i * bs = bs * i
    BY <1>1, <1>4, TimesNext
  <2>. QED
    BY <1>1, <1>4, <2>1, <2>2
<1>6. x <= w
  BY <1>1, <1>2, <1>4, TimesGrow
<1>7. y <= n
  BY <1>1, <1>2, <1>5, <1>6
<1>8. Take(n, i) = IF x <= n THEN bs ELSE r
  BY <1>5 DEF Take, bs, r
<1>9. Filled(n, i) = (IF x <= n THEN x ELSE n) /\ Filled(n, j) = y
  BY <1>5, <1>7 DEF Filled, bs
<1>10. CASE x <= n
  <2>. HIDE DEF x, y, z, w
  <2>. QED
    BY <1>1, <1>5, <1>8, <1>9, <1>10 DEF bs
<1>11. CASE ~(x <= n)
  \* j blocks are full and the next one is not: n \div block_size = j
  <2>1. j + 1 <= q => x <= z
    BY <1>1, <1>3, <1>4, TimesGrow
  <2>2. q + 1 <= j => z + bs <= y
    <3>1. bs * (q + 1) = bs * q + bs
      BY <1>1, <1>3, TimesNext
    <3>2. q + 1 <= j => bs * (q + 1) <= bs * j
      BY <1>1, <1>3, <1>4, TimesGrow
    <3>. QED
      BY <3>1, <3>2
  <2>3. ~(x <= z)
    <3>. HIDE DEF x, y, z, w
    <3>. QED
      BY <1>1, <1>3, <1>5, <1>11
  <2>4. ~(z + bs <= y)
    <3>. HIDE DEF x, y, z, w
    <3>. QED
      BY <1>1, <1>3, <1>5, <1>7
  <2>5. q = j
    <3>. HIDE DEF x, y, z, w
    <3>. QED
      BY <1>3, <1>4, <2>1, <2>2, <2>3, <2>4
  <2>6. z = y
    BY <2>5
  <2>. HIDE DEF x, y, z, w
  <2>7. r \in 1 .. bs
    BY <1>1, <1>3, <1>5, <1>6, <1>2, <1>11, <2>6
  <2>. QED
    BY <1>1, <1>3, <1>5, <1>8, <1>9, <1>11, <2>6, <2>7 DEF bs
<1>. QED
  BY <1>10, <1>11

LEMMA FilledEnds ==
    ASSUME NEW n \in Nat
    PROVE  Filled(n, 0) = 0 /\ Filled(n, ceil_div(n, block_size)) = n
<1>. DEFINE bs == block_size
            c == ceil_div(n, bs)
            w == bs * c
<1>1. bs \in Nat \ {0}
  BY TheConstants
<1>2. c \in Nat /\ n <= w /\ w \in Nat
  BY <1>1, CeilIs
<1>. HIDE DEF c, bs
<1>3. c * bs = w /\ 0 * bs = 0
  <2>1. c * bs = bs * c
    BY <1>1, <1>2, TimesNext
  <2>. QED
    BY <1>1, <2>1, SMT
<1>. HIDE DEF w
<1>4. Filled(n, c) = n
  BY <1>2, <1>3 DEF Filled, bs
<1>5. Filled(n, 0) = 0
  BY <1>1, <1>3 DEF Filled, bs
<1>. QED
  BY <1>4, <1>5 DEF c, bs

\* n tokens in fresh blocks.
LEMMA FreshRunsOK ==
    ASSUME NEW kv, Sound(kv), Fine(kv), NEW s \in Slots, NEW n \in Nat,
           NEW kw, kw = FreshRuns(kv, s, n)
    PROVE  /\ Around(kv, kw, s) /\ SoundOrFull(kw, s) /\ Grew(kv, kw, s, n)
           /\ n # 0 /\ Fine(kw) => AtStart(kw, s)
<1>. DEFINE c == ceil_div(n, block_size)
            Held(k, i) == /\ Around(kv, k, s) /\ SoundOrFull(k, s)
                          /\ Grew(kv, k, s, Filled(n, i))
                          /\ i # 0 /\ Fine(k) => AtStart(k, s)
            V == [i \in 0 .. c |-> {k \in Spaces : Held(k, i)}]
            F == [i \in 1 .. c |-> [k \in V[i - 1] |-> FreshRun(k, s, Take(n, i))]]
            h == CHOOSE h : h = [i \in 0 .. c |->
                                   IF i = 0 THEN kv ELSE FreshRun(h[i - 1], s, Take(n, i))]
<1>n. c \in Nat
  BY TheConstants, CeilIs
<1>1. kv \in Spaces
  BY SoundIsSpace
<1>2. kv \in V[0]
  <2>1. Held(kv, 0)
    <3>1. n_tokens(kv.rq[s].table) \in Nat
      BY <1>1, SlotTable, TokensNat
    <3>2. Grew(kv, kv, s, 0)
      BY <3>1 DEF Grew
    <3>. QED
      BY <1>1, <3>2, AroundSelf, FilledEnds DEF SoundOrFull
  <2>. HIDE DEF Held, c
  <2>. QED
    BY <1>n, <1>1, <2>1
<1>3. ASSUME NEW i \in 1 .. c, NEW k \in V[i - 1]
      PROVE  FreshRun(k, s, Take(n, i)) \in V[i]
  <2>. DEFINE l == FreshRun(k, s, Take(n, i))
              j == i - 1
  <2>1. j \in 0 .. c /\ i \in 0 .. c /\ i # 0 /\ i \in 1 .. c
    BY <1>n
  <2>. HIDE DEF c
  <2>2. Held(k, j) /\ k \in Spaces
    BY <2>1
  <2>3. j = i - 1
    OBVIOUS
  <2>. HIDE DEF V, j
  <2>4. /\ Take(n, i) \in 1 .. block_size
        /\ Filled(n, j) \in Nat /\ Filled(n, i) = Filled(n, j) + Take(n, i)
    BY <2>1, <2>3, TakeIs DEF c
  <2>5. CASE Fine(k)
    <3>1. Sound(k) /\ n_tokens(k.rq[s].table) = n_tokens(kv.rq[s].table) + Filled(n, j)
      BY <2>2, <2>5 DEF Grew
    <3>2. /\ Around(k, l, s) /\ SoundOrFull(l, s) /\ Grew(k, l, s, Take(n, i))
          /\ Fine(l) => AtStart(l, s)
      BY <2>4, <2>5, <3>1, FreshRunOK
    <3>. HIDE DEF l
    <3>3. Around(kv, l, s)
      BY <2>2, <3>2, AroundTwice
    <3>4. Grew(kv, l, s, Filled(n, i))
      <4>1. n_tokens(kv.rq[s].table) \in Nat
        BY <1>1, SlotTable, TokensNat
      <4>. QED
        BY <2>4, <3>1, <3>2, <4>1 DEF Grew
    <3>5. l \in Spaces
      BY <3>2 DEF Around
    <3>6. Held(l, i)
      BY <3>2, <3>3, <3>4
    <3>. HIDE DEF Held
    <3>7. l \in V[i]
      BY <2>1, <3>5, <3>6 DEF V
    <3>. QED
      BY <3>7 DEF l
  <2>6. CASE ~Fine(k)
    <3>1. l = k
      BY <2>6 DEF FreshRun, Fine
    <3>. HIDE DEF l
    <3>2. Held(l, i)
      BY <2>2, <2>6, <3>1 DEF Grew
    <3>. HIDE DEF Held
    <3>3. l \in V[i]
      BY <2>1, <2>2, <3>1, <3>2 DEF V
    <3>. QED
      BY <3>3 DEF l
  <2>. QED
    BY <2>5, <2>6
<1>. HIDE DEF V
<1>4. \A i \in 1 .. c : \A k \in V[i - 1] : F[i][k] = FreshRun(k, s, Take(n, i))
  OBVIOUS
<1>. HIDE DEF F
<1>5. PICK g : LoopIs(c, V, F, kv, g)
  <2>1. \A i \in 1 .. c : \A k \in V[i - 1] : F[i][k] \in V[i]
    BY <1>3, <1>4
  <2>. HIDE DEF c, h
  <2>2. IsLoop(c, V, F, kv)
    BY <1>n, <1>2, <2>1 DEF IsLoop
  <2>. QED
    BY <2>2, LoopRuns
<1>6. g = [i \in 0 .. c |-> IF i = 0 THEN kv ELSE FreshRun(g[i - 1], s, Take(n, i))]
  <2>. HIDE DEF c, h
  <2>0. /\ g = [i \in 0 .. c |-> g[i]]
        /\ g[0] = kv
        /\ \A i \in 1 .. c : g[i] = F[i][g[i - 1]]
        /\ \A i \in 0 .. c : g[i] \in V[i]
    BY <1>5 DEF LoopIs
  <2>1. \A i \in 1 .. c : g[i - 1] \in V[i - 1]
    BY <1>n, <2>0
  <2>2. \A i \in 1 .. c : g[i] = FreshRun(g[i - 1], s, Take(n, i))
    BY <1>4, <2>0, <2>1
  <2>3. ASSUME NEW i \in 0 .. c PROVE g[i] = IF i = 0 THEN kv ELSE FreshRun(g[i - 1], s, Take(n, i))
    <3>1. CASE i = 0
      BY <2>0, <3>1
    <3>2. CASE i # 0
      <4>1. i \in 1 .. c
        BY <1>n, <3>2
      <4>. QED
        BY <2>2, <3>2, <4>1
    <3>. QED
      BY <3>1, <3>2
  <2>. QED
    BY <2>0, <2>3
<1>7. h = [i \in 0 .. c |-> IF i = 0 THEN kv ELSE FreshRun(h[i - 1], s, Take(n, i))]
  <2>1. \E e : e = [i \in 0 .. c |-> IF i = 0 THEN kv ELSE FreshRun(e[i - 1], s, Take(n, i))]
    BY <1>6
  <2>. QED
    BY <2>1
<1>8. kw = h[c]
  BY DEF FreshRuns
<1>. HIDE DEF h
<1>9. \A i \in 0 .. c : h[i] \in V[i]
  <2>1. h[0] = kv /\ \A i \in 1 .. c : h[i] = FreshRun(h[i - 1], s, Take(n, i))
    BY <1>n, <1>7
  <2>2. \A i \in 1 .. c : h[i - 1] \in V[i - 1] => h[i] \in V[i]
    BY <1>3, <2>1
  <2>. HIDE DEF c
  <2>. QED
    BY <1>n, <1>2, <2>1, <2>2, LoopTurn
<1>10. h[c] \in V[c]
  BY <1>n, <1>9
<1>11. Held(h[c], c)
  <2>. HIDE DEF Held, c
  <2>. QED
    BY <1>n, <1>10 DEF V
<1>12. n # 0 => c # 0
  BY TheConstants, CeilPositive
<1>13. Filled(n, c) = n
  BY FilledEnds
<1>. HIDE DEF c
<1>. QED
  BY <1>8, <1>11, <1>12, <1>13
-----------------------------------------------------------------------------
(* Shared blocks *)

\* A node of the tree names b.
InTree(t, b) == \E x \in AliveNodes(t) : \E i \in 1 .. Len(t[x].blocks) : t[x].blocks[i] = b

LEMMA HeldByTree ==
    ASSUME NEW kv, Sound(kv), NEW b \in Blocks, InTree(kv.tree, b)
    PROVE  kv.pool.refcnt[b] \in Nat /\ kv.pool.refcnt[b] > 0
<1>1. kv \in Spaces /\ Accounted(kv)
  BY DEF Sound
<1>2. PICK x \in AliveNodes(kv.tree) :
        \E i \in 1 .. Len(kv.tree[x].blocks) : kv.tree[x].blocks[i] = b
  BY DEF InTree
<1>3. PICK i \in 1 .. Len(kv.tree[x].blocks) : kv.tree[x].blocks[i] = b
  BY <1>2
<1>. DEFINE p == NodeView(kv.tree, x)
<1>4. x \in Nodes /\ p = kv.tree[x].blocks
  BY DEF AliveNodes, NodeView
<1>5. kv.tree[x].blocks \in Seq(Blocks)
  BY <1>1, <1>4, SpaceFields, NodeFields
<1>6. p \in Seq(Blocks) /\ i \in 1 .. Len(p) /\ p[i] = b
  BY <1>3, <1>4, <1>5
<1>. HIDE DEF p
<1>7. Len(p) \in Nat
  BY <1>6, LenProperties
<1>8. Times(p, b) > 0
  BY <1>6, <1>7, AmongSome DEF Times
<1>9. SameTables(kv, kv)
  BY DEF SameTables
<1>10. Refs(kv, b) \in Nat /\ Times(p, b) \in Nat /\ Times(p, b) <= Refs(kv, b)
  BY <1>1, <1>4, <1>9, RefsNode DEF p
<1>. QED
  BY <1>1, <1>8, <1>10 DEF Accounted

LEMMA ShareRunOK ==
    ASSUME NEW kv, Sound(kv), Fine(kv), NEW s \in Slots, ~kv.rq[s].priv,
           NEW run \in Runs, InTree(kv.tree, run.block), NEW kw, kw = ShareRun(kv, s, run)
    PROVE  Around(kv, kw, s) /\ Sound(kw) /\ Grew(kv, kw, s, run.len)
<1>. DEFINE T == kv.rq[s].table
            b == run.block
<1>1. kv \in Spaces /\ PoolOK(kv.pool) /\ kv.pool.refcnt \in [Blocks -> Nat]
      /\ T \in Seq(Runs) /\ Len(T) \in Nat /\ SlotOK(kv.rq[s]) /\ SlotOK(kv.rq[s])
  BY SoundIsSpace, SlotTable DEF Sound
<1>2. b \in Blocks /\ run.start \in Nat /\ run.len \in Nat \ {0}
      /\ run.start + run.len <= block_size
  BY RunFields
<1>3. CASE Continues(T, run)
  <2>. DEFINE W == Widened(T, run.len)
              l == [kv EXCEPT !.rq[s].table = W]
  <2>1. kw = l
    BY <1>3 DEF ShareRun, Fine
  <2>2. T # <<>> /\ Last(T).start + Last(T).len + run.len <= block_size
    <3>1. T # <<>> /\ Last(T).start + Last(T).len = run.start
      BY <1>3 DEF Continues
    <3>2. Last(T) \in Runs
      BY <1>1, <3>1, LastOf
    <3>3. Last(T).start \in Nat /\ Last(T).len \in Nat
      BY <3>2, RunFields
    <3>. QED
      BY <1>2, <3>1, <3>3, TheConstants
  <2>3. W = Widened(T, run.len)
    OBVIOUS
  <2>. HIDE DEF W, T
  <2>4. /\ W \in Seq(Runs) /\ W # <<>> /\ Len(W) = Len(T)
        /\ Last(W).start = Last(T).start
        /\ TableBlocks(W) = TableBlocks(T)
    BY <1>1, <1>2, <2>2, <2>3, TableWidened
  <2>5. n_tokens(W) = n_tokens(T) + run.len
    BY <1>1, <1>2, <2>2, <2>3, TokensWidened
  <2>6. \A k : k = [kv EXCEPT !.rq[s].table = W]
                 => k \in Spaces /\ k.rq[s].table = W /\ TableOnly(kv, k, s)
    BY <1>1, <2>4, WithSlotTable
  <2>7. l \in Spaces /\ l.rq[s].table = W /\ TableOnly(kv, l, s)
    BY <2>6
  <2>. HIDE DEF l
  <2>8. l.pool = kv.pool /\ l.tree = kv.tree /\ Around(kv, l, s)
    BY <2>7 DEF TableOnly, Around
  <2>9. SlotOK(l.rq[s])
    <3>1. RestOfSlot(kv.rq[s], l.rq[s])
      BY <2>8 DEF Around
    <3>. QED
      BY <1>1, <2>4, <2>7, <3>1 DEF SlotOK, RestOfSlot, T
  <2>10. \A c \in Blocks : l.pool.refcnt[c] = kv.pool.refcnt[c] - Times(TableBlocks(T), c)
                                                + Times(TableBlocks(W), c)
    <3>1. TAKE c \in Blocks
    <3>2. Times(TableBlocks(T), c) \in Nat
      <4>1. Len(TableBlocks(T)) \in Nat
        BY <1>1, BlocksOfTable
      <4>. QED
        BY <4>1, AmongNat DEF Times
    <3>3. kv.pool.refcnt[c] \in Nat
      BY <1>1
    <3>. QED
      BY <2>4, <2>8, <3>2, <3>3
  <2>11. Sound(l)
    <3>1. PoolOK(l.pool) /\ \A r \in Slots \ {s} : l.rq[r] = kv.rq[r]
      BY <1>1, <2>8 DEF Around
    <3>. QED
      BY <2>7, <2>8, <2>9, <2>10, <3>1, SoundTable DEF T
  <2>. QED
    BY <2>1, <2>5, <2>7, <2>8, <2>11 DEF Grew, T
<1>4. CASE ~Continues(T, run) /\ Len(T) = MAX_BLOCKS_PER_SEQ
  <2>1. kw = Fail(kv)
    BY <1>4 DEF ShareRun, Fine
  <2>. QED
    BY <1>1, <2>1, AroundFail, SoundFail DEF Grew
<1>5. CASE ~Continues(T, run) /\ Len(T) # MAX_BLOCKS_PER_SEQ
  <2>. DEFINE U == Append(T, run)
              new == [kv EXCEPT !.rq[s].table = U]
              P == AfterRetain(kv.pool, b)
              l == [new EXCEPT !.pool = P]
  <2>0. kv.pool.refcnt[b] \in Nat /\ kv.pool.refcnt[b] > 0
    BY <1>2, HeldByTree
  <2>1. PoolOK(P) /\ P.refcnt = [kv.pool.refcnt EXCEPT ![b] = kv.pool.refcnt[b] + 1]
    BY <1>1, <1>2, <2>0, RetainOK
  <2>2. P \in Pools
    BY <2>1 DEF PoolOK
  <2>3. /\ U \in Seq(Runs) /\ U # <<>> /\ Last(U) = run /\ Len(U) = Len(T) + 1
        /\ OneMore(TableBlocks(T), TableBlocks(U), run.block)
    <3>1. U = Append(T, run)
      OBVIOUS
    <3>. HIDE DEF U, T
    <3>. QED
      BY <1>1, <3>1, TableAppended
  <2>4. n_tokens(U) = n_tokens(T) + run.len
    <3>. HIDE DEF T
    <3>. QED
      BY <1>1, TokensAppended
  <2>. HIDE DEF U
  <2>5. \A k : k = [kv EXCEPT !.rq[s].table = U]
                 => k \in Spaces /\ k.rq[s].table = U /\ TableOnly(kv, k, s)
    BY <1>1, <2>3, WithSlotTable
  <2>6. new \in Spaces /\ new.rq[s].table = U /\ TableOnly(kv, new, s)
    BY <2>5
  <2>7. new.pool = kv.pool
    BY <2>6 DEF TableOnly
  <2>8. kw = l
    <3>1. CanRetain(kv.pool, b)
      BY <1>2, <2>0 DEF CanRetain
    <3>. HIDE DEF P
    <3>2. [new EXCEPT !.pool = AfterRetain(@, b)] = [new EXCEPT !.pool = AfterRetain(new.pool, b)]
      OBVIOUS
    <3>3. kw = [new EXCEPT !.pool = AfterRetain(@, b)]
      BY <1>5, <3>1 DEF ShareRun, Fine, U
    <3>. QED
      BY <2>7, <3>2, <3>3 DEF P
  <2>. HIDE DEF new, P
  <2>9. \A k : k = [new EXCEPT !.pool = P] => k \in Spaces /\ k.pool = P /\ PoolOnly(new, k)
    BY <2>2, <2>6, WithPool
  <2>10. l \in Spaces /\ l.pool = P /\ PoolOnly(new, l)
    BY <2>9
  <2>. HIDE DEF l
  <2>11. l.tree = kv.tree /\ Around(kv, l, s) /\ l.rq[s].table = U
    BY <2>6, <2>10 DEF TableOnly, Around, PoolOnly
  <2>12. SlotOK(l.rq[s])
    <3>1. RestOfSlot(kv.rq[s], l.rq[s])
      BY <2>11 DEF Around
    <3>2. Len(U) <= MAX_BLOCKS_PER_SEQ
      BY <1>1, <1>5, <2>3, TheConstants DEF SlotOK
    <3>. QED
      BY <2>11, <3>1, <3>2 DEF SlotOK, RestOfSlot
  <2>13. \A c \in Blocks : l.pool.refcnt[c] = kv.pool.refcnt[c] - Times(TableBlocks(T), c)
                                                + Times(TableBlocks(U), c)
    <3>1. SUFFICES ASSUME NEW c \in Blocks
                   PROVE  P.refcnt[c] = kv.pool.refcnt[c] - Times(TableBlocks(T), c)
                                          + Times(TableBlocks(U), c)
      BY <2>10
    <3>2. kv.pool.refcnt[c] \in Nat /\ Times(TableBlocks(T), c) \in Nat
      BY <1>1, <2>3 DEF OneMore
    <3>3. CASE c = b
      <4>1. P.refcnt[c] = kv.pool.refcnt[c] + 1
        BY <1>1, <1>2, <2>1, <3>3
      <4>2. Times(TableBlocks(U), c) = Times(TableBlocks(T), c) + 1
        BY <2>3, <3>3 DEF OneMore
      <4>. QED
        BY <3>2, <4>1, <4>2
    <3>4. CASE c # b
      <4>1. P.refcnt[c] = kv.pool.refcnt[c]
        BY <1>1, <2>1, <3>4
      <4>2. Times(TableBlocks(U), c) = Times(TableBlocks(T), c)
        BY <2>3, <3>4 DEF OneMore
      <4>. QED
        BY <3>2, <4>1, <4>2
    <3>. QED
      BY <3>3, <3>4
  <2>14. Sound(l)
    <3>1. PoolOK(l.pool) /\ \A r \in Slots \ {s} : l.rq[r] = kv.rq[r]
      BY <2>1, <2>10, <2>11 DEF Around
    <3>. QED
      BY <2>10, <2>11, <2>12, <2>13, <3>1, SoundTable
  <2>. QED
    BY <2>4, <2>8, <2>11, <2>14 DEF Grew
<1>. QED
  BY <1>3, <1>4, <1>5

\* Every run lies in a block of the tree.
RunsInTree(t, runs) == \A j \in 1 .. Len(runs) : InTree(t, runs[j].block)

LEMMA ShareRunsOK ==
    ASSUME NEW kv, Sound(kv), Fine(kv), NEW s \in Slots, ~kv.rq[s].priv,
           NEW runs \in Seq(Runs), RunsInTree(kv.tree, runs),
           NEW kw, kw = ShareRuns(kv, s, runs)
    PROVE  Around(kv, kw, s) /\ Sound(kw) /\ Grew(kv, kw, s, n_tokens(runs))
<1>. DEFINE n == Len(runs)
            Held(k, i) == /\ Around(kv, k, s) /\ Sound(k)
                          /\ Grew(kv, k, s, TokensIn(runs)[i])
            V == [i \in 0 .. n |-> {k \in Spaces : Held(k, i)}]
            F == [i \in 1 .. n |-> [k \in V[i - 1] |-> ShareRun(k, s, runs[i])]]
            h == CHOOSE h : h = [i \in 0 .. n |->
                                   IF i = 0 THEN kv ELSE ShareRun(h[i - 1], s, runs[i])]
<1>n. n \in Nat
  BY LenProperties
<1>1. kv \in Spaces
  BY SoundIsSpace
<1>c. n_tokens(kv.rq[s].table) \in Nat
  BY <1>1, SlotTable, TokensNat
<1>2. kv \in V[0]
  <2>1. Held(kv, 0)
    <3>1. TokensIn(runs)[0] = 0
      BY TokensInIs
    <3>2. Grew(kv, kv, s, 0)
      BY <1>c DEF Grew
    <3>. QED
      BY <1>1, <3>1, <3>2, AroundSelf
  <2>. HIDE DEF Held, n
  <2>. QED
    BY <1>n, <1>1, <2>1
<1>3. ASSUME NEW i \in 1 .. n, NEW k \in V[i - 1]
      PROVE  ShareRun(k, s, runs[i]) \in V[i]
  <2>. DEFINE run == runs[i]
              l == ShareRun(k, s, run)
              j == i - 1
  <2>1. j \in 0 .. n /\ i \in 0 .. n /\ i \in 1 .. n
    BY <1>n
  <2>2. Held(k, j) /\ k \in Spaces
    BY <2>1
  <2>3. run \in Runs
    BY ElementOfSeq
  <2>4. TokensIn(runs)[i] = TokensIn(runs)[j] + run.len /\ TokensIn(runs)[j] \in Nat
    BY <2>1, TokensInIs
  <2>. HIDE DEF V, j
  <2>5. CASE Fine(k)
    <3>1. Sound(k) /\ n_tokens(k.rq[s].table) = n_tokens(kv.rq[s].table) + TokensIn(runs)[j]
      BY <2>2, <2>5 DEF Grew
    <3>2. k.tree = kv.tree /\ ~k.rq[s].priv
      BY <2>2 DEF Around, RestOfSlot
    <3>3. InTree(k.tree, run.block)
      BY <3>2 DEF RunsInTree
    <3>. HIDE DEF run
    <3>4. Around(k, l, s) /\ Sound(l) /\ Grew(k, l, s, run.len)
      BY <2>3, <2>5, <3>1, <3>2, <3>3, ShareRunOK
    <3>. HIDE DEF l
    <3>5. Around(kv, l, s)
      BY <2>2, <3>4, AroundTwice
    <3>6. Grew(kv, l, s, TokensIn(runs)[i])
      <4>1. run.len \in Nat
        BY <2>3, RunFields
      <4>. QED
        BY <1>c, <2>4, <3>1, <3>4, <4>1 DEF Grew
    <3>7. l \in Spaces
      BY <3>4 DEF Around
    <3>8. Held(l, i)
      BY <3>4, <3>5, <3>6
    <3>. HIDE DEF Held
    <3>9. l \in V[i]
      BY <2>1, <3>7, <3>8 DEF V
    <3>. QED
      BY <3>9 DEF l, run
  <2>6. CASE ~Fine(k)
    <3>1. l = k
      BY <2>6 DEF ShareRun, Fine
    <3>. HIDE DEF l
    <3>2. Held(l, i)
      BY <2>2, <2>6, <3>1 DEF Grew
    <3>. HIDE DEF Held
    <3>3. l \in V[i]
      BY <2>1, <2>2, <3>1, <3>2 DEF V
    <3>. QED
      BY <3>3 DEF l
  <2>. QED
    BY <2>5, <2>6
<1>. HIDE DEF V
<1>4. \A i \in 1 .. n : \A k \in V[i - 1] : F[i][k] = ShareRun(k, s, runs[i])
  OBVIOUS
<1>. HIDE DEF F
<1>5. PICK g : LoopIs(n, V, F, kv, g)
  <2>1. \A i \in 1 .. n : \A k \in V[i - 1] : F[i][k] \in V[i]
    BY <1>3, <1>4
  <2>. HIDE DEF n, h
  <2>2. IsLoop(n, V, F, kv)
    BY <1>n, <1>2, <2>1 DEF IsLoop
  <2>. QED
    BY <2>2, LoopRuns
<1>6. g = [i \in 0 .. n |-> IF i = 0 THEN kv ELSE ShareRun(g[i - 1], s, runs[i])]
  <2>. HIDE DEF n, h
  <2>0. /\ g = [i \in 0 .. n |-> g[i]]
        /\ g[0] = kv
        /\ \A i \in 1 .. n : g[i] = F[i][g[i - 1]]
        /\ \A i \in 0 .. n : g[i] \in V[i]
    BY <1>5 DEF LoopIs
  <2>1. \A i \in 1 .. n : g[i - 1] \in V[i - 1]
    BY <1>n, <2>0
  <2>2. \A i \in 1 .. n : g[i] = ShareRun(g[i - 1], s, runs[i])
    BY <1>4, <2>0, <2>1
  <2>3. ASSUME NEW i \in 0 .. n PROVE g[i] = IF i = 0 THEN kv ELSE ShareRun(g[i - 1], s, runs[i])
    <3>1. CASE i = 0
      BY <2>0, <3>1
    <3>2. CASE i # 0
      <4>1. i \in 1 .. n
        BY <1>n, <3>2
      <4>. QED
        BY <2>2, <3>2, <4>1
    <3>. QED
      BY <3>1, <3>2
  <2>. QED
    BY <2>0, <2>3
<1>7. h = [i \in 0 .. n |-> IF i = 0 THEN kv ELSE ShareRun(h[i - 1], s, runs[i])]
  <2>1. \E e : e = [i \in 0 .. n |-> IF i = 0 THEN kv ELSE ShareRun(e[i - 1], s, runs[i])]
    BY <1>6
  <2>. QED
    BY <2>1
<1>8. kw = h[n]
  BY DEF ShareRuns
<1>. HIDE DEF h
<1>9. \A i \in 0 .. n : h[i] \in V[i]
  <2>1. h[0] = kv /\ \A i \in 1 .. n : h[i] = ShareRun(h[i - 1], s, runs[i])
    BY <1>n, <1>7
  <2>2. \A i \in 1 .. n : h[i - 1] \in V[i - 1] => h[i] \in V[i]
    BY <1>3, <2>1
  <2>. HIDE DEF n
  <2>. QED
    BY <1>n, <1>2, <2>1, <2>2, LoopTurn
<1>10. h[n] \in V[n]
  BY <1>n, <1>9
<1>11. Held(h[n], n)
  <2>. HIDE DEF Held
  <2>. QED
    BY <1>n, <1>10 DEF V
<1>. QED
  BY <1>8, <1>11 DEF n_tokens

\* The slots a node's j-th block gives to its first used tokens end where the
\* j-th of the blocks that take offset + used tokens ends.
LEMMA StopIs ==
    ASSUME NEW n \in Nat, NEW i \in 1 .. ceil_div(n, block_size)
    PROVE  Min({block_size, n - (i - 1) * block_size}) = Take(n, i)
<1>. DEFINE bs == block_size
            j == i - 1
            y == j * bs
            x == i * bs
            t == Take(n, i)
<1>1. bs \in Nat \ {0}
  BY TheConstants
<1>2. ceil_div(n, bs) \in Nat
  BY <1>1, CeilIs
<1>3. i \in Nat /\ j \in Nat /\ i = j + 1 /\ j = i - 1
  BY <1>2
<1>4. t \in 1 .. bs /\ Filled(n, j) \in Nat /\ Filled(n, i) = Filled(n, j) + t
  BY <1>3, TakeIs
<1>5. x = y + bs /\ y \in Nat
  <2>. HIDE DEF bs, j
  <2>1. bs * (j + 1) = bs * j + bs /\ bs * j \in Nat /\ j * bs = bs * j
    BY <1>1, <1>3, TimesNext
  <2>2. i * bs = bs * i
    BY <1>1, <1>3, TimesNext
  <2>. QED
    BY <1>1, <1>3, <2>1, <2>2
<1>6. Filled(n, i) = (IF x <= n THEN x ELSE n) /\ Filled(n, j) = (IF y <= n THEN y ELSE n)
  BY DEF Filled
<1>. HIDE DEF j, x, y, t, bs
<1>7. Filled(n, j) = y
  BY <1>1, <1>4, <1>5, <1>6
<1>8. t = IF bs <= n - y THEN bs ELSE n - y
  BY <1>1, <1>4, <1>5, <1>6, <1>7
<1>9. Min({bs, n - y}) = IF bs <= n - y THEN bs ELSE n - y
  BY <1>1, <1>5, MinOfTwo
<1>. QED
  BY <1>8, <1>9 DEF j, y, bs, t

\* The runs of a node's first used tokens.
LEMMA NodeRunsAre ==
    ASSUME NEW t \in [Nodes -> TreeNodes], NEW x \in AliveNodes(t), NodeShape(t[x]),
           NEW used \in 1 .. Len(t[x].tokens), NEW runs, runs = NodeRuns(t[x], used)
    PROVE  runs \in Seq(Runs) /\ RunsInTree(t, runs) /\ n_tokens(runs) = used
<1>. DEFINE node == t[x]
            off == node.offset
            m == off + used
            c == ceil_div(m, block_size)
            stop(j) == Min({block_size, m - (j - 1) * block_size})
            start(j) == IF j = 1 THEN off ELSE 0
<1>1. x \in Nodes /\ node.blocks \in Seq(Blocks) /\ node.tokens \in Seq(Nat)
      /\ Len(node.blocks) \in Nat /\ Len(node.tokens) \in Nat
  <2>1. x \in Nodes
    BY DEF AliveNodes
  <2>. QED
    BY <2>1, NodeFields, LenProperties
<1>2. off \in Nat /\ off < block_size /\ block_size \in Nat \ {0}
  BY TheConstants DEF NodeShape
<1>3. used \in Nat /\ used >= 1 /\ m \in Nat /\ m > off
  BY <1>1, <1>2
<1>4. c \in Nat /\ c <= Len(node.blocks) /\ c # 0
  <2>1. off + Len(node.tokens) \in Nat /\ m <= off + Len(node.tokens)
    BY <1>1, <1>2, <1>3, SMTT(60)
  <2>2. Len(node.blocks) = ceil_div(off + Len(node.tokens), block_size)
    BY DEF NodeShape, BlocksFor
  <2>. HIDE DEF m
  <2>3. c <= ceil_div(off + Len(node.tokens), block_size)
    BY <1>2, <1>3, <2>1, CeilGrows
  <2>4. m # 0
    BY <1>2, <1>3
  <2>. QED
    BY <1>2, <1>3, <2>2, <2>3, <2>4, CeilIs, CeilPositive
<1>5. runs = [j \in 1 .. c |-> [block |-> node.blocks[j], start |-> start(j),
                                len |-> stop(j) - start(j)]]
  <2>1. BlocksFor(node, used) = c
    BY DEF BlocksFor
  <2>2. runs = [j \in 1 .. c |->
                 LET from == IF j = 1 THEN node.offset ELSE 0
                     to   == Min({block_size, node.offset + used - (j - 1) * block_size})
                 IN  [block |-> node.blocks[j], start |-> from, len |-> to - from]]
    <3>. HIDE DEF c
    <3>. QED
      BY <2>1 DEF NodeRuns
  <2>. HIDE DEF c
  <2>3. ASSUME NEW j \in 1 .. c
        PROVE  runs[j] = [block |-> node.blocks[j], start |-> start(j),
                          len |-> stop(j) - start(j)]
    <3>. DEFINE y == (j - 1) * block_size
    <3>1. y \in Int /\ off \in Int /\ used \in Int
      <4>1. j \in Nat /\ j - 1 \in Nat
        BY <1>4
      <4>. DEFINE k == j - 1
      <4>2. k * block_size \in Int
        <5>. HIDE DEF k
        <5>. QED
          BY <1>2, <4>1, TimesNext DEF k
      <4>. QED
        BY <1>2, <1>3, <4>2
    <3>2. runs[j] = [block |-> node.blocks[j], start |-> start(j),
                     len |-> Min({block_size, node.offset + used - y}) - start(j)]
      BY <2>2
    <3>. HIDE DEF y
    <3>3. node.offset + used - y = m - y
      BY <3>1
    <3>4. Min({block_size, node.offset + used - y}) = Min({block_size, m - y})
      BY <3>3
    <3>5. Min({block_size, m - y}) = stop(j)
      BY DEF y
    <3>. HIDE DEF start, stop
    <3>. QED
      BY <3>2, <3>4, <3>5
  <2>4. runs = [j \in 1 .. c |-> runs[j]]
    BY <2>2
  <2>. HIDE DEF start, stop
  <2>. QED
    BY <2>3, <2>4
<1>6. \A j \in 1 .. c : node.blocks[j] \in Blocks
  BY <1>1, <1>4, ElementOfSeq
<1>7. \A j \in 1 .. c : stop(j) = Take(m, j)
  <2>. HIDE DEF m
  <2>. QED
    BY <1>3, StopIs
<1>8. Filled(m, 0) = 0 /\ Filled(m, c) = m
  <2>. HIDE DEF m
  <2>. QED
    BY <1>3, FilledEnds
<1>9. \A j \in 1 .. c : /\ Take(m, j) \in 1 .. block_size
                        /\ Filled(m, j - 1) \in Nat
                        /\ Filled(m, j) = Filled(m, j - 1) + Take(m, j)
  <2>. HIDE DEF m
  <2>. QED
    BY <1>3, TakeIs
<1>10. Take(m, 1) > off
  <2>1. Filled(m, 1) = IF 1 * block_size <= m THEN 1 * block_size ELSE m
    BY DEF Filled
  <2>2. 1 \in 1 .. c /\ 1 - 1 = 0
    BY <1>4
  <2>3. Filled(m, 1) = Filled(m, 0) + Take(m, 1) /\ Take(m, 1) \in 1 .. block_size
    BY <1>9, <2>2
  <2>4. Filled(m, 1) > off
    BY <1>2, <1>3, <2>1
  <2>. HIDE DEF off, m
  <2>. QED
    BY <1>2, <1>8, <2>3, <2>4
<1>11. ASSUME NEW j \in 1 .. c
       PROVE  /\ runs[j] \in Runs /\ runs[j].block = node.blocks[j]
              /\ runs[j].len = Take(m, j) - start(j)
  <2>1. runs[j] = [block |-> node.blocks[j], start |-> start(j), len |-> stop(j) - start(j)]
    BY <1>5
  <2>2. stop(j) = Take(m, j) /\ Take(m, j) \in 1 .. block_size
    BY <1>7, <1>9
  <2>3. start(j) \in Nat /\ Take(m, j) > start(j)
    BY <1>2, <1>10, <2>2
  <2>. HIDE DEF start, stop, m
  <2>4. stop(j) - start(j) \in Nat \ {0} /\ start(j) + (stop(j) - start(j)) <= block_size
    BY <1>2, <2>2, <2>3
  <2>5. [block |-> node.blocks[j], start |-> start(j), len |-> stop(j) - start(j)] \in Runs
    BY <1>6, <2>3, <2>4, RunMade
  <2>. QED
    BY <2>1, <2>2, <2>5
<1>12. runs \in Seq(Runs) /\ Len(runs) = c
  <2>1. runs \in [1 .. c -> Runs]
    <3>1. DOMAIN runs = 1 .. c /\ runs = [j \in 1 .. c |-> runs[j]]
      BY <1>5
    <3>. QED
      BY <1>11, <3>1
  <2>. HIDE DEF c
  <2>2. runs \in Seq(Runs)
    BY <1>4, <2>1, SeqDef
  <2>. QED
    BY <1>4, <2>1, <2>2, LenProperties
<1>13. RunsInTree(t, runs)
  <2>1. SUFFICES ASSUME NEW j \in 1 .. c PROVE InTree(t, runs[j].block)
    BY <1>12 DEF RunsInTree
  <2>2. j \in 1 .. Len(t[x].blocks) /\ t[x].blocks[j] = runs[j].block
    BY <1>4, <1>11
  <2>. QED
    BY <2>2 DEF InTree
<1>. DEFINE S == {j \in 0 .. c : TokensIn(runs)[j] = IF j = 0 THEN 0 ELSE Filled(m, j) - off}
<1>14. 0 \in S
  BY <1>4, <1>12, TokensInIs
<1>15. ASSUME NEW i \in 0 .. c - 1, i \in S PROVE i + 1 \in S
  <2>. DEFINE j == i + 1
  <2>1. j \in 1 .. c /\ j - 1 = i /\ j # 0 /\ j \in 0 .. c
    BY <1>4
  <2>2. TokensIn(runs)[i] = IF i = 0 THEN 0 ELSE Filled(m, i) - off
    BY <1>15
  <2>. HIDE DEF j, S
  <2>3. TokensIn(runs)[j] = TokensIn(runs)[i] + runs[j].len
    BY <1>12, <2>1, TokensInIs
  <2>4. runs[j].len = Take(m, j) - start(j)
    BY <1>11, <2>1
  <2>5. Filled(m, i) \in Nat /\ Filled(m, j) = Filled(m, i) + Take(m, j)
        /\ Take(m, j) \in 1 .. block_size
    BY <1>9, <2>1
  <2>6. start(j) = IF i = 0 THEN off ELSE 0
    BY <2>1
  <2>7. i = 0 => Filled(m, i) = 0
    BY <1>8
  <2>. HIDE DEF m, off, start
  <2>8. TokensIn(runs)[j] = Filled(m, j) - off
    <3>1. CASE i = 0
      BY <1>2, <2>2, <2>3, <2>4, <2>5, <2>6, <2>7, <3>1
    <3>2. CASE i # 0
      BY <1>2, <2>2, <2>3, <2>4, <2>5, <2>6, <3>2
    <3>. QED
      BY <3>1, <3>2
  <2>9. j \in S
    BY <2>1, <2>8 DEF S
  <2>. QED
    BY <2>9 DEF j
<1>16. \A j \in 0 .. c : j \in S
  <2>. HIDE DEF S, c
  <2>. QED
    BY <1>4, <1>14, <1>15, UpTo
<1>17. c \in S
  BY <1>4, <1>16
<1>18. TokensIn(runs)[c] = used
  <2>1. TokensIn(runs)[c] = Filled(m, c) - off
    <3>. HIDE DEF m, off, c
    <3>. QED
      BY <1>4, <1>17
  <2>. QED
    BY <1>2, <1>3, <1>8, <2>1
<1>. QED
  BY <1>12, <1>13, <1>18 DEF n_tokens
-----------------------------------------------------------------------------
(* The walk of match *)

\* What two sequences have in common is no longer than either.
LEMMA CommonLenIs ==
    ASSUME NEW a \in Seq(Nat), NEW b \in Seq(Nat)
    PROVE  /\ CommonLen(a, b) \in Nat
           /\ CommonLen(a, b) <= Len(a) /\ CommonLen(a, b) <= Len(b)
<1>. DEFINE m == Min({Len(a), Len(b)})
            S == {k \in 0 .. m : \A i \in 1 .. k : a[i] = b[i]}
<1>1. Len(a) \in Nat /\ Len(b) \in Nat
  BY LenProperties
<1>2. m \in Nat /\ m <= Len(a) /\ m <= Len(b)
  <2>. DEFINE x == Len(a)
              y == Len(b)
  <2>. HIDE DEF x, y
  <2>1. x \in Int /\ y \in Int
    BY <1>1 DEF x, y
  <2>2. Min({x, y}) = IF x <= y THEN x ELSE y
    BY <2>1, MinOfTwo
  <2>3. m = Min({x, y})
    BY DEF x, y
  <2>. QED
    BY <1>1, <2>2, <2>3 DEF x, y
<1>. HIDE DEF m
<1>3. S \in SUBSET (0 .. m) /\ S # {}
  <2>1. 0 \in S
    BY <1>2
  <2>. QED
    BY <2>1
<1>4. CommonLen(a, b) = Max(S)
  BY DEF CommonLen, m
<1>. HIDE DEF S
<1>5. Max(S) \in S
  BY <1>2, <1>3, MaxOf
<1>6. Max(S) \in 0 .. m
  BY <1>3, <1>5
<1>. QED
  BY <1>1, <1>2, <1>4, <1>6

\* The children of a node are nodes other than the root.
LEMMA KidsAlive ==
    ASSUME NEW t \in [Nodes -> TreeNodes], NEW S, Formed(t, S), NEW x \in Nodes,
           NEW i \in 1 .. Len(t[x].kids)
    PROVE  t[x].kids[i] \in AliveNodes(t) /\ t[t[x].kids[i]].parent = x
<1>1. t[x].kids \in Seq(Nodes) /\ t[x].kids[i] \in Nodes
  <2>1. t[x].kids \in Seq(Nodes)
    BY NodeFields
  <2>. QED
    BY <2>1, ElementOfSeq
<1>2. t[x].kids[i] \in ToSet(t[x].kids)
  BY <1>1 DEF ToSet
<1>3. t[t[x].kids[i]].alive /\ t[t[x].kids[i]].parent = x
  BY <1>2 DEF Formed
<1>4. t[ROOT].parent = INVALID /\ INVALID \notin Nodes
  BY TheConstants DEF Formed
<1>. QED
  BY <1>1, <1>3, <1>4 DEF AliveNodes

LEMMA FirstKidIs ==
    ASSUME NEW t \in [Nodes -> TreeNodes], NEW S, Formed(t, S), NEW x \in Nodes
    PROVE  FirstKid(t, x) \in AliveNodes(t) \cup {INVALID}
<1>1. t[x].kids \in Seq(Nodes) /\ Len(t[x].kids) \in Nat
  BY NodeFields, LenProperties
<1>2. CASE t[x].kids = <<>>
  BY <1>2 DEF FirstKid
<1>3. CASE t[x].kids # <<>>
  <2>1. Len(t[x].kids) # 0 /\ Head(t[x].kids) = t[x].kids[1]
    BY <1>1, <1>3, EmptySeq, HeadTailProperties
  <2>2. 1 \in 1 .. Len(t[x].kids)
    BY <1>1, <2>1
  <2>3. t[x].kids[1] \in AliveNodes(t)
    BY <2>2, KidsAlive
  <2>. QED
    BY <1>3, <2>1, <2>3 DEF FirstKid
<1>. QED
  BY <1>2, <1>3

LEMMA KidStartingWithIs ==
    ASSUME NEW t \in [Nodes -> TreeNodes], NEW S, Formed(t, S), NEW x \in Nodes, NEW tok
    PROVE  KidStartingWith(t, x, tok) \in AliveNodes(t) \cup {INVALID}
<1>. DEFINE hits == {i \in DOMAIN t[x].kids : t[t[x].kids[i]].tokens[1] = tok}
            n == Len(t[x].kids)
<1>1. t[x].kids \in Seq(Nodes) /\ n \in Nat /\ DOMAIN t[x].kids = 1 .. n
  BY NodeFields, LenProperties
<1>2. hits \in SUBSET (0 .. n) /\ hits \in SUBSET (1 .. n)
  BY <1>1
<1>3. CASE hits = {}
  BY <1>3 DEF KidStartingWith
<1>4. CASE hits # {}
  <2>1. KidStartingWith(t, x, tok) = t[x].kids[Max(hits)]
    BY <1>4 DEF KidStartingWith
  <2>. HIDE DEF hits, n
  <2>2. Max(hits) \in hits
    BY <1>1, <1>2, <1>4, MaxOf
  <2>3. Max(hits) \in 1 .. Len(t[x].kids)
    BY <1>2, <2>2 DEF n
  <2>4. t[x].kids[Max(hits)] \in AliveNodes(t)
    BY <2>3, KidsAlive
  <2>. QED
    BY <2>1, <2>4
<1>. QED
  BY <1>3, <1>4

\* A hop's node agrees in one token at least.
Hops(t) == {h \in [node : Nodes, start : Nat, used : Nat] :
              h.node \in AliveNodes(t) /\ h.used \in 1 .. Len(t[h.node].tokens)}

\* The number of tokens a path has matched.
EndOf(path) == IF path = <<>> THEN 0 ELSE Last(path).start + Last(path).used

\* Each hop starts where the one before it ended.
Chained(path) ==
    \A p \in 1 .. Len(path) :
        path[p].start = IF p = 1 THEN 0 ELSE path[p - 1].start + path[p - 1].used

WalkOK(t, toks, w) ==
    /\ w \in [cur : AliveNodes(t) \cup {INVALID}, path : Seq(Hops(t)), matched : Nat]
    /\ w.matched <= Len(toks) /\ w.matched = EndOf(w.path) /\ Chained(w.path)

LEMMA ChainedAppend ==
    ASSUME NEW t, NEW path \in Seq(Hops(t)), Chained(path), NEW h \in Hops(t),
           h.start = EndOf(path), NEW new, new = Append(path, h)
    PROVE  /\ new \in Seq(Hops(t)) /\ Chained(new) /\ EndOf(new) = h.start + h.used
           /\ new # <<>> /\ Len(new) = Len(path) + 1
<1>. DEFINE n == Len(path)
<1>1. /\ n \in Nat /\ new \in Seq(Hops(t)) /\ Len(new) = n + 1 /\ new[n + 1] = h
      /\ \A p \in 1 .. n : new[p] = path[p]
  BY LenProperties, AppendProperties
<1>2. new # <<>> /\ Last(new) = h
  <2>1. new # <<>>
    BY <1>1, EmptySeq
  <2>. QED
    BY <1>1, <2>1, LastOf
<1>3. EndOf(new) = h.start + h.used
  BY <1>2 DEF EndOf
<1>4. ASSUME NEW p \in 1 .. n + 1
      PROVE  new[p].start = IF p = 1 THEN 0 ELSE new[p - 1].start + new[p - 1].used
  <2>1. CASE p \in 1 .. n
    <3>1. path[p].start = IF p = 1 THEN 0 ELSE path[p - 1].start + path[p - 1].used
      BY <2>1 DEF Chained
    <3>2. new[p] = path[p]
      BY <1>1, <2>1
    <3>3. p # 1 => new[p - 1] = path[p - 1]
      <4>. DEFINE q == p - 1
      <4>1. p # 1 => q \in 1 .. n
        BY <1>1, <2>1
      <4>. HIDE DEF q
      <4>2. p # 1 => new[q] = path[q]
        BY <1>1, <4>1
      <4>. QED
        BY <4>2 DEF q
    <3>. QED
      BY <3>1, <3>2, <3>3
  <2>2. CASE p = n + 1 /\ n = 0
    <3>1. path = <<>>
      BY <2>2, EmptySeq
    <3>. QED
      BY <1>1, <2>2, <3>1 DEF EndOf
  <2>3. CASE p = n + 1 /\ n # 0
    <3>1. path # <<>>
      BY <2>3, EmptySeq
    <3>2. Last(path) = path[n] /\ n \in 1 .. n
      BY <3>1, LastOf
    <3>3. new[p - 1] = path[n] /\ new[p] = h /\ p # 1
      BY <1>1, <2>3, <3>2
    <3>. QED
      BY <3>1, <3>2, <3>3 DEF EndOf
  <2>. QED
    BY <1>1, <2>1, <2>2, <2>3
<1>5. Chained(new)
  BY <1>1, <1>4 DEF Chained
<1>. QED
  BY <1>1, <1>2, <1>3, <1>5

LEMMA HopOK ==
    ASSUME NEW t \in [Nodes -> TreeNodes], Formed(t, {}), NEW toks \in Seq(Nat),
           NEW w, WalkOK(t, toks, w)
    PROVE  WalkOK(t, toks, Hop(t, toks, w))
<1>. DEFINE x    == w.cur
            rest == SubSeq(toks, w.matched + 1, Len(toks))
            used == CommonLen(t[x].tokens, rest)
            m    == w.matched + used
            h    == [node |-> x, start |-> w.matched, used |-> used]
            on   == used = Len(t[x].tokens) /\ m < Len(toks)
            next == IF on THEN KidStartingWith(t, x, toks[m + 1]) ELSE INVALID
            new  == Append(w.path, h)
            v    == Hop(t, toks, w)
<1>1. /\ w \in [cur : AliveNodes(t) \cup {INVALID}, path : Seq(Hops(t)), matched : Nat]
      /\ w.matched <= Len(toks) /\ w.matched = EndOf(w.path) /\ Chained(w.path)
      /\ Len(toks) \in Nat
  BY LenProperties DEF WalkOK
<1>2. CASE x = INVALID
  BY <1>2 DEF Hop
<1>3. CASE x # INVALID
  <2>1. x \in AliveNodes(t) /\ x \in Nodes /\ w.matched \in Nat /\ w.path \in Seq(Hops(t))
    BY <1>1, <1>3 DEF AliveNodes
  <2>2. t[x].tokens \in Seq(Nat)
    BY <2>1, NodeFields
  <2>3. rest \in Seq(Nat) /\ Len(rest) = Len(toks) - w.matched
    <3>. DEFINE i == w.matched + 1
                l == Len(toks)
    <3>1. i \in 1 .. l + 1 /\ l \in 0 .. l /\ l \in Nat
      BY <1>1, <2>1
    <3>. HIDE DEF i, l
    <3>2. SubSeq(toks, i, l) \in Seq(Nat)
          /\ Len(SubSeq(toks, i, l)) = IF i <= l THEN l - i + 1 ELSE 0
      BY <3>1, SubSeqProperties DEF l
    <3>3. Len(SubSeq(toks, i, l)) = Len(toks) - w.matched
      BY <1>1, <2>1, <3>1, <3>2 DEF i, l
    <3>. QED
      BY <3>2, <3>3 DEF i, l
  <2>. HIDE DEF rest
  <2>4. used \in Nat /\ used <= Len(t[x].tokens) /\ used <= Len(toks) - w.matched
    BY <2>2, <2>3, CommonLenIs
  <2>5. CASE used = 0
    <3>1. v = [w EXCEPT !.cur = INVALID]
      BY <1>3, <2>5 DEF Hop, rest
    <3>2. v = [cur |-> INVALID, path |-> w.path, matched |-> w.matched]
      BY <1>1, <3>1
    <3>. HIDE DEF v
    <3>3. v \in [cur : AliveNodes(t) \cup {INVALID}, path : Seq(Hops(t)), matched : Nat]
          /\ v.path = w.path /\ v.matched = w.matched
      BY <2>1, <3>2
    <3>4. WalkOK(t, toks, v)
      BY <1>1, <3>3 DEF WalkOK
    <3>. QED
      BY <3>4 DEF v
  <2>6. CASE used # 0
    <3>1. v = [cur |-> next, path |-> new, matched |-> m]
      BY <1>3, <2>6 DEF Hop, rest
    <3>. HIDE DEF v, used
    <3>2. h \in [node : Nodes, start : Nat, used : Nat] /\ h.start = w.matched
          /\ h.node = x /\ h.used = used
      BY <2>1, <2>4
    <3>. HIDE DEF h
    <3>3. h \in Hops(t)
      <4>1. used \in 1 .. Len(t[x].tokens)
        BY <2>2, <2>4, <2>6, LenProperties
      <4>. QED
        BY <2>1, <3>2, <4>1 DEF Hops
    <3>. DEFINE P == w.path
    <3>4. new \in Seq(Hops(t)) /\ Chained(new) /\ EndOf(new) = m
      <4>1. P \in Seq(Hops(t)) /\ Chained(P) /\ h.start = EndOf(P) /\ new = Append(P, h)
        BY <1>1, <3>2
      <4>2. m = h.start + h.used
        BY <3>2
      <4>. HIDE DEF P, new, m
      <4>3. new \in Seq(Hops(t)) /\ Chained(new) /\ EndOf(new) = h.start + h.used
        BY <3>3, <4>1, ChainedAppend, ZenonT(60)
      <4>. QED
        BY <4>2, <4>3
    <3>5. next \in AliveNodes(t) \cup {INVALID}
      <4>. DEFINE tok == toks[m + 1]
      <4>. HIDE DEF tok, m
      <4>1. KidStartingWith(t, x, tok) \in AliveNodes(t) \cup {INVALID}
        BY <2>1, KidStartingWithIs
      <4>. QED
        BY <4>1 DEF tok
    <3>6. m \in Nat /\ m <= Len(toks)
      BY <1>1, <2>1, <2>4
    <3>. HIDE DEF new, next, m
    <3>7. v \in [cur : AliveNodes(t) \cup {INVALID}, path : Seq(Hops(t)), matched : Nat]
          /\ v.path = new /\ v.matched = m
      BY <3>1, <3>4, <3>5, <3>6
    <3>8. WalkOK(t, toks, v)
      BY <3>4, <3>6, <3>7 DEF WalkOK
    <3>. QED
      BY <3>8 DEF v
  <2>. QED
    BY <2>5, <2>6
<1>. QED
  BY <1>2, <1>3

\* Two trees that differ in their nodes' use counts.
SameNode(n, m) ==
    /\ m.parent = n.parent /\ m.kids = n.kids /\ m.tokens = n.tokens
    /\ m.offset = n.offset /\ m.blocks = n.blocks /\ m.alive = n.alive
SameTree(t, u) == \A x \in Nodes : SameNode(t[x], u[x])

LEMMA SameShape ==
    ASSUME NEW n, NEW m, SameNode(n, m), NodeShape(n)
    PROVE  NodeShape(m)
<1>1. BlocksFor(m, Len(m.tokens)) = BlocksFor(n, Len(n.tokens))
  BY DEF BlocksFor, SameNode
<1>. QED
  BY <1>1 DEF NodeShape, SameNode

LEMMA KidsIn ==
    ASSUME NEW p \in Seq(Nodes), NEW c \in ToSet(p)
    PROVE  c \in Nodes /\ \E i \in 1 .. Len(p) : p[i] = c
BY LenProperties, ElementOfSeq DEF ToSet

LEMMA SameTreeOK ==
    ASSUME NEW t \in [Nodes -> TreeNodes], NEW u, SameTree(t, u), NEW S, Formed(t, S)
    PROVE  /\ AliveNodes(u) = AliveNodes(t) /\ Formed(u, S)
           /\ \A x \in Nodes : NodeView(u, x) = NodeView(t, x)
           /\ Hops(u) = Hops(t)
<1>1. AliveNodes(u) = AliveNodes(t)
  <2>1. \A x \in Nodes : u[x].alive = t[x].alive
    BY DEF SameTree, SameNode
  <2>. QED
    BY <2>1, Zenon DEF AliveNodes
<1>2. AliveNodes(t) \in SUBSET Nodes /\ ROOT \in Nodes
  BY TheConstants DEF AliveNodes
<1>3. \A x \in Nodes : NodeView(u, x) = NodeView(t, x)
  BY <1>1, <1>2 DEF NodeView, SameTree, SameNode
<1>4. Hops(u) = Hops(t)
  <2>1. \A x \in AliveNodes(t) : u[x].tokens = t[x].tokens
    BY <1>2 DEF SameTree, SameNode
  <2>. QED
    BY <1>1, <2>1 DEF Hops
<1>5. \A x \in AliveNodes(u) : NodeShape(u[x])
  BY <1>1, <1>2, SameShape DEF Formed, SameTree
<1>6. Formed(u, S)
  <2>1. u[ROOT].alive /\ u[ROOT].tokens = <<>> /\ u[ROOT].parent = INVALID
    <3>1. u[ROOT].alive = t[ROOT].alive
      BY <1>2 DEF SameTree, SameNode
    <3>2. t[ROOT].alive
      BY DEF Formed
    <3>3. u[ROOT].alive
      BY <3>1, <3>2, Zenon
    <3>. QED
      BY <1>2, <3>3 DEF Formed, SameTree, SameNode
  <2>2. S \subseteq AliveNodes(u)
    BY <1>1 DEF Formed
  <2>3. \A x \in Nodes : IsInjective(u[x].kids) /\ u[x].parent # x
    <3>1. \A x \in Nodes : u[x].kids = t[x].kids /\ u[x].parent = t[x].parent
      BY DEF SameTree, SameNode
    <3>2. \A x \in Nodes : IsInjective(t[x].kids) /\ t[x].parent # x
      BY DEF Formed
    <3>. QED
      BY <3>1, <3>2, Zenon
  <2>4. \A x \in Nodes : ~u[x].alive => u[x].kids = <<>>
    <3>1. \A x \in Nodes : u[x].kids = t[x].kids /\ u[x].alive = t[x].alive
      BY DEF SameTree, SameNode
    <3>2. \A x \in Nodes : ~t[x].alive => t[x].kids = <<>>
      BY DEF Formed
    <3>. QED
      BY <3>1, <3>2, Zenon
  <2>5. \A x \in Nodes : \A c \in ToSet(u[x].kids) : u[c].alive /\ u[c].parent = x /\ c \notin S
    <3>1. \A x \in Nodes : u[x].kids = t[x].kids /\ u[x].alive = t[x].alive
                           /\ u[x].parent = t[x].parent
      BY DEF SameTree, SameNode
    <3>2. \A x \in Nodes : \A c \in ToSet(t[x].kids) :
            t[c].alive /\ t[c].parent = x /\ c \notin S
      BY DEF Formed
    <3>3. \A x \in Nodes : \A c \in ToSet(t[x].kids) : c \in Nodes
      BY NodeFields, KidsIn
    <3>. QED
      BY <3>1, <3>2, <3>3, Zenon
  <2>6. ASSUME NEW x \in AliveNodes(u) \ S
        PROVE  u[x].parent # INVALID /\ x \in ToSet(u[u[x].parent].kids)
    <3>1. x \in AliveNodes(t) \ S /\ x \in Nodes
      BY <1>1, <1>2
    <3>2. t[x].parent # INVALID /\ x \in ToSet(t[t[x].parent].kids)
      BY <3>1 DEF Formed
    <3>3. t[x].parent \in Nodes
      BY <3>1, <3>2, NodeFields
    <3>4. u[x].parent = t[x].parent /\ u[t[x].parent].kids = t[t[x].parent].kids
      BY <3>1, <3>3 DEF SameTree, SameNode
    <3>. QED
      BY <3>2, <3>4
  <2>. QED
    BY <1>5, <2>1, <2>2, <2>3, <2>4, <2>5, <2>6, Zenon DEF Formed
<1>. QED
  BY <1>1, <1>3, <1>4, <1>6

LEMMA WalkIsOK ==
    ASSUME NEW t \in [Nodes -> TreeNodes], Formed(t, {}), NEW toks \in Seq(Nat)
    PROVE  WalkOK(t, toks, Walk(t, toks))
<1>. DEFINE n == Len(toks)
            base == [cur |-> FirstKid(t, ROOT), path |-> <<>>, matched |-> 0]
            All == {w \in [cur : AliveNodes(t) \cup {INVALID}, path : Seq(Hops(t)),
                           matched : Nat] : WalkOK(t, toks, w)}
            V == [i \in 0 .. n |-> All]
            F == [i \in 1 .. n |-> [k \in V[i - 1] |-> Hop(t, toks, k)]]
            h == CHOOSE h : h = [i \in 0 .. n |->
                                   IF i = 0 THEN base ELSE Hop(t, toks, h[i - 1])]
<1>n. n \in Nat
  BY LenProperties
<1>0. \A w : w \in All <=> WalkOK(t, toks, w)
  BY DEF WalkOK
<1>2. base \in V[0]
  <2>1. FirstKid(t, ROOT) \in AliveNodes(t) \cup {INVALID}
    BY TheConstants, FirstKidIs
  <2>2. /\ base \in [cur : AliveNodes(t) \cup {INVALID}, path : Seq(Hops(t)), matched : Nat]
        /\ base.matched = 0 /\ base.path = <<>>
    BY <2>1
  <2>3. EndOf(<<>>) = 0 /\ Chained(<<>>)
    BY DEF EndOf, Chained
  <2>. HIDE DEF base
  <2>4. WalkOK(t, toks, base)
    BY <1>n, <2>2, <2>3 DEF WalkOK
  <2>. HIDE DEF All
  <2>. QED
    BY <1>0, <1>n, <2>4
<1>3. ASSUME NEW i \in 1 .. n, NEW k \in V[i - 1]
      PROVE  Hop(t, toks, k) \in V[i]
  <2>. HIDE DEF All
  <2>1. k \in All
    BY <1>n
  <2>2. WalkOK(t, toks, k)
    BY <1>0, <2>1
  <2>3. WalkOK(t, toks, Hop(t, toks, k))
    BY <2>2, HopOK
  <2>4. Hop(t, toks, k) \in All
    BY <1>0, <2>3
  <2>. QED
    BY <1>n, <2>4
<1>. HIDE DEF base
<1>. HIDE DEF V
<1>4. \A i \in 1 .. n : \A k \in V[i - 1] : F[i][k] = Hop(t, toks, k)
  OBVIOUS
<1>. HIDE DEF F
<1>5. PICK g : LoopIs(n, V, F, base, g)
  <2>1. \A i \in 1 .. n : \A k \in V[i - 1] : F[i][k] \in V[i]
    BY <1>3, <1>4
  <2>. HIDE DEF n, h
  <2>2. IsLoop(n, V, F, base)
    BY <1>n, <1>2, <2>1 DEF IsLoop
  <2>. QED
    BY <2>2, LoopRuns
<1>6. g = [i \in 0 .. n |-> IF i = 0 THEN base ELSE Hop(t, toks, g[i - 1])]
  <2>. HIDE DEF n, h
  <2>0. /\ g = [i \in 0 .. n |-> g[i]]
        /\ g[0] = base
        /\ \A i \in 1 .. n : g[i] = F[i][g[i - 1]]
        /\ \A i \in 0 .. n : g[i] \in V[i]
    BY <1>5 DEF LoopIs
  <2>1. \A i \in 1 .. n : g[i - 1] \in V[i - 1]
    BY <1>n, <2>0
  <2>2. \A i \in 1 .. n : g[i] = Hop(t, toks, g[i - 1])
    BY <1>4, <2>0, <2>1
  <2>3. ASSUME NEW i \in 0 .. n PROVE g[i] = IF i = 0 THEN base ELSE Hop(t, toks, g[i - 1])
    <3>1. CASE i = 0
      BY <2>0, <3>1
    <3>2. CASE i # 0
      <4>1. i \in 1 .. n
        BY <1>n, <3>2
      <4>. QED
        BY <2>2, <3>2, <4>1
    <3>. QED
      BY <3>1, <3>2
  <2>. QED
    BY <2>0, <2>3
<1>7. h = [i \in 0 .. n |-> IF i = 0 THEN base ELSE Hop(t, toks, h[i - 1])]
  <2>1. \E e : e = [i \in 0 .. n |-> IF i = 0 THEN base ELSE Hop(t, toks, e[i - 1])]
    BY <1>6
  <2>. QED
    BY <2>1
<1>8. Walk(t, toks) = h[n]
  BY DEF Walk, base
<1>. HIDE DEF h
<1>9. \A i \in 0 .. n : h[i] \in V[i]
  <2>1. h[0] = base /\ \A i \in 1 .. n : h[i] = Hop(t, toks, h[i - 1])
    <3>. HIDE DEF n
    <3>. QED
      BY <1>n, <1>7
  <2>2. \A i \in 1 .. n : h[i - 1] \in V[i - 1] => h[i] \in V[i]
    BY <1>3, <2>1
  <2>. HIDE DEF n
  <2>. QED
    BY <1>n, <1>2, <2>1, <2>2, LoopTurn
<1>10. h[n] \in V[n]
  BY <1>n, <1>9
<1>11. h[n] \in All
  <2>. HIDE DEF All
  <2>. QED
    BY <1>n, <1>10 DEF V
<1>. HIDE DEF All
<1>. QED
  BY <1>0, <1>8, <1>11

\* What match returns, on a tree and a token sequence.
MatchOK(t, toks, m) ==
    /\ m.path \in Seq(Hops(t)) /\ Chained(m.path)
    /\ m.matched = EndOf(m.path) /\ m.matched \in Nat /\ m.matched <= Len(toks)
    /\ m.tree \in [Nodes -> TreeNodes] /\ SameTree(t, m.tree)

LEMMA SameTreeSelf ==
    ASSUME NEW t
    PROVE  SameTree(t, t)
BY Zenon DEF SameTree, SameNode

LEMMA FreqCounted ==
    ASSUME NEW t \in [Nodes -> TreeNodes], NEW x \in Nodes
    PROVE  /\ [t EXCEPT ![x].freq = @ + 1] \in [Nodes -> TreeNodes]
           /\ SameTree(t, [t EXCEPT ![x].freq = @ + 1])
<1>. DEFINE n == [t[x] EXCEPT !.freq = t[x].freq + 1]
            u == [t EXCEPT ![x] = n]
<1>1. t[x] \in TreeNodes /\ t[x].freq + 1 \in Nat
  BY NodeFields
<1>2. n \in TreeNodes
  BY <1>1 DEF TreeNodes
<1>3. SameNode(t[x], n)
  BY <1>1 DEF TreeNodes, SameNode
<1>4. [t EXCEPT ![x].freq = @ + 1] = u
  OBVIOUS
<1>. HIDE DEF n
<1>5. u \in [Nodes -> TreeNodes] /\ u[x] = n /\ \A y \in Nodes \ {x} : u[y] = t[y]
  BY <1>2
<1>. HIDE DEF u
<1>6. SameTree(t, u)
  <2>1. \A y \in Nodes \ {x} : SameNode(t[y], u[y])
    <3>1. \A y : SameNode(t[y], t[y])
      BY Zenon DEF SameNode
    <3>. QED
      BY <1>5, <3>1
  <2>. QED
    BY <1>3, <1>5, <2>1 DEF SameTree
<1>. QED
  BY <1>4, <1>5, <1>6

LEMMA MatchIsOK ==
    ASSUME NEW t \in [Nodes -> TreeNodes], Formed(t, {}), NEW toks \in Seq(Nat),
           NEW m, m = match(t, toks)
    PROVE  MatchOK(t, toks, m)
<1>. DEFINE w == Walk(t, toks)
            x == Last(w.path).node
<1>1. WalkOK(t, toks, w)
  BY WalkIsOK
<1>2. /\ w.path \in Seq(Hops(t)) /\ w.matched \in Nat /\ w.matched <= Len(toks)
      /\ w.matched = EndOf(w.path) /\ Chained(w.path)
  BY <1>1 DEF WalkOK
<1>3. /\ m.path = w.path /\ m.matched = w.matched
      /\ m.tree = IF w.path = <<>> \/ Len(w.path) > MAX_PATH THEN t
                  ELSE [t EXCEPT ![x].freq = @ + 1]
  BY DEF match, Matched
<1>4. m.tree \in [Nodes -> TreeNodes] /\ SameTree(t, m.tree)
  <2>1. CASE w.path = <<>> \/ Len(w.path) > MAX_PATH
    BY <1>3, <2>1, SameTreeSelf
  <2>2. CASE ~ (w.path = <<>> \/ Len(w.path) > MAX_PATH)
    <3>1. Last(w.path) \in Hops(t)
      <4>. HIDE DEF w
      <4>. QED
        BY <1>2, <2>2, LastOf
    <3>2. x \in Nodes
      BY <3>1 DEF Hops
    <3>. HIDE DEF x, w
    <3>3. m.tree = [t EXCEPT ![x].freq = @ + 1]
      BY <1>3, <2>2
    <3>4. /\ [t EXCEPT ![x].freq = @ + 1] \in [Nodes -> TreeNodes]
          /\ SameTree(t, [t EXCEPT ![x].freq = @ + 1])
      BY <3>2, FreqCounted
    <3>. QED
      BY <3>3, <3>4, Zenon
  <2>. QED
    BY <2>1, <2>2
<1>. HIDE DEF w
<1>. QED
  BY <1>2, <1>3, <1>4 DEF MatchOK
-----------------------------------------------------------------------------
(* Admission *)

LEMMA WithSlot ==
    ASSUME NEW kv \in Spaces, NEW s \in Slots, NEW r \in Requests,
           NEW kw, kw = [kv EXCEPT !.rq[s] = r]
    PROVE  /\ kw \in Spaces /\ kw.rq[s] = r /\ kw.pool = kv.pool /\ kw.tree = kv.tree
           /\ kw.ok = kv.ok /\ \A q \in Slots \ {s} : kw.rq[q] = kv.rq[q]
<1>. DEFINE R == [kv.rq EXCEPT ![s] = r]
            k == [kv EXCEPT !.rq = R]
<1>1. kv.rq \in [Slots -> Requests]
  BY SpaceFields
<1>2. R \in [Slots -> Requests] /\ R[s] = r /\ \A q \in Slots \ {s} : R[q] = kv.rq[q]
  BY <1>1
<1>3. kw = k
  OBVIOUS
<1>. HIDE DEF R
<1>4. \A l : l = [kv EXCEPT !.rq = R]
               => /\ l \in Spaces /\ l.pool = kv.pool /\ l.tree = kv.tree
                  /\ l.rq = R /\ l.ok = kv.ok
  BY <1>2, WithSlots
<1>5. /\ k \in Spaces /\ k.pool = kv.pool /\ k.tree = kv.tree
      /\ k.rq = R /\ k.ok = kv.ok
  BY <1>4
<1>. HIDE DEF k
<1>. QED
  BY <1>2, <1>3, <1>5

\* A slot's fields may change as long as its table stays.
LEMMA SoundSlot ==
    ASSUME NEW kv, Sound(kv), NEW s \in Slots, NEW kw \in Spaces, kw.pool = kv.pool,
           kw.tree = kv.tree, \A q \in Slots \ {s} : kw.rq[q] = kv.rq[q],
           SlotOK(kw.rq[s]), kw.rq[s].table = kv.rq[s].table
    PROVE  Sound(kw)
<1>1. kv \in Spaces /\ PoolOK(kv.pool) /\ kv.pool.refcnt \in [Blocks -> Nat]
  BY SoundIsSpace
<1>3. \A b \in Blocks : kw.pool.refcnt[b]
                          = kv.pool.refcnt[b] - Times(TableBlocks(kv.rq[s].table), b)
                              + Times(TableBlocks(kw.rq[s].table), b)
  <2>1. TAKE b \in Blocks
  <2>2. Times(TableBlocks(kv.rq[s].table), b) \in Nat
    <3>. DEFINE P == TableBlocks(kv.rq[s].table)
    <3>1. P \in Seq(Blocks)
      BY <1>1, SlotTable
    <3>. HIDE DEF P
    <3>2. Len(P) \in Nat
      BY <3>1, LenProperties
    <3>3. Times(P, b) \in Nat
      BY <3>2, AmongNat DEF Times
    <3>. QED
      BY <3>3 DEF P
  <2>. QED
    BY <1>1, <2>2
<1>4. PoolOK(kw.pool)
  BY <1>1
<1>. QED
  BY <1>3, <1>4, SoundTable

LEMMA WithTokens ==
    ASSUME NEW q \in Requests, NEW toks \in Seq(Nat),
           NEW r, r = [q EXCEPT !.tok = [i \in DOMAIN q.tok |->
                         IF i <= Len(toks) THEN toks[i] ELSE q.tok[i]]]
    PROVE  /\ r \in Requests /\ r.table = q.table /\ r.live = q.live /\ r.id = q.id
           /\ r.ntok = q.ntok /\ r.priv = q.priv
<1>. DEFINE T == [i \in DOMAIN q.tok |-> IF i <= Len(toks) THEN toks[i] ELSE q.tok[i]]
<1>1. q.tok \in [1 .. MAX_SEQ_TOKENS -> Nat]
  BY RequestFields
<1>2. Len(toks) \in Nat /\ MAX_SEQ_TOKENS \in Nat
  BY LenProperties, TheConstants
<1>3. ASSUME NEW i \in 1 .. MAX_SEQ_TOKENS
      PROVE  (IF i <= Len(toks) THEN toks[i] ELSE q.tok[i]) \in Nat
  <2>1. i <= Len(toks) => toks[i] \in Nat
    BY <1>2, ElementOfSeq
  <2>. QED
    BY <1>1, <2>1
<1>4. T \in [1 .. MAX_SEQ_TOKENS -> Nat]
  BY <1>1, <1>3
<1>5. r = [q EXCEPT !.tok = T]
  OBVIOUS
<1>. HIDE DEF T
<1>. QED
  BY <1>4, <1>5 DEF Requests

LEMMA RecordedOK ==
    ASSUME NEW kv, Sound(kv), NEW s \in Slots, NEW toks \in Seq(Nat),
           NEW kw, kw = Recorded(kv, s, toks)
    PROVE  /\ Sound(kw) /\ kw.tree = kv.tree /\ kw.ok = kv.ok
           /\ kw.rq[s].table = kv.rq[s].table /\ kw.rq[s].live = kv.rq[s].live
           /\ kw.rq[s].priv = kv.rq[s].priv
           /\ \A q \in Slots \ {s} : kw.rq[q] = kv.rq[q]
<1>. DEFINE q == kv.rq[s]
            r == [q EXCEPT !.tok = [i \in DOMAIN q.tok |->
                    IF i <= Len(toks) THEN toks[i] ELSE q.tok[i]]]
<1>1. kv \in Spaces /\ q \in Requests /\ SlotOK(q)
  BY SoundIsSpace, SlotTable DEF Sound
<1>2. /\ r \in Requests /\ r.table = q.table /\ r.live = q.live /\ r.id = q.id
      /\ r.ntok = q.ntok /\ r.priv = q.priv
  <2>. HIDE DEF q
  <2>. QED
    BY <1>1, WithTokens
<1>3. SlotOK(r)
  <2>. HIDE DEF q, r
  <2>1. (r.priv <=> q.priv) /\ (r.live <=> q.live)
    BY <1>2
  <2>. QED
    BY <1>1, <1>2, <2>1, Zenon DEF SlotOK
<1>4. kw = [kv EXCEPT !.rq[s] = r]
  BY DEF Recorded
<1>. HIDE DEF r
<1>5. /\ kw \in Spaces /\ kw.rq[s] = r /\ kw.pool = kv.pool /\ kw.tree = kv.tree
      /\ kw.ok = kv.ok /\ \A p \in Slots \ {s} : kw.rq[p] = kv.rq[p]
  BY <1>1, <1>2, <1>4, WithSlot
<1>6. Sound(kw)
  <2>1. SlotOK(kw.rq[s]) /\ kw.rq[s].table = kv.rq[s].table
    BY <1>2, <1>3, <1>5
  <2>. HIDE DEF q
  <2>. QED
    BY <1>5, <2>1, SoundSlot
<1>. QED
  BY <1>2, <1>5, <1>6

\* A lookup counts in the tree and disturbs nothing.
LEMMA SoundLookup ==
    ASSUME NEW kv, Sound(kv), NEW kw \in Spaces, kw.pool = kv.pool, kw.rq = kv.rq,
           SameTree(kv.tree, kw.tree)
    PROVE  Sound(kw)
<1>1. kv \in Spaces /\ PoolOK(kv.pool) /\ Accounted(kv) /\ Formed(kv.tree, {})
      /\ \A s \in Slots : SlotOK(kv.rq[s])
  BY DEF Sound
<1>2. kv.tree \in [Nodes -> TreeNodes]
  BY <1>1, SpaceFields
<1>3. Formed(kw.tree, {}) /\ \A x \in Nodes : NodeView(kw.tree, x) = NodeView(kv.tree, x)
  BY <1>1, <1>2, SameTreeOK
<1>4. SameNodes(kv, kw) /\ SameTables(kv, kw)
  BY <1>3 DEF SameNodes, SameTables
<1>5. Accounted(kw)
  <2>1. \A b \in Blocks : Refs(kw, b) = Refs(kv, b)
    BY <1>1, <1>4, RefsSame
  <2>. QED
    BY <1>1, <2>1 DEF Accounted
<1>. QED
  BY <1>1, <1>3, <1>5 DEF Sound

\* One hop of a path, as the loop of new_request takes it.
HopRuns(t, h) == NodeRuns(t[h.node], h.used)

LEMMA ShareHopOK ==
    ASSUME NEW kv, Sound(kv), Fine(kv), NEW s \in Slots, ~kv.rq[s].priv,
           NEW h \in Hops(kv.tree), NEW kw, kw = ShareRuns(kv, s, HopRuns(kv.tree, h))
    PROVE  Around(kv, kw, s) /\ Sound(kw) /\ Grew(kv, kw, s, h.used)
<1>. DEFINE x == h.node
            runs == HopRuns(kv.tree, h)
<1>1. kv \in Spaces /\ kv.tree \in [Nodes -> TreeNodes] /\ Formed(kv.tree, {})
  BY SoundIsSpace, SpaceFields DEF Sound
<1>2. x \in AliveNodes(kv.tree) /\ h.used \in 1 .. Len(kv.tree[x].tokens)
  BY DEF Hops
<1>3. NodeShape(kv.tree[x])
  BY <1>1, <1>2 DEF Formed
<1>4. runs = NodeRuns(kv.tree[x], h.used)
  BY DEF HopRuns
<1>. HIDE DEF x, runs
<1>5. runs \in Seq(Runs) /\ RunsInTree(kv.tree, runs) /\ n_tokens(runs) = h.used
  BY <1>1, <1>2, <1>3, <1>4, NodeRunsAre
<1>6. kw = ShareRuns(kv, s, runs)
  BY DEF runs
<1>7. Around(kv, kw, s) /\ Sound(kw) /\ Grew(kv, kw, s, n_tokens(runs))
  BY <1>5, <1>6, ShareRunsOK
<1>. QED
  BY <1>5, <1>7

\* On a space that has failed, the loops do nothing more.
LEMMA ShareRunsFailed ==
    ASSUME NEW kv, ~Fine(kv), NEW s, NEW runs \in Seq(Runs)
    PROVE  ShareRuns(kv, s, runs) = kv
<1>. DEFINE n == Len(runs)
            V == [i \in 0 .. n |-> {kv}]
            F == [i \in 1 .. n |-> [k \in V[i - 1] |-> ShareRun(k, s, runs[i])]]
            h == CHOOSE h : h = [i \in 0 .. n |->
                                   IF i = 0 THEN kv ELSE ShareRun(h[i - 1], s, runs[i])]
<1>n. n \in Nat
  BY LenProperties
<1>2. kv \in V[0]
  BY <1>n
<1>3. ASSUME NEW i \in 1 .. n, NEW k \in V[i - 1]
      PROVE  ShareRun(k, s, runs[i]) \in V[i]
  <2>1. k = kv
    BY <1>n
  <2>2. ShareRun(kv, s, runs[i]) = kv
    BY DEF ShareRun, Fine
  <2>. QED
    BY <1>n, <2>1, <2>2
<1>. HIDE DEF V
<1>4. \A i \in 1 .. n : \A k \in V[i - 1] : F[i][k] = ShareRun(k, s, runs[i])
  OBVIOUS
<1>. HIDE DEF F
<1>5. PICK g : LoopIs(n, V, F, kv, g)
  <2>1. \A i \in 1 .. n : \A k \in V[i - 1] : F[i][k] \in V[i]
    BY <1>3, <1>4
  <2>. HIDE DEF n, h
  <2>2. IsLoop(n, V, F, kv)
    BY <1>n, <1>2, <2>1 DEF IsLoop
  <2>. QED
    BY <2>2, LoopRuns
<1>6. g = [i \in 0 .. n |-> IF i = 0 THEN kv ELSE ShareRun(g[i - 1], s, runs[i])]
  <2>. HIDE DEF n, h
  <2>0. /\ g = [i \in 0 .. n |-> g[i]]
        /\ g[0] = kv
        /\ \A i \in 1 .. n : g[i] = F[i][g[i - 1]]
        /\ \A i \in 0 .. n : g[i] \in V[i]
    BY <1>5 DEF LoopIs
  <2>1. \A i \in 1 .. n : g[i - 1] \in V[i - 1]
    BY <1>n, <2>0
  <2>2. \A i \in 1 .. n : g[i] = ShareRun(g[i - 1], s, runs[i])
    BY <1>4, <2>0, <2>1
  <2>3. ASSUME NEW i \in 0 .. n PROVE g[i] = IF i = 0 THEN kv ELSE ShareRun(g[i - 1], s, runs[i])
    <3>1. CASE i = 0
      BY <2>0, <3>1
    <3>2. CASE i # 0
      <4>1. i \in 1 .. n
        BY <1>n, <3>2
      <4>. QED
        BY <2>2, <3>2, <4>1
    <3>. QED
      BY <3>1, <3>2
  <2>. QED
    BY <2>0, <2>3
<1>7. h = [i \in 0 .. n |-> IF i = 0 THEN kv ELSE ShareRun(h[i - 1], s, runs[i])]
  <2>1. \E e : e = [i \in 0 .. n |-> IF i = 0 THEN kv ELSE ShareRun(e[i - 1], s, runs[i])]
    BY <1>6
  <2>. QED
    BY <2>1
<1>8. ShareRuns(kv, s, runs) = h[n]
  BY DEF ShareRuns
<1>. HIDE DEF h
<1>9. \A i \in 0 .. n : h[i] \in V[i]
  <2>1. h[0] = kv /\ \A i \in 1 .. n : h[i] = ShareRun(h[i - 1], s, runs[i])
    BY <1>n, <1>7
  <2>2. \A i \in 1 .. n : h[i - 1] \in V[i - 1] => h[i] \in V[i]
    BY <1>3, <2>1
  <2>. HIDE DEF n
  <2>. QED
    BY <1>n, <1>2, <2>1, <2>2, LoopTurn
<1>10. h[n] \in V[n]
  BY <1>n, <1>9
<1>. QED
  BY <1>n, <1>8, <1>10 DEF V

LEMMA FreshRunsFailed ==
    ASSUME NEW kv, ~Fine(kv), NEW s, NEW m \in Nat
    PROVE  FreshRuns(kv, s, m) = kv
<1>. DEFINE n == ceil_div(m, block_size)
            V == [i \in 0 .. n |-> {kv}]
            F == [i \in 1 .. n |-> [k \in V[i - 1] |-> FreshRun(k, s, Take(m, i))]]
            h == CHOOSE h : h = [i \in 0 .. n |->
                                   IF i = 0 THEN kv ELSE FreshRun(h[i - 1], s, Take(m, i))]
<1>n. n \in Nat
  BY TheConstants, CeilIs
<1>. HIDE DEF n
<1>2. kv \in V[0]
  BY <1>n
<1>3. ASSUME NEW i \in 1 .. n, NEW k \in V[i - 1]
      PROVE  FreshRun(k, s, Take(m, i)) \in V[i]
  <2>1. k = kv
    BY <1>n
  <2>2. FreshRun(kv, s, Take(m, i)) = kv
    BY DEF FreshRun, Fine
  <2>. QED
    BY <1>n, <2>1, <2>2
<1>. HIDE DEF V
<1>4. \A i \in 1 .. n : \A k \in V[i - 1] : F[i][k] = FreshRun(k, s, Take(m, i))
  OBVIOUS
<1>. HIDE DEF F
<1>5. PICK g : LoopIs(n, V, F, kv, g)
  <2>1. \A i \in 1 .. n : \A k \in V[i - 1] : F[i][k] \in V[i]
    BY <1>3, <1>4
  <2>. HIDE DEF n, h
  <2>2. IsLoop(n, V, F, kv)
    BY <1>n, <1>2, <2>1 DEF IsLoop
  <2>. QED
    BY <2>2, LoopRuns
<1>6. g = [i \in 0 .. n |-> IF i = 0 THEN kv ELSE FreshRun(g[i - 1], s, Take(m, i))]
  <2>. HIDE DEF n, h
  <2>0. /\ g = [i \in 0 .. n |-> g[i]]
        /\ g[0] = kv
        /\ \A i \in 1 .. n : g[i] = F[i][g[i - 1]]
        /\ \A i \in 0 .. n : g[i] \in V[i]
    BY <1>5 DEF LoopIs
  <2>1. \A i \in 1 .. n : g[i - 1] \in V[i - 1]
    BY <1>n, <2>0
  <2>2. \A i \in 1 .. n : g[i] = FreshRun(g[i - 1], s, Take(m, i))
    BY <1>4, <2>0, <2>1
  <2>3. ASSUME NEW i \in 0 .. n PROVE g[i] = IF i = 0 THEN kv ELSE FreshRun(g[i - 1], s, Take(m, i))
    <3>1. CASE i = 0
      BY <2>0, <3>1
    <3>2. CASE i # 0
      <4>1. i \in 1 .. n
        BY <1>n, <3>2
      <4>. QED
        BY <2>2, <3>2, <4>1
    <3>. QED
      BY <3>1, <3>2
  <2>. QED
    BY <2>0, <2>3
<1>7. h = [i \in 0 .. n |-> IF i = 0 THEN kv ELSE FreshRun(h[i - 1], s, Take(m, i))]
  <2>1. \E e : e = [i \in 0 .. n |-> IF i = 0 THEN kv ELSE FreshRun(e[i - 1], s, Take(m, i))]
    BY <1>6
  <2>. QED
    BY <2>1
<1>8. FreshRuns(kv, s, m) = h[n]
  BY DEF FreshRuns, n
<1>. HIDE DEF h
<1>9. \A i \in 0 .. n : h[i] \in V[i]
  <2>1. h[0] = kv /\ \A i \in 1 .. n : h[i] = FreshRun(h[i - 1], s, Take(m, i))
    BY <1>n, <1>7
  <2>2. \A i \in 1 .. n : h[i - 1] \in V[i - 1] => h[i] \in V[i]
    BY <1>3, <2>1
  <2>. HIDE DEF n
  <2>. QED
    BY <1>n, <1>2, <2>1, <2>2, LoopTurn
<1>10. h[n] \in V[n]
  BY <1>n, <1>9
<1>. QED
  BY <1>n, <1>8, <1>10 DEF V

LEMMA HopRunsAre ==
    ASSUME NEW kv, Sound(kv), NEW h \in Hops(kv.tree)
    PROVE  HopRuns(kv.tree, h) \in Seq(Runs)
<1>. DEFINE x == h.node
            runs == HopRuns(kv.tree, h)
<1>1. kv \in Spaces /\ kv.tree \in [Nodes -> TreeNodes] /\ Formed(kv.tree, {})
  BY SoundIsSpace, SpaceFields DEF Sound
<1>2. x \in AliveNodes(kv.tree) /\ h.used \in 1 .. Len(kv.tree[x].tokens)
  BY DEF Hops
<1>3. NodeShape(kv.tree[x])
  BY <1>1, <1>2 DEF Formed
<1>4. runs = NodeRuns(kv.tree[x], h.used)
  BY DEF HopRuns
<1>. HIDE DEF x, runs
<1>5. runs \in Seq(Runs)
  BY <1>1, <1>2, <1>3, <1>4, NodeRunsAre
<1>. QED
  BY <1>5 DEF runs

\* Where a path is after its first p hops.
EndAfter(path, p) == IF p = 0 THEN 0 ELSE path[p].start + path[p].used

LEMMA EndAfterIs ==
    ASSUME NEW t, NEW path \in Seq(Hops(t)), Chained(path)
    PROVE  /\ EndAfter(path, Len(path)) = EndOf(path)
           /\ \A p \in 1 .. Len(path) : /\ path[p] \in Hops(t)
                                        /\ EndAfter(path, p - 1) \in Nat
                                        /\ path[p].used \in Nat
                                        /\ EndAfter(path, p) = EndAfter(path, p - 1) + path[p].used
<1>. DEFINE n == Len(path)
<1>1. n \in Nat /\ \A p \in 1 .. n : path[p] \in Hops(t)
  BY LenProperties, ElementOfSeq
<1>2. \A p \in 1 .. n : path[p].start \in Nat /\ path[p].used \in Nat
  BY <1>1 DEF Hops
<1>3. \A p \in 0 .. n : EndAfter(path, p) \in Nat
  BY <1>2 DEF EndAfter
<1>4. ASSUME NEW p \in 1 .. n, NEW q, q = p - 1
      PROVE  EndAfter(path, q) \in Nat /\ path[p].start = EndAfter(path, q)
  <2>1. q \in 0 .. n
    BY <1>1, <1>4
  <2>2. path[p].start = IF p = 1 THEN 0 ELSE path[q].start + path[q].used
    BY <1>4 DEF Chained
  <2>. QED
    BY <1>3, <1>4, <2>1, <2>2 DEF EndAfter
<1>5. EndAfter(path, n) = EndOf(path)
  <2>1. CASE n = 0
    <3>1. path = <<>>
      BY <2>1, EmptySeq
    <3>. QED
      BY <2>1, <3>1 DEF EndAfter, EndOf
  <2>2. CASE n # 0
    <3>1. path # <<>>
      BY <2>2, EmptySeq
    <3>2. Last(path) = path[n]
      BY <3>1, LastOf
    <3>. QED
      BY <2>2, <3>1, <3>2 DEF EndAfter, EndOf
  <2>. QED
    BY <2>1, <2>2
<1>6. ASSUME NEW p \in 1 .. n
      PROVE  EndAfter(path, p - 1) \in Nat /\ EndAfter(path, p) = EndAfter(path, p - 1) + path[p].used
  <2>1. p # 0
    OBVIOUS
  <2>2. EndAfter(path, p) = path[p].start + path[p].used
    BY <2>1 DEF EndAfter
  <2>. QED
    BY <1>4, <2>2
<1>. QED
  BY <1>1, <1>2, <1>5, <1>6

LEMMA SharedOK ==
    ASSUME NEW kv, Sound(kv), Fine(kv), NEW s \in Slots, ~kv.rq[s].priv,
           NEW toks, NEW m, MatchOK(kv.tree, toks, m),
           NEW base, base = [kv EXCEPT !.tree = m.tree], NEW kw, kw = Shared(kv, s, m)
    PROVE  Around(base, kw, s) /\ Sound(kw) /\ Grew(base, kw, s, m.matched)
<1>. DEFINE path == m.path
            n == Len(path)
            Held(k, p) == /\ Around(base, k, s) /\ Sound(k)
                          /\ Grew(base, k, s, EndAfter(path, p))
            V == [p \in 0 .. n |-> {k \in Spaces : Held(k, p)}]
            op(k, p) == ShareRuns(k, s, NodeRuns(m.tree[m.path[p].node], m.path[p].used))
            F == [i \in 1 .. n |-> [k \in V[i - 1] |-> op(k, i)]]
            h == CHOOSE h : h = [i \in 0 .. n |-> IF i = 0 THEN base ELSE op(h[i - 1], i)]
<1>1. /\ path \in Seq(Hops(kv.tree)) /\ Chained(path)
      /\ m.matched = EndOf(path) /\ m.matched \in Nat
      /\ m.tree \in [Nodes -> TreeNodes] /\ SameTree(kv.tree, m.tree)
  BY DEF MatchOK
<1>n. n \in Nat
  BY <1>1, LenProperties
<1>0. /\ EndAfter(path, n) = EndOf(path)
      /\ \A p \in 1 .. n : /\ path[p] \in Hops(kv.tree)
                           /\ EndAfter(path, p - 1) \in Nat
                           /\ path[p].used \in Nat
                           /\ EndAfter(path, p) = EndAfter(path, p - 1) + path[p].used
  <2>. HIDE DEF path
  <2>. QED
    BY <1>1, EndAfterIs
<1>b. kv \in Spaces /\ kv.tree \in [Nodes -> TreeNodes] /\ Formed(kv.tree, {})
  BY SoundIsSpace, SpaceFields DEF Sound
<1>c. /\ base \in Spaces /\ base.pool = kv.pool /\ base.tree = m.tree
      /\ base.rq = kv.rq /\ base.ok = kv.ok
  BY <1>1, <1>b, WithTree
<1>d. Sound(base) /\ Hops(base.tree) = Hops(kv.tree)
  <2>1. SameTree(kv.tree, base.tree)
    BY <1>1, <1>c
  <2>. QED
    BY <1>b, <1>c, <2>1, SoundLookup, SameTreeOK
<1>e. Fine(base) /\ ~base.rq[s].priv /\ n_tokens(base.rq[s].table) \in Nat
  <2>1. Fine(base)
    BY <1>c, Zenon DEF Fine
  <2>. QED
    BY <1>c, <2>1, SlotTable, TokensNat
<1>2. base \in V[0]
  <2>1. Held(base, 0)
    <3>1. EndAfter(path, 0) = 0
      BY DEF EndAfter
    <3>2. Grew(base, base, s, 0)
      BY <1>d, <1>e DEF Grew
    <3>. QED
      BY <1>c, <1>d, <3>1, <3>2, AroundSelf
  <2>. HIDE DEF Held, n
  <2>. QED
    BY <1>n, <1>c, <2>1
<1>3. ASSUME NEW i \in 1 .. n, NEW k \in V[i - 1]
      PROVE  op(k, i) \in V[i]
  <2>. DEFINE g == path[i]
              l == op(k, i)
              j == i - 1
  <2>1. j \in 0 .. n /\ i \in 0 .. n /\ i \in 1 .. n
    BY <1>n
  <2>2. Held(k, j) /\ k \in Spaces
    BY <2>1
  <2>3. g \in Hops(kv.tree) /\ EndAfter(path, j) \in Nat /\ g.used \in Nat
        /\ EndAfter(path, i) = EndAfter(path, j) + g.used
    BY <1>0
  <2>4. Sound(k) /\ Around(base, k, s) /\ Grew(base, k, s, EndAfter(path, j))
    BY <2>2
  <2>5. k.tree = m.tree /\ ~k.rq[s].priv
    BY <1>c, <1>e, <2>4 DEF Around, RestOfSlot
  <2>6. g \in Hops(k.tree)
    BY <1>c, <1>d, <2>3, <2>5
  <2>7. l = ShareRuns(k, s, HopRuns(k.tree, g))
    BY <2>5 DEF HopRuns
  <2>. HIDE DEF V, j, g, l, path
  <2>8. CASE Fine(k)
    <3>1. Around(k, l, s) /\ Sound(l) /\ Grew(k, l, s, g.used)
      BY <2>4, <2>5, <2>6, <2>7, <2>8, ShareHopOK
    <3>2. Around(base, l, s)
      BY <2>4, <3>1, AroundTwice
    <3>3. n_tokens(k.rq[s].table) = n_tokens(base.rq[s].table) + EndAfter(path, j)
      BY <2>4, <2>8 DEF Grew
    <3>4. Grew(base, l, s, EndAfter(path, i))
      BY <1>e, <2>3, <3>1, <3>3 DEF Grew
    <3>5. l \in Spaces
      BY <3>1 DEF Around
    <3>6. Held(l, i)
      BY <3>1, <3>2, <3>4
    <3>. HIDE DEF Held
    <3>7. l \in V[i]
      BY <2>1, <3>5, <3>6 DEF V
    <3>. QED
      BY <3>7 DEF l
  <2>9. CASE ~Fine(k)
    <3>0. HopRuns(k.tree, g) \in Seq(Runs)
      BY <2>4, <2>6, HopRunsAre
    <3>1. l = k
      <4>. DEFINE R == HopRuns(k.tree, g)
      <4>. HIDE DEF R
      <4>1. ShareRuns(k, s, R) = k
        BY <2>9, <3>0, ShareRunsFailed DEF R
      <4>. QED
        BY <2>7, <4>1 DEF R
    <3>2. Held(l, i)
      BY <2>4, <2>9, <3>1 DEF Grew
    <3>. HIDE DEF Held
    <3>3. l \in V[i]
      BY <2>1, <2>2, <3>1, <3>2 DEF V
    <3>. QED
      BY <3>3 DEF l
  <2>. QED
    BY <2>8, <2>9
<1>. HIDE DEF op
<1>. HIDE DEF V
<1>4. \A i \in 1 .. n : \A k \in V[i - 1] : F[i][k] = op(k, i)
  OBVIOUS
<1>. HIDE DEF F
<1>5. PICK g : LoopIs(n, V, F, base, g)
  <2>1. \A i \in 1 .. n : \A k \in V[i - 1] : F[i][k] \in V[i]
    BY <1>3, <1>4
  <2>. HIDE DEF n, h
  <2>2. IsLoop(n, V, F, base)
    BY <1>n, <1>2, <2>1 DEF IsLoop
  <2>. QED
    BY <2>2, LoopRuns
<1>6. g = [i \in 0 .. n |-> IF i = 0 THEN base ELSE op(g[i - 1], i)]
  <2>. HIDE DEF n, h
  <2>0. /\ g = [i \in 0 .. n |-> g[i]]
        /\ g[0] = base
        /\ \A i \in 1 .. n : g[i] = F[i][g[i - 1]]
        /\ \A i \in 0 .. n : g[i] \in V[i]
    BY <1>5 DEF LoopIs
  <2>1. \A i \in 1 .. n : g[i - 1] \in V[i - 1]
    BY <1>n, <2>0
  <2>2. \A i \in 1 .. n : g[i] = op(g[i - 1], i)
    BY <1>4, <2>0, <2>1
  <2>3. ASSUME NEW i \in 0 .. n PROVE g[i] = IF i = 0 THEN base ELSE op(g[i - 1], i)
    <3>1. CASE i = 0
      BY <2>0, <3>1
    <3>2. CASE i # 0
      <4>1. i \in 1 .. n
        BY <1>n, <3>2
      <4>. QED
        BY <2>2, <3>2, <4>1
    <3>. QED
      BY <3>1, <3>2
  <2>. QED
    BY <2>0, <2>3
<1>7. h = [i \in 0 .. n |-> IF i = 0 THEN base ELSE op(h[i - 1], i)]
  <2>1. \E e : e = [i \in 0 .. n |-> IF i = 0 THEN base ELSE op(e[i - 1], i)]
    BY <1>6
  <2>. QED
    BY <2>1
<1>8. kw = h[n]
  BY DEF Shared, op
<1>. HIDE DEF h
<1>9. \A i \in 0 .. n : h[i] \in V[i]
  <2>1. h[0] = base /\ \A i \in 1 .. n : h[i] = op(h[i - 1], i)
    BY <1>n, <1>7
  <2>2. \A i \in 1 .. n : h[i - 1] \in V[i - 1] => h[i] \in V[i]
    BY <1>3, <2>1
  <2>. HIDE DEF n
  <2>. QED
    BY <1>n, <1>2, <2>1, <2>2, LoopTurn
<1>10. h[n] \in V[n]
  BY <1>n, <1>9
<1>11. Held(h[n], n)
  <2>. HIDE DEF Held
  <2>. QED
    BY <1>n, <1>10 DEF V
<1>. QED
  BY <1>0, <1>1, <1>8, <1>11

\* What the slot of a request that has been started looks like.
StartedAs(q, n, priv) == q.live /\ q.ntok = n /\ q.priv = priv

Begun(q, id, n, fresh) == [q EXCEPT !.live = TRUE, !.id = id, !.ntok = n, !.priv = fresh]

LEMMA WithStart ==
    ASSUME NEW q \in Requests, NEW id \in Nat, NEW n \in 0 .. MAX_SEQ_TOKENS,
           NEW fresh \in BOOLEAN, NEW r, r = Begun(q, id, n, fresh)
    PROVE  r \in Requests /\ r.table = q.table /\ StartedAs(r, n, fresh)
<1>1. r = [live |-> TRUE, id |-> id, ntok |-> n, priv |-> fresh, tok |-> q.tok, table |-> q.table]
  BY DEF Requests, Begun
<1>2. q.tok \in [1 .. MAX_SEQ_TOKENS -> Nat] /\ q.table \in Seq(Runs)
  BY RequestFields
<1>. QED
  BY <1>1, <1>2 DEF Requests, StartedAs

LEMMA StartedOK ==
    ASSUME NEW kv, Sound(kv), Fine(kv), NEW s \in Slots, NEW id \in Nat,
           NEW n \in 0 .. MAX_SEQ_TOKENS, NEW fresh \in BOOLEAN, fresh => AtStart(kv, s),
           NEW kw, kw = Started(kv, s, id, n, fresh)
    PROVE  /\ Sound(kw) /\ Fine(kw) /\ StartedAs(kw.rq[s], n, fresh)
           /\ kw.rq[s].table = kv.rq[s].table /\ kw.tree = kv.tree
           /\ \A q \in Slots \ {s} : kw.rq[q] = kv.rq[q]
<1>. DEFINE q == kv.rq[s]
            r == [q EXCEPT !.live = TRUE, !.id = id, !.ntok = n, !.priv = fresh]
<1>1. kv \in Spaces /\ q \in Requests /\ SlotOK(q)
  BY SoundIsSpace, SlotTable DEF Sound
<1>2. r \in Requests /\ r.table = q.table /\ StartedAs(r, n, fresh)
  <2>. HIDE DEF q
  <2>1. r = Begun(q, id, n, fresh)
    BY DEF Begun
  <2>2. \A k : k = Begun(q, id, n, fresh)
                 => k \in Requests /\ k.table = q.table /\ StartedAs(k, n, fresh)
    BY <1>1, WithStart
  <2>. QED
    BY <2>1, <2>2
<1>3. SlotOK(r)
  <2>1. fresh => q.table # <<>> /\ Last(q.table).start = 0
    BY DEF AtStart
  <2>2. Len(q.table) <= MAX_BLOCKS_PER_SEQ
    BY <1>1 DEF SlotOK
  <2>. HIDE DEF q, r
  <2>. QED
    BY <1>2, <2>1, <2>2, Zenon DEF SlotOK, StartedAs
<1>4. kw = [kv EXCEPT !.rq[s] = r]
  <2>1. kw = [kv EXCEPT !.rq[s].live = TRUE, !.rq[s].id = id, !.rq[s].ntok = n,
                        !.rq[s].priv = fresh]
    BY DEF Started, Fine
  <2>. DEFINE R == kv.rq
              R1 == [R EXCEPT ![s].live = TRUE]
              R2 == [R1 EXCEPT ![s].id = id]
              R3 == [R2 EXCEPT ![s].ntok = n]
              R4 == [R3 EXCEPT ![s].priv = fresh]
  <2>2. R \in [Slots -> Requests]
    BY <1>1, SpaceFields
  <2>3. kw = [kv EXCEPT !.rq = R4]
    BY <1>1, <2>1 DEF Spaces
  <2>. HIDE DEF R
  <2>4. R1 = [R EXCEPT ![s] = [R[s] EXCEPT !.live = TRUE]]
    BY <2>2
  <2>5. R4 = [R EXCEPT ![s] = [R[s] EXCEPT !.live = TRUE, !.id = id, !.ntok = n, !.priv = fresh]]
    BY <2>2, <2>4
  <2>. HIDE DEF R4
  <2>6. kw = [kv EXCEPT !.rq = [R EXCEPT ![s] = [R[s] EXCEPT !.live = TRUE, !.id = id,
                                                            !.ntok = n, !.priv = fresh]]]
    BY <2>3, <2>5
  <2>. QED
    BY <2>6 DEF R
<1>. HIDE DEF r
<1>5. /\ kw \in Spaces /\ kw.rq[s] = r /\ kw.pool = kv.pool /\ kw.tree = kv.tree
      /\ kw.ok = kv.ok /\ \A p \in Slots \ {s} : kw.rq[p] = kv.rq[p]
  BY <1>1, <1>2, <1>4, WithSlot
<1>6. Sound(kw)
  <2>1. SlotOK(kw.rq[s]) /\ kw.rq[s].table = kv.rq[s].table
    BY <1>2, <1>3, <1>5
  <2>. HIDE DEF q
  <2>. QED
    BY <1>5, <2>1, SoundSlot
<1>7. Fine(kw)
  BY <1>5, Zenon DEF Fine
<1>8. StartedAs(kw.rq[s], n, fresh)
  <2>. HIDE DEF q
  <2>. QED
    BY <1>2, <1>5
<1>. QED
  BY <1>2, <1>5, <1>6, <1>7, <1>8

\* The space after a call about slot s: in order, or failed with the table of
\* s full; the tree's uses and the other slots are as they were.
CalledOn(kv, kw, s) ==
    /\ SameTree(kv.tree, kw.tree)
    /\ kw \in Spaces /\ SoundOrFull(kw, s) /\ (Fine(kw) => Sound(kw))
    /\ \A r \in Slots \ {s} : kw.rq[r] = kv.rq[r]

LEMMA PlacedOK ==
    ASSUME NEW kv, Sound(kv), Fine(kv), NEW s \in Slots, ~kv.rq[s].priv,
           NEW id \in Nat, NEW n \in 0 .. MAX_SEQ_TOKENS,
           NEW toks, Len(toks) = n, NEW m, MatchOK(kv.tree, toks, m),
           NEW kw, kw = Placed(kv, s, id, n, m)
    PROVE  /\ CalledOn(kv, kw, s)
           /\ Fine(kw) => /\ kw.rq[s].live /\ kw.rq[s].ntok = n
                          /\ n_tokens(kw.rq[s].table) = n_tokens(kv.rq[s].table) + n
<1>. DEFINE base == [kv EXCEPT !.tree = m.tree]
            k == Shared(kv, s, m)
            rest == n - m.matched
            l == FreshRuns(k, s, rest)
            fresh == m.matched < n
<1>1. kv \in Spaces
  BY SoundIsSpace
<1>2. m.matched \in Nat /\ m.matched <= n /\ m.tree \in [Nodes -> TreeNodes]
  BY DEF MatchOK
<1>3. n \in Nat /\ rest \in Nat /\ fresh \in BOOLEAN
  BY <1>2, TheConstants
<1>4. CASE ~m.ok
  <2>1. kw = Fail(kv)
    BY <1>4 DEF Placed
  <2>2. Sound(kw) /\ ~Fine(kw) /\ kw \in Spaces /\ kw.rq = kv.rq /\ kw.tree = kv.tree
    BY <1>1, <2>1, SoundFail, AroundFail, WithFail
  <2>. QED
    BY <2>2, SameTreeSelf DEF CalledOn, SoundOrFull
<1>5. CASE m.ok
  <2>1. kw = Started(l, s, id, n, fresh)
    BY <1>5 DEF Placed
  <2>2. Around(base, k, s) /\ Sound(k) /\ Grew(base, k, s, m.matched)
    <3>1. base = [kv EXCEPT !.tree = m.tree] /\ k = Shared(kv, s, m)
      OBVIOUS
    <3>. HIDE DEF base, k
    <3>. QED
      BY <3>1, SharedOK
  <2>3. base.rq = kv.rq /\ base.tree = m.tree
    BY <1>1, <1>2, WithTree
  <2>t. SameTree(kv.tree, k.tree)
    BY <2>2, <2>3 DEF Around, MatchOK
  <2>4. n_tokens(kv.rq[s].table) \in Nat
    BY <1>1, SlotTable, TokensNat
  <2>. HIDE DEF base, k, rest, fresh
  <2>5. CASE Fine(k)
    <3>1. /\ Around(k, l, s) /\ SoundOrFull(l, s) /\ Grew(k, l, s, rest)
          /\ rest # 0 /\ Fine(l) => AtStart(l, s)
      BY <1>3, <2>2, <2>5, FreshRunsOK
    <3>2. /\ l \in Spaces /\ \A r \in Slots \ {s} : l.rq[r] = kv.rq[r]
          /\ SameTree(kv.tree, l.tree)
      BY <2>2, <2>3, <2>t, <3>1 DEF Around
    <3>. HIDE DEF l
    <3>3. CASE Fine(l)
      <4>1. Sound(l) /\ n_tokens(l.rq[s].table) = n_tokens(k.rq[s].table) + rest
            /\ n_tokens(k.rq[s].table) = n_tokens(kv.rq[s].table) + m.matched
        BY <2>2, <2>3, <2>5, <3>1, <3>3 DEF Grew
      <4>2. n_tokens(l.rq[s].table) = n_tokens(kv.rq[s].table) + n
        BY <1>2, <1>3, <2>4, <4>1 DEF rest
      <4>3. fresh => AtStart(l, s)
        <5>1. fresh => rest # 0
          BY <1>2, <1>3 DEF fresh, rest
        <5>. QED
          BY <3>1, <3>3, <5>1
      <4>4. /\ Sound(kw) /\ Fine(kw) /\ StartedAs(kw.rq[s], n, fresh)
            /\ kw.rq[s].table = l.rq[s].table /\ kw.tree = l.tree
            /\ \A q \in Slots \ {s} : kw.rq[q] = l.rq[q]
        BY <1>3, <2>1, <3>3, <4>1, <4>3, StartedOK
      <4>5. CalledOn(kv, kw, s)
        BY <3>2, <4>4, SoundIsSpace DEF CalledOn, SoundOrFull
      <4>6. kw.rq[s].live /\ kw.rq[s].ntok = n
        BY <4>4 DEF StartedAs
      <4>. QED
        BY <4>2, <4>4, <4>5, <4>6
    <3>4. CASE ~Fine(l)
      <4>1. kw = l
        BY <2>1, <3>4 DEF Started, Fine
      <4>. QED
        BY <3>1, <3>2, <3>4, <4>1 DEF CalledOn
    <3>. QED
      BY <3>3, <3>4
  <2>6. CASE ~Fine(k)
    <3>1. l = k
      BY <1>3, <2>6, FreshRunsFailed
    <3>. HIDE DEF l
    <3>2. kw = k
      BY <2>1, <2>6, <3>1 DEF Started, Fine
    <3>3. k \in Spaces /\ \A r \in Slots \ {s} : k.rq[r] = kv.rq[r]
      BY <2>2, <2>3 DEF Around
    <3>. QED
      BY <2>2, <2>6, <2>t, <3>2, <3>3 DEF CalledOn, SoundOrFull
  <2>. QED
    BY <2>5, <2>6
<1>. QED
  BY <1>4, <1>5

LEMMA FreeSlotIs ==
    ASSUME NEW kv, LiveSlots(kv) # Slots
    PROVE  FreeSlot(kv) \in Slots /\ ~kv.rq[FreeSlot(kv)].live
<1>. DEFINE S == Slots \ LiveSlots(kv)
<1>1. S \in SUBSET Nat /\ S # {}
  BY TheConstants DEF LiveSlots
<1>2. FreeSlot(kv) = Min(S)
  BY DEF FreeSlot
<1>3. Min(S) \in S
  <2>. HIDE DEF S
  <2>. QED
    BY <1>1, MinOf
<1>. QED
  BY <1>2, <1>3 DEF LiveSlots

\* A dead slot owns no block.
LEMMA DeadOwnsNothing ==
    ASSUME NEW kv, Sound(kv), NEW s \in Slots, ~kv.rq[s].live
    PROVE  ~kv.rq[s].priv
<1>1. SlotOK(kv.rq[s])
  BY DEF Sound
<1>. QED
  BY <1>1, Zenon DEF SlotOK

LEMMA NewRequestOK ==
    ASSUME NEW kv, Sound(kv), Fine(kv), LiveSlots(kv) # Slots,
           NEW id \in Nat, NEW toks \in Seq(Nat), Len(toks) \in 0 .. MAX_SEQ_TOKENS,
           NEW s, s = FreeSlot(kv), NEW kw, kw = new_request(kv, id, toks)
    PROVE  /\ CalledOn(kv, kw, s) /\ s \in Slots
           /\ Fine(kw) => /\ kw.rq[s].live /\ kw.rq[s].ntok = Len(toks)
                          /\ n_tokens(kw.rq[s].table) = n_tokens(kv.rq[s].table) + Len(toks)
<1>. DEFINE k == Recorded(kv, s, toks)
            m == match(kv.tree, toks)
            n == Len(toks)
<1>1. s \in Slots /\ ~kv.rq[s].live
  BY FreeSlotIs
<1>2. ~kv.rq[s].priv
  BY <1>1, DeadOwnsNothing
<1>3. kv \in Spaces /\ kv.tree \in [Nodes -> TreeNodes] /\ Formed(kv.tree, {})
  BY SoundIsSpace, SpaceFields DEF Sound
<1>4. /\ Sound(k) /\ k.tree = kv.tree /\ k.ok = kv.ok
      /\ k.rq[s].table = kv.rq[s].table /\ k.rq[s].priv = kv.rq[s].priv
      /\ \A q \in Slots \ {s} : k.rq[q] = kv.rq[q]
  BY <1>1, RecordedOK
<1>5. kw = Placed(k, s, id, n, m)
  BY DEF new_request
<1>6. MatchOK(kv.tree, toks, m)
  BY <1>3, MatchIsOK
<1>. HIDE DEF k, m, n
<1>7. Fine(k) /\ ~k.rq[s].priv /\ MatchOK(k.tree, toks, m) /\ n \in 0 .. MAX_SEQ_TOKENS
      /\ Len(toks) = n
  <2>1. Fine(k) /\ ~k.rq[s].priv
    BY <1>2, <1>4, Zenon DEF Fine
  <2>. QED
    BY <1>4, <1>6, <2>1 DEF n
<1>8. /\ CalledOn(k, kw, s)
      /\ Fine(kw) => /\ kw.rq[s].live /\ kw.rq[s].ntok = n
                     /\ n_tokens(kw.rq[s].table) = n_tokens(k.rq[s].table) + n
  BY <1>1, <1>4, <1>5, <1>7, PlacedOK
<1>9. CalledOn(kv, kw, s)
  BY <1>4, <1>8 DEF CalledOn
<1>. QED
  BY <1>1, <1>4, <1>7, <1>8, <1>9
-----------------------------------------------------------------------------
(* Growth *)

\* The last run of a table gets n slots of its block it did not have.
LEMMA WidenOK ==
    ASSUME NEW kv, Sound(kv), NEW s \in Slots, kv.rq[s].table # <<>>, NEW n \in Nat,
           Last(kv.rq[s].table).start + Last(kv.rq[s].table).len + n <= block_size,
           NEW kw, kw = [kv EXCEPT !.rq[s].table = Widened(kv.rq[s].table, n)]
    PROVE  /\ Around(kv, kw, s) /\ Sound(kw) /\ kw.ok = kv.ok
           /\ n_tokens(kw.rq[s].table) = n_tokens(kv.rq[s].table) + n
           /\ AtStart(kv, s) => AtStart(kw, s)
<1>. DEFINE T == kv.rq[s].table
            W == Widened(T, n)
            l == [kv EXCEPT !.rq[s].table = W]
<1>1. kv \in Spaces /\ PoolOK(kv.pool) /\ kv.pool.refcnt \in [Blocks -> Nat]
      /\ T \in Seq(Runs) /\ Len(T) \in Nat /\ SlotOK(kv.rq[s])
  BY SoundIsSpace, SlotTable DEF Sound
<1>2. T # <<>> /\ Last(T).start + Last(T).len + n <= block_size
  OBVIOUS
<1>3. W = Widened(T, n)
  OBVIOUS
<1>. HIDE DEF W, T
<1>4. /\ W \in Seq(Runs) /\ W # <<>> /\ Len(W) = Len(T)
      /\ Last(W).start = Last(T).start
      /\ TableBlocks(W) = TableBlocks(T)
  BY <1>1, <1>2, <1>3, TableWidened
<1>5. n_tokens(W) = n_tokens(T) + n
  BY <1>1, <1>2, <1>3, TokensWidened
<1>6. \A k : k = [kv EXCEPT !.rq[s].table = W]
               => k \in Spaces /\ k.rq[s].table = W /\ TableOnly(kv, k, s)
  BY <1>1, <1>4, WithSlotTable
<1>7. l \in Spaces /\ l.rq[s].table = W /\ TableOnly(kv, l, s)
  BY <1>6
<1>8. kw = l
  BY DEF W, T
<1>. HIDE DEF l
<1>9. l.pool = kv.pool /\ l.tree = kv.tree /\ l.ok = kv.ok /\ Around(kv, l, s)
  BY <1>7 DEF TableOnly, Around
<1>10. SlotOK(l.rq[s])
  <2>1. RestOfSlot(kv.rq[s], l.rq[s])
    BY <1>9 DEF Around
  <2>. QED
    BY <1>1, <1>4, <1>7, <2>1 DEF SlotOK, RestOfSlot, T
<1>11. \A c \in Blocks : l.pool.refcnt[c] = kv.pool.refcnt[c] - Times(TableBlocks(T), c)
                                              + Times(TableBlocks(W), c)
  <2>1. TAKE c \in Blocks
  <2>2. Times(TableBlocks(T), c) \in Nat
    <3>1. Len(TableBlocks(T)) \in Nat
      BY <1>1, BlocksOfTable
    <3>. QED
      BY <3>1, AmongNat DEF Times
  <2>3. kv.pool.refcnt[c] \in Nat
    BY <1>1
  <2>. QED
    BY <1>4, <1>9, <2>2, <2>3
<1>12. Sound(l)
  <2>1. PoolOK(l.pool) /\ \A r \in Slots \ {s} : l.rq[r] = kv.rq[r]
    BY <1>1, <1>9 DEF Around
  <2>. QED
    BY <1>7, <1>9, <1>10, <1>11, <2>1, SoundTable DEF T
<1>13. AtStart(kv, s) => AtStart(l, s)
  BY <1>4, <1>7 DEF AtStart, T
<1>. QED
  BY <1>5, <1>7, <1>8, <1>9, <1>12, <1>13 DEF T

LEMMA FreshRunsNone ==
    ASSUME NEW kv, NEW s
    PROVE  FreshRuns(kv, s, 0) = kv
<1>. DEFINE n == ceil_div(0, block_size)
            h == CHOOSE h : h = [i \in 0 .. n |->
                                   IF i = 0 THEN kv ELSE FreshRun(h[i - 1], s, Take(0, i))]
<1>1. n = 0
  <2>. DEFINE b == block_size
              z == 0
  <2>1. b \in Nat \ {0} /\ z \in Nat /\ z <= b * z /\ b * z < z + b
    BY TheConstants
  <2>. HIDE DEF z, b
  <2>2. ceil_div(z, b) = z
    BY <2>1, CeilOf
  <2>. QED
    BY <2>2 DEF z, b
<1>2. FreshRuns(kv, s, 0) = h[n]
  BY DEF FreshRuns
<1>. HIDE DEF n
<1>3. h = [i \in 0 .. n |-> IF i = 0 THEN kv ELSE FreshRun(h[i - 1], s, Take(0, i))]
  <2>. DEFINE g == [i \in 0 .. n |-> kv]
  <2>1. g = [i \in 0 .. n |-> IF i = 0 THEN kv ELSE FreshRun(g[i - 1], s, Take(0, i))]
    BY <1>1
  <2>2. \E e : e = [i \in 0 .. n |-> IF i = 0 THEN kv ELSE FreshRun(e[i - 1], s, Take(0, i))]
    BY <2>1
  <2>. QED
    BY <2>2
<1>. HIDE DEF h
<1>4. h[n] = kv
  BY <1>1, <1>3
<1>. QED
  BY <1>2, <1>4

LEMMA WithGrowth ==
    ASSUME NEW q \in Requests, NEW n \in 0 .. MAX_SEQ_TOKENS,
           NEW r, r = [q EXCEPT !.ntok = n, !.priv = TRUE]
    PROVE  r \in Requests /\ r.table = q.table /\ r.live = q.live /\ r.ntok = n /\ r.priv
<1>1. r = [live |-> q.live, id |-> q.id, ntok |-> n, priv |-> TRUE, tok |-> q.tok,
           table |-> q.table]
  BY DEF Requests
<1>2. q.tok \in [1 .. MAX_SEQ_TOKENS -> Nat] /\ q.table \in Seq(Runs) /\ q.live \in BOOLEAN
      /\ q.id \in Nat
  BY RequestFields
<1>. QED
  BY <1>1, <1>2 DEF Requests

\* The slot of a live request that has grown to n tokens.
GrownTo(q, n) == q.live /\ q.ntok = n /\ q.priv

LEMMA AppendedOK ==
    ASSUME NEW kv, Sound(kv), Fine(kv), NEW s \in Slots, kv.rq[s].live, AtStart(kv, s),
           NEW n \in Nat, NEW m, m = kv.rq[s].ntok + n, m <= MAX_SEQ_TOKENS,
           NEW kw, kw = Appended(kv, s, n)
    PROVE  /\ Sound(kw) /\ Fine(kw) /\ GrownTo(kw.rq[s], m)
           /\ kw.rq[s].table = kv.rq[s].table /\ kw.tree = kv.tree
           /\ \A q \in Slots \ {s} : kw.rq[q] = kv.rq[q]
<1>. DEFINE q == kv.rq[s]
            r == [q EXCEPT !.ntok = m, !.priv = TRUE]
<1>1. kv \in Spaces /\ q \in Requests /\ SlotOK(q)
  BY SoundIsSpace, SlotTable DEF Sound
<1>0. m \in 0 .. MAX_SEQ_TOKENS
  BY <1>1, RequestFields, TheConstants
<1>2. r \in Requests /\ r.table = q.table /\ r.live = q.live /\ r.ntok = m /\ r.priv
  <2>. HIDE DEF q
  <2>1. \A k : k = [q EXCEPT !.ntok = m, !.priv = TRUE]
                 => k \in Requests /\ k.table = q.table /\ k.live = q.live /\ k.ntok = m
                    /\ k.priv
    BY <1>0, <1>1, WithGrowth
  <2>. QED
    BY <2>1
<1>3. SlotOK(r)
  <2>1. q.table # <<>> /\ Last(q.table).start = 0 /\ q.live
    BY DEF AtStart
  <2>2. Len(q.table) <= MAX_BLOCKS_PER_SEQ
    BY <1>1 DEF SlotOK
  <2>. HIDE DEF q, r
  <2>. QED
    BY <1>2, <2>1, <2>2, Zenon DEF SlotOK
<1>4. kw = [kv EXCEPT !.rq[s] = r]
  <2>. DEFINE R == kv.rq
              R1 == [R EXCEPT ![s].ntok = R[s].ntok + n]
              R2 == [R1 EXCEPT ![s].priv = TRUE]
  <2>1. kw = [kv EXCEPT !.rq[s].ntok = kv.rq[s].ntok + n, !.rq[s].priv = TRUE]
    BY DEF Appended, Fine
  <2>2. R \in [Slots -> Requests]
    BY <1>1, SpaceFields
  <2>3. kw = [kv EXCEPT !.rq = R2]
    BY <1>1, <2>1 DEF Spaces
  <2>. HIDE DEF R
  <2>5. R2 = [R EXCEPT ![s] = [R[s] EXCEPT !.ntok = m, !.priv = TRUE]]
    BY <2>2 DEF R
  <2>. HIDE DEF R2
  <2>6. kw = [kv EXCEPT !.rq = [R EXCEPT ![s] = [R[s] EXCEPT !.ntok = m, !.priv = TRUE]]]
    BY <2>3, <2>5
  <2>. QED
    BY <2>6 DEF R
<1>. HIDE DEF r
<1>5. /\ kw \in Spaces /\ kw.rq[s] = r /\ kw.pool = kv.pool /\ kw.tree = kv.tree
      /\ kw.ok = kv.ok /\ \A p \in Slots \ {s} : kw.rq[p] = kv.rq[p]
  BY <1>1, <1>2, <1>4, WithSlot
<1>6. Sound(kw)
  <2>1. SlotOK(kw.rq[s]) /\ kw.rq[s].table = kv.rq[s].table
    BY <1>2, <1>3, <1>5
  <2>. HIDE DEF q
  <2>. QED
    BY <1>5, <2>1, SoundSlot
<1>7. Fine(kw)
  BY <1>5, Zenon DEF Fine
<1>8. GrownTo(kw.rq[s], m)
  <2>1. r.live
    <3>1. q.live
      OBVIOUS
    <3>. HIDE DEF q
    <3>. QED
      BY <1>2, <3>1, Zenon
  <2>. HIDE DEF q
  <2>. QED
    BY <1>2, <1>5, <2>1, Zenon DEF GrownTo
<1>. QED
  BY <1>2, <1>5, <1>6, <1>7, <1>8

LEMMA AppendTokensOK ==
    ASSUME NEW kv, Sound(kv), Fine(kv), NEW s \in Slots, kv.rq[s].live,
           NEW n \in Nat \ {0}, kv.rq[s].ntok + n <= MAX_SEQ_TOKENS,
           NEW kw, kw = append_tokens(kv, s, n)
    PROVE  /\ CalledOn(kv, kw, s)
           /\ Fine(kw) => /\ kw.rq[s].live /\ kw.rq[s].ntok = kv.rq[s].ntok + n
                          /\ n_tokens(kw.rq[s].table) = n_tokens(kv.rq[s].table) + n
<1>. DEFINE T == kv.rq[s].table
            own == kv.rq[s].priv /\ T # <<>>
            spare == IF own THEN Min({n, block_size - Last(T).len}) ELSE 0
            wide == IF spare > 0 THEN [kv EXCEPT !.rq[s].table = Widened(T, spare)] ELSE kv
            rest == n - spare
            l == FreshRuns(wide, s, rest)
<1>1. kv \in Spaces /\ T \in Seq(Runs) /\ SlotOK(kv.rq[s]) /\ n_tokens(T) \in Nat
      /\ kv.rq[s] \in Requests
  BY SoundIsSpace, SlotTable, TokensNat DEF Sound
<1>2. kw = Appended(l, s, n)
  BY DEF append_tokens, GrownBy
<1>3. own => /\ spare \in 0 .. n /\ Last(T).start + Last(T).len + spare <= block_size
             /\ AtStart(kv, s)
  <2>1. SUFFICES ASSUME own
                 PROVE  /\ spare \in 0 .. n /\ Last(T).start + Last(T).len + spare <= block_size
                        /\ AtStart(kv, s)
    OBVIOUS
  <2>2. Last(T) \in Runs
    <3>1. T # <<>>
      BY <2>1
    <3>. HIDE DEF T
    <3>. QED
      BY <1>1, <3>1, LastOf
  <2>3. Last(T).start = 0 /\ T # <<>>
    BY <1>1, <2>1, Zenon DEF SlotOK
  <2>. DEFINE d == block_size - Last(T).len
  <2>4. d \in Nat /\ Last(T).len \in Nat /\ block_size \in Nat /\ Last(T).len + d = block_size
    BY <2>2, <2>3, RunFields, TheConstants, SMTT(60)
  <2>5. spare = Min({n, d})
    BY <2>1
  <2>6. AtStart(kv, s)
    BY <2>3 DEF AtStart
  <2>. HIDE DEF d, T, spare
  <2>7. spare = IF n <= d THEN n ELSE d
    <3>1. Min({n, d}) = IF n <= d THEN n ELSE d
      BY <2>4, MinOfTwo
    <3>. QED
      BY <2>5, <3>1
  <2>8. spare \in 0 .. n /\ spare <= d /\ spare \in Nat
    BY <2>4, <2>7
  <2>. QED
    BY <2>3, <2>4, <2>6, <2>8
<1>4. ~own => spare = 0
  OBVIOUS
<1>5. spare \in 0 .. n /\ spare \in Nat /\ rest \in Nat
  <2>1. spare \in 0 .. n
    <3>. HIDE DEF spare, own
    <3>. QED
      BY <1>3, <1>4
  <2>. HIDE DEF spare
  <2>. QED
    BY <2>1
<1>6. /\ Around(kv, wide, s) /\ Sound(wide) /\ Fine(wide)
      /\ n_tokens(wide.rq[s].table) = n_tokens(T) + spare
      /\ spare > 0 => AtStart(wide, s)
  <2>1. CASE spare > 0
    <3>. DEFINE k == [kv EXCEPT !.rq[s].table = Widened(kv.rq[s].table, spare)]
    <3>1. own /\ T # <<>>
      BY <1>4, <2>1
    <3>. HIDE DEF spare, own
    <3>2. wide = k
      BY <2>1
    <3>3. Last(kv.rq[s].table).start + Last(kv.rq[s].table).len + spare <= block_size
      BY <1>3, <3>1
    <3>4. kv.rq[s].table # <<>>
      BY <3>1
    <3>5. \A g : g = [kv EXCEPT !.rq[s].table = Widened(kv.rq[s].table, spare)]
             => /\ Around(kv, g, s) /\ Sound(g) /\ g.ok = kv.ok
                /\ n_tokens(g.rq[s].table) = n_tokens(kv.rq[s].table) + spare
                /\ AtStart(kv, s) => AtStart(g, s)
      BY <1>5, <3>3, <3>4, WidenOK
    <3>6. /\ Around(kv, k, s) /\ Sound(k) /\ k.ok = kv.ok
          /\ n_tokens(k.rq[s].table) = n_tokens(kv.rq[s].table) + spare
          /\ AtStart(kv, s) => AtStart(k, s)
      BY <3>5
    <3>. HIDE DEF k, wide
    <3>7. Fine(wide)
      BY <3>2, <3>6, Zenon DEF Fine
    <3>. QED
      BY <1>3, <3>1, <3>2, <3>6, <3>7
  <2>2. CASE ~(spare > 0)
    <3>1. spare = 0
      <4>. HIDE DEF spare
      <4>. QED
        BY <1>5, <2>2
    <3>. HIDE DEF spare
    <3>2. wide = kv
      BY <2>2
    <3>. QED
      BY <1>1, <2>2, <3>1, <3>2, AroundSelf
  <2>. QED
    BY <2>1, <2>2
<1>. HIDE DEF spare, own, wide
<1>7. /\ Around(wide, l, s) /\ SoundOrFull(l, s) /\ Grew(wide, l, s, rest)
      /\ rest # 0 /\ Fine(l) => AtStart(l, s)
  <2>. HIDE DEF rest
  <2>. QED
    BY <1>5, <1>6, FreshRunsOK
<1>8. Fine(l) => AtStart(l, s)
  <2>1. CASE rest = 0
    <3>1. l = wide
      BY <2>1, FreshRunsNone
    <3>2. spare > 0
      BY <1>5, <2>1
    <3>. QED
      BY <1>6, <3>1, <3>2
  <2>2. CASE rest # 0
    BY <1>7, <2>2
  <2>. QED
    BY <2>1, <2>2
<1>. HIDE DEF l
<1>9. Around(kv, l, s)
  BY <1>6, <1>7, AroundTwice
<1>10. RestOfSlot(kv.rq[s], l.rq[s]) /\ l \in Spaces
       /\ SameTree(kv.tree, l.tree) /\ \A r \in Slots \ {s} : l.rq[r] = kv.rq[r]
  BY <1>9, SameTreeSelf DEF Around
<1>11. CASE Fine(l)
  <2>1. Sound(l) /\ n_tokens(l.rq[s].table) = n_tokens(T) + n
    <3>1. Sound(l) /\ n_tokens(l.rq[s].table) = n_tokens(wide.rq[s].table) + rest
      BY <1>7, <1>11 DEF Grew
    <3>. HIDE DEF T
    <3>. QED
      BY <1>1, <1>5, <1>6, <3>1
  <2>2. l.rq[s].live /\ l.rq[s].ntok = kv.rq[s].ntok
    BY <1>10, Zenon DEF RestOfSlot
  <2>. DEFINE m == kv.rq[s].ntok + n
  <2>3. m = l.rq[s].ntok + n /\ m <= MAX_SEQ_TOKENS /\ n \in Nat
    BY <2>2
  <2>. HIDE DEF m
  <2>4. /\ Sound(kw) /\ Fine(kw) /\ GrownTo(kw.rq[s], m)
        /\ kw.rq[s].table = l.rq[s].table /\ kw.tree = l.tree
        /\ \A q \in Slots \ {s} : kw.rq[q] = l.rq[q]
    <3>1. AtStart(l, s)
      BY <1>8, <1>11
    <3>. QED
      BY <1>2, <1>11, <2>1, <2>2, <2>3, <3>1, AppendedOK
  <2>5. CalledOn(kv, kw, s)
    BY <1>10, <2>4, SoundIsSpace DEF CalledOn, SoundOrFull
  <2>6. kw.rq[s].live /\ kw.rq[s].ntok = kv.rq[s].ntok + n
    BY <2>4 DEF GrownTo, m
  <2>. QED
    BY <2>1, <2>4, <2>5, <2>6
<1>12. CASE ~Fine(l)
  <2>1. kw = l
    BY <1>2, <1>12 DEF Appended, Fine
  <2>. QED
    BY <1>7, <1>10, <1>12, <2>1 DEF CalledOn
<1>. QED
  BY <1>11, <1>12
-----------------------------------------------------------------------------
(* Release *)

LEMMA SlotOwned ==
    ASSUME NEW kv, Sound(kv), NEW s \in Slots, NEW p, p = TableBlocks(kv.rq[s].table)
    PROVE  /\ p \in Seq(Blocks) /\ AllOwned(kv, p)
           /\ \A b \in Blocks : Times(p, b) \in Nat /\ kv.pool.refcnt[b] \in Nat
<1>1. kv \in Spaces /\ Accounted(kv) /\ kv.pool.refcnt \in [Blocks -> Nat]
  BY SoundIsSpace DEF Sound
<1>2. SameNodes(kv, kv)
  BY DEF SameNodes
<1>3. \A b \in Blocks : /\ Times(p, b) \in Nat /\ Times(p, b) <= Refs(kv, b)
                        /\ Refs(kv, b) \in Nat
  BY <1>1, <1>2, RefsTable
<1>4. AllOwned(kv, p)
  BY <1>1, <1>3 DEF AllOwned, Accounted
<1>5. p \in Seq(Blocks)
  BY <1>1, SlotTable
<1>. QED
  BY <1>1, <1>3, <1>4, <1>5

\* The slot release leaves.
Emptied0(q) == [EmptySlot EXCEPT !.tok = q.tok]

LEMMA EmptiedIs ==
    ASSUME NEW q \in Requests
    PROVE  /\ Emptied0(q) \in Requests /\ Emptied0(q).table = <<>> /\ ~Emptied0(q).live
           /\ Emptied0(q).ntok = 0 /\ SlotOK(Emptied0(q))
<1>1. Emptied0(q) = [live |-> FALSE, id |-> 0, ntok |-> 0, priv |-> FALSE, tok |-> q.tok,
                     table |-> <<>>]
  <2>. DEFINE T == [i \in 1 .. MAX_SEQ_TOKENS |-> 0]
              e == <<>>
              no == FALSE
  <2>1. EmptySlot = [live |-> no, id |-> 0, ntok |-> 0, priv |-> no, tok |-> T, table |-> e]
    BY DEF EmptySlot
  <2>. HIDE DEF T, e, no
  <2>2. Emptied0(q) = [live |-> no, id |-> 0, ntok |-> 0, priv |-> no, tok |-> q.tok,
                       table |-> e]
    BY <2>1 DEF Emptied0
  <2>. QED
    BY <2>2 DEF e, no
<1>2. q.tok \in [1 .. MAX_SEQ_TOKENS -> Nat] /\ <<>> \in Seq(Runs) /\ 0 \in 0 .. MAX_SEQ_TOKENS
      /\ MAX_BLOCKS_PER_SEQ \in Nat /\ Len(<<>>) = 0
  BY RequestFields, TheConstants
<1>3. Emptied0(q) \in Requests
  BY <1>1, <1>2 DEF Requests
<1>4. Emptied0(q).table = <<>> /\ ~Emptied0(q).live /\ Emptied0(q).ntok = 0 /\ ~Emptied0(q).priv
  BY <1>1
<1>5. SlotOK(Emptied0(q))
  <2>1. Len(Emptied0(q).table) <= MAX_BLOCKS_PER_SEQ
    BY <1>2, <1>4
  <2>. QED
    BY <1>4, <2>1, Zenon DEF SlotOK
<1>. QED
  BY <1>3, <1>4, <1>5

LEMMA ReleaseSlotOK ==
    ASSUME NEW kv, Sound(kv), Fine(kv), NEW s \in Slots, NEW kw, kw = release(kv, s)
    PROVE  /\ Sound(kw) /\ Fine(kw) /\ kw.tree = kv.tree
           /\ kw.rq[s] = Emptied0(kv.rq[s])
           /\ \A r \in Slots \ {s} : kw.rq[r] = kv.rq[r]
<1>. DEFINE p == TableBlocks(kv.rq[s].table)
            k == ReleaseBlocks(kv, p)
            r == Emptied0(kv.rq[s])
<1>1. kv \in Spaces /\ PoolOK(kv.pool) /\ kv.rq[s] \in Requests
  BY SoundIsSpace, SlotTable
<1>2. /\ p \in Seq(Blocks) /\ AllOwned(kv, p)
      /\ \A b \in Blocks : Times(p, b) \in Nat /\ kv.pool.refcnt[b] \in Nat
  BY SlotOwned
<1>. HIDE DEF p
<1>3. /\ k \in Spaces /\ PoolOnly(kv, k) /\ PoolOK(k.pool)
      /\ \A b \in Blocks : k.pool.refcnt[b] = kv.pool.refcnt[b] - Times(p, b)
  BY <1>1, <1>2, ReleaseBlocksOK
<1>4. k.tree = kv.tree /\ k.rq = kv.rq /\ Fine(k)
  BY <1>3, Zenon DEF PoolOnly, Fine
<1>5. kw = [k EXCEPT !.rq[s] = r]
  <2>1. kw = Emptied(k, s)
    BY DEF release, p
  <2>2. Emptied(k, s) = [k EXCEPT !.rq[s] = [EmptySlot EXCEPT !.tok = k.rq[s].tok]]
    BY <1>4 DEF Emptied, Fine
  <2>3. [EmptySlot EXCEPT !.tok = k.rq[s].tok] = r
    BY <1>4 DEF Emptied0
  <2>. HIDE DEF r, k
  <2>. QED
    BY <2>1, <2>2, <2>3
<1>6. /\ r \in Requests /\ r.table = <<>> /\ SlotOK(r)
  BY <1>1, EmptiedIs
<1>. HIDE DEF r, k
<1>7. /\ kw \in Spaces /\ kw.rq[s] = r /\ kw.pool = k.pool /\ kw.tree = k.tree
      /\ kw.ok = k.ok /\ \A q \in Slots \ {s} : kw.rq[q] = k.rq[q]
  <2>1. \A l : l = [k EXCEPT !.rq[s] = r]
                 => /\ l \in Spaces /\ l.rq[s] = r /\ l.pool = k.pool /\ l.tree = k.tree
                    /\ l.ok = k.ok /\ \A q \in Slots \ {s} : l.rq[q] = k.rq[q]
    BY <1>3, <1>6, WithSlot
  <2>. QED
    BY <1>5, <2>1
<1>8. \A b \in Blocks : kw.pool.refcnt[b]
                          = kv.pool.refcnt[b] - Times(TableBlocks(kv.rq[s].table), b)
                              + Times(TableBlocks(kw.rq[s].table), b)
  <2>1. TAKE b \in Blocks
  <2>2. TableBlocks(kw.rq[s].table) = <<>>
    BY <1>6, <1>7 DEF TableBlocks
  <2>3. Times(TableBlocks(kw.rq[s].table), b) = 0
    BY <2>2, TimesEmpty
  <2>4. kw.pool.refcnt[b] = kv.pool.refcnt[b] - Times(p, b)
    BY <1>3, <1>7
  <2>. HIDE DEF Times
  <2>. QED
    BY <1>2, <2>3, <2>4 DEF p
<1>9. Sound(kw)
  <2>1. /\ PoolOK(kw.pool) /\ kw.tree = kv.tree /\ SlotOK(kw.rq[s])
        /\ \A q \in Slots \ {s} : kw.rq[q] = kv.rq[q]
    BY <1>3, <1>4, <1>6, <1>7
  <2>. QED
    BY <1>7, <1>8, <2>1, SoundTable
<1>10. Fine(kw)
  BY <1>4, <1>7, Zenon DEF Fine
<1>. QED
  BY <1>4, <1>7, <1>9, <1>10 DEF r
-----------------------------------------------------------------------------
(* The links of the tree *)

Up(t)      == {x \in Nodes : t[x].alive}
KidsOf(t)  == [x \in Nodes |-> ToSet(t[x].kids)]
Parents(t) == [x \in Nodes |-> t[x].parent]

\* U are the nodes in use, K their children, P the parents; the nodes of S
\* hang on no parent.
Linked(U, K, P, S) ==
    /\ ROOT \in U /\ P[ROOT] = INVALID
    /\ S \subseteq U \ {ROOT}
    /\ \A x \in Nodes : P[x] # x
    /\ \A x \in Nodes \ U : K[x] = {}
    /\ \A x \in Nodes : \A c \in K[x] : c \in U /\ P[c] = x /\ c \notin S
    /\ \A x \in (U \ {ROOT}) \ S : P[x] # INVALID /\ x \in K[P[x]]

Shaped(t) ==
    /\ t[ROOT].tokens = <<>>
    /\ \A x \in Nodes : IsInjective(t[x].kids)
    /\ \A x \in AliveNodes(t) : NodeShape(t[x])

LEMMA LinksTyped ==
    ASSUME NEW t \in [Nodes -> TreeNodes]
    PROVE  /\ Up(t) \in SUBSET Nodes /\ KidsOf(t) \in [Nodes -> SUBSET Nodes]
           /\ Parents(t) \in [Nodes -> Nodes \cup {INVALID}]
           /\ AliveNodes(t) = Up(t) \ {ROOT}
<1>1. ASSUME NEW x \in Nodes PROVE ToSet(t[x].kids) \in SUBSET Nodes
  <2>1. t[x].kids \in Seq(Nodes)
    BY NodeFields
  <2>. QED
    BY <2>1, KidsIn
<1>2. KidsOf(t) \in [Nodes -> SUBSET Nodes]
  BY <1>1 DEF KidsOf
<1>3. Parents(t) \in [Nodes -> Nodes \cup {INVALID}]
  BY NodeFields DEF Parents
<1>4. AliveNodes(t) = Up(t) \ {ROOT}
  BY Zenon DEF AliveNodes, Up
<1>. QED
  BY <1>2, <1>3, <1>4 DEF Up

LEMMA FormedIs ==
    ASSUME NEW t \in [Nodes -> TreeNodes], NEW S
    PROVE  Formed(t, S) <=> Linked(Up(t), KidsOf(t), Parents(t), S) /\ Shaped(t)
<1>. DEFINE U == Up(t)
            K == KidsOf(t)
            P == Parents(t)
<1>1. /\ U \in SUBSET Nodes /\ K \in [Nodes -> SUBSET Nodes]
      /\ P \in [Nodes -> Nodes \cup {INVALID}] /\ AliveNodes(t) = U \ {ROOT}
  BY LinksTyped
<1>2. \A x \in Nodes : /\ K[x] = ToSet(t[x].kids) /\ P[x] = t[x].parent
                       /\ (x \in U <=> t[x].alive)
  <2>1. \A x \in Nodes : K[x] = ToSet(t[x].kids) /\ P[x] = t[x].parent
    BY DEF KidsOf, Parents
  <2>2. \A x \in Nodes : x \in U <=> t[x].alive
    BY Zenon DEF Up
  <2>. QED
    BY <2>1, <2>2, Zenon
<1>3. \A x \in Nodes : (K[x] = {}) <=> (t[x].kids = <<>>)
  <2>1. TAKE x \in Nodes
  <2>2. t[x].kids \in Seq(Nodes) /\ Len(t[x].kids) \in Nat
    BY NodeFields, LenProperties
  <2>3. CASE t[x].kids = <<>>
    <3>1. ToSet(t[x].kids) = {}
      BY <2>3 DEF ToSet
    <3>. QED
      BY <1>2, <2>3, <3>1
  <2>4. CASE t[x].kids # <<>>
    <3>1. Len(t[x].kids) # 0
      BY <2>2, <2>4, EmptySeq
    <3>2. t[x].kids[1] \in ToSet(t[x].kids)
      BY <2>2, <3>1 DEF ToSet
    <3>. QED
      BY <1>2, <2>4, <3>2
  <2>. QED
    BY <2>3, <2>4
<1>4. ROOT \in Nodes /\ INVALID \notin Nodes
  BY TheConstants
<1>5. ASSUME Formed(t, S) PROVE Linked(U, K, P, S) /\ Shaped(t)
  <2>1. ROOT \in U /\ P[ROOT] = INVALID
    BY <1>2, <1>4, <1>5, Zenon DEF Formed
  <2>2. S \subseteq U \ {ROOT}
    BY <1>1, <1>5 DEF Formed
  <2>3. \A x \in Nodes : P[x] # x
    BY <1>2, <1>5, Zenon DEF Formed
  <2>4. \A x \in Nodes \ U : K[x] = {}
    BY <1>2, <1>3, <1>5, Zenon DEF Formed
  <2>5. ASSUME NEW x \in Nodes, NEW c \in K[x] PROVE c \in U /\ P[c] = x /\ c \notin S
    <3>1. c \in Nodes /\ c \in ToSet(t[x].kids)
      BY <1>1, <1>2
    <3>2. t[c].alive /\ t[c].parent = x /\ c \notin S
      BY <1>5, <3>1, Zenon DEF Formed
    <3>. QED
      BY <1>2, <3>1, <3>2, Zenon
  <2>6. ASSUME NEW x \in (U \ {ROOT}) \ S PROVE P[x] # INVALID /\ x \in K[P[x]]
    <3>1. x \in AliveNodes(t) \ S /\ x \in Nodes
      BY <1>1
    <3>2. t[x].parent # INVALID /\ x \in ToSet(t[t[x].parent].kids)
      BY <1>5, <3>1 DEF Formed
    <3>3. P[x] = t[x].parent /\ P[x] \in Nodes
      BY <1>1, <1>2, <3>1, <3>2
    <3>. QED
      BY <1>2, <3>2, <3>3
  <2>7. Shaped(t)
    BY <1>5, Zenon DEF Formed, Shaped
  <2>. HIDE DEF U, K, P
  <2>. QED
    BY <2>1, <2>2, <2>3, <2>4, <2>5, <2>6, <2>7 DEF Linked
<1>6. ASSUME Linked(U, K, P, S), Shaped(t) PROVE Formed(t, S)
  <2>0. /\ ROOT \in U /\ P[ROOT] = INVALID
        /\ S \subseteq U \ {ROOT}
        /\ \A x \in Nodes : P[x] # x
        /\ \A x \in Nodes \ U : K[x] = {}
        /\ \A x \in Nodes : \A c \in K[x] : c \in U /\ P[c] = x /\ c \notin S
        /\ \A x \in (U \ {ROOT}) \ S : P[x] # INVALID /\ x \in K[P[x]]
    <3>. HIDE DEF U, K, P
    <3>. QED
      BY <1>6 DEF Linked
  <2>. HIDE DEF U, K, P
  <2>1. t[ROOT].alive /\ t[ROOT].parent = INVALID
    BY <1>2, <1>4, <2>0, Zenon
  <2>2. S \subseteq AliveNodes(t)
    BY <1>1, <2>0
  <2>3. \A x \in Nodes : IsInjective(t[x].kids) /\ t[x].parent # x
    BY <1>2, <1>6, <2>0, Zenon DEF Shaped
  <2>4. \A x \in Nodes : ~t[x].alive => t[x].kids = <<>>
    <3>1. \A x \in Nodes : ~t[x].alive => x \in Nodes \ U
      BY <1>2, Zenon
    <3>. QED
      BY <1>3, <2>0, <3>1, Zenon
  <2>5. ASSUME NEW x \in Nodes, NEW c \in ToSet(t[x].kids)
        PROVE  t[c].alive /\ t[c].parent = x /\ c \notin S
    <3>1. c \in K[x]
      BY <1>2
    <3>2. c \in U /\ P[c] = x /\ c \notin S
      BY <2>0, <3>1
    <3>3. c \in Nodes
      BY <1>1, <3>2
    <3>. QED
      BY <1>2, <3>2, <3>3, Zenon
  <2>6. ASSUME NEW x \in AliveNodes(t) \ S
        PROVE  t[x].parent # INVALID /\ x \in ToSet(t[t[x].parent].kids)
    <3>1. x \in (U \ {ROOT}) \ S /\ x \in Nodes
      BY <1>1
    <3>2. P[x] # INVALID /\ x \in K[P[x]]
      BY <2>0, <3>1
    <3>3. P[x] = t[x].parent /\ P[x] \in Nodes
      BY <1>1, <1>2, <3>1, <3>2
    <3>. QED
      BY <1>2, <3>2, <3>3
  <2>. QED
    BY <1>6, <2>1, <2>2, <2>3, <2>4, <2>5, <2>6, Zenon DEF Formed, Shaped
<1>. QED
  BY <1>5, <1>6

\* A split: the dead node c takes over the children of x and becomes its child.
LEMMA LinkSplit ==
    ASSUME NEW U \in SUBSET Nodes, NEW K \in [Nodes -> SUBSET Nodes],
           NEW P \in [Nodes -> Nodes \cup {INVALID}], Linked(U, K, P, {}),
           NEW x \in U \ {ROOT}, NEW c \in Nodes \ U,
           NEW L \in [Nodes -> SUBSET Nodes], NEW Q \in [Nodes -> Nodes \cup {INVALID}],
           L[x] = {c}, L[c] = K[x], \A y \in Nodes \ {x, c} : L[y] = K[y],
           Q[c] = x, Q[x] = P[x],
           \A y \in Nodes \ {x, c} : Q[y] = IF y \in K[x] THEN c ELSE P[y]
    PROVE  Linked(U \cup {c}, L, Q, {})
<1>0. ROOT \in Nodes /\ INVALID \notin Nodes /\ ROOT # x /\ ROOT # c /\ x # c
  BY TheConstants DEF Linked
<1>1. \A y \in K[x] : y \notin {x, c} /\ y \in Nodes
  BY DEF Linked
<1>2. Q[ROOT] = INVALID
  BY <1>0 DEF Linked
<1>3. \A y \in Nodes : Q[y] # y
  BY <1>0, <1>1 DEF Linked
<1>4. \A y \in Nodes \ (U \cup {c}) : L[y] = {}
  BY DEF Linked
<1>5. ASSUME NEW y \in Nodes, NEW d \in L[y] PROVE d \in U \cup {c} /\ Q[d] = y
  <2>1. CASE y = x
    BY <2>1
  <2>2. CASE y = c
    BY <1>0, <1>1, <2>2 DEF Linked
  <2>3. CASE y \notin {x, c}
    <3>1. d \in K[y] /\ d \in U /\ P[d] = y
      BY <2>3 DEF Linked
    <3>2. d # c /\ d \notin K[x]
      BY <2>3, <3>1 DEF Linked
    <3>. QED
      BY <3>1, <3>2
  <2>. QED
    BY <2>1, <2>2, <2>3
<1>6. ASSUME NEW y \in (U \cup {c}) \ {ROOT} PROVE Q[y] # INVALID /\ y \in L[Q[y]]
  <2>1. CASE y = c
    BY <1>0, <2>1
  <2>2. CASE y \in K[x]
    BY <1>0, <1>1, <2>2
  <2>3. CASE y \in U \ {ROOT} /\ y \notin K[x]
    <3>1. P[y] # INVALID /\ y \in K[P[y]] /\ P[y] \in Nodes
      BY <2>3 DEF Linked
    <3>2. P[y] # x /\ P[y] # c /\ Q[y] = P[y]
      BY <1>0, <2>3, <3>1 DEF Linked
    <3>. QED
      BY <3>1, <3>2
  <2>. QED
    BY <2>1, <2>2, <2>3
<1>. QED
  BY <1>2, <1>3, <1>4, <1>5, <1>6 DEF Linked

\* A new child: the dead node c is hung on the node p.
LEMMA LinkAdd ==
    ASSUME NEW U \in SUBSET Nodes, NEW K \in [Nodes -> SUBSET Nodes],
           NEW P \in [Nodes -> Nodes \cup {INVALID}], Linked(U, K, P, {}),
           NEW p \in U, NEW c \in Nodes \ U,
           NEW L \in [Nodes -> SUBSET Nodes], NEW Q \in [Nodes -> Nodes \cup {INVALID}],
           L[p] = K[p] \cup {c}, L[c] = {}, \A y \in Nodes \ {p, c} : L[y] = K[y],
           Q[c] = p, \A y \in Nodes \ {c} : Q[y] = P[y]
    PROVE  Linked(U \cup {c}, L, Q, {})
<1>0. ROOT \in Nodes /\ INVALID \notin Nodes /\ ROOT # c /\ p # c
  BY TheConstants DEF Linked
<1>1. ASSUME NEW y \in Nodes, NEW d \in L[y] PROVE d \in U \cup {c} /\ Q[d] = y
  <2>1. CASE d = c
    <3>1. c \notin K[y]
      BY DEF Linked
    <3>. QED
      BY <1>0, <2>1, <3>1
  <2>2. CASE d # c
    BY <1>0, <2>2 DEF Linked
  <2>. QED
    BY <2>1, <2>2
<1>2. ASSUME NEW y \in (U \cup {c}) \ {ROOT} PROVE Q[y] # INVALID /\ y \in L[Q[y]]
  <2>1. CASE y = c
    BY <1>0, <2>1
  <2>2. CASE y # c
    <3>1. P[y] # INVALID /\ y \in K[P[y]] /\ P[y] \in Nodes /\ Q[y] = P[y]
      BY <2>2 DEF Linked
    <3>2. P[y] # c
      BY <3>1 DEF Linked
    <3>. QED
      BY <3>1, <3>2
  <2>. QED
    BY <2>1, <2>2
<1>. QED
  BY <1>0, <1>1, <1>2 DEF Linked

LEMMA NextNodeIs ==
    ASSUME NEW t \in [Nodes -> TreeNodes], DeadNodes(t) # {}
    PROVE  NextNode(t) \in Nodes \ Up(t)
<1>1. DeadNodes(t) \in SUBSET Nat /\ DeadNodes(t) = Nodes \ Up(t)
  <2>1. DeadNodes(t) = Nodes \ Up(t)
    BY Zenon DEF DeadNodes, Up
  <2>. QED
    BY <2>1, TheConstants
<1>. DEFINE D == DeadNodes(t)
<1>2. NextNode(t) = Min(D)
  BY DEF NextNode
<1>. HIDE DEF D
<1>3. Min(D) \in D
  BY <1>1, MinOf DEF D
<1>. QED
  BY <1>1, <1>2, <1>3 DEF D

\* The fields a tree operation sets.
IsNode(n, parent, kids, tokens, offset, blocks) ==
    /\ n \in TreeNodes /\ n.alive /\ n.parent = parent /\ n.kids = kids
    /\ n.tokens = tokens /\ n.offset = offset /\ n.blocks = blocks

LEMMA NodeMade ==
    ASSUME NEW parent \in Nodes \cup {INVALID}, NEW kids \in Seq(Nodes), NEW tokens \in Seq(Nat),
           NEW offset \in Nat, NEW blocks \in Seq(Blocks), NEW freq \in Nat
    PROVE  IsNode([alive |-> TRUE, parent |-> parent, kids |-> kids, tokens |-> tokens,
                   offset |-> offset, blocks |-> blocks, freq |-> freq],
                  parent, kids, tokens, offset, blocks)
BY DEF IsNode, TreeNodes

LEMMA NodeCut ==
    ASSUME NEW n \in TreeNodes, n.alive, NEW kids \in Seq(Nodes), NEW tokens \in Seq(Nat),
           NEW blocks \in Seq(Blocks)
    PROVE  IsNode([n EXCEPT !.tokens = tokens, !.blocks = blocks, !.kids = kids],
                  n.parent, kids, tokens, n.offset, blocks)
BY DEF IsNode, TreeNodes

\* A node with another parent.
Moved(n, m, parent) ==
    /\ m \in TreeNodes /\ m.parent = parent /\ m.kids = n.kids /\ m.tokens = n.tokens
    /\ m.offset = n.offset /\ m.blocks = n.blocks /\ (m.alive <=> n.alive)

LEMMA NodeMoved ==
    ASSUME NEW n \in TreeNodes, NEW parent \in Nodes \cup {INVALID}
    PROVE  Moved(n, [n EXCEPT !.parent = parent], parent)
BY DEF Moved, TreeNodes

LEMMA MovedShape ==
    ASSUME NEW n, NEW m, NEW parent, Moved(n, m, parent), NodeShape(n)
    PROVE  NodeShape(m)
<1>1. BlocksFor(m, Len(m.tokens)) = BlocksFor(n, Len(n.tokens))
  BY DEF BlocksFor, Moved
<1>. QED
  BY <1>1 DEF NodeShape, Moved

\* The part of a block list from entry i + 1 on, and up to entry i.
LEMMA PartsOf ==
    ASSUME NEW S, NEW p \in Seq(S), NEW i \in 0 .. Len(p)
    PROVE  /\ SubSeq(p, 1, i) \in Seq(S) /\ Len(SubSeq(p, 1, i)) = i
           /\ SubSeq(p, i + 1, Len(p)) \in Seq(S) /\ Len(SubSeq(p, i + 1, Len(p))) = Len(p) - i
<1>. DEFINE l == Len(p)
            a == i + 1
<1>1. l \in Nat /\ i \in Nat /\ i <= l /\ \A j \in 1 .. l : p[j] \in S
  BY LenProperties, ElementOfSeq
<1>2. a \in Int /\ a = i + 1
  BY <1>1
<1>. HIDE DEF l, a
<1>3. \A j \in 1 .. i : p[j] \in S
  BY <1>1
<1>4. \A j \in a .. l : p[j] \in S
  BY <1>1, <1>2
<1>5. SubSeq(p, 1, i) \in Seq(S) /\ Len(SubSeq(p, 1, i)) = IF 1 <= i THEN i - 1 + 1 ELSE 0
  BY <1>1, <1>3, SubSeqProperties
<1>6. SubSeq(p, a, l) \in Seq(S) /\ Len(SubSeq(p, a, l)) = IF a <= l THEN l - a + 1 ELSE 0
  BY <1>1, <1>2, <1>4, SubSeqProperties
<1>7. Len(SubSeq(p, a, l)) = l - i
  BY <1>1, <1>2, <1>6
<1>. QED
  BY <1>1, <1>5, <1>6, <1>7 DEF a, l

\* How a split divides a node's blocks: the block of the split point, slot
\* offset + k, counts in both parts.
LEMMA SplitShape ==
    ASSUME NEW n \in TreeNodes, NodeShape(n), NEW k \in 1 .. Len(n.tokens) - 1,
           NEW slot, slot = n.offset + k
    PROVE  /\ BlocksFor(n, k) \in 0 .. Len(n.blocks)
           /\ slot \div block_size \in 0 .. Len(n.blocks)
           /\ slot % block_size \in 0 .. block_size - 1
           /\ ceil_div((slot % block_size) + (Len(n.tokens) - k), block_size)
                = Len(n.blocks) - slot \div block_size
<1>. DEFINE b == block_size
            off == n.offset
            q == slot \div b
            r == slot % b
            L == Len(n.tokens)
            B == Len(n.blocks)
            m == r + (L - k)
            all == off + L
<1>1. b \in Nat \ {0} /\ off \in Nat /\ L \in Nat /\ B \in Nat /\ k \in Nat /\ k >= 1 /\ k < L
  <2>1. n.tokens \in Seq(Nat) /\ n.blocks \in Seq(Blocks) /\ n.offset \in Nat
    BY DEF TreeNodes
  <2>2. L \in Nat /\ B \in Nat
    BY <2>1, LenProperties
  <2>. HIDE DEF L, B
  <2>3. k \in 1 .. L - 1
    BY DEF L
  <2>. QED
    BY <2>1, <2>2, <2>3, TheConstants
<1>2. slot \in Nat /\ slot <= all /\ all \in Nat
  BY <1>1
<1>3. B = ceil_div(all, b)
  BY DEF NodeShape, BlocksFor
<1>. HIDE DEF b, off, q, r, L, B, all
<1>4. /\ q \in Nat /\ r \in 0 .. b - 1 /\ b * q \in Nat /\ slot = b * q + r
  BY <1>1, <1>2, DivIs DEF q, r
<1>5. m \in Nat /\ m >= 1 /\ all = b * q + m
  <2>1. slot = off + k
    BY DEF off
  <2>. QED
    BY <1>1, <1>4, <2>1 DEF all
<1>. HIDE DEF m
<1>6. B = q + ceil_div(m, b)
  <2>1. ceil_div(b * q + m, b) = q + ceil_div(m, b)
    BY <1>1, <1>4, <1>5, CeilShift
  <2>. QED
    BY <1>3, <1>5, <2>1
<1>7. ceil_div(m, b) \in Nat
  BY <1>1, <1>5, CeilIs
<1>8. q \in 0 .. B /\ ceil_div(m, b) = B - q
  BY <1>1, <1>4, <1>6, <1>7
<1>9. ceil_div(slot, b) \in Nat /\ ceil_div(slot, b) <= B
  BY <1>1, <1>2, <1>3, CeilGrows, CeilIs
<1>10. BlocksFor(n, k) \in 0 .. B
  <2>1. BlocksFor(n, k) = ceil_div(slot, b)
    BY DEF BlocksFor, b
  <2>. QED
    BY <1>1, <1>9, <2>1
<1>. QED
  BY <1>4, <1>8, <1>10 DEF b, q, r, L, B, m

\* The three kinds of nodes a split leaves.
SplitIs(t, u, x, k, c) ==
    /\ u \in [Nodes -> TreeNodes]
    /\ IsNode(u[c], x, t[x].kids, SubSeq(t[x].tokens, k + 1, Len(t[x].tokens)),
              (t[x].offset + k) % block_size,
              SubSeq(t[x].blocks, (t[x].offset + k) \div block_size + 1, Len(t[x].blocks)))
    /\ IsNode(u[x], t[x].parent, <<c>>, SubSeq(t[x].tokens, 1, k), t[x].offset,
              SubSeq(t[x].blocks, 1, BlocksFor(t[x], k)))
    /\ \A y \in Nodes \ {x, c} :
         Moved(t[y], u[y], IF y \in ToSet(t[x].kids) THEN c ELSE t[y].parent)

LEMMA SingleSeq ==
    ASSUME NEW S, NEW c \in S
    PROVE  <<c>> \in Seq(S) /\ IsInjective(<<c>>) /\ ToSet(<<c>>) = {c}
<1>1. Len(<<c>>) = 1 /\ <<c>>[1] = c /\ DOMAIN <<c>> = 1 .. 1
  OBVIOUS
<1>2. ToSet(<<c>>) = {c}
  BY <1>1 DEF ToSet
<1>3. IsInjective(<<c>>)
  BY <1>1 DEF IsInjective
<1>. QED
  BY <1>2, <1>3

LEMMA SplitFields ==
    ASSUME NEW t \in [Nodes -> TreeNodes], NEW x \in Nodes, t[x].alive, NodeShape(t[x]),
           NEW k \in 1 .. Len(t[x].tokens) - 1, NEW c \in Nodes, c # x, c = NextNode(t),
           NEW u, u = split(t, x, k)
    PROVE  SplitIs(t, u, x, k, c)
<1>. DEFINE old == t[x]
            slot == old.offset + k
            ctok == SubSeq(old.tokens, k + 1, Len(old.tokens))
            coff == slot % block_size
            cblk == SubSeq(old.blocks, slot \div block_size + 1, Len(old.blocks))
            ptok == SubSeq(old.tokens, 1, k)
            pblk == SubSeq(old.blocks, 1, BlocksFor(old, k))
            child == [ alive |-> TRUE, parent |-> x, kids |-> old.kids, tokens |-> ctok,
                       offset |-> coff, blocks |-> cblk, freq |-> 0 ]
            cut == [old EXCEPT !.tokens = ptok, !.blocks = pblk, !.kids = <<c>>]
            P(y) == IF y \in ToSet(old.kids) THEN c ELSE t[y].parent
<1>1. /\ old \in TreeNodes /\ old.kids \in Seq(Nodes) /\ old.tokens \in Seq(Nat)
      /\ old.offset \in Nat /\ old.blocks \in Seq(Blocks) /\ old.parent \in Nodes \cup {INVALID}
      /\ Len(old.tokens) \in Nat
  BY NodeFields, LenProperties
<1>2. /\ BlocksFor(old, k) \in 0 .. Len(old.blocks)
      /\ slot \div block_size \in 0 .. Len(old.blocks)
      /\ coff \in 0 .. block_size - 1
  <2>0. slot = old.offset + k
    OBVIOUS
  <2>. HIDE DEF old, slot
  <2>. QED
    BY <1>1, <2>0, SplitShape DEF old
<1>3. coff \in Nat
  <2>. HIDE DEF coff
  <2>. QED
    BY <1>2, TheConstants
<1>4. ctok \in Seq(Nat) /\ ptok \in Seq(Nat)
  <2>1. k \in 0 .. Len(old.tokens)
    BY <1>1
  <2>. HIDE DEF old
  <2>. QED
    BY <1>1, <2>1, PartsOf
<1>5. cblk \in Seq(Blocks)
  <2>. DEFINE i == slot \div block_size
  <2>. HIDE DEF i, old
  <2>1. i \in 0 .. Len(old.blocks)
    BY <1>2 DEF i
  <2>2. SubSeq(old.blocks, i + 1, Len(old.blocks)) \in Seq(Blocks)
    BY <1>1, <2>1, PartsOf
  <2>. QED
    BY <2>2 DEF i
<1>6. pblk \in Seq(Blocks)
  <2>. DEFINE i == BlocksFor(old, k)
  <2>. HIDE DEF i, old
  <2>1. i \in 0 .. Len(old.blocks)
    BY <1>2 DEF i
  <2>2. SubSeq(old.blocks, 1, i) \in Seq(Blocks)
    BY <1>1, <2>1, PartsOf
  <2>. QED
    BY <2>2 DEF i
<1>7. u[c] = child
  BY DEF split
<1>8. u[x] = cut
  BY DEF split
<1>9. \A y \in Nodes \ {x, c} : u[y] = IF y \in ToSet(old.kids) THEN [t[y] EXCEPT !.parent = c]
                                       ELSE t[y]
  BY DEF split
<1>10. u = [y \in Nodes |-> u[y]]
  BY DEF split
<1>. HIDE DEF coff, ctok, cblk, ptok, pblk, old
<1>11. IsNode(child, x, old.kids, ctok, coff, cblk)
  BY <1>1, <1>3, <1>4, <1>5, NodeMade
<1>12. IsNode(cut, old.parent, <<c>>, ptok, old.offset, pblk)
  <2>1. old.alive
    BY Zenon DEF old
  <2>2. <<c>> \in Seq(Nodes)
    BY SingleSeq
  <2>. DEFINE e == <<c>>
  <2>. HIDE DEF e
  <2>3. e \in Seq(Nodes)
    BY <2>2 DEF e
  <2>4. IsNode([old EXCEPT !.tokens = ptok, !.blocks = pblk, !.kids = e],
               old.parent, e, ptok, old.offset, pblk)
    BY <1>1, <1>4, <1>6, <2>1, <2>3, NodeCut
  <2>. QED
    BY <2>4 DEF e
<1>. HIDE DEF child, cut
<1>13. ASSUME NEW y \in Nodes \ {x, c} PROVE Moved(t[y], u[y], P(y))
  <2>0. t[y] \in TreeNodes /\ t[y].parent \in Nodes \cup {INVALID}
    BY NodeFields
  <2>1. CASE y \in ToSet(old.kids)
    <3>1. u[y] = [t[y] EXCEPT !.parent = c]
      BY <1>9, <2>1
    <3>2. Moved(t[y], [t[y] EXCEPT !.parent = c], c)
      BY <2>0, NodeMoved
    <3>. QED
      BY <2>1, <3>1, <3>2, Zenon
  <2>2. CASE y \notin ToSet(old.kids)
    <3>1. u[y] = t[y]
      BY <1>9, <2>2
    <3>2. Moved(t[y], t[y], t[y].parent)
      BY <2>0, Zenon DEF Moved
    <3>. QED
      BY <2>2, <3>1, <3>2, Zenon
  <2>. QED
    BY <2>1, <2>2
<1>14. \A y \in Nodes : u[y] \in TreeNodes
  <2>1. u[c] \in TreeNodes
    BY <1>7, <1>11, Zenon DEF IsNode
  <2>2. u[x] \in TreeNodes
    BY <1>8, <1>12, Zenon DEF IsNode
  <2>3. \A y \in Nodes \ {x, c} : u[y] \in TreeNodes
    BY <1>13, Zenon DEF Moved
  <2>. QED
    BY <2>1, <2>2, <2>3
<1>15. u \in [Nodes -> TreeNodes]
  BY <1>10, <1>14
<1>16. IsNode(u[c], x, old.kids, ctok, coff, cblk)
       /\ IsNode(u[x], old.parent, <<c>>, ptok, old.offset, pblk)
  BY <1>7, <1>8, <1>11, <1>12, Zenon
<1>. QED
  BY <1>13, <1>15, <1>16, Zenon DEF SplitIs, coff, ctok, cblk, ptok, pblk, old

LEMMA SplitFormed ==
    ASSUME NEW t \in [Nodes -> TreeNodes], Formed(t, {}), NEW x \in AliveNodes(t),
           NEW k \in 1 .. Len(t[x].tokens) - 1, NEW c \in Nodes \ Up(t),
           NEW u, SplitIs(t, u, x, k, c)
    PROVE  Formed(u, {}) /\ AliveNodes(u) = AliveNodes(t) \cup {c}
<1>. DEFINE U == Up(t)
            K == KidsOf(t)
            P == Parents(t)
            V == Up(u)
            L == KidsOf(u)
            Q == Parents(u)
<1>0. /\ u \in [Nodes -> TreeNodes]
      /\ IsNode(u[c], x, t[x].kids, SubSeq(t[x].tokens, k + 1, Len(t[x].tokens)),
                (t[x].offset + k) % block_size,
                SubSeq(t[x].blocks, (t[x].offset + k) \div block_size + 1, Len(t[x].blocks)))
      /\ IsNode(u[x], t[x].parent, <<c>>, SubSeq(t[x].tokens, 1, k), t[x].offset,
                SubSeq(t[x].blocks, 1, BlocksFor(t[x], k)))
      /\ \A y \in Nodes \ {x, c} :
           Moved(t[y], u[y], IF y \in ToSet(t[x].kids) THEN c ELSE t[y].parent)
  BY Zenon DEF SplitIs
<1>1. /\ U \in SUBSET Nodes /\ K \in [Nodes -> SUBSET Nodes]
      /\ P \in [Nodes -> Nodes \cup {INVALID}] /\ AliveNodes(t) = U \ {ROOT}
  BY LinksTyped
<1>2. /\ V \in SUBSET Nodes /\ L \in [Nodes -> SUBSET Nodes]
      /\ Q \in [Nodes -> Nodes \cup {INVALID}] /\ AliveNodes(u) = V \ {ROOT}
  BY <1>0, LinksTyped
<1>3. Linked(U, K, P, {}) /\ Shaped(t)
  BY FormedIs
<1>4. x \in U \ {ROOT} /\ c \in Nodes \ U /\ x \in Nodes /\ ROOT \in U
      /\ c # ROOT /\ c # x
  <2>1. ROOT \in U
    <3>. HIDE DEF U, K, P
    <3>. QED
      BY <1>3 DEF Linked
  <2>2. x \in U \ {ROOT}
    BY <1>1
  <2>. QED
    BY <1>1, <2>1, <2>2
<1>5. /\ \A y \in Nodes : K[y] = ToSet(t[y].kids) /\ P[y] = t[y].parent
      /\ \A y \in Nodes : L[y] = ToSet(u[y].kids) /\ Q[y] = u[y].parent
  BY DEF KidsOf, Parents
<1>6. /\ \A y \in Nodes : y \in U <=> t[y].alive
      /\ \A y \in Nodes : y \in V <=> u[y].alive
  BY Zenon DEF Up
<1>. HIDE DEF U, K, P, V, L, Q
<1>7. L[x] = {c} /\ L[c] = K[x] /\ Q[c] = x /\ Q[x] = P[x]
  <2>1. u[x].kids = <<c>> /\ u[c].kids = t[x].kids /\ u[c].parent = x /\ u[x].parent = t[x].parent
    BY <1>0, Zenon DEF IsNode
  <2>2. ToSet(<<c>>) = {c}
    BY SingleSeq
  <2>. QED
    BY <1>4, <1>5, <2>1, <2>2
<1>8. \A y \in Nodes \ {x, c} : L[y] = K[y]
  <2>1. \A y \in Nodes \ {x, c} : u[y].kids = t[y].kids
    BY <1>0, Zenon DEF Moved
  <2>. QED
    BY <1>5, <2>1
<1>9. \A y \in Nodes \ {x, c} : Q[y] = IF y \in K[x] THEN c ELSE P[y]
  <2>1. \A y \in Nodes \ {x, c} :
          u[y].parent = IF y \in ToSet(t[x].kids) THEN c ELSE t[y].parent
    BY <1>0, Zenon DEF Moved
  <2>. QED
    BY <1>4, <1>5, <2>1
<1>10. Linked(U \cup {c}, L, Q, {})
  BY <1>1, <1>2, <1>3, <1>4, <1>7, <1>8, <1>9, LinkSplit
<1>11. V = U \cup {c}
  <2>1. c \in V /\ x \in V
    BY <1>0, <1>4, <1>6, Zenon DEF IsNode
  <2>2. \A y \in Nodes \ {x, c} : y \in V <=> y \in U
    BY <1>0, <1>6, Zenon DEF Moved
  <2>. QED
    BY <1>1, <1>2, <1>4, <2>1, <2>2
<1>12. AliveNodes(u) = AliveNodes(t) \cup {c}
  BY <1>1, <1>2, <1>4, <1>11
<1>13. NodeShape(t[x]) /\ t[x] \in TreeNodes /\ t[x].tokens \in Seq(Nat)
       /\ t[x].blocks \in Seq(Blocks)
  BY <1>3, <1>4, NodeFields DEF Shaped
<1>. DEFINE slot == t[x].offset + k
            q == slot \div block_size
<1>14. /\ BlocksFor(t[x], k) \in 0 .. Len(t[x].blocks)
       /\ q \in 0 .. Len(t[x].blocks)
       /\ slot % block_size \in 0 .. block_size - 1
       /\ ceil_div((slot % block_size) + (Len(t[x].tokens) - k), block_size)
            = Len(t[x].blocks) - q
  <2>0. slot = t[x].offset + k
    OBVIOUS
  <2>. HIDE DEF slot
  <2>. QED
    BY <1>13, <2>0, SplitShape
<1>. DEFINE n == Len(t[x].tokens)
            B == Len(t[x].blocks)
<1>15. n \in Nat /\ B \in Nat /\ k \in 0 .. n /\ k >= 1 /\ k < n /\ n <= MAX_NODE_TOKENS
       /\ B <= MAX_NODE_BLOCKS
  <2>1. n \in Nat /\ B \in Nat
    BY <1>13, LenProperties
  <2>2. n \in 1 .. MAX_NODE_TOKENS /\ B <= MAX_NODE_BLOCKS
    BY <1>13 DEF NodeShape
  <2>. QED
    BY <2>1, <2>2, TheConstants
<1>16. NodeShape(u[c])
  <2>1. /\ u[c].tokens = SubSeq(t[x].tokens, k + 1, n)
        /\ u[c].offset = slot % block_size
        /\ u[c].blocks = SubSeq(t[x].blocks, q + 1, B)
    BY <1>0, Zenon DEF IsNode
  <2>2. Len(SubSeq(t[x].tokens, k + 1, n)) = n - k
    BY <1>13, <1>15, PartsOf
  <2>. HIDE DEF q
  <2>3. Len(SubSeq(t[x].blocks, q + 1, B)) = B - q
    BY <1>13, <1>14, PartsOf
  <2>4. Len(u[c].tokens) = n - k /\ Len(u[c].blocks) = B - q /\ q \in Nat
    BY <1>14, <2>1, <2>2, <2>3
  <2>. HIDE DEF slot, n, B
  <2>5. BlocksFor(u[c], n - k) = B - q
    BY <1>14, <2>1 DEF BlocksFor, n, B
  <2>6. n - k \in 1 .. MAX_NODE_TOKENS /\ B - q <= MAX_NODE_BLOCKS
    BY <1>15, <2>4, TheConstants
  <2>. QED
    BY <1>14, <2>1, <2>4, <2>5, <2>6 DEF NodeShape
<1>17. NodeShape(u[x])
  <2>. DEFINE i == BlocksFor(t[x], k)
  <2>1. /\ u[x].tokens = SubSeq(t[x].tokens, 1, k)
        /\ u[x].offset = t[x].offset
        /\ u[x].blocks = SubSeq(t[x].blocks, 1, i)
    BY <1>0, Zenon DEF IsNode
  <2>2. Len(SubSeq(t[x].tokens, 1, k)) = k
    BY <1>13, <1>15, PartsOf
  <2>3. i \in 0 .. B
    BY <1>14
  <2>4. BlocksFor(u[x], k) = i
    BY <2>1 DEF BlocksFor
  <2>. HIDE DEF i
  <2>5. Len(SubSeq(t[x].blocks, 1, i)) = i
    BY <1>13, <2>3, PartsOf
  <2>6. Len(u[x].tokens) = k /\ Len(u[x].blocks) = i
    BY <2>1, <2>2, <2>5
  <2>. HIDE DEF n, B
  <2>7. k \in 1 .. MAX_NODE_TOKENS /\ i <= MAX_NODE_BLOCKS
    BY <1>15, <2>3, TheConstants
  <2>8. u[x].offset \in 0 .. block_size - 1
    BY <1>13, <2>1 DEF NodeShape
  <2>. QED
    BY <2>4, <2>6, <2>7, <2>8 DEF NodeShape
<1>18. Shaped(u)
  <2>1. u[ROOT].tokens = <<>>
    <3>1. ROOT \in Nodes \ {x, c}
      BY <1>1, <1>4
    <3>2. u[ROOT].tokens = t[ROOT].tokens
      BY <1>0, <3>1, Zenon DEF Moved
    <3>. QED
      BY <1>3, <3>2 DEF Shaped
  <2>2. ASSUME NEW y \in Nodes PROVE IsInjective(u[y].kids)
    <3>1. CASE y = x
      <4>1. u[y].kids = <<c>>
        BY <1>0, <3>1, Zenon DEF IsNode
      <4>2. IsInjective(<<c>>)
        BY SingleSeq
      <4>. QED
        BY <4>1, <4>2
    <3>2. CASE y = c
      <4>1. u[y].kids = t[x].kids
        BY <1>0, <3>2, Zenon DEF IsNode
      <4>. QED
        BY <1>3, <1>4, <4>1 DEF Shaped
    <3>3. CASE y \notin {x, c}
      <4>1. u[y].kids = t[y].kids
        BY <1>0, <3>3, Zenon DEF Moved
      <4>. QED
        BY <1>3, <4>1 DEF Shaped
    <3>. QED
      BY <3>1, <3>2, <3>3
  <2>3. ASSUME NEW y \in AliveNodes(u) PROVE NodeShape(u[y])
    <3>1. CASE y \in {x, c}
      BY <1>16, <1>17, <3>1
    <3>2. CASE y \notin {x, c}
      <4>1. y \in AliveNodes(t) /\ y \in Nodes \ {x, c}
        BY <1>1, <1>12, <3>2
      <4>2. NodeShape(t[y])
        BY <1>3, <4>1 DEF Shaped
      <4>3. Moved(t[y], u[y], IF y \in ToSet(t[x].kids) THEN c ELSE t[y].parent)
        BY <1>0, <4>1
      <4>. QED
        BY <4>2, <4>3, MovedShape
    <3>. QED
      BY <3>1, <3>2
  <2>. QED
    BY <2>1, <2>2, <2>3 DEF Shaped
<1>19. Formed(u, {})
  BY <1>0, <1>10, <1>11, <1>18, FormedIs DEF V, L, Q
<1>. QED
  BY <1>12, <1>19

\* kw is kv after node x has been cut at token k, the rest going to node c.
SplitAt(kv, kw, x, k, c) ==
    /\ kv \in Spaces /\ kw \in Spaces /\ kw.rq = kv.rq /\ Formed(kv.tree, {})
    /\ x \in AliveNodes(kv.tree) /\ k \in 1 .. Len(kv.tree[x].tokens) - 1
    /\ c \in Nodes \ Up(kv.tree) /\ SplitIs(kv.tree, kw.tree, x, k, c)

\* The blocks of node x past the share of its first k tokens.
PastShare(t, x, k) == SubSeq(t[x].blocks, BlocksFor(t[x], k) + 1, Len(t[x].blocks))

\* The references to b differ by the entries that went and those that came.
RefsMoved(kv, kw, gone, mine, b) ==
    /\ Refs(kv, b) \in Nat /\ Times(gone, b) \in Nat /\ Times(gone, b) <= Refs(kv, b)
    /\ Times(mine, b) \in Nat
    /\ Refs(kw, b) = Refs(kv, b) - Times(gone, b) + Times(mine, b)

\* A split moves references: the child has its own, and the parent no longer
\* has those past its share.
LEMMA SplitRefs ==
    ASSUME NEW kv, NEW kw, NEW x, NEW k, NEW c, SplitAt(kv, kw, x, k, c),
           NEW gone, gone = PastShare(kv.tree, x, k), NEW b
    PROVE  RefsMoved(kv, kw, gone, kw.tree[c].blocks, b)
<1>. DEFINE t == kv.tree
            u == kw.tree
            n == u[x]
            v == [t EXCEPT ![x] = n]
            mid == [kv EXCEPT !.tree = v]
            all == t[x].blocks
            i == BlocksFor(t[x], k)
            kept == SubSeq(all, 1, i)
<1>0. /\ kv \in Spaces /\ kw \in Spaces /\ kw.rq = kv.rq /\ Formed(t, {})
      /\ x \in AliveNodes(t) /\ k \in 1 .. Len(t[x].tokens) - 1
      /\ c \in Nodes \ Up(t) /\ SplitIs(t, u, x, k, c)
      /\ gone = SubSeq(all, i + 1, Len(all))
  BY DEF SplitAt, PastShare
<1>1. t \in [Nodes -> TreeNodes] /\ u \in [Nodes -> TreeNodes] /\ x \in Nodes
  BY <1>0, SpaceFields DEF AliveNodes
<1>2. /\ n \in TreeNodes /\ n.alive /\ n.blocks = kept
      /\ \A y \in Nodes \ {x, c} : u[y].blocks = t[y].blocks
  <2>1. IsNode(u[x], t[x].parent, <<c>>, SubSeq(t[x].tokens, 1, k), t[x].offset, kept)
    BY <1>0, Zenon DEF SplitIs
  <2>2. \A y \in Nodes \ {x, c} :
          Moved(t[y], u[y], IF y \in ToSet(t[x].kids) THEN c ELSE t[y].parent)
    BY <1>0, Zenon DEF SplitIs
  <2>. QED
    BY <2>1, <2>2, Zenon DEF IsNode, Moved
<1>3. AliveNodes(u) = AliveNodes(t) \cup {c} /\ c \in Nodes /\ c \notin AliveNodes(t) /\ c # x
  <2>1. AliveNodes(u) = AliveNodes(t) \cup {c}
    BY <1>0, <1>1, SplitFormed
  <2>2. AliveNodes(t) = Up(t) \ {ROOT}
    BY <1>0, <1>1, LinksTyped
  <2>. QED
    BY <1>0, <2>1, <2>2
<1>4. v \in [Nodes -> TreeNodes] /\ v[x] = n /\ \A y \in Nodes \ {x} : v[y] = t[y]
  <2>. HIDE DEF n, t
  <2>. QED
    BY <1>0, <1>1, <1>2
<1>5. AliveNodes(v) = AliveNodes(t)
  <2>1. x \in AliveNodes(t) /\ x # ROOT
    BY <1>0 DEF AliveNodes
  <2>. HIDE DEF v, n
  <2>2. x \in AliveNodes(v)
    BY <1>0, <1>1, <1>2, <1>4, <2>1, Zenon DEF AliveNodes
  <2>3. \A y \in Nodes \ {x} : y \in AliveNodes(v) <=> y \in AliveNodes(t)
    BY <1>4, Zenon DEF AliveNodes
  <2>4. AliveNodes(v) \in SUBSET Nodes /\ AliveNodes(t) \in SUBSET Nodes
    BY DEF AliveNodes
  <2>. HIDE DEF t
  <2>5. \A y \in Nodes : y \in AliveNodes(v) <=> y \in AliveNodes(t)
    BY <2>1, <2>2, <2>3
  <2>. QED
    BY <2>4, <2>5
<1>6. mid \in Spaces /\ mid.tree = v /\ mid.rq = kv.rq
  <2>. HIDE DEF v
  <2>. QED
    BY <1>0, <1>4, WithTree
<1>. HIDE DEF mid, v, n
<1>7. NodeView(mid.tree, x) = kept /\ NodeView(t, x) = all
      /\ \A y \in Nodes \ {x} : NodeView(mid.tree, y) = NodeView(t, y)
  BY <1>0, <1>1, <1>2, <1>4, <1>5, <1>6 DEF NodeView
<1>8. NodeView(mid.tree, c) = <<>> /\ NodeView(u, c) = u[c].blocks
  BY <1>3, <1>5, <1>6 DEF NodeView
<1>9. \A y \in Nodes \ {c} : NodeView(u, y) = NodeView(mid.tree, y)
  <2>1. TAKE y \in Nodes \ {c}
  <2>2. CASE y = x
    <3>1. NodeView(u, x) = kept
      BY <1>0, <1>2, <1>3 DEF NodeView, n
    <3>. QED
      BY <1>7, <2>2, <3>1
  <2>3. CASE y # x
    <3>1. NodeView(u, y) = NodeView(t, y)
      BY <1>2, <1>3, <2>3 DEF NodeView
    <3>. QED
      BY <1>7, <2>3, <3>1
  <2>. QED
    BY <2>2, <2>3
<1>10. SameTables(kv, mid) /\ SameTables(mid, kw)
  BY <1>0, <1>6 DEF SameTables
<1>11. /\ Refs(kv, b) \in Nat /\ Times(all, b) \in Nat /\ Times(all, b) <= Refs(kv, b)
       /\ Times(kept, b) \in Nat
       /\ Refs(mid, b) = Refs(kv, b) - Times(all, b) + Times(kept, b)
  <2>1. /\ Refs(kv, b) \in Nat /\ Times(NodeView(kv.tree, x), b) \in Nat
        /\ Times(NodeView(kv.tree, x), b) <= Refs(kv, b)
        /\ Times(NodeView(mid.tree, x), b) \in Nat
        /\ Refs(mid, b) = Refs(kv, b) - Times(NodeView(kv.tree, x), b)
                            + Times(NodeView(mid.tree, x), b)
    <3>1. \A y \in Nodes \ {x} : NodeView(mid.tree, y) = NodeView(kv.tree, y)
      BY <1>7
    <3>2. mid \in Spaces /\ SameTables(kv, mid) /\ x \in Nodes
      BY <1>0, <1>1, <1>6, <1>10
    <3>. HIDE DEF t
    <3>. QED
      BY <1>0, <3>1, <3>2, RefsNode
  <2>. HIDE DEF kept, all
  <2>. QED
    BY <1>7, <2>1
<1>12. /\ Refs(mid, b) \in Nat /\ Times(u[c].blocks, b) \in Nat
       /\ Refs(kw, b) = Refs(mid, b) + Times(u[c].blocks, b)
  <2>1. /\ Refs(mid, b) \in Nat
        /\ Times(NodeView(kw.tree, c), b) \in Nat
        /\ Refs(kw, b) = Refs(mid, b) - Times(NodeView(mid.tree, c), b)
                            + Times(NodeView(kw.tree, c), b)
    BY <1>0, <1>3, <1>6, <1>9, <1>10, RefsNode
  <2>2. Times(<<>>, b) = 0
    BY TimesEmpty
  <2>. HIDE DEF u
  <2>. QED
    BY <1>8, <2>1, <2>2 DEF u
<1>13. Times(all, b) = Times(kept, b) + Times(gone, b) /\ Times(gone, b) \in Nat
  <2>1. all \in Seq(Blocks) /\ i \in 0 .. Len(all)
    <3>1. NodeShape(t[x]) /\ t[x] \in TreeNodes
      BY <1>0, <1>1, NodeFields DEF Formed
    <3>2. all \in Seq(Blocks)
      BY <1>0, <1>1, NodeFields
    <3>. DEFINE slot == t[x].offset + k
    <3>3. slot = t[x].offset + k
      OBVIOUS
    <3>. HIDE DEF slot
    <3>4. BlocksFor(t[x], k) \in 0 .. Len(t[x].blocks)
      BY <1>0, <3>1, <3>3, SplitShape
    <3>. QED
      BY <3>2, <3>4
  <2>2. gone = SubSeq(all, i + 1, Len(all))
    BY <1>0
  <2>. HIDE DEF all, i
  <2>3. Times(all, b) = Times(kept, b) + Times(gone, b)
    <3>1. Times(all, b) = Times(SubSeq(all, 1, i), b) + Times(SubSeq(all, i + 1, Len(all)), b)
      BY <2>1, TimesCut
    <3>. QED
      BY <2>2, <3>1
  <2>4. gone \in Seq(Blocks)
    <3>1. SubSeq(all, i + 1, Len(all)) \in Seq(Blocks)
      BY <2>1, PartsOf
    <3>. QED
      BY <2>2, <3>1
  <2>5. Times(gone, b) \in Nat
    BY <2>4, LenProperties, AmongNat DEF Times
  <2>. QED
    BY <2>3, <2>5
<1>. HIDE DEF all, kept, u
<1>. QED
  BY <1>0, <1>11, <1>12, <1>13, SMTT(60) DEF u, RefsMoved, all

\* A raise changes nothing else.
LEMMA FailOK ==
    ASSUME NEW kv, Sound(kv)
    PROVE  /\ Sound(Fail(kv)) /\ ~Fine(Fail(kv)) /\ Fail(kv).rq = kv.rq
           /\ Fail(kv).tree = kv.tree /\ Fail(kv).pool = kv.pool
<1>1. kv \in Spaces
  BY SoundIsSpace
<1>2. Fail(kv).ok = FALSE
  BY <1>1, WithFail
<1>3. ~Fine(Fail(kv))
  BY <1>2, Zenon DEF Fine
<1>. QED
  BY <1>1, <1>3, SoundFail, WithFail

\* The node of a hop is cut behind the hop's tokens.
SplitTo(t, u, hop) == \E c \in Nodes \ Up(t) : SplitIs(t, u, hop.node, hop.used, c)

\* Giving a partly matched last node its own branch keeps the space in order
\* and the node the tokens go below alive.
LEMMA SplitLastOK ==
    ASSUME NEW kv, Sound(kv), Fine(kv), NEW path \in Seq(Hops(kv.tree)), path # <<>>,
           Last(path).used < Len(kv.tree[Last(path).node].tokens),
           NEW kw, kw = SplitLast(kv, path)
    PROVE  /\ Sound(kw) /\ kw.rq = kv.rq
           /\ Fine(kw) => Last(path).node \in AliveNodes(kw.tree)
           /\ SplitTo(kv.tree, kw.tree, Last(path)) \/ (kw.tree = kv.tree /\ ~Fine(kw))
<1>. DEFINE hop == Last(path)
            x == hop.node
            k == hop.used
            t == kv.tree
            old == t[x]
            c == NextNode(t)
            u == split(t, x, k)
            cut == [kv EXCEPT !.tree = u]
            mine == u[c].blocks
            gone == SubSeq(old.blocks, BlocksFor(old, k) + 1, Len(old.blocks))
            l == RetainBlocks(cut, mine)
<1>1. kv \in Spaces /\ PoolOK(kv.pool) /\ kv.pool.refcnt \in [Blocks -> Nat]
      /\ Accounted(kv) /\ Formed(t, {}) /\ t \in [Nodes -> TreeNodes]
      /\ \A s \in Slots : SlotOK(kv.rq[s])
  BY SoundIsSpace, SpaceFields DEF Sound
<1>2. hop \in Hops(t)
  BY LastOf
<1>3. x \in AliveNodes(t) /\ x \in Nodes /\ k \in 1 .. Len(t[x].tokens) - 1
  <2>1. x \in AliveNodes(t) /\ k \in 1 .. Len(t[x].tokens)
    BY <1>2 DEF Hops
  <2>2. x \in Nodes
    BY <2>1 DEF AliveNodes
  <2>3. Len(t[x].tokens) \in Nat
    BY <1>1, <2>2, NodeFields, LenProperties
  <2>. QED
    BY <2>1, <2>2, <2>3
<1>4. CASE DeadNodes(t) = {}
  <2>1. kw = Fail(kv)
    BY <1>4 DEF SplitLast
  <2>. QED
    BY <2>1, FailOK
<1>5. CASE DeadNodes(t) # {}
  <2>1. kw = ReleaseBlocks(l, gone)
    BY <1>5 DEF SplitLast
  <2>2. c \in Nodes \ Up(t) /\ c \notin AliveNodes(t) /\ c \in Nodes /\ c # x
    <3>1. c \in Nodes \ Up(t) /\ AliveNodes(t) = Up(t) \ {ROOT}
      BY <1>1, <1>5, NextNodeIs, LinksTyped
    <3>. HIDE DEF c, x
    <3>. QED
      BY <1>3, <3>1
  <2>3. SplitIs(t, u, x, k, c)
    <3>1. t[x].alive
      BY <1>3, Zenon DEF AliveNodes
    <3>2. NodeShape(t[x])
      BY <1>1, <1>3 DEF Formed
    <3>3. u = split(t, x, k) /\ c = NextNode(t)
      OBVIOUS
    <3>. HIDE DEF x, k, t, u, c
    <3>. QED
      BY <1>1, <1>3, <2>2, <3>1, <3>2, <3>3, SplitFields
  <2>. HIDE DEF u, c, k, x
  <2>4. u \in [Nodes -> TreeNodes] /\ Formed(u, {}) /\ AliveNodes(u) = AliveNodes(t) \cup {c}
    <3>1. u \in [Nodes -> TreeNodes]
      BY <2>3 DEF SplitIs
    <3>. HIDE DEF t
    <3>. QED
      BY <1>1, <1>3, <2>2, <2>3, <3>1, SplitFormed
  <2>5. cut \in Spaces /\ cut.pool = kv.pool /\ cut.tree = u /\ cut.rq = kv.rq /\ cut.ok = kv.ok
    BY <1>1, <2>4, WithTree
  <2>6. mine \in Seq(Blocks) /\ gone \in Seq(Blocks)
    <3>1. mine \in Seq(Blocks)
      BY <2>2, <2>4, NodeFields
    <3>2. old.blocks \in Seq(Blocks)
      BY <1>1, <1>3, NodeFields
    <3>. DEFINE i == BlocksFor(old, k)
                slot == old.offset + k
    <3>3. i \in 0 .. Len(old.blocks)
      <4>1. NodeShape(t[x]) /\ t[x] \in TreeNodes
        BY <1>1, <1>3, NodeFields DEF Formed
      <4>2. slot = t[x].offset + k
        OBVIOUS
      <4>. HIDE DEF slot
      <4>3. BlocksFor(t[x], k) \in 0 .. Len(t[x].blocks)
        BY <1>3, <4>1, <4>2, SplitShape
      <4>. QED
        BY <4>3
    <3>. HIDE DEF i, old
    <3>4. SubSeq(old.blocks, i + 1, Len(old.blocks)) \in Seq(Blocks)
      BY <3>2, <3>3, PartsOf
    <3>. QED
      BY <3>1, <3>4 DEF i, old
  <2>. HIDE DEF cut
  <2>7. \A b \in Blocks :
          /\ Refs(kv, b) \in Nat /\ Times(gone, b) \in Nat /\ Times(gone, b) <= Refs(kv, b)
          /\ Times(mine, b) \in Nat
          /\ Refs(cut, b) = Refs(kv, b) - Times(gone, b) + Times(mine, b)
    <3>1. gone = PastShare(kv.tree, x, k) /\ k \in 1 .. Len(kv.tree[x].tokens) - 1
      BY <1>3 DEF PastShare
    <3>2. SplitIs(kv.tree, cut.tree, x, k, c) /\ mine = cut.tree[c].blocks
          /\ x \in AliveNodes(kv.tree)
          /\ c \in Nodes \ Up(kv.tree) /\ Formed(kv.tree, {})
      BY <1>1, <1>3, <2>2, <2>3, <2>5
    <3>3. kv \in Spaces /\ cut \in Spaces /\ cut.rq = kv.rq
      BY <1>1, <2>5
    <3>. HIDE DEF gone, mine, t
    <3>4. SplitAt(kv, cut, x, k, c)
      BY <3>1, <3>2, <3>3 DEF SplitAt
    <3>5. \A b : RefsMoved(kv, cut, gone, cut.tree[c].blocks, b)
      BY <3>1, <3>4, SplitRefs
    <3>. QED
      BY <3>2, <3>5 DEF RefsMoved
  <2>8. AllHeld(cut, mine)
    <3>1. SUFFICES ASSUME NEW i \in 1 .. Len(mine) PROVE cut.pool.refcnt[mine[i]] > 0
      BY DEF AllHeld
    <3>2. mine[i] \in Blocks /\ Len(mine) \in Nat
      BY <2>6, ElementOfSeq, LenProperties
    <3>. HIDE DEF mine, gone
    <3>. DEFINE b == mine[i]
    <3>3. Times(mine, b) > 0
      BY <3>2, AmongSome DEF Times
    <3>4. /\ Refs(kv, b) \in Nat /\ kv.pool.refcnt[b] = Refs(kv, b)
      BY <1>1, <2>7, <3>2 DEF Accounted
    <3>5. InTree(t, b)
      \* a block of the child is one of the node that is split
      <4>. DEFINE q == (old.offset + k) \div block_size
                  P == old.blocks
      <4>1. mine = SubSeq(P, q + 1, Len(P))
        <5>1. IsNode(u[c], x, old.kids, SubSeq(old.tokens, k + 1, Len(old.tokens)),
                     (old.offset + k) % block_size,
                     SubSeq(old.blocks, (old.offset + k) \div block_size + 1, Len(old.blocks)))
          BY <2>3, Zenon DEF SplitIs
        <5>. QED
          BY <5>1, Zenon DEF IsNode, mine
      <4>2. P \in Seq(Blocks) /\ Len(P) \in Nat
        BY <1>1, <1>3, NodeFields, LenProperties
      <4>3. q \in 0 .. Len(P)
        <5>1. NodeShape(t[x]) /\ t[x] \in TreeNodes
          BY <1>1, <1>3, NodeFields DEF Formed
        <5>. DEFINE slot == t[x].offset + k
        <5>2. slot = t[x].offset + k
          OBVIOUS
        <5>. HIDE DEF slot
        <5>3. slot \div block_size \in 0 .. Len(t[x].blocks)
          BY <1>3, <5>1, <5>2, SplitShape
        <5>. QED
          BY <5>3 DEF slot
      <4>. DEFINE a == q + 1
      <4>. HIDE DEF q, P
      <4>4. Len(mine) = Len(P) - q /\ a \in Int /\ a \in 1 .. Len(P) + 1
        <5>1. Len(SubSeq(P, q + 1, Len(P))) = Len(P) - q
          BY <4>2, <4>3, PartsOf
        <5>. QED
          BY <4>1, <4>2, <4>3, <5>1
      <4>. DEFINE n == Len(P)
      <4>5. \A j \in a .. n : P[j] \in Blocks
        BY <4>2, <4>4, ElementOfSeq
      <4>6. n \in Int
        BY <4>2
      <4>. HIDE DEF a, n
      <4>7. \A j \in 1 .. n - a + 1 : SubSeq(P, a, n)[j] = P[a + j - 1]
        BY <4>4, <4>5, <4>6, SubSeqProperties
      <4>8. i \in 1 .. n - a + 1
        BY <4>2, <4>3, <4>4 DEF a, n
      <4>9. mine[i] = P[a + i - 1]
        BY <4>1, <4>7, <4>8 DEF a, n
      <4>10. a + i - 1 \in 1 .. Len(P)
        BY <4>2, <4>3, <4>4, <4>8 DEF a, n
      <4>. QED
        BY <1>3, <4>9, <4>10 DEF InTree, P
    <3>6. kv.pool.refcnt[b] > 0
      BY <3>2, <3>5, HeldByTree
    <3>. QED
      BY <2>5, <3>6
  <2>9. /\ l \in Spaces /\ PoolOnly(cut, l) /\ PoolOK(l.pool)
        /\ \A b \in Blocks : l.pool.refcnt[b] = cut.pool.refcnt[b] + Times(mine, b)
    <3>1. Fine(cut) /\ PoolOK(cut.pool)
      BY <1>1, <2>5, Zenon DEF Fine
    <3>. HIDE DEF mine
    <3>. QED
      BY <2>5, <2>6, <2>8, <3>1, RetainBlocksOK
  <2>. HIDE DEF l, mine, gone
  <2>10. AllOwned(l, gone)
    <3>1. SUFFICES ASSUME NEW b \in Blocks PROVE l.pool.refcnt[b] >= Times(gone, b)
      BY DEF AllOwned
    <3>2. l.pool.refcnt[b] = kv.pool.refcnt[b] + Times(mine, b)
      BY <2>5, <2>9
    <3>3. kv.pool.refcnt[b] = Refs(kv, b)
      BY <1>1 DEF Accounted
    <3>. QED
      BY <2>7, <3>2, <3>3
  <2>11. Fine(l) /\ l.tree = u /\ l.rq = kv.rq
    BY <2>5, <2>9, Zenon DEF PoolOnly, Fine
  <2>12. /\ kw \in Spaces /\ PoolOnly(l, kw) /\ PoolOK(kw.pool)
         /\ \A b \in Blocks : kw.pool.refcnt[b] = l.pool.refcnt[b] - Times(gone, b)
    BY <2>1, <2>6, <2>9, <2>10, <2>11, ReleaseBlocksOK
  <2>13. kw.tree = u /\ kw.rq = kv.rq
    BY <2>11, <2>12 DEF PoolOnly
  <2>14. Accounted(kw)
    <3>1. SUFFICES ASSUME NEW b \in Blocks PROVE kw.pool.refcnt[b] = Refs(kw, b)
      BY DEF Accounted
    <3>2. SameNodes(cut, kw) /\ SameTables(cut, kw)
      BY <2>5, <2>13 DEF SameNodes, SameTables
    <3>3. Refs(kw, b) = Refs(cut, b)
      BY <2>5, <2>12, <3>2, RefsSame
    <3>4. kw.pool.refcnt[b] = (kv.pool.refcnt[b] + Times(mine, b)) - Times(gone, b)
      BY <2>5, <2>9, <2>12
    <3>5. kv.pool.refcnt[b] = Refs(kv, b)
      BY <1>1 DEF Accounted
    <3>. QED
      BY <2>7, <3>3, <3>4, <3>5
  <2>15. Sound(kw)
    BY <1>1, <2>4, <2>12, <2>13, <2>14 DEF Sound
  <2>. QED
    <3>1. SplitTo(kv.tree, kw.tree, Last(path))
      <4>1. SplitIs(kv.tree, kw.tree, hop.node, hop.used, c)
        BY <2>3, <2>13 DEF x, k
      <4>. HIDE DEF t
      <4>. QED
        BY <2>2, <4>1 DEF SplitTo, t
    <3>. QED
      BY <1>3, <2>4, <2>13, <2>15, <3>1 DEF x
<1>. QED
  BY <1>4, <1>5
-----------------------------------------------------------------------------
(* A new node *)

\* An element in front of a sequence it is not in.
LEMMA ConsSeq ==
    ASSUME NEW S, NEW q \in Seq(S), NEW c \in S, c \notin ToSet(q), IsInjective(q)
    PROVE  /\ <<c>> \o q \in Seq(S) /\ IsInjective(<<c>> \o q)
           /\ ToSet(<<c>> \o q) = ToSet(q) \cup {c}
<1>. DEFINE r == <<c>> \o q
            n == Len(q)
<1>1. n \in Nat /\ DOMAIN q = 1 .. n /\ \A i \in 1 .. n : q[i] \in S
  BY LenProperties, ElementOfSeq
<1>2. <<c>> \in Seq(S) /\ Len(<<c>>) = 1 /\ <<c>>[1] = c
  OBVIOUS
<1>3. /\ r \in Seq(S) /\ Len(r) = n + 1 /\ r[1] = c
      /\ \A i \in 2 .. n + 1 : r[i] = q[i - 1]
  <2>. DEFINE e == <<c>>
  <2>. HIDE DEF e
  <2>1. e \in Seq(S) /\ Len(e) = 1 /\ e[1] = c
    BY <1>2 DEF e
  <2>2. /\ e \o q \in Seq(S) /\ Len(e \o q) = Len(e) + Len(q)
        /\ \A i \in 1 .. Len(e) + Len(q) :
             (e \o q)[i] = IF i <= Len(e) THEN e[i] ELSE q[i - Len(e)]
    BY <2>1, ConcatProperties
  <2>. QED
    BY <1>1, <2>1, <2>2 DEF e
<1>4. DOMAIN r = 1 .. n + 1
  BY <1>1, <1>3, LenProperties
<1>5. \A i \in 1 .. n : q[i] # c
  BY <1>1 DEF ToSet
<1>. HIDE DEF r, n
<1>6. IsInjective(r)
  <2>1. SUFFICES ASSUME NEW i \in 1 .. n + 1, NEW j \in 1 .. n + 1, r[i] = r[j] PROVE i = j
    BY <1>4 DEF IsInjective
  <2>2. \A a \in 1 .. n : \A b \in 1 .. n : q[a] = q[b] => a = b
    BY <1>1 DEF IsInjective
  <2>3. CASE i = 1 /\ j = 1
    BY <2>3
  <2>4. CASE i # 1 /\ j # 1
    <3>. DEFINE a == i - 1
                b == j - 1
    <3>1. a \in 1 .. n /\ b \in 1 .. n /\ r[i] = q[a] /\ r[j] = q[b]
      BY <1>1, <1>3, <2>4
    <3>2. a = b
      BY <2>1, <2>2, <3>1
    <3>. QED
      BY <1>1, <3>2
  <2>5. CASE i = 1 /\ j # 1
    BY <1>1, <1>3, <1>5, <2>1, <2>5
  <2>6. CASE i # 1 /\ j = 1
    BY <1>1, <1>3, <1>5, <2>1, <2>6
  <2>. QED
    BY <2>3, <2>4, <2>5, <2>6
<1>7. ToSet(r) = ToSet(q) \cup {c}
  <2>1. ToSet(r) = {r[i] : i \in 1 .. n + 1} /\ ToSet(q) = {q[i] : i \in 1 .. n}
    BY <1>1, <1>4 DEF ToSet
  <2>2. \A i \in 1 .. n + 1 : r[i] \in {q[k] : k \in 1 .. n} \cup {c}
    <3>1. TAKE i \in 1 .. n + 1
    <3>2. CASE i = 1
      BY <1>3, <3>2
    <3>3. CASE i # 1
      <4>1. i - 1 \in 1 .. n /\ r[i] = q[i - 1]
        BY <1>1, <1>3, <3>3
      <4>. QED
        BY <4>1
    <3>. QED
      BY <3>2, <3>3
  <2>3. \A k \in 1 .. n : q[k] \in {r[i] : i \in 1 .. n + 1}
    <3>1. TAKE k \in 1 .. n
    <3>. DEFINE i == k + 1
    <3>2. i \in 1 .. n + 1 /\ r[i] = q[k]
      BY <1>1, <1>3
    <3>. QED
      BY <3>2
  <2>4. c \in {r[i] : i \in 1 .. n + 1}
    BY <1>1, <1>3
  <2>. QED
    BY <2>1, <2>2, <2>3, <2>4
<1>. QED
  BY <1>3, <1>6, <1>7 DEF r

\* A node with other children.
Hung(n, m, kids) ==
    /\ m \in TreeNodes /\ m.kids = kids /\ m.parent = n.parent /\ m.tokens = n.tokens
    /\ m.offset = n.offset /\ m.blocks = n.blocks /\ (m.alive <=> n.alive)

LEMMA NodeHung ==
    ASSUME NEW n \in TreeNodes, NEW kids \in Seq(Nodes)
    PROVE  Hung(n, [n EXCEPT !.kids = kids], kids)
BY DEF Hung, TreeNodes

LEMMA NodeParent ==
    ASSUME NEW n, NEW parent, NEW kids, NEW tokens, NEW offset, NEW blocks,
           IsNode(n, parent, kids, tokens, offset, blocks), NEW p \in Nodes
    PROVE  IsNode([n EXCEPT !.parent = p], p, kids, tokens, offset, blocks)
BY DEF IsNode, TreeNodes

\* u is t with the new node c first among the children of p.
AddIs(t, u, p, c, tokens, offset, blocks) ==
    /\ u \in [Nodes -> TreeNodes]
    /\ IsNode(u[c], p, <<>>, tokens, offset, blocks)
    /\ Hung(t[p], u[p], <<c>> \o t[p].kids)
    /\ \A y \in Nodes \ {p, c} : u[y] = t[y]

LEMMA AddFields ==
    ASSUME NEW t \in [Nodes -> TreeNodes], NEW p \in Nodes, NEW c \in Nodes, c # p,
           NEW tokens, NEW offset, NEW blocks, NEW new,
           IsNode(new, INVALID, <<>>, tokens, offset, blocks),
           NEW u, u = add_child([t EXCEPT ![c] = new], p, c)
    PROVE  AddIs(t, u, p, c, tokens, offset, blocks)
<1>. DEFINE kids == <<c>> \o t[p].kids
            v == [t EXCEPT ![c] = new]
            hung == [t[p] EXCEPT !.kids = kids]
            put == [new EXCEPT !.parent = p]
<1>1. kids \in Seq(Nodes) /\ t[p] \in TreeNodes
  <2>1. t[p].kids \in Seq(Nodes) /\ <<c>> \in Seq(Nodes) /\ t[p] \in TreeNodes
    BY NodeFields
  <2>. QED
    BY <2>1, ConcatProperties
<1>2. new \in TreeNodes
  BY DEF IsNode
<1>3. v \in [Nodes -> TreeNodes] /\ v[c] = new /\ v[p] = t[p]
      /\ \A y \in Nodes \ {p, c} : v[y] = t[y]
  BY <1>2
<1>4. u = [v EXCEPT ![p].kids = <<c>> \o @, ![c].parent = p]
  BY DEF add_child
<1>. HIDE DEF v
<1>5. u[p] = hung /\ u[c] = put /\ \A y \in Nodes \ {p, c} : u[y] = t[y]
  BY <1>3, <1>4
<1>6. u = [y \in Nodes |-> u[y]]
  BY <1>3, <1>4
<1>. HIDE DEF kids
<1>7. Hung(t[p], hung, kids)
  BY <1>1, NodeHung
<1>8. IsNode(put, p, <<>>, tokens, offset, blocks)
  BY NodeParent
<1>. HIDE DEF hung, put
<1>9. u[p] \in TreeNodes /\ u[c] \in TreeNodes
  BY <1>5, <1>7, <1>8, Zenon DEF Hung, IsNode
<1>10. \A y \in Nodes : u[y] \in TreeNodes
  BY <1>5, <1>9
<1>11. u \in [Nodes -> TreeNodes]
  BY <1>6, <1>10
<1>. QED
  BY <1>5, <1>7, <1>8, <1>11, Zenon DEF AddIs, kids

\* u has the node c more, which refers to blocks.
Larger(t, u, c, blocks) ==
    /\ Formed(u, {}) /\ Up(u) = Up(t) \cup {c}
    /\ \A y \in Nodes \ {c} : NodeView(u, y) = NodeView(t, y)
    /\ NodeView(u, c) = blocks /\ NodeView(t, c) = <<>>

LEMMA AddFormed ==
    ASSUME NEW t \in [Nodes -> TreeNodes], Formed(t, {}), NEW p \in Up(t),
           NEW c \in Nodes \ Up(t), NEW tokens, NEW offset, NEW blocks, NEW u,
           AddIs(t, u, p, c, tokens, offset, blocks), NodeShape(u[c])
    PROVE  Larger(t, u, c, blocks)
<1>. DEFINE U == Up(t)
            K == KidsOf(t)
            P == Parents(t)
            V == Up(u)
            L == KidsOf(u)
            Q == Parents(u)
<1>0. /\ u \in [Nodes -> TreeNodes]
      /\ IsNode(u[c], p, <<>>, tokens, offset, blocks)
      /\ Hung(t[p], u[p], <<c>> \o t[p].kids)
      /\ \A y \in Nodes \ {p, c} : u[y] = t[y]
  BY Zenon DEF AddIs
<1>1. /\ U \in SUBSET Nodes /\ K \in [Nodes -> SUBSET Nodes]
      /\ P \in [Nodes -> Nodes \cup {INVALID}] /\ AliveNodes(t) = U \ {ROOT}
  BY LinksTyped
<1>2. /\ V \in SUBSET Nodes /\ L \in [Nodes -> SUBSET Nodes]
      /\ Q \in [Nodes -> Nodes \cup {INVALID}] /\ AliveNodes(u) = V \ {ROOT}
  BY <1>0, LinksTyped
<1>3. Linked(U, K, P, {}) /\ Shaped(t)
  BY FormedIs
<1>4. p \in U /\ c \in Nodes \ U /\ p \in Nodes /\ ROOT \in U /\ c # ROOT /\ c # p
  <2>1. ROOT \in U
    <3>. HIDE DEF U, K, P
    <3>. QED
      BY <1>3 DEF Linked
  <2>. QED
    BY <1>1, <2>1
<1>5. /\ \A y \in Nodes : K[y] = ToSet(t[y].kids) /\ P[y] = t[y].parent
      /\ \A y \in Nodes : L[y] = ToSet(u[y].kids) /\ Q[y] = u[y].parent
  BY DEF KidsOf, Parents
<1>6. /\ \A y \in Nodes : y \in U <=> t[y].alive
      /\ \A y \in Nodes : y \in V <=> u[y].alive
  BY Zenon DEF Up
<1>. HIDE DEF U, K, P, V, L, Q
<1>7. c \notin K[p]
  BY <1>3, <1>4 DEF Linked
<1>8. /\ t[p].kids \in Seq(Nodes) /\ c \notin ToSet(t[p].kids) /\ IsInjective(t[p].kids)
  BY <1>3, <1>4, <1>5, <1>7, NodeFields DEF Shaped
<1>9. /\ IsInjective(<<c>> \o t[p].kids)
      /\ ToSet(<<c>> \o t[p].kids) = ToSet(t[p].kids) \cup {c}
  <2>. DEFINE kids == t[p].kids
  <2>. HIDE DEF kids
  <2>1. /\ IsInjective(<<c>> \o kids) /\ ToSet(<<c>> \o kids) = ToSet(kids) \cup {c}
    BY <1>4, <1>8, ConsSeq DEF kids
  <2>. QED
    BY <2>1 DEF kids
<1>10. L[p] = K[p] \cup {c} /\ L[c] = {} /\ Q[c] = p /\ Q[p] = P[p]
  <2>1. u[p].kids = <<c>> \o t[p].kids /\ u[p].parent = t[p].parent
    BY <1>0, Zenon DEF Hung
  <2>2. u[c].kids = <<>> /\ u[c].parent = p
    BY <1>0, Zenon DEF IsNode
  <2>3. ToSet(<<>>) = {}
    BY DEF ToSet
  <2>. QED
    BY <1>4, <1>5, <1>9, <2>1, <2>2, <2>3
<1>11. /\ \A y \in Nodes \ {p, c} : L[y] = K[y]
       /\ \A y \in Nodes \ {c} : Q[y] = P[y]
  BY <1>0, <1>5, <1>10
<1>12. Linked(U \cup {c}, L, Q, {})
  BY <1>1, <1>2, <1>3, <1>4, <1>10, <1>11, LinkAdd
<1>13. V = U \cup {c}
  <2>1. c \in V
    BY <1>0, <1>4, <1>6, Zenon DEF IsNode
  <2>2. p \in V
    BY <1>0, <1>4, <1>6, Zenon DEF Hung
  <2>3. \A y \in Nodes \ {p, c} : y \in V <=> y \in U
    BY <1>0, <1>6, Zenon
  <2>. QED
    BY <1>1, <1>2, <1>4, <2>1, <2>2, <2>3
<1>14. /\ AliveNodes(u) = AliveNodes(t) \cup {c} /\ c \notin AliveNodes(t)
  BY <1>1, <1>2, <1>4, <1>13
<1>15. Shaped(u)
  <2>1. u[ROOT].tokens = <<>>
    <3>1. u[ROOT].tokens = t[ROOT].tokens
      <4>1. CASE ROOT = p
        BY <1>0, <4>1, Zenon DEF Hung
      <4>2. CASE ROOT # p
        BY <1>0, <1>1, <1>4, <4>2
      <4>. QED
        BY <4>1, <4>2
    <3>. QED
      BY <1>3, <3>1 DEF Shaped
  <2>2. ASSUME NEW y \in Nodes PROVE IsInjective(u[y].kids)
    <3>1. CASE y = p
      <4>1. u[y].kids = <<c>> \o t[p].kids
        BY <1>0, <3>1, Zenon DEF Hung
      <4>. QED
        BY <1>9, <4>1
    <3>2. CASE y = c
      <4>1. u[y].kids = <<>>
        BY <1>0, <3>2, Zenon DEF IsNode
      <4>. QED
        BY <4>1 DEF IsInjective
    <3>3. CASE y \notin {p, c}
      BY <1>0, <1>3, <3>3 DEF Shaped
    <3>. QED
      BY <3>1, <3>2, <3>3
  <2>3. ASSUME NEW y \in AliveNodes(u) PROVE NodeShape(u[y])
    <3>1. CASE y = c
      BY <3>1
    <3>2. CASE y # c
      <4>1. y \in AliveNodes(t) /\ y \in Nodes
        BY <1>1, <1>14, <3>2
      <4>2. NodeShape(t[y])
        BY <1>3, <4>1 DEF Shaped
      <4>3. u[y].tokens = t[y].tokens /\ u[y].offset = t[y].offset /\ u[y].blocks = t[y].blocks
        <5>1. CASE y = p
          BY <1>0, <5>1, Zenon DEF Hung
        <5>2. CASE y # p
          BY <1>0, <3>2, <4>1, <5>2
        <5>. QED
          BY <5>1, <5>2
      <4>4. BlocksFor(u[y], Len(u[y].tokens)) = BlocksFor(t[y], Len(t[y].tokens))
        BY <4>3 DEF BlocksFor
      <4>. QED
        BY <4>2, <4>3, <4>4 DEF NodeShape
    <3>. QED
      BY <3>1, <3>2
  <2>. QED
    BY <2>1, <2>2, <2>3 DEF Shaped
<1>16. Formed(u, {})
  BY <1>0, <1>12, <1>13, <1>15, FormedIs DEF V, L, Q
<1>17. \A y \in Nodes \ {c} : NodeView(u, y) = NodeView(t, y)
  <2>1. u[p].blocks = t[p].blocks
    BY <1>0, Zenon DEF Hung
  <2>. QED
    BY <1>0, <1>14, <2>1 DEF NodeView
<1>18. NodeView(u, c) = blocks /\ NodeView(t, c) = <<>>
  <2>1. u[c].blocks = blocks
    BY <1>0, Zenon DEF IsNode
  <2>. QED
    BY <1>14, <2>1 DEF NodeView
<1>. QED
  BY <1>13, <1>16, <1>17, <1>18 DEF V, U, Larger

\* What a new node takes of a request's table, if there is that much of it.
TakeFrom(slot, from, ntok) ==
    Min({MAX_NODE_TOKENS, MAX_NODE_BLOCKS * block_size - slot, ntok - from})

TakenAs(slot, from, ntok, at, len, take, stop, nb) ==
    /\ take \in 1 .. MAX_NODE_TOKENS /\ from + take \in 0 .. ntok
    /\ slot < block_size /\ at <= len
    /\ nb \in 1 .. MAX_NODE_BLOCKS
    /\ at + stop \div block_size \in 1 .. len + 1
    /\ stop % block_size \in 0 .. block_size - 1
LEMMA NodeTakes ==
    ASSUME NEW slot \in Nat, NEW from \in Nat, NEW ntok \in Nat, from < ntok,
           NEW len \in Nat, NEW at \in 1 .. len + 1, at <= len => slot < block_size,
           NEW take, take = TakeFrom(slot, from, ntok), NEW stop, stop = slot + take,
           NEW nb, nb = ceil_div(stop, block_size), at + nb - 1 <= len
    PROVE  TakenAs(slot, from, ntok, at, len, take, stop, nb)
<1>. DEFINE room0 == MAX_NODE_BLOCKS * block_size
            left == room0 - slot
            rest == ntok - from
<1>1. /\ block_size \in Nat \ {0} /\ MAX_NODE_BLOCKS \in Nat \ {0}
      /\ MAX_NODE_TOKENS \in Nat \ {0}
  <2>1. MAX_NODE_TOKENS + block_size \in Nat \ {0}
    BY TheConstants
  <2>2. ceil_div(MAX_NODE_TOKENS + block_size, block_size) \in Nat \ {0}
    <3>. DEFINE k == MAX_NODE_TOKENS + block_size
    <3>. HIDE DEF k
    <3>1. ceil_div(k, block_size) \in Nat \ {0}
      BY <2>1, TheConstants, CeilPositive DEF k
    <3>. QED
      BY <3>1 DEF k
  <2>. QED
    BY <2>2, TheConstants, RoomAssumption, SMTT(60)
<1>2. room0 \in Nat /\ room0 >= block_size
  <2>1. \A b \in Nat, m \in Nat \ {0} : m * b \in Nat /\ m * b >= b
    OBVIOUS
  <2>. QED
    BY <1>1, <2>1
<1>. HIDE DEF room0
<1>3. left \in Int /\ rest \in Nat /\ rest >= 1 /\ left + slot = room0
  BY <1>2
<1>. HIDE DEF left, rest
<1>4. take \in {MAX_NODE_TOKENS, left, rest} /\ take <= MAX_NODE_TOKENS /\ take <= left
      /\ take <= rest
  <2>1. take = Min({MAX_NODE_TOKENS, left, rest})
    BY DEF left, rest, room0, TakeFrom
  <2>2. MAX_NODE_TOKENS \in Int /\ rest \in Int /\ left \in Int
    BY <1>1, <1>3
  <2>3. \A a \in Int, b \in Int, c \in Int :
          Min({a, b, c}) \in {a, b, c} /\ Min({a, b, c}) <= a /\ Min({a, b, c}) <= b
          /\ Min({a, b, c}) <= c
    BY MinOfThree
  <2>. DEFINE least == Min({MAX_NODE_TOKENS, left, rest})
  <2>4. /\ least \in {MAX_NODE_TOKENS, left, rest} /\ least <= MAX_NODE_TOKENS /\ least <= left
        /\ least <= rest
    BY <2>2, <2>3, Zenon
  <2>. HIDE DEF least
  <2>. QED
    BY <2>1, <2>4 DEF least
<1>5. stop \in Nat \ {0} /\ take \in Int /\ stop <= room0
  BY <1>1, <1>2, <1>3, <1>4
<1>6. nb \in Nat \ {0}
  BY <1>1, <1>5, CeilPositive
<1>7. at <= len /\ slot < block_size
  BY <1>6
<1>8. take >= 1
  BY <1>1, <1>2, <1>3, <1>4, <1>7
<1>9. nb <= MAX_NODE_BLOCKS
  <2>1. ceil_div(room0, block_size) = MAX_NODE_BLOCKS
    <3>1. room0 = block_size * MAX_NODE_BLOCKS
      BY <1>1 DEF room0
    <3>2. room0 <= block_size * MAX_NODE_BLOCKS /\ block_size * MAX_NODE_BLOCKS < room0 + block_size
      BY <1>1, <1>2, <3>1
    <3>3. MAX_NODE_BLOCKS \in Nat
      BY <1>1
    <3>. QED
      BY <1>1, <1>2, <3>2, <3>3, CeilOf
  <2>2. stop \in Nat
    BY <1>5
  <2>. QED
    BY <1>1, <1>2, <1>5, <2>1, <2>2, CeilGrows
<1>10. from + take \in 0 .. ntok
  BY <1>3, <1>4, <1>5, <1>8 DEF rest
<1>. DEFINE q == stop \div block_size
            r == stop % block_size
<1>11. q \in Nat /\ r \in 0 .. block_size - 1 /\ stop = block_size * q + r
  <2>1. stop \in Nat
    BY <1>5
  <2>. QED
    BY <1>1, <2>1, DivIs
<1>12. q <= nb
  <2>1. nb \in Nat /\ stop <= block_size * nb
    <3>1. stop \in Nat
      BY <1>5
    <3>. QED
      BY <1>1, <3>1, CeilIs
  <2>2. block_size * q <= block_size * nb
    <3>. HIDE DEF q, r
    <3>1. \A a \in Int, b \in Int, c \in Nat, d \in Nat : a = b + c /\ a <= d => b <= d
      OBVIOUS
    <3>2. block_size * q \in Int /\ block_size * nb \in Nat /\ r \in Nat
      BY <1>1, <1>11, <2>1
    <3>. QED
      BY <1>5, <1>11, <2>1, <3>2
  <2>3. \A b \in Nat \ {0}, x \in Nat, y \in Nat : b * x <= b * y => x <= y
    OBVIOUS
  <2>. HIDE DEF q
  <2>. QED
    BY <1>1, <1>11, <2>1, <2>2, <2>3
<1>. HIDE DEF q, r
<1>13. at + q \in 1 .. len + 1
  BY <1>6, <1>11, <1>12
<1>. QED
  BY <1>1, <1>4, <1>5, <1>6, <1>7, <1>8, <1>9, <1>10, <1>11, <1>13 DEF q, r, TakenAs

\* The node before it is hung on its parent.
LEMMA NewNodeIs ==
    ASSUME NEW tokens \in Seq(Nat), NEW offset \in Nat, NEW blocks \in Seq(Blocks)
    PROVE  IsNode([DeadNode EXCEPT !.alive = TRUE, !.tokens = tokens, !.offset = offset,
                                   !.blocks = blocks],
                  INVALID, <<>>, tokens, offset, blocks)
<1>. DEFINE yes == TRUE
            no == FALSE
            none == <<>>
            new == [DeadNode EXCEPT !.alive = yes, !.tokens = tokens, !.offset = offset,
                                    !.blocks = blocks]
<1>1. DeadNode = [alive |-> no, parent |-> INVALID, kids |-> none, tokens |-> none,
                  offset |-> 0, blocks |-> none, freq |-> 0]
  BY DEF DeadNode
<1>2. none \in Seq(Nodes) /\ INVALID \in Nodes \cup {INVALID}
  OBVIOUS
<1>. HIDE DEF no, none
<1>3. new = [alive |-> yes, parent |-> INVALID, kids |-> none, tokens |-> tokens,
             offset |-> offset, blocks |-> blocks, freq |-> 0]
  <2>. HIDE DEF yes
  <2>. DEFINE d == [alive |-> no, parent |-> INVALID, kids |-> none, tokens |-> none,
                    offset |-> 0, blocks |-> none, freq |-> 0]
  <2>1. new = [d EXCEPT !.alive = yes, !.tokens = tokens, !.offset = offset,
                        !.blocks = blocks]
    BY <1>1
  <2>. DEFINE e == [d EXCEPT !.alive = yes]
              g == [e EXCEPT !.tokens = tokens]
              l == [g EXCEPT !.offset = offset]
  <2>2. e = [alive |-> yes, parent |-> INVALID, kids |-> none, tokens |-> none,
             offset |-> 0, blocks |-> none, freq |-> 0]
    OBVIOUS
  <2>3. new = [l EXCEPT !.blocks = blocks]
    BY <2>1
  <2>. HIDE DEF e
  <2>4. g = [alive |-> yes, parent |-> INVALID, kids |-> none, tokens |-> tokens,
             offset |-> 0, blocks |-> none, freq |-> 0]
    BY <2>2
  <2>. HIDE DEF g
  <2>5. l = [alive |-> yes, parent |-> INVALID, kids |-> none, tokens |-> tokens,
             offset |-> offset, blocks |-> none, freq |-> 0]
    BY <2>4
  <2>. HIDE DEF l, new
  <2>. QED
    BY <2>3, <2>5
<1>4. IsNode([alive |-> TRUE, parent |-> INVALID, kids |-> none, tokens |-> tokens,
              offset |-> offset, blocks |-> blocks, freq |-> 0],
             INVALID, none, tokens, offset, blocks)
  BY <1>2, NodeMade
<1>. QED
  BY <1>3, <1>4, Zenon DEF yes, none

\* Entries i .. j of a sequence.
LEMMA PartIs ==
    ASSUME NEW S, NEW p \in Seq(S), NEW i, NEW j, i \in 1 .. Len(p) + 1, j \in 0 .. Len(p),
           i <= j + 1
    PROVE  /\ SubSeq(p, i, j) \in Seq(S) /\ Len(SubSeq(p, i, j)) = (j + 1) - i
           /\ \A k \in 1 .. (j + 1) - i : SubSeq(p, i, j)[k] = p[i + k - 1]
                                          /\ i + k - 1 \in 1 .. Len(p)
<1>1. Len(p) \in Nat
  BY LenProperties
<1>2. i \in Int /\ j \in Int
  BY <1>1
<1>3. \A k \in i .. j : p[k] \in S
  <2>1. \A k \in i .. j : k \in 1 .. Len(p)
    BY <1>1
  <2>. QED
    BY <2>1, ElementOfSeq
<1>4. /\ SubSeq(p, i, j) \in Seq(S)
      /\ Len(SubSeq(p, i, j)) = IF i <= j THEN j - i + 1 ELSE 0
      /\ \A k \in 1 .. j - i + 1 : SubSeq(p, i, j)[k] = p[i + k - 1]
  BY <1>2, <1>3, SubSeqProperties
<1>5. Len(SubSeq(p, i, j)) = (j + 1) - i
  BY <1>1, <1>2, <1>4
<1>6. ASSUME NEW k \in 1 .. (j + 1) - i
      PROVE  SubSeq(p, i, j)[k] = p[i + k - 1] /\ i + k - 1 \in 1 .. Len(p)
  <2>1. k \in 1 .. j - i + 1 /\ i + k - 1 \in 1 .. Len(p)
    BY <1>1, <1>2
  <2>. QED
    BY <1>4, <2>1
<1>. QED
  BY <1>4, <1>5, <1>6

\* A node's place in the tree and in the table, as commit goes along.
Cursors == [kv : Spaces, parent : Nodes, from : Nat, at : Nat, slot : Nat]

InPlace(st, q) ==
    /\ st.parent \in Up(st.kv.tree) /\ st.from <= q.ntok
    /\ st.at \in 1 .. Len(q.table) + 1
    /\ st.at <= Len(q.table) => st.slot < block_size

Publishing(st, rq, s) ==
    /\ st \in Cursors /\ Sound(st.kv) /\ st.kv.rq = rq
    /\ Fine(st.kv) => InPlace(st, rq[s])

LEMMA CursorFields ==
    ASSUME NEW st \in Cursors
    PROVE  /\ st.kv \in Spaces /\ st.parent \in Nodes /\ st.from \in Nat /\ st.at \in Nat
           /\ st.slot \in Nat
BY DEF Cursors

LEMMA CursorMade ==
    ASSUME NEW kv \in Spaces, NEW parent \in Nodes, NEW from \in Nat, NEW at \in Nat,
           NEW slot \in Nat, NEW st,
           st = [kv |-> kv, parent |-> parent, from |-> from, at |-> at, slot |-> slot]
    PROVE  /\ st \in Cursors /\ st.kv = kv /\ st.parent = parent /\ st.from = from
           /\ st.at = at /\ st.slot = slot
BY DEF Cursors

LEMMA CursorFail ==
    ASSUME NEW st \in Cursors, NEW kv \in Spaces, NEW sw, sw = [st EXCEPT !.kv = kv]
    PROVE  sw \in Cursors /\ sw.kv = kv
BY DEF Cursors

\* The blocks of the entries a new node takes are held by the request.
LEMMA EntriesHeld ==
    ASSUME NEW kv, Sound(kv), NEW s \in Slots, NEW table, table = kv.rq[s].table,
           NEW at \in Nat, NEW nb \in Nat, at >= 1, nb >= 1, at + nb - 1 <= Len(table),
           NEW stop, stop = at + nb - 1,
           NEW blocks, blocks = TableBlocks(SubSeq(table, at, stop))
    PROVE  blocks \in Seq(Blocks) /\ Len(blocks) = nb /\ AllHeld(kv, blocks)
<1>1. kv \in Spaces /\ table \in Seq(Runs) /\ Len(table) \in Nat
  BY SoundIsSpace, SlotTable
<1>. DEFINE part == SubSeq(table, at, stop)
            all == TableBlocks(table)
<1>2. at \in 1 .. Len(table) + 1 /\ stop \in 0 .. Len(table) /\ at <= stop + 1
      /\ (stop + 1) - at = nb
  BY <1>1
<1>3. /\ part \in Seq(Runs) /\ Len(part) = nb
      /\ \A k \in 1 .. nb : part[k] = table[at + k - 1] /\ at + k - 1 \in 1 .. Len(table)
  <2>1. /\ part \in Seq(Runs) /\ Len(part) = (stop + 1) - at
        /\ \A k \in 1 .. (stop + 1) - at : part[k] = table[at + k - 1]
                                           /\ at + k - 1 \in 1 .. Len(table)
    BY <1>1, <1>2, PartIs
  <2>. HIDE DEF part
  <2>. QED
    BY <1>2, <2>1
<1>4. blocks = TableBlocks(part)
  OBVIOUS
<1>. HIDE DEF part
<1>5. /\ blocks \in Seq(Blocks) /\ Len(blocks) = nb
      /\ \A k \in 1 .. nb : blocks[k] = part[k].block
  BY <1>3, <1>4, BlocksOfTable
<1>6. /\ all \in Seq(Blocks) /\ Len(all) = Len(table)
      /\ \A k \in 1 .. Len(table) : all[k] = table[k].block
  BY <1>1, BlocksOfTable
<1>7. AllOwned(kv, all)
  BY SlotOwned
<1>. HIDE DEF all
<1>8. ASSUME NEW k \in 1 .. Len(blocks) PROVE kv.pool.refcnt[blocks[k]] > 0
  <2>. DEFINE j == at + k - 1
              b == all[j]
  <2>1. k \in 1 .. nb
    BY <1>5
  <2>2. j \in 1 .. Len(table) /\ blocks[k] = table[j].block
    BY <1>3, <1>5, <2>1
  <2>. HIDE DEF j
  <2>3. blocks[k] = b /\ b \in Blocks
    BY <1>6, <2>2, ElementOfSeq
  <2>4. Times(all, b) > 0
    <3>1. j \in 1 .. Len(all) /\ Len(all) \in Nat
      BY <1>1, <1>6, <2>2
    <3>. QED
      BY <3>1, AmongSome DEF Times
  <2>5. kv.pool.refcnt[b] \in Nat /\ Times(all, b) \in Nat /\ kv.pool.refcnt[b] >= Times(all, b)
    <3>1. Times(all, b) \in Nat
      BY <1>1, <1>6, AmongNat DEF Times
    <3>2. kv.pool.refcnt \in [Blocks -> Nat]
      BY SoundIsSpace
    <3>. QED
      BY <1>7, <2>3, <3>1, <3>2 DEF AllOwned
  <2>. HIDE DEF b
  <2>. QED
    BY <2>3, <2>4, <2>5
<1>. QED
  BY <1>5, <1>8 DEF AllHeld

LEMMA RefsNodeMoved ==
    ASSUME NEW kv \in Spaces, NEW kw \in Spaces, NEW y \in Nodes, SameTables(kv, kw),
           \A x \in Nodes \ {y} : NodeView(kw.tree, x) = NodeView(kv.tree, x), NEW b
    PROVE  RefsMoved(kv, kw, NodeView(kv.tree, y), NodeView(kw.tree, y), b)
BY RefsNode DEF RefsMoved

GrownWith(kv, grown, new, p, c) ==
    grown = [kv EXCEPT !.tree = add_child([@ EXCEPT ![c] = new], p, c)]

\* A node that hangs nowhere yet.
Unhung(new, tokens, offset, blocks) ==
    IsNode(new, INVALID, <<>>, tokens, offset, blocks)

\* What a node may hold.
Fits(kv, tokens, offset, blocks) ==
    /\ tokens \in Seq(Nat) /\ offset \in Nat /\ blocks \in Seq(Blocks)
    /\ AllHeld(kv, blocks) /\ Len(tokens) \in 1 .. MAX_NODE_TOKENS /\ offset < block_size
    /\ Len(blocks) = ceil_div(offset + Len(tokens), block_size)
    /\ Len(blocks) <= MAX_NODE_BLOCKS

\* A new node below parent, with its references taken: the space stays in
\* order.
LEMMA NodeHungOK ==
    ASSUME NEW kv, Sound(kv), Fine(kv), DeadNodes(kv.tree) # {},
           NEW p \in Up(kv.tree), NEW c, c = NextNode(kv.tree),
           NEW tokens, NEW offset, NEW blocks, Fits(kv, tokens, offset, blocks),
           NEW new, Unhung(new, tokens, offset, blocks),
           NEW grown, GrownWith(kv, grown, new, p, c),
           NEW kw, kw = RetainBlocks(grown, blocks)
    PROVE  /\ Sound(kw) /\ kw.rq = kv.rq
           /\ c \in Up(kw.tree) /\ c \in Nodes /\ c \in Nodes \ Up(kv.tree)
           /\ AddIs(kv.tree, kw.tree, p, c, tokens, offset, blocks)
<1>. DEFINE t == kv.tree
            u == add_child([t EXCEPT ![c] = new], p, c)
<1>0. /\ tokens \in Seq(Nat) /\ offset \in Nat /\ blocks \in Seq(Blocks)
      /\ AllHeld(kv, blocks) /\ Len(tokens) \in 1 .. MAX_NODE_TOKENS /\ offset < block_size
      /\ Len(blocks) = ceil_div(offset + Len(tokens), block_size)
      /\ Len(blocks) <= MAX_NODE_BLOCKS
  BY DEF Fits
<1>1. /\ kv \in Spaces /\ PoolOK(kv.pool) /\ kv.pool.refcnt \in [Blocks -> Nat]
      /\ Accounted(kv) /\ Formed(t, {}) /\ t \in [Nodes -> TreeNodes]
      /\ \A s \in Slots : SlotOK(kv.rq[s])
  BY SoundIsSpace, SpaceFields DEF Sound
<1>2. c \in Nodes \ Up(t) /\ c \in Nodes /\ p \in Nodes /\ p \in Up(t) /\ c # p
  <2>1. c \in Nodes \ Up(t) /\ Up(t) \in SUBSET Nodes
    BY <1>1, NextNodeIs, LinksTyped
  <2>. QED
    BY <2>1
<1>3. AddIs(t, u, p, c, tokens, offset, blocks)
  <2>1. u = add_child([t EXCEPT ![c] = new], p, c)
    OBVIOUS
  <2>2. IsNode(new, INVALID, <<>>, tokens, offset, blocks)
    BY Zenon DEF Unhung
  <2>. HIDE DEF u, t
  <2>. QED
    BY <1>1, <1>2, <2>1, <2>2, AddFields
<1>. HIDE DEF u
<1>4. NodeShape(u[c])
  <2>1. u[c].tokens = tokens /\ u[c].offset = offset /\ u[c].blocks = blocks
    BY <1>3, Zenon DEF AddIs, IsNode
  <2>2. BlocksFor(u[c], Len(u[c].tokens)) = Len(blocks)
    BY <1>0, <2>1 DEF BlocksFor
  <2>3. offset \in 0 .. block_size - 1
    BY <1>0, TheConstants
  <2>. QED
    BY <1>0, <2>1, <2>2, <2>3 DEF NodeShape
<1>5. /\ Formed(u, {}) /\ Up(u) = Up(t) \cup {c}
      /\ \A y \in Nodes \ {c} : NodeView(u, y) = NodeView(t, y)
      /\ NodeView(u, c) = blocks /\ NodeView(t, c) = <<>>
  <2>. HIDE DEF t
  <2>1. Larger(t, u, c, blocks)
    BY <1>1, <1>2, <1>3, <1>4, AddFormed
  <2>. QED
    BY <2>1 DEF Larger
<1>6. u \in [Nodes -> TreeNodes]
  BY <1>3, Zenon DEF AddIs
<1>7. /\ grown \in Spaces /\ grown.pool = kv.pool /\ grown.tree = u /\ grown.rq = kv.rq
      /\ grown.ok = kv.ok
  <2>1. grown = [kv EXCEPT !.tree = u]
    BY DEF u, GrownWith
  <2>2. kv \in Spaces
    BY <1>1
  <2>. HIDE DEF t
  <2>. QED
    BY <1>6, <2>1, <2>2, WithTree
<1>8. Fine(grown) /\ AllHeld(grown, blocks)
  BY <1>0, <1>7, Zenon DEF Fine, AllHeld
<1>9. /\ kw \in Spaces /\ PoolOnly(grown, kw) /\ PoolOK(kw.pool)
      /\ \A b \in Blocks : kw.pool.refcnt[b] = grown.pool.refcnt[b] + Times(blocks, b)
  <2>1. PoolOK(grown.pool)
    BY <1>1, <1>7
  <2>. QED
    BY <1>0, <1>7, <1>8, <2>1, RetainBlocksOK
<1>10. kw.tree = u /\ kw.rq = kv.rq
  BY <1>7, <1>9 DEF PoolOnly
<1>11. Accounted(kw)
  <2>1. SUFFICES ASSUME NEW b \in Blocks PROVE kw.pool.refcnt[b] = Refs(kw, b)
    BY DEF Accounted
  <2>2. SameTables(kv, kw) /\ \A y \in Nodes \ {c} : NodeView(kw.tree, y) = NodeView(kv.tree, y)
    BY <1>5, <1>10 DEF SameTables
  <2>3. RefsMoved(kv, kw, NodeView(kv.tree, c), NodeView(kw.tree, c), b)
    <3>. HIDE DEF t
    <3>. QED
      BY <1>1, <1>2, <1>9, <2>2, RefsNodeMoved
  <2>4. NodeView(kv.tree, c) = <<>> /\ NodeView(kw.tree, c) = blocks
    BY <1>5, <1>10
  <2>5. Times(<<>>, b) = 0
    BY TimesEmpty
  <2>6. Refs(kw, b) = Refs(kv, b) + Times(blocks, b)
    BY <2>3, <2>4, <2>5 DEF RefsMoved
  <2>7. kw.pool.refcnt[b] = kv.pool.refcnt[b] + Times(blocks, b)
    BY <1>7, <1>9
  <2>8. kv.pool.refcnt[b] = Refs(kv, b)
    BY <1>1 DEF Accounted
  <2>. QED
    BY <2>6, <2>7, <2>8
<1>12. Sound(kw)
  BY <1>1, <1>5, <1>9, <1>10, <1>11 DEF Sound
<1>13. c \in Up(kw.tree)
  BY <1>5, <1>10
<1>14. AddIs(kv.tree, kw.tree, p, c, tokens, offset, blocks)
  BY <1>3, <1>10
<1>. QED
  BY <1>2, <1>10, <1>12, <1>13, <1>14

\* A turn of commit's loop puts the next tokens into a new node below the last
\* one, or has none left to put, or raises.
NodeAdded(st, sw, q) ==
    \E c, take, offset, blocks :
        /\ c \in Nodes \ Up(st.kv.tree) /\ take \in Nat \ {0} /\ Fine(st.kv)
        /\ st.parent \in Up(st.kv.tree) /\ st.from + take <= q.ntok
        /\ sw.parent = c /\ sw.from = st.from + take
        /\ AddIs(st.kv.tree, sw.kv.tree, st.parent, c,
                 SubSeq(q.tok, st.from + 1, st.from + take), offset, blocks)

Turned(st, sw, q) ==
    \/ sw = st /\ (~Fine(st.kv) \/ st.from = q.ntok)
    \/ sw.kv.tree = st.kv.tree /\ ~Fine(sw.kv)
    \/ NodeAdded(st, sw, q)

\* One turn of commit's loop.
LEMMA AddNodeOK ==
    ASSUME NEW s \in Slots, NEW rq, NEW st, Publishing(st, rq, s),
           NEW sw, sw = AddNode(st, s)
    PROVE  Publishing(sw, rq, s) /\ Turned(st, sw, rq[s])
<1>. DEFINE kv == st.kv
            q == kv.rq[s]
            take == Min({MAX_NODE_TOKENS, MAX_NODE_BLOCKS * block_size - st.slot,
                         q.ntok - st.from})
            stop == st.slot + take
            nb == ceil_div(stop, block_size)
            end == st.at + nb - 1
            c == NextNode(kv.tree)
            blocks == TableBlocks(SubSeq(q.table, st.at, end))
            tokens == SubSeq(q.tok, st.from + 1, st.from + take)
            new == [DeadNode EXCEPT !.alive = TRUE, !.tokens = tokens, !.offset = st.slot,
                                    !.blocks = blocks]
            grown == [kv EXCEPT !.tree = add_child([@ EXCEPT ![c] = new], st.parent, c)]
            kw == RetainBlocks(grown, blocks)
<1>1. /\ st \in Cursors /\ Sound(kv) /\ kv.rq = rq
      /\ Fine(kv) => InPlace(st, rq[s])
  BY DEF Publishing
<1>2. /\ kv \in Spaces /\ st.parent \in Nodes /\ st.from \in Nat /\ st.at \in Nat
      /\ st.slot \in Nat
  BY <1>1, CursorFields
<1>3. /\ q \in Requests /\ q.table \in Seq(Runs) /\ Len(q.table) \in Nat
      /\ q.ntok \in 0 .. MAX_SEQ_TOKENS /\ q.tok \in [1 .. MAX_SEQ_TOKENS -> Nat]
  BY <1>2, SlotTable, RequestFields
<1>4. CASE ~Fine(kv) \/ st.from = q.ntok
  <2>1. sw = st
    BY <1>4 DEF AddNode, NodeBelow, Fine
  <2>2. rq[s] = q
    BY <1>1
  <2>. QED
    BY <1>4, <2>1, <2>2 DEF Turned
<1>5. CASE /\ Fine(kv) /\ st.from # q.ntok
           /\ st.at + nb - 1 > Len(q.table) \/ DeadNodes(kv.tree) = {}
  <2>1. sw = [st EXCEPT !.kv = Fail(kv)]
    BY <1>5 DEF AddNode, NodeBelow, Fine
  <2>2. Sound(Fail(kv)) /\ ~Fine(Fail(kv)) /\ Fail(kv).rq = kv.rq /\ Fail(kv) \in Spaces
    BY <1>1, <1>2, FailOK, WithFail
  <2>3. sw \in Cursors /\ sw.kv = Fail(kv)
    BY <1>1, <2>1, <2>2, CursorFail
  <2>4. Fail(kv).tree = kv.tree
    BY <1>1, FailOK
  <2>. QED
    BY <1>1, <2>2, <2>3, <2>4 DEF Publishing, Turned
<1>6. CASE /\ Fine(kv) /\ st.from # q.ntok
           /\ ~(st.at + nb - 1 > Len(q.table)) /\ DeadNodes(kv.tree) # {}
  <2>1. sw = [kv |-> kw, parent |-> c, from |-> st.from + take,
              at |-> st.at + stop \div block_size, slot |-> stop % block_size]
    BY <1>6 DEF AddNode, NodeBelow, Fine
  <2>2. /\ st.parent \in Up(kv.tree) /\ st.from < q.ntok
        /\ st.at \in 1 .. Len(q.table) + 1
        /\ st.at <= Len(q.table) => st.slot < block_size
    BY <1>1, <1>2, <1>3, <1>6 DEF InPlace
  <2>3. /\ take \in 1 .. MAX_NODE_TOKENS /\ st.from + take \in 0 .. q.ntok
        /\ st.slot < block_size /\ st.at <= Len(q.table)
        /\ nb \in 1 .. MAX_NODE_BLOCKS /\ st.at + nb - 1 <= Len(q.table)
        /\ st.at + stop \div block_size \in 1 .. Len(q.table) + 1
        /\ stop % block_size \in 0 .. block_size - 1
    <3>1. q.ntok \in Nat
      BY <1>3, TheConstants
    <3>2. /\ take = TakeFrom(st.slot, st.from, q.ntok)
          /\ stop = st.slot + take /\ nb = ceil_div(stop, block_size)
      BY DEF TakeFrom
    <3>3. take \in Int
      <4>. DEFINE a == MAX_NODE_BLOCKS * block_size - st.slot
                  d == q.ntok - st.from
      <4>1. a \in Int /\ d \in Int /\ MAX_NODE_TOKENS \in Int
        BY <1>2, <3>1, TheConstants, SMTT(60)
      <4>. HIDE DEF a, d
      <4>2. Min({MAX_NODE_TOKENS, a, d}) \in {MAX_NODE_TOKENS, a, d}
        BY <4>1, MinOfThree, Zenon
      <4>. QED
        BY <4>1, <4>2 DEF a, d
    <3>. HIDE DEF take
    <3>4. stop \in Int /\ nb \in Int
      BY <1>2, <3>3, TheConstants DEF ceil_div
    <3>. HIDE DEF stop, nb, q
    <3>5. st.at + nb - 1 <= Len(q.table)
      BY <1>2, <1>3, <1>6, <3>4
    <3>6. TakenAs(st.slot, st.from, q.ntok, st.at, Len(q.table), take, stop, nb)
      BY <1>2, <1>3, <2>2, <3>1, <3>2, <3>5, NodeTakes
    <3>. QED
      BY <3>5, <3>6 DEF TakenAs
  <2>. HIDE DEF take, stop
  <2>4. blocks \in Seq(Blocks) /\ Len(blocks) = nb /\ AllHeld(kv, blocks)
    <3>1. nb \in Nat /\ nb >= 1 /\ st.at >= 1 /\ end <= Len(q.table)
      BY <2>2, <2>3, TheConstants
    <3>2. end = st.at + nb - 1 /\ q.table = kv.rq[s].table
          /\ blocks = TableBlocks(SubSeq(q.table, st.at, end))
      OBVIOUS
    <3>. HIDE DEF nb, q, end, blocks
    <3>3. st.at + nb - 1 <= Len(q.table)
      BY <3>1, <3>2
    <3>. QED
      BY <1>1, <1>2, <3>1, <3>2, <3>3, EntriesHeld
  <2>5. tokens \in Seq(Nat) /\ Len(tokens) = take
    <3>. DEFINE i == st.from + 1
                j == st.from + take
    <3>1. q.tok \in Seq(Nat) /\ Len(q.tok) = MAX_SEQ_TOKENS
      <4>. DEFINE T == q.tok
      <4>1. T \in [1 .. MAX_SEQ_TOKENS -> Nat] /\ MAX_SEQ_TOKENS \in Nat
        BY <1>3, TheConstants
      <4>. HIDE DEF T, q
      <4>2. T \in Seq(Nat)
        BY <4>1, SeqDef
      <4>3. Len(T) = MAX_SEQ_TOKENS
        BY <4>1, <4>2, LenProperties
      <4>. QED
        BY <4>2, <4>3 DEF T
    <3>. DEFINE a == st.from
                n == q.ntok
    <3>2. a \in Nat /\ take \in Nat \ {0} /\ a + take \in 0 .. n /\ n \in 0 .. MAX_SEQ_TOKENS
          /\ MAX_SEQ_TOKENS \in Nat
      BY <1>2, <1>3, <2>3, TheConstants
    <3>a. i = a + 1 /\ j = a + take
      OBVIOUS
    <3>. HIDE DEF i, j, q, a, n
    <3>b. i \in 1 .. MAX_SEQ_TOKENS + 1 /\ j \in 0 .. MAX_SEQ_TOKENS /\ i <= j + 1
          /\ (j + 1) - i = take
      BY <3>2, <3>a
    <3>3. SubSeq(q.tok, i, j) \in Seq(Nat) /\ Len(SubSeq(q.tok, i, j)) = (j + 1) - i
      BY <3>1, <3>b, PartIs, SMTT(60)
    <3>. QED
      BY <3>3, <3>b DEF i, j
  <2>. HIDE DEF tokens, blocks
  <2>6. IsNode(new, INVALID, <<>>, tokens, st.slot, blocks)
    BY <1>2, <2>4, <2>5, NewNodeIs
  <2>. HIDE DEF new, c
  <2>7. /\ Sound(kw) /\ kw.rq = kv.rq /\ c \in Up(kw.tree) /\ c \in Nodes
        /\ c \in Nodes \ Up(kv.tree)
        /\ AddIs(kv.tree, kw.tree, st.parent, c, tokens, st.slot, blocks)
    <3>1. GrownWith(kv, grown, new, st.parent, c) /\ kw = RetainBlocks(grown, blocks)
      BY DEF GrownWith
    <3>2. Fits(kv, tokens, st.slot, blocks)
      <4>1. Len(blocks) = ceil_div(st.slot + Len(tokens), block_size)
            /\ Len(blocks) <= MAX_NODE_BLOCKS /\ Len(tokens) \in 1 .. MAX_NODE_TOKENS
        BY <2>3, <2>4, <2>5, TheConstants DEF nb, stop
      <4>. HIDE DEF nb
      <4>. QED
        BY <1>2, <2>3, <2>4, <2>5, <4>1 DEF Fits
    <3>3. c = NextNode(kv.tree)
      BY DEF c
    <3>4. /\ Sound(kv) /\ Fine(kv) /\ DeadNodes(kv.tree) # {} /\ st.parent \in Up(kv.tree)
      BY <1>1, <1>6, <2>2
    <3>5. Unhung(new, tokens, st.slot, blocks)
      BY <2>6, Zenon DEF Unhung
    <3>. HIDE DEF grown, kw, kv
    <3>. QED
      BY <3>1, <3>2, <3>3, <3>4, <3>5, NodeHungOK
  <2>. HIDE DEF kw, nb
  <2>8. kw \in Spaces
    BY <2>7, SoundIsSpace
  <2>9. /\ st.from + take \in Nat /\ st.at + stop \div block_size \in Nat
        /\ stop % block_size \in Nat /\ stop % block_size < block_size
        /\ st.from + take <= q.ntok
    BY <1>3, <2>3, TheConstants, SMTT(60)
  <2>10. /\ sw \in Cursors /\ sw.kv = kw /\ sw.parent = c /\ sw.from = st.from + take
         /\ sw.at = st.at + stop \div block_size /\ sw.slot = stop % block_size
    <3>. DEFINE a == st.from + take
                d == st.at + stop \div block_size
                e == stop % block_size
    <3>1. a \in Nat /\ d \in Nat /\ e \in Nat
      BY <2>9
    <3>2. sw = [kv |-> kw, parent |-> c, from |-> a, at |-> d, slot |-> e]
      BY <2>1
    <3>. HIDE DEF a, d, e
    <3>3. sw \in Cursors /\ sw.kv = kw /\ sw.parent = c /\ sw.from = a /\ sw.at = d /\ sw.slot = e
      BY <2>7, <2>8, <3>1, <3>2, CursorMade
    <3>. QED
      BY <3>3 DEF a, d, e
  <2>11. rq[s] = q
    BY <1>1
  <2>12. InPlace(sw, rq[s])
    <3>. HIDE DEF q
    <3>. QED
      BY <2>3, <2>7, <2>9, <2>10, <2>11 DEF InPlace
  <2>13. NodeAdded(st, sw, rq[s])
    <3>1. take \in Nat \ {0}
      BY <2>3, TheConstants
    <3>2. AddIs(st.kv.tree, sw.kv.tree, st.parent, c,
                SubSeq(rq[s].tok, st.from + 1, st.from + take), st.slot, blocks)
      BY <2>7, <2>10, <2>11 DEF tokens
    <3>3. st.from + take <= rq[s].ntok
      BY <2>9, <2>11
    <3>. HIDE DEF q
    <3>. QED
      BY <1>6, <2>2, <2>7, <2>10, <3>1, <3>2, <3>3 DEF NodeAdded
  <2>. QED
    BY <1>1, <2>7, <2>10, <2>12, <2>13 DEF Publishing, Turned
<1>. QED
  BY <1>4, <1>5, <1>6

\* All of commit's loop.
LEMMA AddNodesOK ==
    ASSUME NEW s \in Slots, NEW rq, NEW st, Publishing(st, rq, s),
           st.from <= st.kv.rq[s].ntok, NEW sw, sw = AddNodes(st, s)
    PROVE  Publishing(sw, rq, s)
<1>. DEFINE n == st.kv.rq[s].ntok - st.from
            V == [i \in 0 .. n |-> {x \in Cursors : Publishing(x, rq, s)}]
            F == [i \in 1 .. n |-> [k \in V[i - 1] |-> AddNode(k, s)]]
            h == CHOOSE h : h = [i \in 0 .. n |-> IF i = 0 THEN st ELSE AddNode(h[i - 1], s)]
<1>0. st \in Cursors
  BY DEF Publishing
<1>n. n \in Nat
  <2>1. st.kv \in Spaces /\ st.from \in Nat
    BY <1>0, CursorFields
  <2>2. st.kv.rq[s].ntok \in 0 .. MAX_SEQ_TOKENS
    BY <2>1, SlotTable, RequestFields
  <2>. DEFINE m == st.kv.rq[s].ntok
              f == st.from
  <2>3. m \in Nat /\ f \in Nat /\ f <= m
    BY <2>1, <2>2, TheConstants
  <2>. HIDE DEF m, f
  <2>4. m - f \in Nat
    BY <2>3
  <2>. QED
    BY <2>4 DEF m, f
<1>2. st \in V[0]
  <2>. HIDE DEF n
  <2>. QED
    BY <1>n, <1>0
<1>3. ASSUME NEW i \in 1 .. n, NEW k \in V[i - 1]
      PROVE  AddNode(k, s) \in V[i]
  <2>. DEFINE j == i - 1
  <2>1. j \in 0 .. n /\ i \in 0 .. n
    BY <1>n
  <2>. HIDE DEF n
  <2>2. k \in V[j]
    OBVIOUS
  <2>. HIDE DEF j
  <2>3. Publishing(k, rq, s)
    BY <2>1, <2>2
  <2>4. Publishing(AddNode(k, s), rq, s)
    BY <2>3, AddNodeOK
  <2>5. AddNode(k, s) \in Cursors
    BY <2>4 DEF Publishing
  <2>. QED
    BY <2>1, <2>4, <2>5
<1>. HIDE DEF V
<1>4. \A i \in 1 .. n : \A k \in V[i - 1] : F[i][k] = AddNode(k, s)
  OBVIOUS
<1>. HIDE DEF F
<1>5. PICK g : LoopIs(n, V, F, st, g)
  <2>1. \A i \in 1 .. n : \A k \in V[i - 1] : F[i][k] \in V[i]
    BY <1>3, <1>4
  <2>. HIDE DEF n, h
  <2>2. IsLoop(n, V, F, st)
    BY <1>n, <1>2, <2>1 DEF IsLoop
  <2>. QED
    BY <2>2, LoopRuns
<1>6. g = [i \in 0 .. n |-> IF i = 0 THEN st ELSE AddNode(g[i - 1], s)]
  <2>. HIDE DEF n, h
  <2>0. /\ g = [i \in 0 .. n |-> g[i]]
        /\ g[0] = st
        /\ \A i \in 1 .. n : g[i] = F[i][g[i - 1]]
        /\ \A i \in 0 .. n : g[i] \in V[i]
    BY <1>5 DEF LoopIs
  <2>1. \A i \in 1 .. n : g[i - 1] \in V[i - 1]
    BY <1>n, <2>0
  <2>2. \A i \in 1 .. n : g[i] = AddNode(g[i - 1], s)
    BY <1>4, <2>0, <2>1
  <2>3. ASSUME NEW i \in 0 .. n PROVE g[i] = IF i = 0 THEN st ELSE AddNode(g[i - 1], s)
    <3>1. CASE i = 0
      BY <2>0, <3>1
    <3>2. CASE i # 0
      <4>1. i \in 1 .. n
        BY <1>n, <3>2, SMTT(60)
      <4>. QED
        BY <2>2, <3>2, <4>1
    <3>. QED
      BY <3>1, <3>2
  <2>. QED
    BY <2>0, <2>3
<1>7. h = [i \in 0 .. n |-> IF i = 0 THEN st ELSE AddNode(h[i - 1], s)]
  <2>1. \E e : e = [i \in 0 .. n |-> IF i = 0 THEN st ELSE AddNode(e[i - 1], s)]
    BY <1>6
  <2>. QED
    BY <2>1
<1>8. sw = h[n]
  BY DEF AddNodes
<1>. HIDE DEF h
<1>9. \A i \in 0 .. n : h[i] \in V[i]
  <2>1. h[0] = st /\ \A i \in 1 .. n : h[i] = AddNode(h[i - 1], s)
    BY <1>n, <1>7
  <2>2. \A i \in 1 .. n : h[i - 1] \in V[i - 1] => h[i] \in V[i]
    BY <1>3, <2>1
  <2>. HIDE DEF n
  <2>. QED
    BY <1>n, <1>2, <2>1, <2>2, LoopTurn
<1>10. h[n] \in V[n]
  BY <1>n, <1>9
<1>11. Publishing(h[n], rq, s)
  <2>. HIDE DEF n
  <2>. QED
    BY <1>n, <1>10 DEF V
<1>. QED
  BY <1>8, <1>11

\* Where commit starts is an entry of the table, inside its block, or the end.
LEMMA CursorOK ==
    ASSUME NEW table \in Seq(Runs), NEW k \in Nat
    PROVE  /\ Cursor(table, k) \in 1 .. Len(table) + 1
           /\ SlotAt(table, k) \in Nat
           /\ Cursor(table, k) <= Len(table) => SlotAt(table, k) < block_size
<1>. DEFINE T == TokensIn(table)
            n == Len(table)
            held == {i \in 1 .. n : T[i] > k}
            at == Cursor(table, k)
<1>1. n \in Nat /\ \A i \in 1 .. n : table[i] \in Runs
  BY LenProperties, ElementOfSeq
<1>2. /\ T[0] = 0 /\ \A i \in 0 .. n : T[i] \in Nat
      /\ \A i \in 1 .. n : T[i] = T[i - 1] + table[i].len
  BY TokensInIs
<1>3. at = IF held = {} THEN n + 1 ELSE Min(held)
  BY DEF Cursor
<1>4. SlotAt(table, k) = (k - T[at - 1]) + IF at <= n THEN table[at].start ELSE 0
  BY DEF SlotAt
<1>. HIDE DEF T, n, at
<1>5. CASE held = {}
  <2>1. at = n + 1
    BY <1>3, <1>5
  <2>2. T[n] <= k /\ T[n] \in Nat
    <3>1. CASE n = 0
      BY <1>2, <3>1
    <3>2. CASE n # 0
      <4>1. n \in 1 .. n /\ n \in 0 .. n
        BY <1>1, <3>2
      <4>2. ~(T[n] > k) /\ T[n] \in Nat
        BY <1>2, <1>5, <4>1
      <4>. QED
        BY <4>2
    <3>. QED
      BY <3>1, <3>2
  <2>3. at - 1 = n
    BY <1>1, <2>1
  <2>4. SlotAt(table, k) = (k - T[n]) + 0
    BY <1>1, <1>4, <2>1, <2>3
  <2>5. SlotAt(table, k) \in Nat
    BY <2>2, <2>4
  <2>. QED
    BY <1>1, <2>1, <2>5 DEF at, n
<1>6. CASE held # {}
  <2>1. held \in SUBSET Nat
    BY <1>1
  <2>2. Min(held) \in held /\ \A i \in held : Min(held) <= i
    <3>. HIDE DEF held
    <3>. QED
      BY <1>6, <2>1, MinOf
  <2>3. at \in 1 .. n /\ T[at] > k /\ \A i \in held : at <= i
    BY <1>3, <1>6, <2>2
  <2>. DEFINE j == at - 1
  <2>4. j \in 0 .. n /\ j < at
    BY <1>1, <2>3
  <2>5. T[j] <= k /\ T[j] \in Nat /\ T[at] = T[j] + table[at].len
    <3>1. T[at] = T[j] + table[at].len
      BY <1>2, <2>3
    <3>. HIDE DEF j
    <3>2. CASE j = 0
      BY <1>2, <3>1, <3>2
    <3>3. CASE j # 0
      <4>1. j \in 1 .. n /\ j \notin held
        <5>1. j \in 1 .. n /\ at \in Nat
          BY <1>1, <2>3, <2>4, <3>3
        <5>2. ~(at <= j)
          BY <1>1, <2>4, <5>1
        <5>. QED
          BY <2>3, <5>1, <5>2
      <4>2. ~(T[j] > k)
        BY <4>1
      <4>3. T[j] \in Nat
        BY <1>2, <2>4
      <4>. QED
        BY <3>1, <4>2, <4>3
    <3>. QED
      BY <3>2, <3>3
  <2>6. table[at].start \in Nat /\ table[at].len \in Nat /\ block_size \in Nat
        /\ table[at].start + table[at].len <= block_size
    BY <1>1, <2>3, RunFields, TheConstants
  <2>7. SlotAt(table, k) = (k - T[j]) + table[at].start
    BY <1>1, <1>4, <2>3
  <2>. HIDE DEF j
  <2>8. SlotAt(table, k) \in Nat /\ SlotAt(table, k) < block_size
    <3>. DEFINE a == T[j]
                d == T[at]
                e == table[at].len
                f == table[at].start
    <3>1. a \in Nat /\ e \in Nat /\ f \in Nat /\ d = a + e /\ d > k /\ a <= k
          /\ f + e <= block_size
      BY <2>3, <2>5, <2>6
    <3>. HIDE DEF a, d, e, f
    <3>2. (k - a) + f \in Nat /\ (k - a) + f < block_size
      BY <2>6, <3>1
    <3>. QED
      BY <2>7, <3>2 DEF a, f
  <2>9. at \in 1 .. n + 1
    BY <1>1, <2>3
  <2>. QED
    BY <2>8, <2>9 DEF at, n
<1>. QED
  BY <1>5, <1>6

\* A request whose last block is no longer its own.
LEMMA WithPriv ==
    ASSUME NEW q \in Requests, NEW fresh \in BOOLEAN, NEW r, r = [q EXCEPT !.priv = fresh]
    PROVE  /\ r \in Requests /\ r.table = q.table /\ r.ntok = q.ntok /\ r.tok = q.tok
           /\ r.id = q.id /\ r.live = q.live /\ r.priv = fresh
<1>1. q = [live |-> q.live, id |-> q.id, ntok |-> q.ntok, priv |-> q.priv, tok |-> q.tok,
           table |-> q.table]
  BY DEF Requests
<1>2. r = [live |-> q.live, id |-> q.id, ntok |-> q.ntok, priv |-> fresh, tok |-> q.tok,
           table |-> q.table]
  BY <1>1
<1>. QED
  BY <1>2, RequestFields DEF Requests

\* What commit leaves of the request it publishes.
SameRequest(q, r) == r.table = q.table /\ r.ntok = q.ntok /\ r.tok = q.tok /\ r.live = q.live

LEMMA CommittedOK ==
    ASSUME NEW kv, Sound(kv), NEW s \in Slots, NEW kw, kw = Committed(kv, s)
    PROVE  /\ Sound(kw) /\ (Fine(kw) <=> Fine(kv)) /\ kw.tree = kv.tree
           /\ SameRequest(kv.rq[s], kw.rq[s])
           /\ \A r \in Slots \ {s} : kw.rq[r] = kv.rq[r]
<1>1. CASE ~Fine(kv)
  <2>1. kw = kv
    BY <1>1, Zenon DEF Committed, Fine
  <2>. QED
    BY <2>1 DEF SameRequest
<1>2. CASE Fine(kv)
  <2>. DEFINE q == kv.rq[s]
              no == FALSE
              r == [q EXCEPT !.priv = no]
  <2>1. kv \in Spaces /\ q \in Requests /\ SlotOK(q) /\ no \in BOOLEAN
    BY SoundIsSpace, SlotTable DEF Sound
  <2>2. kw = [kv EXCEPT !.rq[s] = r]
    BY <1>2 DEF Committed, Fine
  <2>3. ~no
    OBVIOUS
  <2>. HIDE DEF no
  <2>4. /\ r \in Requests /\ r.table = q.table /\ r.ntok = q.ntok /\ r.tok = q.tok
        /\ r.id = q.id /\ r.live = q.live /\ r.priv = no
    <3>. HIDE DEF q
    <3>. QED
      BY <2>1, WithPriv
  <2>. HIDE DEF r
  <2>5. /\ kw \in Spaces /\ kw.rq[s] = r /\ kw.pool = kv.pool /\ kw.tree = kv.tree
        /\ kw.ok = kv.ok /\ \A p \in Slots \ {s} : kw.rq[p] = kv.rq[p]
    BY <2>1, <2>2, <2>4, WithSlot
  <2>6. SlotOK(r)
    <3>1. ~r.priv
      BY <2>3, <2>4, Zenon
    <3>. HIDE DEF q
    <3>. QED
      BY <2>1, <2>4, <3>1 DEF SlotOK
  <2>7. Sound(kw)
    <3>1. SlotOK(kw.rq[s]) /\ kw.rq[s].table = kv.rq[s].table
      BY <2>4, <2>5, <2>6
    <3>. HIDE DEF q
    <3>. QED
      BY <2>5, <3>1, SoundSlot
  <2>8. Fine(kw) <=> Fine(kv)
    BY <2>5, Zenon DEF Fine
  <2>. QED
    BY <2>4, <2>5, <2>7, <2>8 DEF SameRequest
<1>. QED
  BY <1>1, <1>2

\* The tokens commit looks up and publishes.
LEMMA TokensOfIs ==
    ASSUME NEW kv \in Spaces, NEW s \in Slots
    PROVE  tokens_of(kv, s) \in Seq(Nat) /\ Len(tokens_of(kv, s)) = kv.rq[s].ntok
<1>. DEFINE T == kv.rq[s].tok
            n == kv.rq[s].ntok
<1>1. T \in [1 .. MAX_SEQ_TOKENS -> Nat] /\ n \in 0 .. MAX_SEQ_TOKENS /\ MAX_SEQ_TOKENS \in Nat
  BY SlotTable, RequestFields, TheConstants
<1>. HIDE DEF T, n
<1>2. T \in Seq(Nat)
  BY <1>1, SeqDef
<1>3. Len(T) = MAX_SEQ_TOKENS
  BY <1>1, <1>2, LenProperties
<1>4. SubSeq(T, 1, n) \in Seq(Nat) /\ Len(SubSeq(T, 1, n)) = n
  <2>1. n \in 0 .. Len(T)
    BY <1>1, <1>3
  <2>. QED
    BY <1>2, <2>1, PartsOf
<1>. QED
  BY <1>4 DEF tokens_of, T, n

\* commit leaves the space in order, whether it raises or not, and the page
\* tables as they were.
THEOREM CommitOK ==
    ASSUME NEW kv, Sound(kv), Fine(kv), NEW s \in Slots, NEW kw, kw = commit(kv, s)
    PROVE  /\ Sound(kw) /\ SameRequest(kv.rq[s], kw.rq[s])
           /\ \A r \in Slots \ {s} : kw.rq[r] = kv.rq[r]
<1>. DEFINE toks == tokens_of(kv, s)
            m == match(kv.tree, toks)
            q == kv.rq[s]
            seen == [kv EXCEPT !.tree = m.tree]
            partly == /\ m.path # <<>>
                      /\ Last(m.path).used < Len(m.tree[Last(m.path).node].tokens)
            first == IF partly THEN SplitLast(seen, m.path) ELSE seen
            parent == IF m.path = <<>> THEN ROOT ELSE Last(m.path).node
            at == Cursor(q.table, m.matched)
            slot == SlotAt(q.table, m.matched)
            start == [kv |-> first, parent |-> parent, from |-> m.matched, at |-> at,
                      slot |-> slot]
            sw == AddNodes(start, s)
<1>1. /\ kv \in Spaces /\ kv.tree \in [Nodes -> TreeNodes] /\ Formed(kv.tree, {})
  BY SoundIsSpace, SpaceFields DEF Sound
<1>2. toks \in Seq(Nat) /\ Len(toks) = q.ntok
  BY <1>1, TokensOfIs
<1>3. q \in Requests /\ q.table \in Seq(Runs) /\ q.ntok \in 0 .. MAX_SEQ_TOKENS
  BY <1>1, SlotTable, RequestFields
<1>4. kw = IF ~m.ok THEN Fail(kv) ELSE Committed(sw.kv, s)
  BY DEF commit, CommitBelow
<1>5. MatchOK(kv.tree, toks, m)
  <2>1. m = match(kv.tree, toks)
    OBVIOUS
  <2>. HIDE DEF m, toks
  <2>. QED
    BY <1>1, <1>2, <2>1, MatchIsOK
<1>. HIDE DEF m, toks
<1>6. /\ m.path \in Seq(Hops(kv.tree)) /\ m.matched \in Nat /\ m.matched <= q.ntok
      /\ m.tree \in [Nodes -> TreeNodes] /\ SameTree(kv.tree, m.tree)
  BY <1>2, <1>5 DEF MatchOK
<1>7. /\ seen \in Spaces /\ seen.pool = kv.pool /\ seen.tree = m.tree /\ seen.rq = kv.rq
      /\ seen.ok = kv.ok
  BY <1>1, <1>6, WithTree
<1>. HIDE DEF seen
<1>8. Sound(seen) /\ Fine(seen) /\ Hops(seen.tree) = Hops(kv.tree)
  <2>1. SameTree(kv.tree, seen.tree)
    BY <1>6, <1>7
  <2>2. Fine(seen)
    BY <1>7, Zenon DEF Fine
  <2>. QED
    BY <1>1, <1>7, <2>1, <2>2, SoundLookup, SameTreeOK
<1>9. ASSUME m.path # <<>>
      PROVE  /\ Last(m.path).node \in AliveNodes(seen.tree) /\ Last(m.path).node \in Nodes
  <2>1. m.path \in Seq(Hops(seen.tree))
    BY <1>6, <1>8
  <2>2. Last(m.path) \in Hops(seen.tree)
    BY <1>9, <2>1, LastOf
  <2>. QED
    BY <2>2 DEF Hops
<1>10. /\ Sound(first) /\ first.rq = kv.rq
       /\ Fine(first) => parent \in Up(first.tree)
       /\ parent \in Nodes
  <2>1. parent \in Nodes
    BY <1>9, TheConstants
  <2>2. CASE partly
    <3>1. m.path \in Seq(Hops(seen.tree))
      BY <1>6, <1>8
    <3>2. Last(m.path).used < Len(seen.tree[Last(m.path).node].tokens) /\ m.path # <<>>
      BY <1>7, <2>2
    <3>3. first = SplitLast(seen, m.path) /\ parent = Last(m.path).node
      BY <2>2
    <3>. HIDE DEF first, parent, partly
    <3>4. /\ Sound(first) /\ first.rq = seen.rq
          /\ Fine(first) => Last(m.path).node \in AliveNodes(first.tree)
      BY <1>8, <3>1, <3>2, <3>3, SplitLastOK
    <3>5. AliveNodes(first.tree) \subseteq Up(first.tree)
      BY Zenon DEF AliveNodes, Up
    <3>. QED
      BY <1>7, <2>1, <3>3, <3>4, <3>5
  <2>3. CASE ~partly
    <3>1. first = seen
      BY <2>3
    <3>2. parent \in Up(seen.tree)
      <4>1. CASE m.path = <<>>
        <5>1. parent = ROOT
          BY <4>1
        <5>2. seen.tree[ROOT].alive
          BY <1>8, Zenon DEF Sound, Formed
        <5>. HIDE DEF parent
        <5>. QED
          BY <5>1, <5>2, TheConstants, Zenon DEF Up
      <4>2. CASE m.path # <<>>
        <5>1. parent = Last(m.path).node
          BY <4>2
        <5>2. AliveNodes(seen.tree) \subseteq Up(seen.tree)
          BY Zenon DEF AliveNodes, Up
        <5>. HIDE DEF parent
        <5>. QED
          BY <1>9, <4>2, <5>1, <5>2
      <4>. QED
        BY <4>1, <4>2
    <3>. HIDE DEF parent, first, partly
    <3>. QED
      BY <1>7, <1>8, <2>1, <3>1, <3>2
  <2>. HIDE DEF first, parent, partly
  <2>. QED
    BY <2>2, <2>3
<1>. HIDE DEF first, parent, partly
<1>11. /\ at \in 1 .. Len(q.table) + 1 /\ slot \in Nat
       /\ at <= Len(q.table) => slot < block_size
  <2>. DEFINE table == q.table
              k == m.matched
  <2>1. table \in Seq(Runs) /\ k \in Nat
    BY <1>3, <1>6
  <2>. HIDE DEF table, k
  <2>2. /\ Cursor(table, k) \in 1 .. Len(table) + 1 /\ SlotAt(table, k) \in Nat
        /\ Cursor(table, k) <= Len(table) => SlotAt(table, k) < block_size
    BY <2>1, CursorOK
  <2>. QED
    BY <2>2 DEF table, k
<1>12. at \in Nat
  BY <1>3, <1>11, LenProperties
<1>. HIDE DEF at, slot
<1>13. /\ start \in Cursors /\ start.kv = first /\ start.parent = parent
       /\ start.from = m.matched /\ start.at = at /\ start.slot = slot
  <2>1. first \in Spaces
    BY <1>10, SoundIsSpace
  <2>. QED
    BY <1>6, <1>10, <1>11, <1>12, <2>1, CursorMade
<1>. HIDE DEF start
<1>14. Publishing(start, kv.rq, s)
  <2>1. Fine(start.kv) => InPlace(start, kv.rq[s])
    BY <1>6, <1>10, <1>11, <1>13 DEF InPlace
  <2>. QED
    BY <1>10, <1>13, <2>1 DEF Publishing
<1>15. Publishing(sw, kv.rq, s)
  <2>1. start.from <= start.kv.rq[s].ntok
    BY <1>6, <1>10, <1>13
  <2>. QED
    BY <1>14, <2>1, AddNodesOK
<1>. HIDE DEF sw
<1>16. Sound(sw.kv) /\ sw.kv.rq = kv.rq
  BY <1>15 DEF Publishing
<1>17. CASE ~m.ok
  <2>1. kw = Fail(kv)
    BY <1>4, <1>17
  <2>2. Sound(kw) /\ kw.rq = kv.rq
    BY <2>1, FailOK
  <2>. QED
    BY <2>2 DEF SameRequest
<1>18. CASE m.ok
  <2>1. kw = Committed(sw.kv, s)
    BY <1>4, <1>18
  <2>2. /\ Sound(kw) /\ SameRequest(sw.kv.rq[s], kw.rq[s])
        /\ \A r \in Slots \ {s} : kw.rq[r] = sw.kv.rq[r]
    BY <1>16, <2>1, CommittedOK, SMTT(60)
  <2>. QED
    BY <1>16, <2>2
<1>. QED
  BY <1>17, <1>18
=============================================================================
