-------------------------- MODULE SchedulerProofs --------------------------
(***************************************************************************)
(* The scheduler's two books agree after every loop iteration, admission   *)
(* keeps what was promised within the watermark, and so only the cache     *)
(* can force a preemption.  Then what a tick hands to the engine: a        *)
(* refused arrival leaves nothing of its tick behind, the action stays     *)
(* within the token budget, a cancelled request gets nothing, and the plan *)
(* says what the book says.  For every batch size, budget, block size,     *)
(* capacity and set of arrivals.                                           *)
(***************************************************************************)
EXTENDS Scheduler, FiniteSetTheorems, SequenceTheorems, TLAPS

\* The blocks of the slots of L, h[s] of them for s, one element for each.
Cells(L, h) == UNION {{s} \X (1 .. h[s]) : s \in L}
-----------------------------------------------------------------------------
(* Arithmetic of block counts.                                             *)

LEMMA DivNat ==
    ASSUME NEW n \in Nat, NEW b \in Nat \ {0}
    PROVE  n \div b \in Nat
BY SMT

LEMMA TimesMonotone ==
    ASSUME NEW x \in Nat, NEW y \in Nat, NEW b \in Nat, x <= y
    PROVE  b * x <= b * y /\ b * x \in Nat /\ b * y \in Nat
BY SMT

LEMMA TimesSucc ==
    ASSUME NEW x \in Nat, NEW b \in Nat
    PROVE  b * (x + 1) = b * x + b
BY SMT

LEMMA DivMonotone ==
    ASSUME NEW m \in Nat, NEW n \in Nat, NEW b \in Nat \ {0}, m <= n
    PROVE  m \div b <= n \div b
<1> DEFINE x == m \div b
           y == n \div b
<1>1. x \in Nat /\ y \in Nat
  BY DivNat
<1>2. /\ m % b \in 0 .. b - 1 /\ n % b \in 0 .. b - 1
      /\ m = b * x + (m % b) /\ n = b * y + (n % b)
  BY SMT
<1>3. SUFFICES ASSUME y + 1 <= x PROVE FALSE
  BY <1>1
<1>4. b * (y + 1) <= b * x /\ b * (y + 1) = b * y + b /\ b * x \in Nat /\ b * y \in Nat
  BY <1>1, <1>3, TimesMonotone, TimesSucc
<1> HIDE DEF x, y
<1>5. QED
  BY <1>1, <1>2, <1>4

\* More tokens never need fewer blocks.
LEMMA BlocksForMonotone ==
    ASSUME NEW m \in Nat, NEW n \in Nat, m <= n
    PROVE  blocks_for(m) \in Nat /\ blocks_for(n) \in Nat /\ blocks_for(m) <= blocks_for(n)
<1>1. block_size \in Nat \ {0}
  BY SchedAssumption
<1>2. \A k \in Nat : blocks_for(k) \in Nat
  <2>1. TAKE k \in Nat
  <2>2. CASE k = 0
    BY <2>2 DEF blocks_for
  <2>3. CASE k > 0
    <3>1. k + block_size - 1 \in Nat
      BY <1>1, <2>3
    <3>2. (k + block_size - 1) \div block_size \in Nat
      BY <1>1, <3>1, DivNat
    <3>3. QED
      BY <2>3, <3>2 DEF blocks_for
  <2>4. QED
    BY <2>2, <2>3
<1>3. CASE m = 0
  BY <1>2, <1>3 DEF blocks_for
<1>4. CASE m > 0
  <2>1. /\ m + block_size - 1 \in Nat /\ n + block_size - 1 \in Nat
        /\ m + block_size - 1 <= n + block_size - 1
    BY <1>1, <1>4
  <2>2. (m + block_size - 1) \div block_size <= (n + block_size - 1) \div block_size
    BY <1>1, <2>1, DivMonotone
  <2>3. blocks_for(m) = (m + block_size - 1) \div block_size
    BY <1>4 DEF blocks_for
  <2>4. blocks_for(n) = (n + block_size - 1) \div block_size
    BY <1>4 DEF blocks_for
  <2>5. QED
    BY <1>2, <2>2, <2>3, <2>4
<1>5. QED
  BY <1>3, <1>4

LEMMA ThresholdWithinCapacity ==
    threshold_blocks \in Nat /\ threshold_blocks <= capacity_blocks
<1>1. capacity_blocks \in Nat /\ watermark_permille \in 0 .. 1000
  BY SchedAssumption
<1>2. /\ capacity_blocks * watermark_permille \in Nat
      /\ capacity_blocks * watermark_permille <= 1000 * capacity_blocks
  BY <1>1, SMT
<1>3. QED
  BY <1>1, <1>2, SMT DEF threshold_blocks
-----------------------------------------------------------------------------
(* Sums over slots.                                                        *)

LEMMA CellsFinite ==
    ASSUME NEW L, IsFiniteSet(L), NEW h, \A s \in L : h[s] \in Nat
    PROVE  IsFiniteSet(Cells(L, h)) /\ Cardinality(Cells(L, h)) \in Nat
<1> DEFINE Part(s) == {s} \X (1 .. h[s])
<1>1. \A s \in L : IsFiniteSet(Part(s))
  <2>1. TAKE s \in L
  <2>2. h[s] \in Int /\ 1 \in Int
    OBVIOUS
  <2>3. IsFiniteSet({s}) /\ IsFiniteSet(1 .. h[s])
    BY <2>2, FS_Singleton, FS_Interval
  <2>4. QED
    BY <2>3, FS_Product
<1> DEFINE f == [s \in L |-> Part(s)]
           Parts == {Part(s) : s \in L}
<1>2. f \in Surjection(L, Parts)
  BY DEF Surjection
<1>3. IsFiniteSet(Parts)
  <2> HIDE DEF f, Parts
  <2> QED
    BY <1>2, FS_Surjection
<1>4. IsFiniteSet(UNION Parts)
  <2>1. \A T \in Parts : IsFiniteSet(T)
    BY <1>1
  <2> HIDE DEF Parts
  <2>2. QED
    BY <1>3, <2>1, FS_UNION
<1>5. UNION Parts = Cells(L, h)
  BY DEF Cells
<1>6. QED
  BY <1>4, <1>5, FS_CardinalityType

\* One slot more adds its own blocks.
LEMMA CellsAdd ==
    ASSUME NEW L, IsFiniteSet(L), NEW h, NEW s, s \notin L,
           \A t \in L \cup {s} : h[t] \in Nat
    PROVE  Cardinality(Cells(L \cup {s}, h)) = Cardinality(Cells(L, h)) + h[s]
<1> DEFINE Own == {s} \X (1 .. h[s])
<1>1. Cells(L \cup {s}, h) = Cells(L, h) \cup Own
  BY DEF Cells
<1>2. Cells(L, h) \cap Own = {}
  BY DEF Cells
<1>3. IsFiniteSet(Cells(L, h)) /\ Cardinality(Cells(L, h)) \in Nat
  BY CellsFinite
<1>4. IsFiniteSet({s}) /\ Cardinality({s}) = 1
  BY FS_Singleton
<1>5. h[s] \in Nat
  OBVIOUS
<1>6. IsFiniteSet(1 .. h[s]) /\ Cardinality(1 .. h[s]) = h[s]
  <2>1. \A n \in Nat : IsFiniteSet(1 .. n) /\ Cardinality(1 .. n) = n
    <3>1. SUFFICES ASSUME NEW n \in Nat
                   PROVE  IsFiniteSet(1 .. n) /\ Cardinality(1 .. n) = n
      OBVIOUS
    <3>2. n \in Int /\ 1 \in Int
      BY <3>1
    <3>3. IsFiniteSet(1 .. n) /\ Cardinality(1 .. n) = IF 1 > n THEN 0 ELSE n - 1 + 1
      BY <3>2, FS_Interval
    <3>4. QED
      BY <3>1, <3>3
  <2>2. QED
    BY <1>5, <2>1
<1>7. IsFiniteSet(Own) /\ Cardinality(Own) = 1 * h[s]
  BY <1>4, <1>6, FS_Product
<1>8. Cardinality(Cells(L, h) \cup Own)
        = Cardinality(Cells(L, h)) + Cardinality(Own) - Cardinality({})
  BY <1>2, <1>3, <1>7, FS_Union
<1>9. Cardinality({}) = 0
  BY FS_EmptySet
<1>10. 1 * h[s] = h[s]
  BY <1>5
<1> HIDE DEF Own
<1>11. Cardinality(Own) = h[s]
  BY <1>7, <1>10
<1>12. Cardinality(Cells(L \cup {s}, h)) = Cardinality(Cells(L, h)) + h[s] - 0
  BY <1>1, <1>8, <1>9, <1>11
<1>13. QED
  BY <1>3, <1>5, <1>12

\* Fewer blocks for each of fewer slots are fewer blocks.
LEMMA CellsMonotone ==
    ASSUME NEW L, NEW M, IsFiniteSet(M), L \subseteq M, NEW g, NEW h,
           \A s \in L : g[s] \in Nat /\ g[s] <= h[s], \A s \in M : h[s] \in Nat
    PROVE  Cardinality(Cells(L, g)) <= Cardinality(Cells(M, h))
<1>1. Cells(L, g) \subseteq Cells(M, h)
  <2>1. \A s \in L : 1 .. g[s] \subseteq 1 .. h[s]
    OBVIOUS
  <2>2. QED
    BY <2>1 DEF Cells
<1>2. IsFiniteSet(Cells(M, h))
  BY CellsFinite
<1>3. QED
  BY <1>1, <1>2, FS_Subset

LEMMA CellsSame ==
    ASSUME NEW L, NEW g, NEW h, \A s \in L : g[s] = h[s]
    PROVE  Cells(L, g) = Cells(L, h)
BY DEF Cells

\* One slot may come, go or change.
LEMMA CellsChange ==
    ASSUME NEW L, NEW M, IsFiniteSet(L), IsFiniteSet(M),
           NEW g, NEW h, \A t \in L : g[t] \in Nat, \A t \in M : h[t] \in Nat,
           NEW s, L \ {s} = M \ {s}, \A t \in L \ {s} : g[t] = h[t]
    PROVE  Cardinality(Cells(M, h)) = Cardinality(Cells(L, g))
             - (IF s \in L THEN g[s] ELSE 0) + (IF s \in M THEN h[s] ELSE 0)
<1> DEFINE R == L \ {s}
<1>1. IsFiniteSet(R) /\ s \notin R /\ R = M \ {s}
  BY FS_Subset
<1>2. Cells(R, g) = Cells(R, h)
  BY CellsSame
<1>3. /\ Cardinality(Cells(R, g)) \in Nat
      /\ Cardinality(Cells(L, g)) \in Nat /\ Cardinality(Cells(M, h)) \in Nat
  <2>1. \A t \in R : g[t] \in Nat
    OBVIOUS
  <2>2. QED
    BY <1>1, <2>1, CellsFinite
<1>4. s \in L => /\ g[s] \in Nat
                 /\ Cardinality(Cells(L, g)) = Cardinality(Cells(R, g)) + g[s]
  <2>1. SUFFICES ASSUME s \in L
                 PROVE  /\ g[s] \in Nat
                        /\ Cardinality(Cells(L, g)) = Cardinality(Cells(R, g)) + g[s]
    OBVIOUS
  <2>2. L = R \cup {s} /\ \A t \in R \cup {s} : g[t] \in Nat
    BY <2>1
  <2>3. Cardinality(Cells(R \cup {s}, g)) = Cardinality(Cells(R, g)) + g[s]
    BY <1>1, <2>2, CellsAdd
  <2>4. QED
    BY <2>1, <2>2, <2>3
<1>5. s \in M => /\ h[s] \in Nat
                 /\ Cardinality(Cells(M, h)) = Cardinality(Cells(R, h)) + h[s]
  <2>1. SUFFICES ASSUME s \in M
                 PROVE  /\ h[s] \in Nat
                        /\ Cardinality(Cells(M, h)) = Cardinality(Cells(R, h)) + h[s]
    OBVIOUS
  <2>2. M = R \cup {s} /\ \A t \in R \cup {s} : h[t] \in Nat
    BY <1>1, <2>1
  <2>3. Cardinality(Cells(R \cup {s}, h)) = Cardinality(Cells(R, h)) + h[s]
    BY <1>1, <2>2, CellsAdd
  <2>4. QED
    BY <2>1, <2>2, <2>3
<1>6. /\ s \notin L => L = R
      /\ s \notin M => M = R
  BY <1>1
<1> HIDE DEF R
<1>7. CASE s \in L /\ s \in M
  BY <1>2, <1>3, <1>4, <1>5, <1>7
<1>8. CASE s \in L /\ s \notin M
  <2>1. Cardinality(Cells(M, h)) = Cardinality(Cells(R, g))
    BY <1>2, <1>6, <1>8
  <2>2. QED
    BY <1>3, <1>4, <1>8, <2>1
<1>9. CASE s \notin L /\ s \in M
  <2>1. Cardinality(Cells(L, g)) = Cardinality(Cells(R, h))
    BY <1>2, <1>6, <1>9
  <2>2. QED
    BY <1>3, <1>5, <1>9, <2>1
<1>10. CASE s \notin L /\ s \notin M
  <2>1. Cardinality(Cells(L, g)) = Cardinality(Cells(M, h))
    BY <1>2, <1>6, <1>10
  <2>2. QED
    BY <1>3, <1>10, <2>1
<1>11. QED
  BY <1>7, <1>8, <1>9, <1>10
-----------------------------------------------------------------------------
(* The two sums of the scheduler.                                          *)

HeldOf  == [s \in Slots |-> held(s)]
WholeOf == [s \in Slots |-> whole(s)]

LEMMA LiveFinite ==
    IsFiniteSet(Slots) /\ IsFiniteSet(Live) /\ IsFiniteSet(Live')
      /\ Live \subseteq Slots /\ Live' \subseteq Slots
<1>1. IsFiniteSet(Slots)
  BY SchedAssumption, FS_Interval DEF Slots
<1>2. Live \subseteq Slots /\ Live' \subseteq Slots
  BY DEF Live, Slots
<1>3. QED
  BY <1>1, <1>2, FS_Subset

\* A live request never holds more than it was admitted for.
LEMMA HeldWithinWhole ==
    ASSUME RequestsOK
    PROVE  \A s \in Slots : /\ held(s) \in Nat /\ whole(s) \in Nat
                            /\ held(s) <= whole(s)
<1>1. TAKE s \in Slots
<1>2. /\ done[s] + generated[s] \in Nat /\ prompt_len[s] + max_new[s] \in Nat
      /\ done[s] + generated[s] <= prompt_len[s] + max_new[s]
  BY DEF RequestsOK, FREE, WAITING, RUNNING
<1>3. QED
  BY <1>2, BlocksForMonotone DEF held, whole

LEMMA HeldWithinWholeNext ==
    ASSUME RequestsOK'
    PROVE  \A s \in Slots : held(s)' \in Nat /\ whole(s)' \in Nat
<1>1. TAKE s \in Slots
<1>2. done'[s] + generated'[s] \in Nat /\ prompt_len'[s] + max_new'[s] \in Nat
  BY DEF RequestsOK
<1>3. QED
  BY <1>2, BlocksForMonotone DEF held, whole

LEMMA SumsAreCells ==
    /\ blocks_held = Cardinality(Cells(Live, HeldOf))
    /\ blocks_held' = Cardinality(Cells(Live', HeldOf'))
    /\ committed = Cardinality(Cells(Live, WholeOf))
    /\ committed' = Cardinality(Cells(Live', WholeOf'))
<1>1. HeldBlocks = Cells(Live, HeldOf) /\ HeldBlocks' = Cells(Live', HeldOf')
  BY DEF HeldBlocks, Cells, HeldOf, Live
<1>2. /\ CommittedBlocks = Cells(Live, WholeOf)
      /\ CommittedBlocks' = Cells(Live', WholeOf')
  BY DEF CommittedBlocks, Cells, WholeOf, Live
<1>3. QED
  BY <1>1, <1>2 DEF blocks_held, committed

\* A step that concerns one slot changes the sums by that slot's share.
LEMMA HeldChange ==
    ASSUME RequestsOK, RequestsOK', NEW s \in Slots, Live \ {s} = Live' \ {s},
           \A t \in Live \ {s} : held(t)' = held(t)
    PROVE  /\ blocks_held \in Nat /\ blocks_held' \in Nat
           /\ blocks_held' = blocks_held - (IF s \in Live THEN held(s) ELSE 0)
                               + (IF s \in Live' THEN held(s)' ELSE 0)
<1>1. /\ \A t \in Live : HeldOf[t] \in Nat
      /\ \A t \in Live' : HeldOf'[t] \in Nat
      /\ \A t \in Live \ {s} : HeldOf[t] = HeldOf'[t]
  BY HeldWithinWhole, HeldWithinWholeNext, LiveFinite DEF HeldOf
<1>2. HeldOf[s] = held(s) /\ HeldOf'[s] = held(s)'
  BY DEF HeldOf
<1>3. Cardinality(Cells(Live', HeldOf')) = Cardinality(Cells(Live, HeldOf))
        - (IF s \in Live THEN HeldOf[s] ELSE 0) + (IF s \in Live' THEN HeldOf'[s] ELSE 0)
  BY <1>1, LiveFinite, CellsChange
<1>4. /\ Cardinality(Cells(Live, HeldOf)) \in Nat
      /\ Cardinality(Cells(Live', HeldOf')) \in Nat
  BY <1>1, LiveFinite, CellsFinite
<1>5. QED
  BY <1>2, <1>3, <1>4, SumsAreCells

LEMMA CommittedChange ==
    ASSUME RequestsOK, RequestsOK', NEW s \in Slots, Live \ {s} = Live' \ {s},
           \A t \in Live \ {s} : whole(t)' = whole(t)
    PROVE  /\ committed \in Nat /\ committed' \in Nat
           /\ committed' = committed - (IF s \in Live THEN whole(s) ELSE 0)
                             + (IF s \in Live' THEN whole(s)' ELSE 0)
<1>1. /\ \A t \in Live : WholeOf[t] \in Nat
      /\ \A t \in Live' : WholeOf'[t] \in Nat
      /\ \A t \in Live \ {s} : WholeOf[t] = WholeOf'[t]
  BY HeldWithinWhole, HeldWithinWholeNext, LiveFinite DEF WholeOf
<1>2. WholeOf[s] = whole(s) /\ WholeOf'[s] = whole(s)'
  BY DEF WholeOf
<1>3. Cardinality(Cells(Live', WholeOf')) = Cardinality(Cells(Live, WholeOf))
        - (IF s \in Live THEN WholeOf[s] ELSE 0) + (IF s \in Live' THEN WholeOf'[s] ELSE 0)
  BY <1>1, LiveFinite, CellsChange
<1>4. /\ Cardinality(Cells(Live, WholeOf)) \in Nat
      /\ Cardinality(Cells(Live', WholeOf')) \in Nat
  BY <1>1, LiveFinite, CellsFinite
<1>5. QED
  BY <1>2, <1>3, <1>4, SumsAreCells

LEMMA HeldSame ==
    ASSUME Live' = Live, \A t \in Live : held(t)' = held(t)
    PROVE  blocks_held' = blocks_held
<1>1. \A t \in Live : HeldOf[t] = HeldOf'[t]
  BY LiveFinite DEF HeldOf
<1>2. QED
  BY <1>1, CellsSame, SumsAreCells

LEMMA CommittedSame ==
    ASSUME Live' = Live, \A t \in Live : whole(t)' = whole(t)
    PROVE  committed' = committed
<1>1. \A t \in Live : WholeOf[t] = WholeOf'[t]
  BY LiveFinite DEF WholeOf
<1>2. QED
  BY <1>1, CellsSame, SumsAreCells

LEMMA HeldWithinCommitted ==
    ASSUME RequestsOK
    PROVE  blocks_held \in Nat /\ committed \in Nat /\ blocks_held <= committed
<1>1. \A s \in Live : /\ HeldOf[s] \in Nat /\ WholeOf[s] \in Nat
                      /\ HeldOf[s] <= WholeOf[s]
  BY HeldWithinWhole, LiveFinite DEF HeldOf, WholeOf
<1>2. Cardinality(Cells(Live, HeldOf)) <= Cardinality(Cells(Live, WholeOf))
  BY <1>1, LiveFinite, CellsMonotone
<1>3. QED
  BY <1>1, <1>2, LiveFinite, CellsFinite, SumsAreCells
-----------------------------------------------------------------------------
(* The inductive invariant.                                                *)

\* What this tick has admitted so far has written nothing, so taking it back
\* leaves the books as they are.
ArrivalsAreFresh ==
    pc = "arrive" =>
      at >= 1 /\ \A s \in AdmittedSoFar : done[s] = 0 /\ generated[s] = 0

ListsOK == preempted \in Seq(Nat) /\ inp.arrived \in Seq(Offers)

IInv ==
    /\ TypeOK
    /\ ListsOK
    /\ ArrivalsAreFresh
    /\ BooksBalance
    /\ CommittedWithinWatermark

LEMMA InitIInv == Init => IInv
<1> SUFFICES ASSUME Init PROVE IInv
  OBVIOUS
<1> USE SchedAssumption
<1>1. RequestsOK
  BY DEF Init, RequestsOK, FREE, WAITING, RUNNING
<1>2. Live = {}
  BY DEF Init, Live, FREE
<1>3. blocks_held = 0 /\ committed = 0
  BY <1>2, FS_EmptySet DEF blocks_held, committed, HeldBlocks, CommittedBlocks
<1>4. TypeOK
  BY <1>1 DEF Init, TypeOK
<1>5. ListsOK
  BY DEF Init, ListsOK
<1>6. ArrivalsAreFresh
  BY DEF Init, ArrivalsAreFresh
<1>7. BooksBalance
  BY <1>3 DEF Init, BooksBalance
<1>8. CommittedWithinWatermark
  BY <1>3, ThresholdWithinCapacity DEF CommittedWithinWatermark
<1>9. QED
  BY <1>4, <1>5, <1>6, <1>7, <1>8 DEF IInv

\* A step that touches no request leaves the sums alone.
LEMMA RequestsUnchanged ==
    ASSUME IInv, UNCHANGED request
    PROVE  /\ RequestsOK' /\ blocks_held' = blocks_held /\ blocks_held \in Nat
           /\ CommittedWithinWatermark'
<1>1. Live' = Live /\ \A t \in Live : held(t)' = held(t) /\ whole(t)' = whole(t)
  BY DEF request, Live, held, whole
<1>2. RequestsOK'
  BY DEF IInv, TypeOK, RequestsOK, request
<1>3. blocks_held' = blocks_held /\ committed' = committed
  BY <1>1, HeldSame, CommittedSame
<1>4. blocks_held \in Nat
  BY HeldWithinCommitted DEF IInv, TypeOK
<1>5. QED
  BY <1>2, <1>3, <1>4 DEF IInv, CommittedWithinWatermark, threshold_blocks

LEMMA TickStep ==
    ASSUME IInv, NextTick
    PROVE  IInv'
<1>1. PICK freed, arrived, reports, cancelled :
        /\ freed \in 0 .. cached_blocks + 1
        /\ arrived \in Lists({a \in Offers : \A i \in DOMAIN seen : seen[i] # a.id}, ARRIVALS)
        /\ Tick(freed, cancelled, reports, arrived)
  BY DEF NextTick
<1>2. arrived \in Seq(Offers)
  <2> DEFINE New == {a \in Offers : \A i \in DOMAIN seen : seen[i] # a.id}
  <2>1. PICK n \in 0 .. ARRIVALS : arrived \in [1 .. n -> New]
    BY <1>1 DEF Lists
  <2>2. n \in Nat /\ arrived \in [1 .. n -> Offers]
    BY <2>1, SchedAssumption
  <2>3. QED
    BY <2>2, SeqDef
<1>3. UNCHANGED request
  BY <1>1 DEF Tick
<1>4. /\ RequestsOK' /\ blocks_held' = blocks_held /\ blocks_held \in Nat
      /\ CommittedWithinWatermark'
  BY <1>3, RequestsUnchanged
<1>5. CASE FreedAccounted(freed)
  <2>1. /\ cached_blocks' = cached_blocks - freed
        /\ blocks_used' = blocks_used - freed
        /\ raised' = "no" /\ pc' = "cancel" /\ at' = 1
    BY <1>1, <1>5 DEF Tick, Goto
  <2>2. BooksBalance' /\ blocks_used' \in Nat /\ cached_blocks' \in Nat
    <3>1. freed \in Nat
      BY <1>1 DEF IInv, TypeOK
    <3>2. QED
      BY <1>4, <1>5, <2>1, <3>1 DEF IInv, TypeOK, BooksBalance, FreedAccounted
  <2>3. QED
    BY <1>1, <1>2, <1>4, <2>1, <2>2, SchedAssumption
    DEF Tick, IInv, TypeOK, ListsOK, ArrivalsAreFresh
<1>6. CASE ~FreedAccounted(freed)
  <2>1. UNCHANGED books /\ raised' = "freed" /\ pc' = "idle" /\ at' = 0
    BY <1>1, <1>6 DEF Tick, Goto
  <2>2. BooksBalance' /\ blocks_used' \in Nat /\ cached_blocks' \in Nat
    BY <1>4, <2>1 DEF IInv, TypeOK, BooksBalance, books
  <2>3. QED
    BY <1>1, <1>2, <1>4, <2>1, <2>2, SchedAssumption
    DEF Tick, IInv, TypeOK, ListsOK, ArrivalsAreFresh
<1>7. QED
  BY <1>5, <1>6
-----------------------------------------------------------------------------
\* A request that leaves gives back what it held and what it was promised.
LEMMA ClearOne ==
    ASSUME IInv, NEW s \in Live, Clear(s)
    PROVE  /\ RequestsOK' /\ blocks_held \in Nat /\ blocks_held' \in Nat
           /\ blocks_held' = blocks_held - held(s)
           /\ held(s) \in Nat /\ whole(s) \in Nat
           /\ CommittedWithinWatermark'
<1>1. s \in Slots /\ Live' = Live \ {s}
  BY DEF Live, Clear, IInv, TypeOK, RequestsOK
<1>2. RequestsOK'
  BY <1>1, SchedAssumption DEF Clear, IInv, TypeOK, RequestsOK, FREE, WAITING, RUNNING
<1>3. \A t \in Live \ {s} : held(t)' = held(t) /\ whole(t)' = whole(t)
  BY <1>1 DEF Live, Clear, held, whole, IInv, TypeOK, RequestsOK
<1>4. Live \ {s} = Live' \ {s} /\ s \notin Live'
  BY <1>1
<1>5. RequestsOK
  BY DEF IInv, TypeOK
<1>6. held(s) \in Nat /\ whole(s) \in Nat
  BY <1>1, <1>5, HeldWithinWhole
<1>7. /\ blocks_held \in Nat /\ blocks_held' \in Nat
      /\ blocks_held' = blocks_held - held(s)
  BY <1>1, <1>2, <1>3, <1>4, <1>5, <1>6, HeldChange
<1>8. /\ committed \in Nat /\ committed' \in Nat
      /\ committed' = committed - whole(s)
  BY <1>1, <1>2, <1>3, <1>4, <1>5, <1>6, CommittedChange
<1>9. threshold_blocks' = threshold_blocks /\ threshold_blocks \in Nat
  BY ThresholdWithinCapacity DEF threshold_blocks
<1>10. CommittedWithinWatermark'
  BY <1>6, <1>8, <1>9 DEF IInv, CommittedWithinWatermark
<1>11. QED
  BY <1>2, <1>6, <1>7, <1>10

LEMMA CancelStep ==
    ASSUME IInv, Cancel
    PROVE  IInv'
<1>1. CASE at > Len(inp.cancelled)
  <2>1. UNCHANGED <<request, books>> /\ pc' = "report" /\ at' = 1
    BY <1>1 DEF Cancel, Goto
  <2>2. /\ RequestsOK' /\ blocks_held' = blocks_held /\ blocks_held \in Nat
        /\ CommittedWithinWatermark'
    BY <2>1, RequestsUnchanged
  <2>3. QED
    BY <2>1, <2>2
    DEF Cancel, IInv, TypeOK, ListsOK, ArrivalsAreFresh, BooksBalance, books, action, call
<1>2. CASE at <= Len(inp.cancelled)
  <2>1. pc' = "cancel" /\ at' = at + 1
    BY <1>2 DEF Cancel, Goto, IInv, TypeOK
  <2>2. CASE \E s \in Slots : /\ Finds(s, inp.cancelled[at])
                              /\ Clear(s)
                              /\ blocks_used' = blocks_used - held(s)
                              /\ UNCHANGED cached_blocks
    <3>1. PICK s \in Live : /\ Clear(s)
                            /\ blocks_used' = blocks_used - held(s)
                            /\ cached_blocks' = cached_blocks
      BY <2>2 DEF Finds
    <3>2. /\ RequestsOK' /\ blocks_held \in Nat /\ blocks_held' \in Nat
          /\ blocks_held' = blocks_held - held(s) /\ held(s) \in Nat
          /\ CommittedWithinWatermark'
      BY <3>1, ClearOne
    <3>3. BooksBalance' /\ blocks_used' \in Nat /\ cached_blocks' \in Nat
      BY <3>1, <3>2 DEF IInv, TypeOK, BooksBalance
    <3>4. QED
      BY <2>1, <3>2, <3>3
      DEF Cancel, IInv, TypeOK, ListsOK, ArrivalsAreFresh, action, call
  <2>3. CASE UNCHANGED <<request, books>>
    <3>1. /\ RequestsOK' /\ blocks_held' = blocks_held /\ blocks_held \in Nat
          /\ CommittedWithinWatermark'
      BY <2>3, RequestsUnchanged
    <3>2. QED
      BY <2>1, <2>3, <3>1
      DEF Cancel, IInv, TypeOK, ListsOK, ArrivalsAreFresh, BooksBalance, books, action, call
  <2>4. QED
    BY <1>2, <2>2, <2>3 DEF Cancel, IInv, TypeOK
<1>3. QED
  BY <1>1, <1>2 DEF IInv, TypeOK

\* A finished request's blocks pass from the live to the cached.
LEMMA ClearToCache ==
    ASSUME IInv, NEW s \in Live, NEW tokens \in Nat, NEW need \in Int,
           tokens <= prompt_len[s] + max_new[s],
           need = blocks_for(tokens) - held(s),
           Clear(s), ToCache(s, tokens, need)
    PROVE  /\ RequestsOK' /\ BooksBalance' /\ CommittedWithinWatermark'
           /\ blocks_used' \in Nat /\ cached_blocks' \in Nat
<1>1. /\ RequestsOK' /\ blocks_held \in Nat /\ blocks_held' \in Nat
      /\ blocks_held' = blocks_held - held(s)
      /\ held(s) \in Nat /\ whole(s) \in Nat
      /\ CommittedWithinWatermark'
  BY ClearOne
<1>2. blocks_for(tokens) \in Nat
  BY BlocksForMonotone
<1>3. /\ blocks_used' = blocks_used + need + (whole(s) - blocks_for(tokens))
      /\ cached_blocks' = cached_blocks + whole(s)
  BY DEF ToCache, TopUp
<1>4. /\ blocks_used = blocks_held + cached_blocks
      /\ blocks_used \in Nat /\ cached_blocks \in Nat
  BY DEF IInv, BooksBalance, TypeOK
<1>5. /\ blocks_used' = blocks_held' + cached_blocks'
      /\ blocks_used' \in Nat /\ cached_blocks' \in Nat
  BY <1>1, <1>2, <1>3, <1>4
<1>6. QED
  BY <1>1, <1>5 DEF BooksBalance

LEMMA ReportStep ==
    ASSUME IInv, Report
    PROVE  IInv'
<1>1. CASE at > Len(inp.finished)
  <2>1. UNCHANGED <<request, books>> /\ pc' = "wait" /\ at' = 1
    BY <1>1 DEF Report, Goto
  <2>2. /\ RequestsOK' /\ blocks_held' = blocks_held /\ blocks_held \in Nat
        /\ CommittedWithinWatermark'
    BY <2>1, RequestsUnchanged
  <2>3. QED
    BY <2>1, <2>2
    DEF Report, IInv, TypeOK, ListsOK, ArrivalsAreFresh, BooksBalance, books, call
<1>2. CASE at <= Len(inp.finished)
  <2>1. pc' = "report" /\ at' = at + 1
    BY <1>2 DEF Report, Goto, IInv, TypeOK
  <2>2. CASE \E s \in Slots : /\ Finds(s, inp.finished[at])
                              /\ Clear(s)
                              /\ ToCache(s, done[s] + generated[s], 0)
    <3>1. PICK s \in Live : Clear(s) /\ ToCache(s, done[s] + generated[s], 0)
      BY <2>2 DEF Finds
    <3>2. s \in Slots
      BY DEF Live
    <3>3. /\ done[s] + generated[s] \in Nat
          /\ done[s] + generated[s] <= prompt_len[s] + max_new[s]
      BY <3>2 DEF IInv, TypeOK, RequestsOK, FREE, WAITING, RUNNING
    <3>4. 0 = blocks_for(done[s] + generated[s]) - held(s)
      BY <3>3, BlocksForMonotone DEF held
    <3>5. /\ RequestsOK' /\ BooksBalance' /\ CommittedWithinWatermark'
          /\ blocks_used' \in Nat /\ cached_blocks' \in Nat
      BY <3>1, <3>3, <3>4, ClearToCache
    <3>6. QED
      BY <2>1, <3>5 DEF Report, IInv, TypeOK, ListsOK, ArrivalsAreFresh, call
  <2>3. CASE UNCHANGED <<request, books>>
    <3>1. /\ RequestsOK' /\ blocks_held' = blocks_held /\ blocks_held \in Nat
          /\ CommittedWithinWatermark'
      BY <2>3, RequestsUnchanged
    <3>2. QED
      BY <2>1, <2>3, <3>1
      DEF Report, IInv, TypeOK, ListsOK, ArrivalsAreFresh, BooksBalance, books, call
  <2>4. QED
    BY <1>2, <2>2, <2>3 DEF Report, IInv, TypeOK
<1>3. QED
  BY <1>1, <1>2 DEF IInv, TypeOK
-----------------------------------------------------------------------------
LEMMA SumsUnchanged ==
    ASSUME IInv, Live' = Live, UNCHANGED <<prompt_len, max_new, done, generated>>
    PROVE  /\ blocks_held' = blocks_held /\ blocks_held \in Nat
           /\ BooksBalance /\ CommittedWithinWatermark'
<1>1. \A t \in Live : held(t)' = held(t) /\ whole(t)' = whole(t)
  BY DEF held, whole
<1>2. blocks_held' = blocks_held /\ committed' = committed
  BY <1>1, HeldSame, CommittedSame
<1>3. blocks_held \in Nat
  BY HeldWithinCommitted DEF IInv, TypeOK
<1>4. QED
  BY <1>2, <1>3 DEF IInv, CommittedWithinWatermark, threshold_blocks

LEMMA WaitStep ==
    ASSUME IInv, Wait
    PROVE  IInv'
<1>1. pc' = "arrive" /\ at' = 1 /\ UNCHANGED <<inp, preempted, progressed, books, budget, raised>>
  BY DEF Wait, Goto, action, call
<1>2. RequestsOK'
  <2>1. wait_ticks' \in [Slots -> 0 .. max_wait_ticks]
    BY SchedAssumption DEF Wait, IInv, TypeOK, RequestsOK
  <2>2. QED
    BY <2>1 DEF Wait, IInv, TypeOK, RequestsOK
<1>3. Live' = Live
  BY DEF Wait, Live
<1>4. /\ blocks_held' = blocks_held /\ blocks_held \in Nat
      /\ BooksBalance /\ CommittedWithinWatermark'
  BY <1>3, SumsUnchanged DEF Wait
<1>5. AdmittedSoFar' = {}
  BY <1>1 DEF AdmittedSoFar
<1>6. QED
  BY <1>1, <1>2, <1>4, <1>5
  DEF IInv, TypeOK, ListsOK, ArrivalsAreFresh, BooksBalance, books

LEMMA PromoteStep ==
    ASSUME IInv, Promote
    PROVE  IInv'
<1> DEFINE S == {s \in Slots : state[s] = WAITING /\ Prefilled(s)}
<1>1. /\ pc' = "decode" /\ at' = 0
      /\ state' = Without(state, S, RUNNING) /\ wait_ticks' = Without(wait_ticks, S, 0)
  BY DEF Promote, Goto
<1>2. UNCHANGED <<inp, preempted, progressed, books, budget, raised,
                  ids, prompt_len, max_new, done, generated>>
  BY DEF Promote, action, call
<1>3. RequestsOK' /\ Live' = Live
  <2>1. \A s \in Slots : /\ state'[s] = IF s \in S THEN RUNNING ELSE state[s]
                         /\ wait_ticks'[s] = IF s \in S THEN 0 ELSE wait_ticks[s]
    BY <1>1 DEF Without
  <2>2. \A s \in S : /\ s \in Slots /\ state[s] = WAITING
                     /\ done[s] >= prompt_len[s] /\ prompt_len[s] > 0
    BY DEF Prefilled
  <2>3. \A s \in S : generated[s] < max_new[s]
    BY <2>2 DEF IInv, TypeOK, RequestsOK
  <2> HIDE DEF S
  <2>4. Live' = Live
    BY <2>1, <2>2 DEF Live, FREE, WAITING, RUNNING
  <2>5. QED
    BY <1>1, <1>2, <2>1, <2>2, <2>3, <2>4, SchedAssumption
    DEF IInv, TypeOK, RequestsOK, Without, FREE, WAITING, RUNNING
<1>4. /\ blocks_held' = blocks_held /\ blocks_held \in Nat
      /\ BooksBalance /\ CommittedWithinWatermark'
  BY <1>2, <1>3, SumsUnchanged
<1>5. QED
  BY <1>1, <1>2, <1>3, <1>4
  DEF IInv, TypeOK, ListsOK, ArrivalsAreFresh, BooksBalance, books
-----------------------------------------------------------------------------
\* A new request holds nothing yet and is promised its sequence in full.
LEMMA AdmitOne ==
    ASSUME IInv, NEW a \in Offers, NEW s \in Slots \ Live, Admissible(a), admit(s, a)
    PROVE  /\ RequestsOK' /\ Live' = Live \cup {s}
           /\ blocks_held' = blocks_held /\ blocks_held \in Nat
           /\ CommittedWithinWatermark'
<1>1. a.id \in Nat /\ a.prompt_len \in Nat \ {0} /\ a.max_new \in Nat \ {0}
  BY SchedAssumption DEF Admissible
<1>2. RequestsOK
  BY DEF IInv, TypeOK
<1>3. Live' = Live \cup {s}
  BY <1>2 DEF Live, admit, RequestsOK, FREE, WAITING
<1>4. RequestsOK'
  BY <1>1, <1>2, SchedAssumption DEF admit, RequestsOK, FREE, WAITING, RUNNING
<1>5. \A t \in Live : held(t)' = held(t) /\ whole(t)' = whole(t)
  BY <1>2 DEF Live, admit, held, whole, RequestsOK
<1>6. held(s)' = 0 /\ whole(s)' = blocks_for(a.prompt_len + a.max_new)
  BY <1>2 DEF admit, held, whole, blocks_for, RequestsOK
<1>7. Live \ {s} = Live' \ {s} /\ \A t \in Live \ {s} : t \in Live
  BY <1>3
<1>8. /\ blocks_held \in Nat /\ blocks_held' \in Nat
      /\ blocks_held' = blocks_held - 0 + held(s)'
  BY <1>2, <1>3, <1>4, <1>5, <1>7, HeldChange
<1>9. /\ committed \in Nat /\ committed' \in Nat
      /\ committed' = committed - 0 + whole(s)'
  BY <1>2, <1>3, <1>4, <1>5, <1>7, CommittedChange
<1>10. /\ committed + blocks_for(a.prompt_len + a.max_new) <= threshold_blocks
       /\ blocks_for(a.prompt_len + a.max_new) \in Nat
  BY <1>1, BlocksForMonotone DEF Admissible, Fits
<1>11. committed' <= threshold_blocks
  BY <1>6, <1>9, <1>10
<1>12. CommittedWithinWatermark'
  BY <1>11 DEF CommittedWithinWatermark, threshold_blocks
<1>13. QED
  BY <1>3, <1>4, <1>6, <1>8, <1>12

\* Taking back requests that have written nothing gives back no block.
LEMMA RollBackFresh ==
    ASSUME IInv, NEW S \in SUBSET Live, \A s \in S : done[s] = 0 /\ generated[s] = 0,
           RollBack(S)
    PROVE  /\ RequestsOK' /\ blocks_held' = blocks_held /\ blocks_held \in Nat
           /\ CommittedWithinWatermark'
<1>1. RequestsOK
  BY DEF IInv, TypeOK
<1>2. \A s \in Slots :
        /\ state'[s] = IF s \in S THEN FREE ELSE state[s]
        /\ ids'[s] = IF s \in S THEN 0 ELSE ids[s]
        /\ prompt_len'[s] = IF s \in S THEN 0 ELSE prompt_len[s]
        /\ max_new'[s] = IF s \in S THEN 0 ELSE max_new[s]
        /\ done'[s] = IF s \in S THEN 0 ELSE done[s]
        /\ generated'[s] = IF s \in S THEN 0 ELSE generated[s]
        /\ wait_ticks'[s] = IF s \in S THEN 0 ELSE wait_ticks[s]
  BY DEF RollBack, Without
<1>3. RequestsOK'
  BY <1>1, <1>2, SchedAssumption
  DEF RequestsOK, RollBack, Without, FREE, WAITING, RUNNING
<1>4. Live' = Live \ S /\ Live' \subseteq Live
  BY <1>1, <1>2 DEF Live
<1>5. \A t \in Live' : HeldOf'[t] = HeldOf[t] /\ WholeOf'[t] = WholeOf[t]
  BY <1>2, <1>4, LiveFinite DEF HeldOf, WholeOf, held, whole
<1>6. \A t \in S : HeldOf[t] = 0
  BY <1>1, LiveFinite DEF HeldOf, held, blocks_for
<1>7. Cells(Live', HeldOf') = Cells(Live, HeldOf)
  <2>1. \A t \in S : 1 .. HeldOf[t] = {}
    BY <1>6
  <2>2. \A t \in Live : t \in Live' \/ t \in S
    BY <1>4
  <2>3. QED
    BY <1>4, <1>5, <2>1, <2>2 DEF Cells
<1>8. Cardinality(Cells(Live', WholeOf')) <= Cardinality(Cells(Live, WholeOf))
  <2>1. \A t \in Live : WholeOf[t] \in Nat
    BY <1>1, HeldWithinWhole, LiveFinite DEF WholeOf
  <2>2. \A t \in Live' : WholeOf'[t] \in Nat /\ WholeOf'[t] <= WholeOf[t]
    BY <1>4, <1>5, <2>1
  <2>3. QED
    BY <1>4, <2>1, <2>2, LiveFinite, CellsMonotone
<1>9. committed' <= threshold_blocks
  <2>1. committed \in Nat /\ committed <= threshold_blocks /\ committed' <= committed
    BY <1>1, <1>8, HeldWithinCommitted, SumsAreCells DEF IInv, CommittedWithinWatermark
  <2>2. committed' \in Nat
    BY <1>3, <1>4, <1>5, <1>1, HeldWithinWhole, LiveFinite, CellsFinite, SumsAreCells
    DEF WholeOf
  <2>3. QED
    BY <2>1, <2>2, ThresholdWithinCapacity
<1>10. blocks_held \in Nat
  BY <1>1, HeldWithinCommitted
<1>11. QED
  BY <1>3, <1>7, <1>9, <1>10, SumsAreCells DEF CommittedWithinWatermark, threshold_blocks

LEMMA ArriveStep ==
    ASSUME IInv, Arrive
    PROVE  IInv'
<1>1. /\ pc = "arrive" /\ UNCHANGED <<progressed, books, budget, inp>>
      /\ blocks_used' = blocks_used /\ cached_blocks' = cached_blocks
  BY DEF Arrive, books, call
<1>2. CASE at > Len(inp.arrived)
  <2>1. pc' = "promote" /\ at' = 0 /\ UNCHANGED <<request, preempted, raised>>
    BY <1>2 DEF Arrive, Goto, action
  <2>2. /\ RequestsOK' /\ blocks_held' = blocks_held /\ blocks_held \in Nat
        /\ CommittedWithinWatermark'
    BY <2>1, RequestsUnchanged
  <2>3. QED
    BY <1>1, <2>1, <2>2 DEF IInv, TypeOK, ListsOK, ArrivalsAreFresh, BooksBalance
<1>3. CASE at <= Len(inp.arrived)
  <2> DEFINE a == inp.arrived[at]
  <2>1. at \in Nat /\ at >= 1 /\ a \in Offers
    BY <1>1, <1>3 DEF IInv, TypeOK, ListsOK, ArrivalsAreFresh
  <2>2. \A s \in AdmittedSoFar : done[s] = 0 /\ generated[s] = 0
    BY <1>1 DEF IInv, ArrivalsAreFresh
  <2>3. CASE Blocked(a) /\ Goto("arrive", at + 1) /\ UNCHANGED <<request, action, raised>>
    <3>1. pc' = "arrive" /\ at' = at + 1 /\ UNCHANGED <<request, preempted, raised>>
      BY <2>3 DEF Goto, action
    <3>2. /\ RequestsOK' /\ blocks_held' = blocks_held /\ blocks_held \in Nat
          /\ CommittedWithinWatermark'
      BY <3>1, RequestsUnchanged
    <3>3. AdmittedSoFar' \subseteq AdmittedSoFar
      BY <1>1, <2>1, <2>3, <3>1 DEF AdmittedSoFar, Live, Blocked, request
    <3>4. ArrivalsAreFresh'
      BY <2>1, <2>2, <3>1, <3>3 DEF ArrivalsAreFresh, request
    <3>5. QED
      BY <1>1, <2>1, <3>1, <3>2, <3>4 DEF IInv, TypeOK, ListsOK, BooksBalance
  <2>4. CASE /\ ~Blocked(a) /\ Admissible(a)
             /\ \E s \in Slots \ Live :
                  /\ \A t \in Slots \ Live : s <= t
                  /\ admit(s, a)
             /\ Goto("arrive", at + 1)
             /\ UNCHANGED <<action, raised>>
    <3>1. PICK s \in Slots \ Live : admit(s, a)
      BY <2>4
    <3>2. pc' = "arrive" /\ at' = at + 1 /\ UNCHANGED <<preempted, raised>>
      BY <2>4 DEF Goto, action
    <3>3. /\ RequestsOK' /\ Live' = Live \cup {s}
          /\ blocks_held' = blocks_held /\ blocks_held \in Nat
          /\ CommittedWithinWatermark'
      BY <2>1, <2>4, <3>1, AdmitOne
    <3>4. \A t \in AdmittedSoFar' : t = s \/ t \in AdmittedSoFar
      <4>1. SUFFICES ASSUME NEW t \in AdmittedSoFar', t # s
                     PROVE  t \in AdmittedSoFar
        OBVIOUS
      <4>2. t \in Live /\ t \in Slots
        BY <3>3, <4>1 DEF AdmittedSoFar, Live
      <4>3. ids'[t] = ids[t]
        BY <3>1, <4>1, <4>2 DEF admit, IInv, TypeOK, RequestsOK
      <4>4. PICK j \in 1 .. at : ids[t] = inp.arrived[j].id /\ ~Blocked(inp.arrived[j])
        BY <1>1, <2>1, <3>2, <4>1, <4>3 DEF AdmittedSoFar, Blocked
      <4>5. j # at
        BY <2>4, <4>2, <4>4 DEF Admissible, LiveIds
      <4>6. QED
        BY <2>1, <4>2, <4>4, <4>5 DEF AdmittedSoFar
    <3>5. ArrivalsAreFresh'
      <4>1. AdmittedSoFar \subseteq Slots
        BY DEF AdmittedSoFar, Live
      <4>2. \A t \in Slots : /\ done'[t] = IF t = s THEN 0 ELSE done[t]
                             /\ generated'[t] = IF t = s THEN 0 ELSE generated[t]
        BY <3>1 DEF admit, IInv, TypeOK, RequestsOK
      <4>3. QED
        BY <2>1, <2>2, <3>2, <3>4, <4>1, <4>2 DEF ArrivalsAreFresh
    <3>6. QED
      BY <1>1, <2>1, <3>2, <3>3, <3>5 DEF IInv, TypeOK, ListsOK, BooksBalance
  <2>5. CASE RollBack(AdmittedSoFar) /\ Raise("admit")
    <3>1. pc' = "idle" /\ at' = 0 /\ preempted' = <<>> /\ raised' = "admit"
      BY <2>5 DEF Raise, Goto
    <3>2. AdmittedSoFar \in SUBSET Live
      BY DEF AdmittedSoFar
    <3>3. /\ RequestsOK' /\ blocks_held' = blocks_held /\ blocks_held \in Nat
          /\ CommittedWithinWatermark'
      BY <2>2, <2>5, <3>2, RollBackFresh
    <3>4. QED
      BY <1>1, <3>1, <3>3 DEF IInv, TypeOK, ListsOK, ArrivalsAreFresh, BooksBalance
  <2>6. QED
    BY <1>3, <2>1, <2>3, <2>4, <2>5 DEF Arrive, IInv, TypeOK
<1>4. QED
  BY <1>2, <1>3 DEF IInv, TypeOK
-----------------------------------------------------------------------------
\* One live request holds more or less than before; the promises stay.
LEMMA OneHoldsOther ==
    ASSUME IInv, RequestsOK', NEW s \in Live, Live' = Live,
           UNCHANGED <<prompt_len, max_new>>,
           \A t \in Slots \ {s} : done'[t] = done[t] /\ generated'[t] = generated[t]
    PROVE  /\ blocks_held \in Nat /\ blocks_held' \in Nat
           /\ held(s) \in Nat /\ held(s)' \in Nat
           /\ blocks_held' = blocks_held - held(s) + held(s)'
           /\ CommittedWithinWatermark'
<1>1. RequestsOK /\ s \in Slots
  BY LiveFinite DEF IInv, TypeOK
<1>2. \A t \in Live \ {s} : held(t)' = held(t)
  BY LiveFinite DEF held
<1>3. /\ blocks_held \in Nat /\ blocks_held' \in Nat
      /\ blocks_held' = blocks_held - held(s) + held(s)'
  BY <1>1, <1>2, HeldChange
<1>4. held(s) \in Nat /\ held(s)' \in Nat
  BY <1>1, HeldWithinWhole, HeldWithinWholeNext
<1>5. committed' = committed
  <2>1. \A t \in Live : whole(t)' = whole(t)
    BY DEF whole
  <2>2. QED
    BY <2>1, CommittedSame
<1>6. CommittedWithinWatermark'
  BY <1>5 DEF IInv, CommittedWithinWatermark, threshold_blocks
<1>7. QED
  BY <1>3, <1>4, <1>6

\* A preempted request gives back all it holds and keeps its promise.
LEMMA PreemptStep ==
    ASSUME IInv, pc # "arrive", NEW protect, PreemptOne(protect)
    PROVE  IInv'
<1>1. PICK s \in Victims(protect) : Preempt(s)
  BY DEF PreemptOne
<1>2. /\ UNCHANGED <<pc, at, budget, raised, call, progressed>>
      /\ cached_blocks' = cached_blocks /\ inp' = inp
  BY <1>1 DEF PreemptOne, Preempt, call
<1>3. s \in Slots /\ state[s] = RUNNING /\ s \in Live /\ RequestsOK
  BY <1>1 DEF Victims, Live, FREE, RUNNING, IInv, TypeOK
<1>4. RequestsOK' /\ Live' = Live
  <2>1. \A t \in Slots : /\ state'[t] = IF t = s THEN WAITING ELSE state[t]
                         /\ done'[t] = IF t = s THEN 0 ELSE done[t]
                         /\ generated'[t] = IF t = s THEN 0 ELSE generated[t]
                         /\ wait_ticks'[t] = IF t = s THEN 0 ELSE wait_ticks[t]
    BY <1>1, <1>3 DEF Preempt, RequestsOK
  <2>2. UNCHANGED <<ids, prompt_len, max_new>>
    BY <1>1 DEF Preempt
  <2>3. Live' = Live
    BY <1>3, <2>1 DEF Live, FREE, WAITING
  <2>4. max_new[s] > 0
    BY <1>3 DEF RequestsOK
  <2>5. /\ state' \in [Slots -> {FREE, WAITING, RUNNING}]
        /\ done' \in [Slots -> Nat] /\ generated' \in [Slots -> Nat]
        /\ wait_ticks' \in [Slots -> 0 .. max_wait_ticks]
    BY <1>1, <1>3, SchedAssumption DEF Preempt, RequestsOK
  <2>6. QED
    BY <1>3, <2>1, <2>2, <2>3, <2>4, <2>5 DEF RequestsOK, FREE, WAITING, RUNNING
<1>5. /\ UNCHANGED <<prompt_len, max_new>>
      /\ \A t \in Slots \ {s} : done'[t] = done[t] /\ generated'[t] = generated[t]
  BY <1>1, <1>3 DEF Preempt, RequestsOK
<1>6. /\ blocks_held \in Nat /\ blocks_held' \in Nat
      /\ held(s) \in Nat
      /\ blocks_held' = blocks_held - held(s) + held(s)'
      /\ CommittedWithinWatermark'
  BY <1>3, <1>4, <1>5, OneHoldsOther
<1>7. held(s)' = 0
  BY <1>1, <1>3 DEF Preempt, held, blocks_for, RequestsOK
<1>8. BooksBalance' /\ blocks_used' \in Nat /\ cached_blocks' \in Nat
  BY <1>1, <1>2, <1>6, <1>7 DEF Preempt, IInv, TypeOK, BooksBalance
<1>9. ListsOK'
  BY <1>1, <1>2, <1>3 DEF Preempt, IInv, ListsOK, RequestsOK
<1>10. QED
  BY <1>2, <1>4, <1>6, <1>8, <1>9 DEF IInv, TypeOK, ArrivalsAreFresh
-----------------------------------------------------------------------------
\* A token is charged to the request that got it, or to the cache when it was
\* the last one.
LEMMA DecodeOne ==
    ASSUME IInv, NEW s \in Slots, state[s] = RUNNING, Decode(s)
    PROVE  /\ RequestsOK' /\ BooksBalance' /\ CommittedWithinWatermark'
           /\ blocks_used' \in Nat /\ cached_blocks' \in Nat
<1> DEFINE seq  == done[s] + generated[s]
           need == NewBlocks(seq, seq + 1)
<1>1. /\ RequestsOK /\ s \in Live
      /\ done[s] \in Nat /\ generated[s] \in Nat /\ prompt_len[s] \in Nat /\ max_new[s] \in Nat
      /\ done[s] = prompt_len[s] /\ generated[s] < max_new[s]
  BY DEF IInv, TypeOK, RequestsOK, Live, FREE, WAITING, RUNNING
<1>2. seq \in Nat /\ seq + 1 \in Nat /\ seq + 1 <= prompt_len[s] + max_new[s]
  BY <1>1
<1>3. blocks_for(seq) \in Nat /\ blocks_for(seq + 1) \in Nat /\ blocks_for(seq) = held(s)
  BY <1>2, BlocksForMonotone DEF held
<1>4. need \in Int /\ need = blocks_for(seq + 1) - held(s)
  BY <1>3 DEF NewBlocks
<1>5. CASE generated[s] + 1 >= max_new[s]
  <2>1. Clear(s) /\ ToCache(s, seq + 1, need)
    BY <1>5 DEF Decode
  <2> HIDE DEF seq, need
  <2>2. QED
    BY <1>1, <1>2, <1>4, <2>1, ClearToCache
<1>6. CASE generated[s] + 1 < max_new[s]
  <2>1. /\ generated' = [generated EXCEPT ![s] = @ + 1]
        /\ blocks_used' = blocks_used + need
        /\ UNCHANGED <<state, ids, prompt_len, max_new, done, wait_ticks, cached_blocks>>
    BY <1>1, <1>6 DEF Decode
  <2>2. RequestsOK' /\ Live' = Live
    BY <1>1, <1>6, <2>1 DEF RequestsOK, Live, FREE, WAITING, RUNNING
  <2>3. \A t \in Slots \ {s} : done'[t] = done[t] /\ generated'[t] = generated[t]
    BY <1>1, <2>1 DEF RequestsOK
  <2>4. /\ blocks_held \in Nat /\ blocks_held' \in Nat
        /\ held(s) \in Nat /\ held(s)' \in Nat
        /\ blocks_held' = blocks_held - held(s) + held(s)'
        /\ CommittedWithinWatermark'
    BY <1>1, <2>1, <2>2, <2>3, OneHoldsOther
  <2>5. held(s)' = blocks_for(seq + 1)
    <3>1. done'[s] + generated'[s] = seq + 1
      BY <1>1, <2>1 DEF RequestsOK
    <3>2. QED
      BY <3>1 DEF held, blocks_for
  <2>6. BooksBalance' /\ blocks_used' \in Nat /\ cached_blocks' \in Nat
    <3> HIDE DEF seq, need
    <3> QED
      BY <1>4, <2>1, <2>4, <2>5 DEF IInv, TypeOK, BooksBalance
  <2>7. QED
    BY <2>2, <2>4, <2>6
<1>7. QED
  BY <1>1, <1>5, <1>6

LEMMA DecodeStep ==
    ASSUME IInv, DecodePhase
    PROVE  IInv'
<1>1. pc = "decode"
  BY DEF DecodePhase
<1>2. CASE UNCHANGED <<request, books>>
           /\ UNCHANGED <<progressed, budget, inp>>
           /\ preempted' \in {preempted, <<>>}
           /\ pc' \in {"starved", "decode", "idle"} /\ at' \in Nat
           /\ raised' \in {raised, "room"}
  <2>1. /\ RequestsOK' /\ blocks_held' = blocks_held /\ blocks_held \in Nat
        /\ CommittedWithinWatermark'
    BY <1>2, RequestsUnchanged
  <2>2. ListsOK'
    <3>1. <<>> \in Seq(Nat) /\ preempted \in Seq(Nat) /\ inp.arrived \in Seq(Offers)
      BY DEF IInv, ListsOK
    <3>2. QED
      BY <1>2, <3>1 DEF ListsOK
  <2>3. QED
    BY <1>2, <2>1, <2>2 DEF IInv, TypeOK, ArrivalsAreFresh, BooksBalance, books
<1>3. CASE at < MAX_BATCH /\ budget > 0 /\ state[at] = RUNNING
           /\ Decode(at) /\ Goto("decode", at + 1)
  <2>1. at \in Slots
    BY <1>3, SchedAssumption DEF Slots, IInv, TypeOK
  <2>2. /\ RequestsOK' /\ BooksBalance' /\ CommittedWithinWatermark'
        /\ blocks_used' \in Nat /\ cached_blocks' \in Nat
    BY <1>3, <2>1, DecodeOne
  <2>3. /\ budget' = budget - 1 /\ UNCHANGED <<preempted, progressed, raised, inp>>
        /\ pc' = "decode" /\ at' = at + 1
    BY <1>3 DEF Decode, Goto, call
  <2>4. budget' \in 0 .. token_budget
    BY <1>3, <2>3, SchedAssumption DEF IInv, TypeOK
  <2>5. QED
    BY <2>2, <2>3, <2>4 DEF IInv, TypeOK, ListsOK, ArrivalsAreFresh
<1>4. CASE PreemptOne(at)
  BY <1>1, <1>4, PreemptStep
<1>5. QED
  <2>1. at \in Nat /\ MAX_BATCH \in Nat /\ budget \in Int
    BY SchedAssumption DEF IInv, TypeOK
  <2>2. at + 1 \in Nat /\ 0 \in Nat
    BY <2>1
  <2>3. CASE at >= MAX_BATCH \/ budget <= 0
    BY <1>2, <2>2, <2>3 DEF DecodePhase, Goto, books, action, call
  <2>4. CASE at < MAX_BATCH /\ budget > 0 /\ state[at] # RUNNING
    BY <1>2, <2>1, <2>2, <2>4 DEF DecodePhase, Goto, books, action, call
  <2>5. CASE at < MAX_BATCH /\ budget > 0 /\ state[at] = RUNNING
    <3>1. \/ PreemptOne(at)
          \/ Raise("room") /\ UNCHANGED <<request, progressed, books, budget, call>>
          \/ Decode(at) /\ Goto("decode", at + 1)
      BY <2>1, <2>5 DEF DecodePhase
    <3>2. CASE Raise("room") /\ UNCHANGED <<request, progressed, books, budget, call>>
      BY <1>2, <2>2, <3>2 DEF Raise, Goto, call
    <3>3. QED
      BY <1>3, <1>4, <2>5, <3>1, <3>2
  <2>6. QED
    BY <2>1, <2>3, <2>4, <2>5
-----------------------------------------------------------------------------
\* A chunk is charged as it is planned, and ends within the prompt.
LEMMA PrefillOne ==
    ASSUME IInv, NEW s \in Slots, try_prefill(s),
           UNCHANGED <<state, ids, prompt_len, max_new, generated, cached_blocks>>
    PROVE  /\ RequestsOK' /\ BooksBalance' /\ CommittedWithinWatermark'
           /\ blocks_used' \in Nat /\ cached_blocks' \in Nat
           /\ budget' \in 0 .. token_budget /\ progressed' \subseteq Slots
<1>1. RequestsOK /\ budget \in 0 .. token_budget /\ progressed \subseteq Slots
  BY DEF IInv, TypeOK
<1>2. CASE UNCHANGED <<blocks_used, done, progressed, wait_ticks, budget>>
  <2>1. UNCHANGED request
    BY <1>2 DEF request
  <2>2. /\ RequestsOK' /\ blocks_held' = blocks_held /\ blocks_held \in Nat
        /\ CommittedWithinWatermark'
    BY <2>1, RequestsUnchanged
  <2>3. QED
    BY <1>1, <1>2, <2>2 DEF IInv, TypeOK, BooksBalance
<1>3. CASE Servable(s) /\ RoomFor(s)
  <2> DEFINE end == done[s] + Chunk(s)
  <2>1. /\ blocks_used' = blocks_used + NewBlocks(done[s], end)
        /\ done' = [done EXCEPT ![s] = end]
        /\ progressed' = progressed \cup {s}
        /\ wait_ticks' = [wait_ticks EXCEPT ![s] = 0]
        /\ budget' = budget - Chunk(s)
    BY <1>3 DEF try_prefill
  <2>2. /\ done[s] \in Nat /\ prompt_len[s] \in Nat /\ generated[s] = 0
        /\ state[s] = WAITING /\ done[s] < prompt_len[s] /\ budget > 0 /\ s \in Live
    BY <1>1, <1>3 DEF Servable, RequestsOK, Live, FREE, WAITING
  <2>3. Chunk(s) \in 1 .. budget /\ end \in Nat /\ end <= prompt_len[s]
    BY <1>1, <2>2, SchedAssumption DEF Chunk
  <2>4. budget' \in 0 .. token_budget /\ progressed' \subseteq Slots
    BY <1>1, <2>1, <2>3, SchedAssumption
  <2> HIDE DEF end
  <2>5. RequestsOK'
    <3>1. /\ done' \in [Slots -> Nat] /\ wait_ticks' \in [Slots -> 0 .. max_wait_ticks]
          /\ \A t \in Slots : done'[t] = IF t = s THEN end ELSE done[t]
      BY <1>1, <2>1, <2>3, SchedAssumption DEF RequestsOK
    <3>2. QED
      BY <1>1, <2>2, <2>3, <3>1 DEF RequestsOK, FREE, WAITING, RUNNING
  <2>6. Live' = Live /\ \A t \in Slots \ {s} : done'[t] = done[t] /\ generated'[t] = generated[t]
    BY <1>1, <2>1 DEF Live, RequestsOK
  <2>7. /\ blocks_held \in Nat /\ blocks_held' \in Nat
        /\ held(s) \in Nat /\ held(s)' \in Nat
        /\ blocks_held' = blocks_held - held(s) + held(s)'
        /\ CommittedWithinWatermark'
    BY <2>2, <2>5, <2>6, OneHoldsOther
  <2>8. held(s) = blocks_for(done[s]) /\ held(s)' = blocks_for(end)
    <3>1. done[s] + generated[s] = done[s] /\ done'[s] + generated'[s] = end
      BY <1>1, <2>1, <2>2, <2>3 DEF RequestsOK
    <3>2. QED
      BY <3>1 DEF held, blocks_for
  <2>9. BooksBalance' /\ blocks_used' \in Nat /\ cached_blocks' \in Nat
    BY <2>1, <2>7, <2>8 DEF NewBlocks, IInv, TypeOK, BooksBalance
  <2>10. QED
    BY <2>4, <2>5, <2>7, <2>9
<1>4. QED
  BY <1>2, <1>3 DEF try_prefill

\* Both prefill loops, for any choice of the slots they serve.
LEMMA PrefillStep ==
    ASSUME IInv,
           UNCHANGED <<state, ids, prompt_len, max_new, generated, cached_blocks,
                       preempted, raised, inp>>,
           pc' \in {"starved", "prefill", "watermark"}, at' \in Nat,
           \/ UNCHANGED <<blocks_used, done, progressed, wait_ticks, budget>>
           \/ at \in Slots /\ try_prefill(at)
    PROVE  IInv'
<1>1. /\ RequestsOK' /\ BooksBalance' /\ CommittedWithinWatermark'
      /\ blocks_used' \in Nat /\ cached_blocks' \in Nat
      /\ budget' \in 0 .. token_budget /\ progressed' \subseteq Slots
  <2>1. CASE at \in Slots /\ try_prefill(at)
    BY <2>1, PrefillOne
  <2>2. CASE UNCHANGED <<blocks_used, done, progressed, wait_ticks, budget>>
    <3>1. UNCHANGED request
      BY <2>2 DEF request
    <3>2. /\ RequestsOK' /\ blocks_held' = blocks_held /\ blocks_held \in Nat
          /\ CommittedWithinWatermark'
      BY <3>1, RequestsUnchanged
    <3>3. QED
      BY <2>2, <3>2 DEF IInv, TypeOK, BooksBalance
  <2>3. QED
    BY <2>1, <2>2
<1>2. QED
  BY <1>1 DEF IInv, TypeOK, ListsOK, ArrivalsAreFresh

LEMMA SlotReached ==
    ASSUME IInv, ~(at >= MAX_BATCH)
    PROVE  at \in Slots /\ at + 1 \in Nat
BY SchedAssumption DEF IInv, TypeOK, Slots

LEMMA StarvedStep ==
    ASSUME IInv, StarvedPrefill
    PROVE  IInv'
<1>1. /\ UNCHANGED <<state, ids, prompt_len, max_new, generated, cached_blocks,
                     preempted, raised, inp>>
  BY DEF StarvedPrefill, PrefillPhase, call
<1>2. CASE at >= MAX_BATCH
  <2>1. /\ UNCHANGED <<blocks_used, done, progressed, wait_ticks, budget>>
        /\ pc' = "prefill" /\ at' = 0
    BY <1>2 DEF StarvedPrefill, PrefillPhase, Goto
  <2>2. QED
    BY <1>1, <2>1, PrefillStep
<1>3. CASE ~(at >= MAX_BATCH)
  <2>1. at \in Slots /\ at + 1 \in Nat
    BY <1>3, SlotReached
  <2>2. /\ \/ UNCHANGED <<blocks_used, done, progressed, wait_ticks, budget>>
           \/ try_prefill(at)
        /\ pc' = "starved" /\ at' = at + 1
    BY <1>3 DEF StarvedPrefill, PrefillPhase, Goto
  <2>3. QED
    BY <1>1, <2>1, <2>2, PrefillStep
<1>4. QED
  BY <1>2, <1>3

LEMMA OrdinaryStep ==
    ASSUME IInv, OrdinaryPrefill
    PROVE  IInv'
<1>1. /\ UNCHANGED <<state, ids, prompt_len, max_new, generated, cached_blocks,
                     preempted, raised, inp>>
  BY DEF OrdinaryPrefill, PrefillPhase, call
<1>2. CASE at >= MAX_BATCH
  <2>1. /\ UNCHANGED <<blocks_used, done, progressed, wait_ticks, budget>>
        /\ pc' = "watermark" /\ at' = 0
    BY <1>2 DEF OrdinaryPrefill, PrefillPhase, Goto
  <2>2. QED
    BY <1>1, <2>1, PrefillStep
<1>3. CASE ~(at >= MAX_BATCH)
  <2>1. at \in Slots /\ at + 1 \in Nat
    BY <1>3, SlotReached
  <2>2. /\ try_prefill(at)
        /\ pc' = "prefill" /\ at' = at + 1
    BY <1>3, <2>1 DEF OrdinaryPrefill, PrefillPhase, Goto
  <2>3. QED
    BY <1>1, <2>1, <2>2, PrefillStep
<1>4. QED
  BY <1>2, <1>3

LEMMA WatermarkStep ==
    ASSUME IInv, Watermark
    PROVE  IInv'
<1>1. CASE PreemptOne(-1)
  <2>1. pc # "arrive"
    BY DEF Watermark
  <2>2. QED
    BY <1>1, <2>1, PreemptStep
<1>2. CASE /\ Goto("idle", 0)
           /\ UNCHANGED <<request, progressed, books, action, budget, raised, call>>
  <2>1. /\ pc' = "idle" /\ at' = 0
        /\ UNCHANGED <<request, progressed, books, preempted, budget, raised, inp>>
    BY <1>2 DEF Goto, action, call
  <2>2. /\ RequestsOK' /\ blocks_held' = blocks_held /\ blocks_held \in Nat
        /\ CommittedWithinWatermark'
    BY <2>1, RequestsUnchanged
  <2>3. QED
    BY <2>1, <2>2 DEF IInv, TypeOK, ListsOK, ArrivalsAreFresh, BooksBalance, books
<1>3. QED
  BY <1>1, <1>2 DEF Watermark
-----------------------------------------------------------------------------
LEMMA NextIInv ==
    ASSUME IInv, [Next]_vars
    PROVE  IInv'
<1>1. CASE UNCHANGED vars
  <2>1. /\ UNCHANGED request
        /\ UNCHANGED <<progressed, books, preempted, pc, at, budget, raised, inp>>
    BY <1>1 DEF vars, action, call
  <2>2. /\ RequestsOK' /\ blocks_held' = blocks_held /\ blocks_held \in Nat
        /\ CommittedWithinWatermark'
    BY <2>1, RequestsUnchanged
  <2>3. AdmittedSoFar' = AdmittedSoFar
    BY <2>1 DEF AdmittedSoFar, Live, Blocked, request
  <2>4. QED
    BY <2>1, <2>2, <2>3
    DEF IInv, TypeOK, ListsOK, ArrivalsAreFresh, BooksBalance, books, request
<1>2. CASE NextTick
  BY <1>2, TickStep
<1>3. CASE Cancel
  BY <1>3, CancelStep
<1>4. CASE Report
  BY <1>4, ReportStep
<1>5. CASE Wait
  BY <1>5, WaitStep
<1>6. CASE Arrive
  BY <1>6, ArriveStep
<1>7. CASE Promote
  BY <1>7, PromoteStep
<1>8. CASE DecodePhase
  BY <1>8, DecodeStep
<1>9. CASE StarvedPrefill
  BY <1>9, StarvedStep
<1>10. CASE OrdinaryPrefill
  BY <1>10, OrdinaryStep
<1>11. CASE Watermark
  BY <1>11, WatermarkStep
<1>12. QED
  BY <1>1, <1>2, <1>3, <1>4, <1>5, <1>6, <1>7, <1>8, <1>9, <1>10, <1>11 DEF Next, Step

\* The inductive invariant holds in every reachable state.
THEOREM SchedInvariant == Spec => []IInv
<1>1. Init => IInv
  BY InitIInv
<1>2. IInv /\ [Next]_vars => IInv'
  BY NextIInv
<1>3. QED
  BY <1>1, <1>2, PTL DEF Spec

\* step() keeps every slot in order: a waiting request has part of its prompt
\* and no token, a running one all of it and less than it asked for.
THEOREM SchedTypeOK == Spec => []TypeOK
<1>1. IInv => TypeOK
  BY DEF IInv
<1>2. QED
  BY <1>1, SchedInvariant, PTL

\* blocks_used is what the live requests hold and the cache's book together,
\* after every iteration of every loop of step() and every error it raises.
THEOREM BooksAlwaysBalance == Spec => []BooksBalance
<1>1. IInv => BooksBalance
  BY DEF IInv
<1>2. QED
  BY <1>1, SchedInvariant, PTL

\* The sequences in full of everything admitted stay within the watermark.
THEOREM PromisesAreKept == Spec => []CommittedWithinWatermark
<1>1. IInv => CommittedWithinWatermark
  BY DEF IInv
<1>2. QED
  BY <1>1, SchedInvariant, PTL
-----------------------------------------------------------------------------
\* With the cache's book empty, the token that is decoded next always fits.
LEMMA TokenFits ==
    ASSUME IInv, cached_blocks = 0, NEW s \in Slots, state[s] = RUNNING
    PROVE  blocks_used + NewBlocks(done[s] + generated[s], done[s] + generated[s] + 1)
             <= capacity_blocks
<1> DEFINE bumped == blocks_for(done[s] + generated[s] + 1)
           h == [t \in Slots |-> IF t = s THEN bumped ELSE held(t)]
<1>1. RequestsOK /\ s \in Live /\ IsFiniteSet(Live)
  BY LiveFinite DEF IInv, TypeOK, Live, FREE, RUNNING
<1>2. /\ done[s] + generated[s] \in Nat /\ done[s] + generated[s] + 1 \in Nat
      /\ prompt_len[s] + max_new[s] \in Nat
      /\ done[s] + generated[s] + 1 <= prompt_len[s] + max_new[s]
  BY <1>1 DEF RequestsOK, FREE, WAITING, RUNNING
<1>3. bumped \in Nat /\ bumped <= whole(s)
  BY <1>2, BlocksForMonotone DEF whole
<1> HIDE DEF bumped
<1>4. /\ \A t \in Live : HeldOf[t] \in Nat
      /\ \A t \in Live : h[t] \in Nat /\ h[t] <= WholeOf[t]
      /\ \A t \in Live : WholeOf[t] \in Nat
      /\ \A t \in Live \ {s} : HeldOf[t] = h[t]
  BY <1>1, <1>3, HeldWithinWhole, LiveFinite DEF HeldOf, WholeOf
<1>5. h[s] = bumped /\ HeldOf[s] = held(s) /\ held(s) \in Nat
  BY <1>1, HeldWithinWhole DEF HeldOf
<1> HIDE DEF h
<1>6. Cardinality(Cells(Live, h)) = Cardinality(Cells(Live, HeldOf))
        - (IF s \in Live THEN HeldOf[s] ELSE 0) + (IF s \in Live THEN h[s] ELSE 0)
  BY <1>1, <1>4, CellsChange
<1>7. Cardinality(Cells(Live, h)) <= Cardinality(Cells(Live, WholeOf))
  BY <1>1, <1>4, CellsMonotone
<1>8. blocks_held - held(s) + bumped <= committed
  BY <1>1, <1>5, <1>6, <1>7, SumsAreCells
<1>9. blocks_held \in Nat /\ committed \in Nat /\ committed <= threshold_blocks
  BY <1>1, HeldWithinCommitted DEF IInv, CommittedWithinWatermark
<1>10. blocks_used = blocks_held
  BY <1>9 DEF IInv, BooksBalance
<1>11. NewBlocks(done[s] + generated[s], done[s] + generated[s] + 1) = bumped - held(s)
  BY DEF NewBlocks, bumped, held
<1>12. blocks_used + (bumped - held(s)) <= threshold_blocks
  BY <1>3, <1>5, <1>8, <1>9, <1>10, ThresholdWithinCapacity
<1>13. QED
  BY <1>3, <1>5, <1>9, <1>10, <1>11, <1>12, ThresholdWithinCapacity, SchedAssumption

\* Whatever the batch, the blocks and the arrivals: a request is only ever
\* preempted, and step() only ever fails for want of a block, when finished
\* sequences are still in the cache's book.
LEMMA PreemptionIsTheCaches ==
    ASSUME IInv, Next,
           Len(preempted') > Len(preempted) \/ (raised' = "room" /\ raised # "room")
    PROVE  cached_blocks > 0
<1>1. SUFFICES ASSUME cached_blocks = 0 PROVE FALSE
  BY DEF IInv, TypeOK
<1>2. preempted \in Seq(Nat) /\ Len(preempted) \in Nat
  BY DEF IInv, ListsOK
<1>3. CASE NextTick
  <2>1. preempted' = <<>> /\ raised' \in {"no", "freed"}
    BY <1>3 DEF NextTick, Tick
  <2>2. QED
    BY <1>2, <2>1
<1>4. CASE Cancel \/ Report \/ Wait \/ Promote \/ StarvedPrefill \/ OrdinaryPrefill
  <2>1. UNCHANGED <<preempted, raised>>
    BY <1>4
    DEF Cancel, Report, Wait, Promote, StarvedPrefill, OrdinaryPrefill, PrefillPhase, action
  <2>2. QED
    BY <1>2, <2>1
<1>5. CASE Arrive
  <2>1. \/ UNCHANGED <<preempted, raised>>
        \/ preempted' = <<>> /\ raised' = "admit"
    BY <1>5 DEF Arrive, Raise, action
  <2>2. QED
    BY <1>2, <2>1
<1>6. CASE DecodePhase
  <2> DEFINE need == NewBlocks(done[at] + generated[at], done[at] + generated[at] + 1)
  <2>1. CASE UNCHANGED <<preempted, raised>>
    BY <1>2, <2>1
  <2>2. CASE /\ ~(at >= MAX_BATCH) /\ state[at] = RUNNING
             /\ need > 0 /\ blocks_used + need > capacity_blocks
    <3>1. at \in Slots
      BY <2>2, SlotReached
    <3>2. blocks_used + need <= capacity_blocks
      BY <1>1, <2>2, <3>1, TokenFits
    <3>3. need \in Int
      <4>1. done[at] + generated[at] \in Nat /\ done[at] + generated[at] + 1 \in Nat
        BY <3>1 DEF IInv, TypeOK, RequestsOK
      <4>2. /\ blocks_for(done[at] + generated[at]) \in Nat
            /\ blocks_for(done[at] + generated[at] + 1) \in Nat
        BY <4>1, BlocksForMonotone
      <4>3. QED
        BY <4>2 DEF NewBlocks
    <3> HIDE DEF need
    <3>4. QED
      BY <2>2, <3>2, <3>3, SchedAssumption DEF IInv, TypeOK
  <2>3. QED
    BY <1>6, <2>1, <2>2 DEF DecodePhase, Decode, action
<1>7. CASE Watermark
  <2>1. CASE UNCHANGED <<preempted, raised>>
    BY <1>2, <2>1
  <2>2. CASE blocks_used > threshold_blocks
    <3>1. RequestsOK /\ committed <= threshold_blocks /\ blocks_used = blocks_held + 0
      BY <1>1 DEF IInv, TypeOK, CommittedWithinWatermark, BooksBalance
    <3>2. QED
      BY <2>2, <3>1, HeldWithinCommitted, ThresholdWithinCapacity
  <2>3. QED
    BY <1>7, <2>1, <2>2 DEF Watermark, action
<1>8. QED
  BY <1>3, <1>4, <1>5, <1>6, <1>7 DEF Next, Step

\* Admission makes every preemption, and every tick that fails for want of a
\* block, the cache's doing.
THEOREM PreemptionNeedsCache == Spec => OnlyCachePreempts
<1>1. IInv /\ [Next]_vars =>
        [Len(preempted') > Len(preempted) \/ (raised' = "room" /\ raised # "room")
           => cached_blocks > 0]_vars
  BY PreemptionIsTheCaches
<1>2. QED
  BY <1>1, SchedInvariant, PTL DEF Spec, OnlyCachePreempts
-----------------------------------------------------------------------------
\* The last token of a request fills the sequence it was promised, so nothing
\* is left to top up.
LEMMA DecodeStaysWithin ==
    ASSUME IInv, NEW s \in Slots, state[s] = RUNNING, Decode(s),
           LET need == NewBlocks(done[s] + generated[s], done[s] + generated[s] + 1)
           IN  ~(need > 0 /\ blocks_used + need > capacity_blocks)
    PROVE  blocks_used' <= blocks_used \/ blocks_used' <= capacity_blocks
<1> DEFINE seq  == done[s] + generated[s]
           need == NewBlocks(seq, seq + 1)
<1>1. /\ seq \in Nat /\ seq + 1 \in Nat /\ seq <= seq + 1
      /\ generated[s] \in Nat /\ max_new[s] \in Nat
      /\ done[s] = prompt_len[s] /\ generated[s] < max_new[s]
      /\ prompt_len[s] \in Nat
  BY DEF IInv, TypeOK, RequestsOK, FREE, WAITING, RUNNING
<1>2. need \in Nat
  BY <1>1, BlocksForMonotone DEF NewBlocks
<1>3. blocks_used \in Nat /\ capacity_blocks \in Nat
  BY SchedAssumption DEF IInv, TypeOK
<1>4. blocks_used' = blocks_used + need
  <2>1. CASE generated[s] + 1 >= max_new[s]
    <3>1. blocks_used' = blocks_used + need + (whole(s) - blocks_for(seq + 1))
      BY <2>1 DEF Decode, ToCache, TopUp
    <3>2. seq + 1 = prompt_len[s] + max_new[s]
      BY <1>1, <2>1
    <3>3. whole(s) = blocks_for(seq + 1) /\ blocks_for(seq + 1) \in Nat
      BY <1>1, <3>2, BlocksForMonotone DEF whole
    <3> HIDE DEF need, seq
    <3>4. QED
      BY <1>2, <1>3, <3>1, <3>3
  <2>2. CASE generated[s] + 1 < max_new[s]
    BY <1>1, <2>2 DEF Decode
  <2>3. QED
    BY <1>1, <2>1, <2>2
<1>5. ~(need > 0 /\ blocks_used + need > capacity_blocks)
  OBVIOUS
<1> HIDE DEF need
<1>6. QED
  BY <1>2, <1>3, <1>4, <1>5

\* A preemption never charges a block.
LEMMA PreemptGivesBack ==
    ASSUME IInv, NEW protect, PreemptOne(protect)
    PROVE  blocks_used' <= blocks_used
<1>1. PICK s \in Slots : blocks_used' = blocks_used - held(s)
  BY DEF PreemptOne, Preempt, Victims
<1>2. held(s) \in Nat /\ blocks_used \in Nat
  BY HeldWithinWhole DEF IInv, TypeOK
<1>3. QED
  BY <1>1, <1>2

\* A chunk is planned only if its blocks fit.
LEMMA PrefillStaysWithin ==
    ASSUME IInv, NEW s \in Slots, try_prefill(s)
    PROVE  blocks_used' = blocks_used \/ blocks_used' <= capacity_blocks
BY DEF try_prefill, RoomFor

LEMMA StepStaysWithin ==
    ASSUME IInv, Next, pc # "report"
    PROVE  blocks_used' <= blocks_used \/ blocks_used' <= capacity_blocks
<1>1. blocks_used \in Nat /\ at \in Nat
  BY DEF IInv, TypeOK
<1>2. CASE NextTick
  <2>1. \/ blocks_used' = blocks_used
        \/ \E freed \in 0 .. cached_blocks + 1 : blocks_used' = blocks_used - freed
    BY <1>2 DEF NextTick, Tick, books
  <2>2. QED
    BY <1>1, <2>1
<1>3. CASE Cancel
  <2>1. \/ blocks_used' = blocks_used
        \/ \E s \in Slots : blocks_used' = blocks_used - held(s)
    BY <1>3 DEF Cancel, books
  <2>2. \A s \in Slots : held(s) \in Nat
    BY HeldWithinWhole DEF IInv, TypeOK
  <2>3. QED
    BY <1>1, <2>1, <2>2
<1>4. CASE Wait \/ Arrive \/ Promote
  BY <1>1, <1>4 DEF Wait, Arrive, Promote, books
<1>5. CASE DecodePhase
  <2>1. CASE PreemptOne(at)
    BY <2>1, PreemptGivesBack
  <2>2. CASE blocks_used' = blocks_used
    BY <1>1, <2>2
  <2>3. CASE /\ ~(at >= MAX_BATCH) /\ state[at] = RUNNING /\ Decode(at)
             /\ LET need == NewBlocks(done[at] + generated[at], done[at] + generated[at] + 1)
                IN  ~(need > 0 /\ blocks_used + need > capacity_blocks)
    BY <2>3, SlotReached, DecodeStaysWithin
  <2>4. QED
    BY <1>5, <2>1, <2>2, <2>3 DEF DecodePhase, books
<1>6. CASE StarvedPrefill
  <2>1. CASE ~(at >= MAX_BATCH) /\ try_prefill(at)
    BY <1>1, <2>1, SlotReached, PrefillStaysWithin
  <2>2. CASE blocks_used' = blocks_used
    BY <1>1, <2>2
  <2>3. QED
    BY <1>6, <2>1, <2>2 DEF StarvedPrefill, PrefillPhase
<1>7. CASE OrdinaryPrefill
  <2>1. CASE ~(at >= MAX_BATCH) /\ try_prefill(at)
    BY <1>1, <2>1, SlotReached, PrefillStaysWithin
  <2>2. CASE blocks_used' = blocks_used
    BY <1>1, <2>2
  <2>3. QED
    BY <1>7, <2>1, <2>2 DEF OrdinaryPrefill, PrefillPhase
<1>8. CASE Watermark
  <2>1. CASE PreemptOne(-1)
    BY <2>1, PreemptGivesBack
  <2>2. CASE blocks_used' = blocks_used
    BY <1>1, <2>2
  <2>3. QED
    BY <1>8, <2>1, <2>2 DEF Watermark, books
<1>9. CASE Report
  BY <1>9 DEF Report
<1>10. QED
  BY <1>2, <1>3, <1>4, <1>5, <1>6, <1>7, <1>8, <1>9 DEF Next, Step

\* The hard capacity is exceeded by nothing but publishing what the engine
\* reports finished: no decode, chunk or preemption charges past it.
THEOREM CapacityHoldsButForReports == Spec => OverCapacityOnlyByReport
<1>1. IInv /\ [Next]_vars =>
        [blocks_used' > blocks_used /\ blocks_used' > capacity_blocks
           => pc = "report"]_vars
  <2>1. SUFFICES ASSUME IInv, Next, pc # "report",
                        blocks_used' > blocks_used, blocks_used' > capacity_blocks
                 PROVE  FALSE
    OBVIOUS
  <2>2. blocks_used' <= blocks_used \/ blocks_used' <= capacity_blocks
    BY <2>1, StepStaysWithin
  <2>3. blocks_used \in Nat /\ blocks_used' \in Nat /\ capacity_blocks \in Nat
    BY <2>1, NextIInv, SchedAssumption DEF IInv, TypeOK
  <2>4. QED
    BY <2>1, <2>2, <2>3
<1>2. QED
  BY <1>1, SchedInvariant, PTL DEF Spec, OverCapacityOnlyByReport
-----------------------------------------------------------------------------
(* The inductive invariant: who is live in each phase of a tick, and what  *)
(* the action under construction says of them.                             *)

\* The first n - 1 of a list; the ids of the arrivals before n that were not
\* cancelled on arrival.
Upto(list, n) == {list[i] : i \in {k \in DOMAIN list : k < n}}
Admitted(n)   == {inp.arrived[j].id : j \in {k \in DOMAIN inp.arrived :
                                               k < n /\ ~Blocked(inp.arrived[k])}}

ArrivedIds == {inp.arrived[j].id : j \in DOMAIN inp.arrived}
Stay       == inp.live \ (Ids(inp.cancelled) \cup Ids(inp.finished))
Named      == Ids(decode) \cup Prefilling \cup Ids(preempted) \cup Ids(finished)

Chunks == {c \in [req : Nat, start : Nat, end : Nat] : c.start <= c.end}

PlanLists ==
    /\ p \in Seq(Chunks)
    /\ decode \in Seq(Nat) /\ finished \in Seq(Nat)
    /\ inp.cancelled \in Seq(Nat) /\ inp.finished \in Seq(Nat)
    /\ seen \in Seq(Nat)

OneSlotEach == \A s, t \in Live : ids[s] = ids[t] => s = t

FreshIds ==
    /\ LiveIds \subseteq Ids(seen)
    /\ ArrivedIds \subseteq Ids(seen)
    /\ inp.live \cap ArrivedIds = {}

WhoIsLive ==
    /\ pc = "cancel" => LiveIds = inp.live \ Upto(inp.cancelled, at)
    /\ pc = "report" => LiveIds = inp.live \ (Ids(inp.cancelled) \cup Upto(inp.finished, at))
    /\ pc = "wait" => LiveIds = Stay
    /\ pc = "arrive" => LiveIds = Stay \cup Admitted(at)
    /\ AdmissionIsAtomic

Early ==
    /\ pc # "idle" => raised = "no"
    /\ pc \in {"cancel", "report"} => at >= 1
    /\ pc = "cancel" => finished = <<>>
    /\ pc \in {"report", "wait", "arrive"} => Ids(finished) \subseteq inp.live
    /\ pc \in {"cancel", "report", "wait", "arrive", "promote"} =>
         decode = <<>> /\ preempted = <<>>
    /\ pc \in {"cancel", "report", "wait", "arrive", "promote", "decode"} => p = <<>>

CancelledGetNothing ==
    pc # "cancel" /\ ~(pc = "idle" /\ raised = "freed") =>
      Ids(inp.cancelled) \cap (LiveIds \cup Named) = {}

Budgeted == Tokens + budget <= token_budget

OneChunkEach == \A i, j \in DOMAIN p : i # j => p[i].req # p[j].req

Decoded ==
    \A r \in Ids(decode) \ (Ids(finished) \cup Ids(preempted)) :
       \E s \in Live : ids[s] = r /\ state[s] = RUNNING /\ generated[s] > 0

Preempted ==
    \A r \in Ids(preempted) \ Prefilling :
       \E s \in Live : ids[s] = r /\ state[s] = WAITING /\ done[s] = 0

Chunked ==
    \A i \in DOMAIN p :
       \E s \in Live : /\ ids[s] = p[i].req /\ s \in progressed
                       /\ state[s] = WAITING /\ done[s] = p[i].end
                       /\ p[i].req \in Ids(preempted) => p[i].start = 0

Gone == Ids(finished) \cap LiveIds = {}

\* The part that does not name the phase.
Story ==
    /\ PlanLists /\ OneSlotEach /\ FreshIds
    /\ Budgeted /\ OneChunkEach
    /\ Decoded /\ Preempted /\ Chunked /\ Gone

Plan == Story /\ WhoIsLive /\ Early /\ CancelledGetNothing
-----------------------------------------------------------------------------
(* Lists of ids.                                                           *)

LEMMA SeqWider ==
    ASSUME NEW S, NEW T, S \subseteq T, NEW list \in Seq(S)
    PROVE  list \in Seq(T)
OBVIOUS

LEMMA IdsEmpty == Ids(<<>>) = {}
BY DEF Ids

LEMMA IdsAppend ==
    ASSUME NEW S, NEW list \in Seq(S), NEW x \in S
    PROVE  Append(list, x) \in Seq(S) /\ Ids(Append(list, x)) = Ids(list) \cup {x}
<1>1. /\ Append(list, x) \in Seq(S)
      /\ DOMAIN Append(list, x) = 1 .. Len(list) + 1
      /\ \A i \in 1 .. Len(list) : Append(list, x)[i] = list[i]
      /\ Append(list, x)[Len(list) + 1] = x
      /\ DOMAIN list = 1 .. Len(list) /\ Len(list) \in Nat
  OBVIOUS
<1>2. Ids(Append(list, x)) \subseteq Ids(list) \cup {x}
  BY <1>1 DEF Ids
<1>3. Ids(list) \subseteq Ids(Append(list, x))
  BY <1>1 DEF Ids
<1>4. x \in Ids(Append(list, x))
  BY <1>1 DEF Ids
<1>5. QED
  BY <1>1, <1>2, <1>3, <1>4

LEMMA IdsConcat ==
    ASSUME NEW S, NEW a \in Seq(S), NEW b \in Seq(S)
    PROVE  a \o b \in Seq(S) /\ Ids(a \o b) = Ids(a) \cup Ids(b)
<1>1. /\ a \o b \in Seq(S)
      /\ DOMAIN (a \o b) = 1 .. Len(a) + Len(b)
      /\ \A i \in 1 .. Len(a) + Len(b) :
           (a \o b)[i] = IF i <= Len(a) THEN a[i] ELSE b[i - Len(a)]
      /\ DOMAIN a = 1 .. Len(a) /\ Len(a) \in Nat
      /\ DOMAIN b = 1 .. Len(b) /\ Len(b) \in Nat
  OBVIOUS
<1>2. Ids(a \o b) \subseteq Ids(a) \cup Ids(b)
  <2>1. SUFFICES ASSUME NEW i \in 1 .. Len(a) + Len(b)
                 PROVE  (a \o b)[i] \in Ids(a) \cup Ids(b)
    BY <1>1 DEF Ids
  <2>2. CASE i <= Len(a)
    <3>1. (a \o b)[i] = a[i] /\ i \in DOMAIN a
      BY <1>1, <2>2
    <3>2. QED
      BY <3>1 DEF Ids
  <2>3. CASE ~(i <= Len(a))
    <3>1. (a \o b)[i] = b[i - Len(a)] /\ i - Len(a) \in DOMAIN b
      BY <1>1, <2>3
    <3>2. QED
      BY <3>1 DEF Ids
  <2>4. QED
    BY <2>2, <2>3
<1>3. Ids(a) \subseteq Ids(a \o b)
  BY <1>1 DEF Ids
<1>4. Ids(b) \subseteq Ids(a \o b)
  <2>1. SUFFICES ASSUME NEW j \in 1 .. Len(b)
                 PROVE  b[j] \in Ids(a \o b)
    BY <1>1 DEF Ids
  <2>2. /\ j + Len(a) \in 1 .. Len(a) + Len(b) /\ ~(j + Len(a) <= Len(a))
        /\ j + Len(a) - Len(a) = j
    BY <1>1
  <2>3. (a \o b)[j + Len(a)] = b[j]
    BY <1>1, <2>2
  <2>4. QED
    BY <1>1, <2>2, <2>3 DEF Ids
<1>5. QED
  BY <1>1, <1>2, <1>3, <1>4

\* Nothing has been taken from a list at its first element, one more at each
\* step, and all of it past its end.
LEMMA UptoSteps ==
    ASSUME NEW S, NEW list \in Seq(S)
    PROVE  /\ Upto(list, 1) = {}
           /\ \A n \in Nat : /\ n \in DOMAIN list => Upto(list, n + 1) = Upto(list, n) \cup {list[n]}
                             /\ n > Len(list) => Upto(list, n) = Ids(list)
<1>1. DOMAIN list = 1 .. Len(list) /\ Len(list) \in Nat
  OBVIOUS
<1>2. Upto(list, 1) = {}
  BY <1>1 DEF Upto
<1>3. SUFFICES ASSUME NEW n \in Nat
               PROVE  /\ n \in DOMAIN list => Upto(list, n + 1) = Upto(list, n) \cup {list[n]}
                      /\ n > Len(list) => Upto(list, n) = Ids(list)
  BY <1>2
<1>4. ASSUME n \in DOMAIN list
      PROVE  Upto(list, n + 1) = Upto(list, n) \cup {list[n]}
  <2>1. {k \in DOMAIN list : k < n + 1} = {k \in DOMAIN list : k < n} \cup {n}
    BY <1>1, <1>4
  <2>2. QED
    BY <2>1 DEF Upto
<1>5. ASSUME n > Len(list)
      PROVE  Upto(list, n) = Ids(list)
  <2>1. {k \in DOMAIN list : k < n} = DOMAIN list
    BY <1>1, <1>5
  <2>2. QED
    BY <2>1 DEF Upto, Ids
<1>6. QED
  BY <1>4, <1>5
-----------------------------------------------------------------------------
(* Slots and ids.                                                          *)

\* When a slot is cleared its id, and no other, goes.
LEMMA ClearEffect ==
    ASSUME RequestsOK, OneSlotEach, NEW s \in Live, Clear(s)
    PROVE  /\ Live' = Live \ {s}
           /\ \A t \in Live \ {s} : /\ ids'[t] = ids[t] /\ state'[t] = state[t]
                                    /\ done'[t] = done[t] /\ generated'[t] = generated[t]
           /\ LiveIds' = LiveIds \ {ids[s]}
           /\ OneSlotEach'
<1>1. /\ s \in Slots /\ Live \subseteq Slots /\ state[s] # FREE
  BY DEF Live
<1>2. \A t \in Slots :
        /\ ids'[t] = IF t = s THEN 0 ELSE ids[t]
        /\ state'[t] = IF t = s THEN FREE ELSE state[t]
        /\ done'[t] = IF t = s THEN 0 ELSE done[t]
        /\ generated'[t] = IF t = s THEN 0 ELSE generated[t]
  BY DEF Clear, RequestsOK
<1>3. Live' = Live \ {s}
  BY <1>1, <1>2 DEF Live
<1>4. \A t \in Live \ {s} : ids[t] # ids[s]
  BY DEF OneSlotEach
<1>5. LiveIds' = LiveIds \ {ids[s]}
  BY <1>1, <1>2, <1>3, <1>4 DEF LiveIds
<1>6. OneSlotEach'
  BY <1>1, <1>2, <1>3 DEF OneSlotEach
<1>7. QED
  BY <1>1, <1>2, <1>3, <1>5, <1>6

LEMMA IdsStay ==
    ASSUME OneSlotEach, Live' = Live, ids' = ids
    PROVE  LiveIds' = LiveIds /\ OneSlotEach'
BY DEF LiveIds, OneSlotEach
-----------------------------------------------------------------------------
(* The token budget.                                                       *)

Lengths(list) == [i \in DOMAIN list |-> list[i].end - list[i].start]

Count(answered, chunks) ==
    Len(answered) + Cardinality(Cells(DOMAIN chunks, Lengths(chunks)))

LEMMA TokensAreCounted == Tokens = Count(decode, p) /\ Tokens' = Count(decode', p')
BY DEF Tokens, Count, Cells, Lengths

LEMMA CountNone == Count(<<>>, <<>>) = 0
<1>1. Cells(DOMAIN <<>>, Lengths(<<>>)) = {}
  BY DEF Cells
<1>2. Len(<<>>) = 0 /\ Cardinality({}) = 0
  BY FS_EmptySet
<1>3. QED
  BY <1>1, <1>2 DEF Count

LEMMA ChunksFinite ==
    ASSUME NEW chunks \in Seq(Chunks)
    PROVE  /\ IsFiniteSet(DOMAIN chunks) /\ \A i \in DOMAIN chunks : Lengths(chunks)[i] \in Nat
           /\ Cardinality(Cells(DOMAIN chunks, Lengths(chunks))) \in Nat
<1>1. /\ DOMAIN chunks = 1 .. Len(chunks) /\ Len(chunks) \in Nat
      /\ \A i \in DOMAIN chunks : chunks[i] \in Chunks
  OBVIOUS
<1>2. IsFiniteSet(DOMAIN chunks)
  BY <1>1, FS_Interval
<1>3. \A c \in Chunks : c.end - c.start \in Nat
  BY DEF Chunks
<1>4. \A i \in DOMAIN chunks : Lengths(chunks)[i] \in Nat
  BY <1>1, <1>3 DEF Lengths
<1>5. QED
  BY <1>2, <1>4, CellsFinite

LEMMA CountNat ==
    ASSUME NEW answered \in Seq(Nat), NEW chunks \in Seq(Chunks)
    PROVE  Count(answered, chunks) \in Nat
<1>1. Len(answered) \in Nat
  OBVIOUS
<1>2. Cardinality(Cells(DOMAIN chunks, Lengths(chunks))) \in Nat
  BY ChunksFinite
<1>3. QED
  BY <1>1, <1>2 DEF Count

LEMMA CountDecode ==
    ASSUME NEW answered \in Seq(Nat), NEW chunks \in Seq(Chunks), NEW r \in Nat
    PROVE  Count(Append(answered, r), chunks) = Count(answered, chunks) + 1
<1>1. Len(answered) \in Nat /\ Len(Append(answered, r)) = Len(answered) + 1
  OBVIOUS
<1>2. Cardinality(Cells(DOMAIN chunks, Lengths(chunks))) \in Nat
  BY ChunksFinite
<1>3. QED
  BY <1>1, <1>2 DEF Count

\* A chunk counts for its length.
LEMMA CountChunk ==
    ASSUME NEW answered \in Seq(Nat), NEW chunks \in Seq(Chunks), NEW c \in Chunks
    PROVE  Count(answered, Append(chunks, c)) = Count(answered, chunks) + (c.end - c.start)
<1> DEFINE n == Len(chunks) + 1
           more == Append(chunks, c)
<1>1. DOMAIN chunks = 1 .. Len(chunks) /\ Len(chunks) \in Nat
  OBVIOUS
<1>2. more \in Seq(Chunks) /\ DOMAIN more = 1 .. n
  BY <1>1
<1>3. more[n] = c /\ \A i \in DOMAIN chunks : more[i] = chunks[i]
  BY <1>1
<1>4. DOMAIN more = DOMAIN chunks \cup {n} /\ n \notin DOMAIN chunks
  BY <1>1, <1>2
<1> HIDE DEF n, more
<1>5. /\ IsFiniteSet(DOMAIN chunks)
      /\ Cardinality(Cells(DOMAIN chunks, Lengths(chunks))) \in Nat /\ Len(answered) \in Nat
  BY ChunksFinite
<1>6. \A i \in DOMAIN chunks \cup {n} : Lengths(more)[i] \in Nat
  BY <1>2, <1>4, ChunksFinite
<1>7. /\ Lengths(more)[n] = c.end - c.start
      /\ \A i \in DOMAIN chunks : Lengths(more)[i] = Lengths(chunks)[i]
  BY <1>3, <1>4 DEF Lengths
<1>8. Cardinality(Cells(DOMAIN chunks \cup {n}, Lengths(more)))
        = Cardinality(Cells(DOMAIN chunks, Lengths(more))) + Lengths(more)[n]
  <2> DEFINE h == Lengths(more)
             L == DOMAIN chunks
  <2>1. IsFiniteSet(L) /\ n \notin L /\ \A i \in L \cup {n} : h[i] \in Nat
    BY <1>4, <1>5, <1>6
  <2> HIDE DEF h, L
  <2>2. Cardinality(Cells(L \cup {n}, h)) = Cardinality(Cells(L, h)) + h[n]
    BY <2>1, CellsAdd
  <2>3. QED
    BY <2>2 DEF h, L
<1>9. Cells(DOMAIN chunks, Lengths(more)) = Cells(DOMAIN chunks, Lengths(chunks))
  BY <1>7, CellsSame
<1>10. c.end - c.start \in Nat
  BY DEF Chunks
<1>11. Cardinality(Cells(DOMAIN more, Lengths(more)))
        = Cardinality(Cells(DOMAIN chunks, Lengths(chunks))) + (c.end - c.start)
  BY <1>4, <1>7, <1>8, <1>9
<1>12. Count(answered, more) = Count(answered, chunks) + (c.end - c.start)
  BY <1>5, <1>10, <1>11 DEF Count
<1>13. QED
  BY <1>12 DEF more
-----------------------------------------------------------------------------
(* Steps.                                                                  *)

\* While nothing is planned yet there is little to say.
LEMMA NothingPlanned ==
    ASSUME decode' = <<>>, preempted' = <<>>, p' = <<>>, budget' \in 0 .. token_budget
    PROVE  /\ Budgeted' /\ OneChunkEach' /\ Decoded' /\ Preempted' /\ Chunked'
           /\ Named' = Ids(finished') /\ p' \in Seq(Chunks) /\ decode' \in Seq(Nat)
<1>1. Ids(decode') = {} /\ Ids(preempted') = {} /\ Prefilling' = {} /\ DOMAIN p' = {}
  BY IdsEmpty DEF Prefilling
<1>2. Tokens' = 0
  BY CountNone, TokensAreCounted
<1>3. Budgeted'
  <2>1. \A n \in 0 .. token_budget : \A none : none = 0 => none + n <= token_budget
    BY SchedAssumption
  <2>2. Tokens' + budget' <= token_budget
    BY <1>2, <2>1, Zenon
  <2>3. QED
    BY <2>2 DEF Budgeted
<1>4. OneChunkEach' /\ Decoded' /\ Preempted' /\ Chunked'
  BY <1>1 DEF OneChunkEach, Decoded, Preempted, Chunked
<1>5. Named' = Ids(finished')
  BY <1>1 DEF Named
<1>6. QED
  BY <1>3, <1>4, <1>5

\* A step that leaves the action and the requests alone.
LEMMA StoryRests ==
    ASSUME Story, UNCHANGED <<ids, done, generated, action, budget, progressed, call>>,
           Live' = Live,
           state' = state \/ (decode = <<>> /\ preempted = <<>> /\ p = <<>>)
    PROVE  Story' /\ LiveIds' = LiveIds /\ Named' = Named
<1>1. /\ UNCHANGED <<p, decode, preempted, finished, inp, seen>>
      /\ UNCHANGED <<ids, done, generated, budget, progressed>>
  BY DEF action, call
<1>2. LiveIds' = LiveIds /\ OneSlotEach'
  BY <1>1, IdsStay DEF Story
<1>3. PlanLists' /\ FreshIds' /\ OneChunkEach' /\ Gone' /\ Named' = Named
  BY <1>1, <1>2 DEF Story, PlanLists, FreshIds, ArrivedIds, OneChunkEach, Gone, Named, Prefilling
<1>4. Budgeted'
  <2>1. Tokens' = Tokens
    BY <1>1, TokensAreCounted
  <2>2. QED
    BY <1>1, <2>1 DEF Story, Budgeted
<1>5. Decoded' /\ Preempted' /\ Chunked'
  <2>1. CASE state' = state
    BY <1>1, <2>1 DEF Story, Decoded, Preempted, Chunked, Prefilling
  <2>2. CASE decode = <<>> /\ preempted = <<>> /\ p = <<>>
    <3>1. Ids(decode') = {} /\ Ids(preempted') = {} /\ DOMAIN p' = {}
      BY <1>1, <2>2, IdsEmpty
    <3>2. QED
      BY <3>1 DEF Decoded, Preempted, Chunked
  <2>3. QED
    BY <2>1, <2>2
<1>6. QED
  BY <1>2, <1>3, <1>4, <1>5 DEF Story

LEMMA InitPlan == Init => Plan
<1> SUFFICES ASSUME Init PROVE Plan
  OBVIOUS
<1>1. Live = {} /\ LiveIds = {}
  BY DEF Init, Live, LiveIds, FREE
<1>2. p = <<>> /\ decode = <<>> /\ preempted = <<>> /\ finished = <<>> /\ seen = <<>>
  BY DEF Init
<1>3. inp.cancelled = <<>> /\ inp.finished = <<>> /\ inp.arrived = <<>> /\ inp.live = {}
  BY DEF Init
<1>4. PlanLists
  BY <1>2, <1>3 DEF PlanLists
<1>5. OneSlotEach /\ FreshIds
  BY <1>1, <1>3 DEF OneSlotEach, FreshIds, ArrivedIds
<1>6. Tokens = 0
  BY <1>2, CountNone, TokensAreCounted
<1>7. Budgeted
  BY <1>6, SchedAssumption DEF Init, Budgeted
<1>8. Ids(decode) = {} /\ Ids(preempted) = {} /\ DOMAIN p = {} /\ Ids(finished) = {}
      /\ Ids(inp.cancelled) = {}
  BY <1>2, <1>3, IdsEmpty
<1>9. OneChunkEach /\ Decoded /\ Preempted /\ Chunked /\ Gone
  BY <1>8 DEF OneChunkEach, Decoded, Preempted, Chunked, Gone
<1>10. WhoIsLive /\ Early
  BY DEF Init, WhoIsLive, Early, AdmissionIsAtomic
<1>11. CancelledGetNothing
  BY <1>8 DEF CancelledGetNothing
<1>12. QED
  BY <1>4, <1>5, <1>7, <1>9, <1>10, <1>11 DEF Plan, Story

LEMMA StutterPlan ==
    ASSUME Plan, UNCHANGED vars
    PROVE  Plan'
<1>1. /\ UNCHANGED <<ids, done, generated, action, budget, progressed, call>>
      /\ UNCHANGED <<state, pc, at, raised, inp, decode, preempted, finished, p>>
  BY DEF vars, request, call, action
<1>2. Live' = Live
  BY <1>1 DEF Live
<1>3. Story' /\ LiveIds' = LiveIds /\ Named' = Named
  BY <1>1, <1>2, StoryRests DEF Plan
<1>4. WhoIsLive' /\ Early' /\ CancelledGetNothing'
  BY <1>1, <1>3
  DEF Plan, WhoIsLive, Stay, Admitted, Blocked, AdmissionIsAtomic, Early, CancelledGetNothing
<1>5. QED
  BY <1>3, <1>4 DEF Plan

\* A tick starts with an empty action, over arrivals that are new.
LEMMA TickPlan ==
    ASSUME IInv, Plan, NextTick
    PROVE  Plan'
<1> DEFINE New == {a \in Offers : \A i \in DOMAIN seen : seen[i] # a.id}
           Told == {ids[s] : s \in {t \in Live : done[t] = prompt_len[t]}}
<1>1. PICK freed, arrived, reports, cancelled :
        /\ arrived \in Lists(New, ARRIVALS) /\ reports \in Lists(Told, EVENTS)
        /\ cancelled \in Lists({seen[i] : i \in DOMAIN seen}
                                 \cup {arrived[i].id : i \in DOMAIN arrived}, EVENTS)
        /\ Tick(freed, cancelled, reports, arrived)
  BY DEF NextTick
<1>2. \A S, most : most \in Nat => \A list \in Lists(S, most) : list \in Seq(S)
  BY SeqDef DEF Lists
<1>3. arrived \in Seq(New) /\ arrived \in Seq(Offers)
  <2>1. arrived \in Seq(New)
    BY <1>1, <1>2, SchedAssumption
  <2>2. New \subseteq Offers
    OBVIOUS
  <2>3. QED
    BY <2>1, <2>2
<1>4. \A i \in DOMAIN arrived : arrived[i] \in New /\ arrived[i].id \in Nat
  BY <1>3, SchedAssumption
<1> DEFINE came == [i \in DOMAIN arrived |-> arrived[i].id]
<1>5. came \in Seq(Nat) /\ Ids(came) = {arrived[i].id : i \in DOMAIN arrived}
  BY <1>3, <1>4 DEF Ids
<1>6. seen \in Seq(Nat) /\ Ids(seen) \subseteq Nat
  BY DEF Plan, Story, PlanLists, Ids
<1>7. reports \in Seq(Nat)
  <2>1. Told \subseteq Nat
    BY DEF IInv, TypeOK, RequestsOK, Live
  <2>2. reports \in Seq(Told)
    BY <1>1, <1>2, SchedAssumption
  <2>3. QED
    BY <2>1, <2>2, SeqWider
<1>8. cancelled \in Seq(Nat)
  <2> DEFINE Known == {seen[i] : i \in DOMAIN seen} \cup {arrived[i].id : i \in DOMAIN arrived}
  <2>1. Known \subseteq Nat
    BY <1>4, <1>6 DEF Ids
  <2>2. cancelled \in Seq(Known)
    BY <1>1, <1>2, SchedAssumption
  <2>3. QED
    BY <2>1, <2>2, SeqWider
<1> HIDE DEF New, Told, came
<1>9. /\ inp' = [cancelled |-> cancelled, finished |-> reports, arrived |-> arrived,
                 live |-> LiveIds]
      /\ seen' = seen \o came
      /\ budget' = token_budget
      /\ p' = <<>> /\ decode' = <<>> /\ preempted' = <<>> /\ finished' = <<>>
      /\ UNCHANGED <<state, ids>>
      /\ \/ raised' = "no" /\ pc' = "cancel" /\ at' = 1
         \/ raised' = "freed" /\ pc' = "idle" /\ at' = 0
  BY <1>1 DEF Tick, Goto, request, came
<1>10. /\ inp'.cancelled = cancelled /\ inp'.finished = reports
       /\ inp'.arrived = arrived /\ inp'.live = LiveIds
  BY <1>9
<1>11. seen' \in Seq(Nat) /\ Ids(seen') = Ids(seen) \cup Ids(came)
  BY <1>5, <1>6, <1>9, IdsConcat
<1>12. LiveIds' = LiveIds /\ OneSlotEach'
  <2>1. Live' = Live
    BY <1>9 DEF Live
  <2>2. QED
    BY <1>9, <2>1, IdsStay DEF Plan, Story
<1>13. budget' \in 0 .. token_budget
  BY <1>9, SchedAssumption
<1>14. /\ Budgeted' /\ OneChunkEach' /\ Decoded' /\ Preempted' /\ Chunked'
       /\ Named' = Ids(finished') /\ p' \in Seq(Chunks) /\ decode' \in Seq(Nat)
  BY <1>9, <1>13, NothingPlanned
<1>15. Ids(finished') = {}
  BY <1>9, IdsEmpty
<1>16. PlanLists'
  BY <1>7, <1>8, <1>9, <1>10, <1>11, <1>14 DEF PlanLists
<1>17. FreshIds'
  <2>1. ArrivedIds' = Ids(came)
    BY <1>5, <1>10 DEF ArrivedIds
  <2>2. Ids(came) \cap Ids(seen) = {}
    BY <1>4, <1>5 DEF New, Ids
  <2>3. LiveIds \subseteq Ids(seen)
    BY DEF Plan, Story, FreshIds
  <2>4. QED
    BY <1>10, <1>11, <1>12, <2>1, <2>2, <2>3 DEF FreshIds
<1>18. Gone'
  BY <1>15 DEF Gone
<1>19. WhoIsLive'
  <2>1. CASE pc' = "cancel" /\ raised' = "no" /\ at' = 1
    <3>1. Upto(inp'.cancelled, at') = {}
      BY <1>8, <1>10, <2>1, UptoSteps
    <3>2. QED
      BY <1>10, <1>12, <2>1, <3>1 DEF WhoIsLive, AdmissionIsAtomic
  <2>2. CASE pc' = "idle" /\ raised' = "freed"
    BY <2>2 DEF WhoIsLive, AdmissionIsAtomic
  <2>3. QED
    BY <1>9, <2>1, <2>2
<1>20. Early' /\ CancelledGetNothing'
  BY <1>9 DEF Early, CancelledGetNothing
<1>21. QED
  BY <1>12, <1>14, <1>16, <1>17, <1>18, <1>19, <1>20 DEF Plan, Story

\* A cancelled request leaves, and no other.
LEMMA CancelPlan ==
    ASSUME IInv, Plan, Cancel
    PROVE  Plan'
<1>1. /\ pc = "cancel" /\ at \in Nat /\ at >= 1 /\ raised = "no"
      /\ finished = <<>> /\ decode = <<>> /\ preempted = <<>> /\ p = <<>>
      /\ inp.cancelled \in Seq(Nat) /\ inp.finished \in Seq(Nat)
      /\ LiveIds = inp.live \ Upto(inp.cancelled, at)
  BY DEF Cancel, Plan, Early, Story, PlanLists, WhoIsLive, IInv, TypeOK
<1>2. /\ UNCHANGED <<progressed, budget, raised, inp, seen>>
      /\ UNCHANGED <<finished, decode, preempted, p>>
  BY DEF Cancel, action, call
<1>3. budget' \in 0 .. token_budget
  BY <1>2 DEF IInv, TypeOK
<1>4. /\ Budgeted' /\ OneChunkEach' /\ Decoded' /\ Preempted' /\ Chunked'
      /\ Named' = Ids(finished') /\ p' \in Seq(Chunks) /\ decode' \in Seq(Nat)
  BY <1>1, <1>2, <1>3, NothingPlanned
<1>5. Ids(finished') = {}
  BY <1>1, <1>2, IdsEmpty
<1>6. PlanLists' /\ Gone'
  BY <1>1, <1>2, <1>4, <1>5 DEF PlanLists, Gone, Plan, Story
<1>7. DOMAIN inp.cancelled = 1 .. Len(inp.cancelled) /\ Len(inp.cancelled) \in Nat
  BY <1>1
<1>8. CASE at > Len(inp.cancelled)
  <2>1. pc' = "report" /\ at' = 1 /\ UNCHANGED request
    BY <1>8 DEF Cancel, Goto
  <2>2. LiveIds' = LiveIds /\ OneSlotEach'
    <3>1. Live' = Live /\ ids' = ids
      BY <2>1 DEF Live, request
    <3>2. QED
      BY <3>1, IdsStay DEF Plan, Story
  <2>3. Upto(inp.cancelled, at) = Ids(inp.cancelled) /\ Upto(inp'.finished, 1) = {}
    BY <1>1, <1>2, <1>8, UptoSteps
  <2>4. WhoIsLive'
    BY <1>1, <1>2, <2>1, <2>2, <2>3 DEF WhoIsLive, AdmissionIsAtomic
  <2>5. FreshIds'
    BY <1>2, <2>2 DEF FreshIds, ArrivedIds, Plan, Story
  <2>6. Early' /\ CancelledGetNothing'
    BY <1>1, <1>2, <1>4, <1>5, <2>1, <2>2, <2>3 DEF Early, CancelledGetNothing
  <2>7. QED
    BY <1>4, <1>6, <2>2, <2>4, <2>5, <2>6 DEF Plan, Story
<1>9. CASE at <= Len(inp.cancelled)
  <2>1. pc' = "cancel" /\ at' = at + 1 /\ at \in DOMAIN inp.cancelled
    BY <1>1, <1>7, <1>9 DEF Cancel, Goto
  <2>2. LiveIds' = LiveIds \ {inp.cancelled[at]} /\ OneSlotEach'
    <3>1. CASE \E s \in Slots : Finds(s, inp.cancelled[at]) /\ Clear(s)
      <4>1. PICK s \in Live : ids[s] = inp.cancelled[at] /\ Clear(s)
        BY <3>1 DEF Finds
      <4>2. LiveIds' = LiveIds \ {ids[s]} /\ OneSlotEach'
        BY <4>1, ClearEffect DEF IInv, TypeOK, Plan, Story
      <4>3. QED
        BY <4>1, <4>2
    <3>2. CASE inp.cancelled[at] \notin LiveIds /\ UNCHANGED request
      <4>1. Live' = Live /\ ids' = ids
        BY <3>2 DEF Live, request
      <4>2. LiveIds' = LiveIds /\ OneSlotEach'
        BY <4>1, IdsStay DEF Plan, Story
      <4>3. QED
        BY <3>2, <4>2
    <3>3. QED
      BY <1>1, <1>7, <1>9, <3>1, <3>2 DEF Cancel
  <2>3. Upto(inp.cancelled, at + 1) = Upto(inp.cancelled, at) \cup {inp.cancelled[at]}
    BY <1>1, <2>1, UptoSteps
  <2>4. WhoIsLive'
    BY <1>1, <1>2, <2>1, <2>2, <2>3 DEF WhoIsLive, AdmissionIsAtomic
  <2>5. FreshIds'
    BY <1>2, <2>2 DEF FreshIds, ArrivedIds, Plan, Story
  <2>6. Early' /\ CancelledGetNothing'
    BY <1>1, <1>2, <2>1 DEF Early, CancelledGetNothing
  <2>7. QED
    BY <1>4, <1>6, <2>2, <2>4, <2>5, <2>6 DEF Plan, Story
<1>10. QED
  BY <1>1, <1>7, <1>8, <1>9

\* A reported request leaves and is named finished.
LEMMA ReportPlan ==
    ASSUME IInv, Plan, Report
    PROVE  Plan'
<1>1. /\ pc = "report" /\ at \in Nat /\ at >= 1 /\ raised = "no"
      /\ decode = <<>> /\ preempted = <<>> /\ p = <<>>
      /\ inp.cancelled \in Seq(Nat) /\ inp.finished \in Seq(Nat) /\ finished \in Seq(Nat)
      /\ LiveIds = inp.live \ (Ids(inp.cancelled) \cup Upto(inp.finished, at))
      /\ Ids(finished) \subseteq inp.live
  BY DEF Report, Plan, Early, Story, PlanLists, WhoIsLive, IInv, TypeOK
<1>2. /\ UNCHANGED <<progressed, budget, raised, inp, seen>>
      /\ UNCHANGED <<decode, preempted, p>>
  BY DEF Report, call
<1>3. budget' \in 0 .. token_budget
  BY <1>2 DEF IInv, TypeOK
<1>4. /\ Budgeted' /\ OneChunkEach' /\ Decoded' /\ Preempted' /\ Chunked'
      /\ Named' = Ids(finished') /\ p' \in Seq(Chunks) /\ decode' \in Seq(Nat)
  BY <1>1, <1>2, <1>3, NothingPlanned
<1>5. DOMAIN inp.finished = 1 .. Len(inp.finished) /\ Len(inp.finished) \in Nat
  BY <1>1
<1>6. Ids(inp.cancelled) \cap (LiveIds \cup Ids(finished)) = {}
  BY <1>1 DEF Plan, CancelledGetNothing, Named
<1>7. Ids(finished) \cap LiveIds = {}
  BY DEF Plan, Story, Gone
<1>8. CASE at > Len(inp.finished)
  <2>1. pc' = "wait" /\ at' = 1 /\ UNCHANGED request /\ finished' = finished
    BY <1>8 DEF Report, Goto
  <2>2. LiveIds' = LiveIds /\ OneSlotEach'
    <3>1. Live' = Live /\ ids' = ids
      BY <2>1 DEF Live, request
    <3>2. QED
      BY <3>1, IdsStay DEF Plan, Story
  <2>3. Upto(inp.finished, at) = Ids(inp.finished)
    BY <1>1, <1>8, UptoSteps
  <2>4. WhoIsLive'
    BY <1>1, <1>2, <2>1, <2>2, <2>3 DEF WhoIsLive, AdmissionIsAtomic, Stay
  <2>5. FreshIds'
    BY <1>2, <2>2 DEF FreshIds, ArrivedIds, Plan, Story
  <2>6. Early' /\ CancelledGetNothing' /\ PlanLists' /\ Gone'
    BY <1>1, <1>2, <1>4, <1>6, <1>7, <2>1, <2>2
    DEF Early, CancelledGetNothing, PlanLists, Gone, Plan, Story
  <2>7. QED
    BY <1>4, <2>2, <2>4, <2>5, <2>6 DEF Plan, Story
<1>9. CASE at <= Len(inp.finished)
  <2> DEFINE r == inp.finished[at]
  <2>1. pc' = "report" /\ at' = at + 1 /\ at \in DOMAIN inp.finished
    BY <1>1, <1>5, <1>9 DEF Report, Goto
  <2>2. /\ LiveIds' = LiveIds \ {r} /\ OneSlotEach' /\ finished' \in Seq(Nat)
        /\ \/ Ids(finished') = Ids(finished)
           \/ r \in LiveIds /\ Ids(finished') = Ids(finished) \cup {r}
    <3>1. CASE \E s \in Slots : /\ Finds(s, r) /\ Clear(s)
                                /\ finished' = Append(finished, ids[s])
      <4>1. PICK s \in Live : /\ ids[s] = r /\ Clear(s)
                              /\ finished' = Append(finished, r)
        BY <3>1 DEF Finds
      <4>2. LiveIds' = LiveIds \ {r} /\ OneSlotEach'
        BY <4>1, ClearEffect DEF IInv, TypeOK, Plan, Story
      <4>3. r \in Nat /\ r \in LiveIds
        BY <4>1 DEF LiveIds, Live, IInv, TypeOK, RequestsOK
      <4>4. finished' \in Seq(Nat) /\ Ids(finished') = Ids(finished) \cup {r}
        BY <1>1, <4>1, <4>3, IdsAppend
      <4>5. QED
        BY <4>2, <4>3, <4>4
    <3>2. CASE r \notin LiveIds /\ UNCHANGED request /\ finished' = finished
      <4>1. Live' = Live /\ ids' = ids
        BY <3>2 DEF Live, request
      <4>2. LiveIds' = LiveIds /\ OneSlotEach'
        BY <4>1, IdsStay DEF Plan, Story
      <4>3. QED
        BY <1>1, <3>2, <4>2
    <3>3. QED
      BY <1>1, <1>5, <1>9, <3>1, <3>2 DEF Report
  <2>3. Upto(inp.finished, at + 1) = Upto(inp.finished, at) \cup {r}
    BY <1>1, <2>1, UptoSteps
  <2> HIDE DEF r
  <2>4. WhoIsLive'
    BY <1>1, <1>2, <2>1, <2>2, <2>3 DEF WhoIsLive, AdmissionIsAtomic
  <2>5. FreshIds'
    BY <1>2, <2>2 DEF FreshIds, ArrivedIds, Plan, Story
  <2>6. Early'
    BY <1>1, <1>2, <2>1, <2>2 DEF Early
  <2>7. CancelledGetNothing'
    BY <1>2, <1>4, <1>6, <2>2 DEF CancelledGetNothing
  <2>8. PlanLists' /\ Gone'
    BY <1>1, <1>2, <1>4, <1>7, <2>2 DEF PlanLists, Gone, Plan, Story
  <2>9. QED
    BY <1>4, <2>2, <2>4, <2>5, <2>6, <2>7, <2>8 DEF Plan, Story
<1>10. QED
  BY <1>1, <1>5, <1>8, <1>9

LEMMA WaitPlan ==
    ASSUME IInv, Plan, Wait
    PROVE  Plan'
<1>1. /\ pc = "wait" /\ raised = "no" /\ pc' = "arrive" /\ at' = 1
      /\ UNCHANGED <<state, ids, done, generated, action, budget, progressed, call>>
      /\ UNCHANGED <<raised, inp, decode, preempted, finished, p>>
  BY DEF Wait, Goto, Plan, Early, action, call
<1>2. Live' = Live
  BY <1>1 DEF Live
<1>3. Story' /\ LiveIds' = LiveIds /\ Named' = Named
  BY <1>1, <1>2, StoryRests DEF Plan
<1>4. Admitted(1)' = {} /\ LiveIds = Stay /\ Stay' = Stay
  BY <1>1 DEF Admitted, Plan, WhoIsLive, Stay, IInv, ListsOK
<1>5. WhoIsLive'
  BY <1>1, <1>3, <1>4 DEF WhoIsLive, AdmissionIsAtomic, Admitted
<1>6. Early' /\ CancelledGetNothing'
  BY <1>1, <1>3 DEF Plan, Early, CancelledGetNothing
<1>7. QED
  BY <1>3, <1>5, <1>6 DEF Plan

\* An arrival takes a free slot, with an id no live or finished request has.
LEMMA AdmitPlan ==
    ASSUME IInv, Plan, pc = "arrive", at \in DOMAIN inp.arrived,
           ~Blocked(inp.arrived[at]), Admissible(inp.arrived[at]),
           NEW s \in Slots \ Live, admit(s, inp.arrived[at]),
           pc' = "arrive", at' = at + 1,
           UNCHANGED <<action, raised, progressed, budget, call>>
    PROVE  Plan'
<1> DEFINE a == inp.arrived[at]
<1>1. /\ raised = "no" /\ UNCHANGED <<raised, inp, seen, decode, preempted, finished, p>>
      /\ decode = <<>> /\ preempted = <<>> /\ p = <<>>
      /\ Ids(finished) \subseteq inp.live /\ finished' = finished
      /\ LiveIds = Stay \cup Admitted(at) /\ Stay' = Stay
  BY DEF Plan, Early, WhoIsLive, action, call, Stay
<1>2. /\ inp.arrived \in Seq(Offers) /\ RequestsOK /\ at \in Nat /\ budget' \in 0 .. token_budget
      /\ budget' = budget
  BY DEF IInv, TypeOK, ListsOK
<1>3. a.id \in Nat /\ a.id \notin LiveIds /\ a.id \in ArrivedIds
  BY <1>2, SchedAssumption DEF Admissible, ArrivedIds
<1>4. \A t \in Slots : /\ ids'[t] = IF t = s THEN a.id ELSE ids[t]
                       /\ state'[t] = IF t = s THEN WAITING ELSE state[t]
  BY <1>2 DEF admit, RequestsOK
<1>5. Live' = Live \cup {s} /\ Live \subseteq Slots
  BY <1>4 DEF Live, WAITING, FREE
<1> HIDE DEF a
<1>6. LiveIds' = LiveIds \cup {a.id}
  BY <1>4, <1>5 DEF LiveIds
<1>7. OneSlotEach'
  <2>1. OneSlotEach /\ \A t \in Live : ids[t] # a.id
    BY <1>3 DEF Plan, Story, LiveIds
  <2>2. QED
    BY <1>4, <1>5, <2>1 DEF OneSlotEach
<1>8. FreshIds'
  BY <1>1, <1>3, <1>6 DEF FreshIds, ArrivedIds, Plan, Story
<1>9. /\ Budgeted' /\ OneChunkEach' /\ Decoded' /\ Preempted' /\ Chunked'
      /\ Named' = Ids(finished') /\ p' \in Seq(Chunks) /\ decode' \in Seq(Nat)
  BY <1>1, <1>2, NothingPlanned
<1>10. PlanLists'
  BY <1>1, <1>9 DEF PlanLists, Plan, Story
<1>11. Gone'
  BY <1>1, <1>3, <1>6 DEF Gone, FreshIds, Plan, Story
<1>12. Admitted(at)' = Admitted(at) \cup {a.id}
  <2>1. {k \in DOMAIN inp.arrived : k < at + 1 /\ ~Blocked(inp.arrived[k])}
          = {k \in DOMAIN inp.arrived : k < at /\ ~Blocked(inp.arrived[k])} \cup {at}
    BY <1>2
  <2>2. Admitted(at + 1) = Admitted(at) \cup {a.id}
    BY <2>1 DEF Admitted, a
  <2>3. Admitted(at)' = Admitted(at + 1)
    BY <1>1 DEF Admitted, Blocked
  <2>4. QED
    BY <2>2, <2>3
<1>13. WhoIsLive'
  BY <1>1, <1>6, <1>12 DEF WhoIsLive, AdmissionIsAtomic
<1>14. CancelledGetNothing'
  <2>1. a.id \notin Ids(inp.cancelled)
    BY DEF Blocked, Ids, a
  <2>2. Ids(inp.cancelled) \cap (LiveIds \cup Ids(finished)) = {}
    BY DEF Plan, CancelledGetNothing, Named
  <2>3. QED
    BY <1>1, <1>6, <1>9, <2>1, <2>2 DEF CancelledGetNothing
<1>15. Early'
  BY <1>1 DEF Early
<1>16. QED
  BY <1>7, <1>8, <1>9, <1>10, <1>11, <1>13, <1>14, <1>15 DEF Plan, Story

\* A refusal takes back this tick's arrivals, and no one else.
LEMMA RefusePlan ==
    ASSUME IInv, Plan, pc = "arrive", at \in DOMAIN inp.arrived,
           RollBack(AdmittedSoFar), Raise("admit"),
           UNCHANGED <<progressed, budget, call>>
    PROVE  Plan'
<1>1. /\ pc' = "idle" /\ raised' = "admit"
      /\ p' = <<>> /\ decode' = <<>> /\ preempted' = <<>> /\ finished' = <<>>
      /\ inp' = inp /\ seen' = seen /\ budget' = budget
      /\ LiveIds = Stay \cup Admitted(at)
  BY DEF Raise, Goto, call, Plan, WhoIsLive
<1>2. /\ inp.arrived \in Seq(Offers) /\ RequestsOK /\ at \in Nat /\ budget' \in 0 .. token_budget
  BY <1>1 DEF IInv, TypeOK, ListsOK
<1>3. AdmittedSoFar = {s \in Live : ids[s] \in Admitted(at)}
  <2>1. DOMAIN inp.arrived = 1 .. Len(inp.arrived) /\ Len(inp.arrived) \in Nat
    BY <1>2
  <2>2. {k \in DOMAIN inp.arrived : k < at} = 1 .. at - 1
    BY <1>2, <2>1
  <2>3. QED
    BY <2>2 DEF AdmittedSoFar, Admitted
<1> DEFINE S == AdmittedSoFar
<1>4. \A s \in Slots : /\ state'[s] = IF s \in S THEN FREE ELSE state[s]
                       /\ ids'[s] = IF s \in S THEN 0 ELSE ids[s]
  BY DEF RollBack, Without
<1>5. S \subseteq Live /\ Live \subseteq Slots
  BY <1>3 DEF Live
<1> HIDE DEF S
<1>6. Live' = Live \ S /\ \A s \in Live' : ids'[s] = ids[s] /\ s \in Live
  BY <1>4, <1>5 DEF Live
<1>7. LiveIds' = LiveIds \ Admitted(at)
  <2>1. \A s \in Live : s \in Live' <=> ids[s] \notin Admitted(at)
    BY <1>3, <1>6 DEF S
  <2>2. QED
    BY <1>6, <2>1 DEF LiveIds
<1>8. Stay \cap Admitted(at) = {}
  BY DEF Stay, Admitted, Plan, Story, FreshIds, ArrivedIds
<1>9. LiveIds' = Stay /\ Stay' = Stay
  BY <1>1, <1>7, <1>8 DEF Stay
<1>10. OneSlotEach'
  BY <1>6 DEF OneSlotEach, Plan, Story
<1>11. FreshIds'
  BY <1>1, <1>7 DEF FreshIds, ArrivedIds, Plan, Story
<1>12. /\ Budgeted' /\ OneChunkEach' /\ Decoded' /\ Preempted' /\ Chunked'
       /\ Named' = Ids(finished') /\ p' \in Seq(Chunks) /\ decode' \in Seq(Nat)
  BY <1>1, <1>2, NothingPlanned
<1>13. Ids(finished') = {}
  BY <1>1, IdsEmpty
<1>14. PlanLists' /\ Gone'
  BY <1>1, <1>12, <1>13 DEF PlanLists, Gone, Plan, Story
<1>15. WhoIsLive' /\ Early'
  BY <1>1, <1>9 DEF WhoIsLive, AdmissionIsAtomic, Stay, Early
<1>16. CancelledGetNothing'
  BY <1>1, <1>9, <1>12, <1>13 DEF CancelledGetNothing, Stay
<1>17. QED
  BY <1>10, <1>11, <1>12, <1>14, <1>15, <1>16 DEF Plan, Story

LEMMA ArrivePlan ==
    ASSUME IInv, Plan, Arrive
    PROVE  Plan'
<1>1. /\ pc = "arrive" /\ raised = "no" /\ at \in Nat /\ at >= 1
      /\ inp.arrived \in Seq(Offers) /\ UNCHANGED <<progressed, budget, call>>
      /\ inp' = inp
  BY DEF Arrive, Plan, Early, IInv, TypeOK, ListsOK, ArrivalsAreFresh, call
<1>2. DOMAIN inp.arrived = 1 .. Len(inp.arrived) /\ Len(inp.arrived) \in Nat
  BY <1>1
<1>3. ASSUME UNCHANGED <<request, action, raised>>
      PROVE  Story' /\ LiveIds' = LiveIds /\ Named' = Named
  <2>1. UNCHANGED <<ids, done, generated, action, budget, progressed, call>> /\ state' = state
    BY <1>1, <1>3 DEF request
  <2>2. Live' = Live
    BY <2>1 DEF Live
  <2>3. QED
    BY <2>1, <2>2, StoryRests DEF Plan
<1>4. CASE at > Len(inp.arrived)
  <2>1. pc' = "promote" /\ UNCHANGED <<request, action, raised>>
    BY <1>4 DEF Arrive, Goto
  <2>2. Story' /\ LiveIds' = LiveIds /\ Named' = Named
    BY <1>3, <2>1
  <2>3. WhoIsLive' /\ Early' /\ CancelledGetNothing'
    BY <1>1, <2>1, <2>2
    DEF WhoIsLive, AdmissionIsAtomic, Early, CancelledGetNothing, Plan, action
  <2>4. QED
    BY <2>2, <2>3 DEF Plan
<1>5. CASE at <= Len(inp.arrived)
  <2>1. at \in DOMAIN inp.arrived
    BY <1>1, <1>2, <1>5
  <2>2. CASE Blocked(inp.arrived[at]) /\ Goto("arrive", at + 1)
             /\ UNCHANGED <<request, action, raised>>
    <3>1. pc' = "arrive" /\ at' = at + 1
      BY <2>2 DEF Goto
    <3>2. Story' /\ LiveIds' = LiveIds /\ Named' = Named
      BY <1>3, <2>2
    <3>3. Admitted(at)' = Admitted(at)
      <4>1. {k \in DOMAIN inp.arrived : k < at + 1 /\ ~Blocked(inp.arrived[k])}
              = {k \in DOMAIN inp.arrived : k < at /\ ~Blocked(inp.arrived[k])}
        BY <1>1, <1>2, <2>2
      <4>2. Admitted(at + 1) = Admitted(at)
        BY <4>1 DEF Admitted
      <4>3. Admitted(at)' = Admitted(at + 1)
        BY <1>1, <3>1 DEF Admitted, Blocked
      <4>4. QED
        BY <4>2, <4>3
    <3>4. WhoIsLive'
      BY <1>1, <2>2, <3>1, <3>2, <3>3 DEF WhoIsLive, AdmissionIsAtomic, Plan, Stay
    <3>5. Early' /\ CancelledGetNothing'
      BY <1>1, <2>2, <3>1, <3>2 DEF Early, CancelledGetNothing, Plan, action
    <3>6. QED
      BY <3>2, <3>4, <3>5 DEF Plan
  <2>3. CASE /\ ~Blocked(inp.arrived[at]) /\ Admissible(inp.arrived[at])
             /\ \E s \in Slots \ Live :
                  /\ \A t \in Slots \ Live : s <= t
                  /\ admit(s, inp.arrived[at])
             /\ Goto("arrive", at + 1)
             /\ UNCHANGED <<action, raised>>
    <3>1. PICK s \in Slots \ Live : admit(s, inp.arrived[at])
      BY <2>3
    <3>2. pc' = "arrive" /\ at' = at + 1
      BY <2>3 DEF Goto
    <3>3. QED
      BY <1>1, <2>1, <2>3, <3>1, <3>2, AdmitPlan
  <2>4. CASE RollBack(AdmittedSoFar) /\ Raise("admit")
    BY <1>1, <2>1, <2>4, RefusePlan
  <2>5. QED
    BY <1>1, <1>2, <1>5, <2>2, <2>3, <2>4 DEF Arrive
<1>6. QED
  BY <1>1, <1>2, <1>4, <1>5

\* The first decision is made: who decodes.
LEMMA PromotePlan ==
    ASSUME IInv, Plan, Promote
    PROVE  Plan'
<1> DEFINE S == {s \in Slots : state[s] = WAITING /\ Prefilled(s)}
<1>1. /\ pc = "promote" /\ raised = "no" /\ pc' = "decode"
      /\ state' = Without(state, S, RUNNING)
      /\ UNCHANGED <<ids, done, generated, action, budget, progressed, call>>
      /\ UNCHANGED <<raised, inp, decode, preempted, finished, p>>
      /\ decode = <<>> /\ preempted = <<>> /\ p = <<>>
  BY DEF Promote, Goto, Plan, Early, action, call
<1>2. Live' = Live
  <2>1. \A s \in Slots : state'[s] = IF s \in S THEN RUNNING ELSE state[s]
    BY <1>1 DEF Without
  <2>2. QED
    BY <2>1 DEF Live, FREE, WAITING, RUNNING
<1>3. Story' /\ LiveIds' = LiveIds /\ Named' = Named
  BY <1>1, <1>2, StoryRests DEF Plan
<1>4. WhoIsLive' /\ Early' /\ CancelledGetNothing'
  BY <1>1, <1>3
  DEF WhoIsLive, AdmissionIsAtomic, Early, CancelledGetNothing, Plan
<1>5. QED
  BY <1>3, <1>4 DEF Plan
-----------------------------------------------------------------------------
(* The decisions.                                                          *)

\* Who has been preempted waits with nothing; what was decoded before is
\* named in preempted now, and a slot with a chunk is not taken.
LEMMA PreemptPlan ==
    ASSUME IInv, Plan, pc \in {"decode", "watermark"}, NEW protect, PreemptOne(protect)
    PROVE  Plan'
<1>1. PICK s \in Victims(protect) : Preempt(s)
  BY DEF PreemptOne
<1>2. /\ UNCHANGED <<p, decode, finished, pc, raised, inp, seen, budget, progressed, ids>>
      /\ preempted' = Append(preempted, ids[s])
  BY <1>1 DEF PreemptOne, Preempt, call
<1>3. /\ s \in Slots /\ state[s] = RUNNING /\ s \in Live /\ RequestsOK
      /\ ids[s] \in Nat /\ ids[s] \in LiveIds /\ preempted \in Seq(Nat)
  BY <1>1 DEF Victims, Live, LiveIds, FREE, RUNNING, IInv, TypeOK, RequestsOK, ListsOK
<1>4. \A t \in Slots : /\ state'[t] = IF t = s THEN WAITING ELSE state[t]
                       /\ done'[t] = IF t = s THEN 0 ELSE done[t]
                       /\ generated'[t] = IF t = s THEN 0 ELSE generated[t]
  BY <1>1, <1>3 DEF Preempt, RequestsOK
<1>5. Live' = Live /\ Live \subseteq Slots
  BY <1>3, <1>4 DEF Live, FREE, WAITING
<1>6. Ids(preempted') = Ids(preempted) \cup {ids[s]}
  BY <1>2, <1>3, IdsAppend
<1>7. LiveIds' = LiveIds /\ OneSlotEach'
  BY <1>2, <1>5, IdsStay DEF Plan, Story
<1>8. PlanLists' /\ FreshIds' /\ OneChunkEach' /\ Gone'
  BY <1>2, <1>7 DEF Plan, Story, PlanLists, FreshIds, ArrivedIds, OneChunkEach, Gone
<1>9. Budgeted'
  <2>1. Tokens' = Tokens
    BY <1>2, TokensAreCounted
  <2>2. QED
    BY <1>2, <2>1 DEF Plan, Story, Budgeted
<1>10. Decoded'
  <2>1. SUFFICES ASSUME NEW r \in Ids(decode) \ (Ids(finished) \cup Ids(preempted) \cup {ids[s]})
                 PROVE  \E t \in Live' : ids'[t] = r /\ state'[t] = RUNNING /\ generated'[t] > 0
    BY <1>2, <1>6 DEF Decoded
  <2>2. PICK t \in Live : ids[t] = r /\ state[t] = RUNNING /\ generated[t] > 0
    BY <2>1 DEF Plan, Story, Decoded
  <2>3. t # s /\ t \in Slots
    BY <1>5, <2>1, <2>2
  <2>4. QED
    BY <1>2, <1>4, <1>5, <2>2, <2>3
<1>11. Preempted'
  <2>1. SUFFICES ASSUME NEW r \in (Ids(preempted) \cup {ids[s]}) \ Prefilling
                 PROVE  \E t \in Live' : ids'[t] = r /\ state'[t] = WAITING /\ done'[t] = 0
    BY <1>2, <1>6 DEF Preempted, Prefilling
  <2>2. CASE r = ids[s]
    BY <1>2, <1>3, <1>4, <1>5, <2>2
  <2>3. CASE r \in Ids(preempted)
    <3>1. PICK t \in Live : ids[t] = r /\ state[t] = WAITING /\ done[t] = 0
      BY <2>1, <2>3 DEF Plan, Story, Preempted
    <3>2. QED
      BY <1>2, <1>4, <1>5, <3>1
  <2>4. QED
    BY <2>1, <2>2, <2>3
<1>12. Chunked'
  <2>1. SUFFICES ASSUME NEW i \in DOMAIN p
                 PROVE  \E t \in Live' :
                          /\ ids'[t] = p[i].req /\ t \in progressed
                          /\ state'[t] = WAITING /\ done'[t] = p[i].end
                          /\ p[i].req \in Ids(preempted') => p[i].start = 0
    BY <1>2 DEF Chunked
  <2>2. PICK t \in Live : /\ ids[t] = p[i].req /\ t \in progressed
                          /\ state[t] = WAITING /\ done[t] = p[i].end
                          /\ p[i].req \in Ids(preempted) => p[i].start = 0
    BY DEF Plan, Story, Chunked
  <2>3. t # s /\ t \in Slots
    BY <1>3, <1>5, <2>2 DEF WAITING, RUNNING
  <2>4. p[i].req # ids[s]
    BY <1>3, <2>2, <2>3 DEF Plan, Story, OneSlotEach
  <2>5. QED
    BY <1>2, <1>4, <1>5, <1>6, <2>2, <2>3, <2>4
<1>13. WhoIsLive' /\ Early'
  <2>1. pc' \in {"decode", "watermark"} /\ raised' = "no"
    BY <1>2 DEF Plan, Early
  <2>2. pc' = "decode" => p' = <<>>
    BY <1>2 DEF Plan, Early
  <2>3. QED
    BY <2>1, <2>2 DEF WhoIsLive, Early, AdmissionIsAtomic
<1>14. CancelledGetNothing'
  <2>1. Named' = Named \cup {ids[s]}
    BY <1>2, <1>6 DEF Named, Prefilling
  <2>2. Ids(inp.cancelled) \cap (LiveIds \cup Named) = {}
    BY DEF Plan, CancelledGetNothing
  <2>3. QED
    BY <1>2, <1>3, <1>7, <2>1, <2>2 DEF CancelledGetNothing
<1>15. QED
  BY <1>7, <1>8, <1>9, <1>10, <1>11, <1>12, <1>13, <1>14 DEF Plan, Story

\* A decoded request is finished and gone, or runs on with one token more.
LEMMA DecodePlan ==
    ASSUME IInv, Plan, pc = "decode", budget > 0, NEW s \in Slots, state[s] = RUNNING,
           Decode(s), pc' = "decode"
    PROVE  Plan'
<1>1. /\ UNCHANGED <<p, preempted, raised, inp, seen, progressed>>
      /\ decode' = Append(decode, ids[s]) /\ budget' = budget - 1 /\ p = <<>> /\ raised = "no"
  BY DEF Decode, call, Plan, Early
<1>2. /\ s \in Live /\ RequestsOK /\ ids[s] \in Nat /\ ids[s] \in LiveIds
      /\ decode \in Seq(Nat) /\ finished \in Seq(Nat) /\ budget \in Nat /\ token_budget \in Nat
  BY SchedAssumption
  DEF Live, LiveIds, FREE, RUNNING, IInv, TypeOK, RequestsOK, Plan, Story, PlanLists
<1>3. decode' \in Seq(Nat) /\ Ids(decode') = Ids(decode) \cup {ids[s]}
  BY <1>1, <1>2, IdsAppend
<1>4. Budgeted'
  <2>0. p \in Seq(Chunks)
    BY DEF Plan, Story, PlanLists
  <2>1. /\ Count(decode, p) \in Nat
        /\ Count(Append(decode, ids[s]), p) = Count(decode, p) + 1
    BY <1>2, <2>0, CountNat, CountDecode
  <2>2. Tokens \in Nat /\ Tokens' = Tokens + 1
    BY <1>1, <2>1, TokensAreCounted
  <2>3. Tokens + budget <= token_budget
    BY DEF Plan, Story, Budgeted
  <2>4. \A n, b \in Nat : n + b <= token_budget => (n + 1) + (b - 1) <= token_budget
    BY <1>2
  <2>5. Tokens' + budget' <= token_budget
    BY <1>1, <1>2, <2>2, <2>3, <2>4
  <2>6. QED
    BY <2>5 DEF Budgeted
<1>5. OneChunkEach' /\ Chunked' /\ Prefilling' = {} /\ Prefilling = {}
  BY <1>1 DEF OneChunkEach, Chunked, Prefilling
<1>6. /\ \/ /\ LiveIds' = LiveIds /\ Live' = Live /\ finished' = finished
            /\ generated'[s] > 0 /\ state'[s] = RUNNING /\ ids'[s] = ids[s]
         \/ /\ LiveIds' = LiveIds \ {ids[s]} /\ Live' = Live \ {s}
            /\ finished' = Append(finished, ids[s])
      /\ OneSlotEach'
      /\ \A t \in Live \ {s} : /\ ids'[t] = ids[t] /\ state'[t] = state[t]
                               /\ done'[t] = done[t] /\ generated'[t] = generated[t]
  <2>1. CASE generated[s] + 1 >= max_new[s]
    <3>1. Clear(s) /\ finished' = Append(finished, ids[s])
      BY <2>1 DEF Decode
    <3>2. QED
      BY <1>2, <3>1, ClearEffect DEF Plan, Story
  <2>2. CASE ~(generated[s] + 1 >= max_new[s])
    <3>1. /\ generated' = [generated EXCEPT ![s] = @ + 1]
          /\ UNCHANGED <<state, ids, done, finished>>
      BY <2>2 DEF Decode
    <3>2. Live' = Live
      BY <3>1 DEF Live
    <3>3. LiveIds' = LiveIds /\ OneSlotEach'
      BY <3>1, <3>2, IdsStay DEF Plan, Story
    <3>4. generated'[s] > 0 /\ \A t \in Live \ {s} : generated'[t] = generated[t]
      BY <1>2, <3>1 DEF RequestsOK, Live
    <3>5. QED
      BY <3>1, <3>2, <3>3, <3>4
  <2>3. QED
    BY <2>1, <2>2
<1>7. /\ Append(finished, ids[s]) \in Seq(Nat)
      /\ Ids(Append(finished, ids[s])) = Ids(finished) \cup {ids[s]}
  BY <1>2, IdsAppend
<1>8. PlanLists' /\ FreshIds'
  <2>1. PlanLists'
    BY <1>1, <1>2, <1>3, <1>6, <1>7 DEF Plan, Story, PlanLists
  <2>2. FreshIds'
    BY <1>1, <1>2, <1>3, <1>6, <1>7 DEF Plan, Story, FreshIds, ArrivedIds
  <2>3. QED
    BY <2>1, <2>2
<1>9. Gone'
  BY <1>2, <1>6, <1>7 DEF Gone, Plan, Story
<1>10. Decoded'
  <2>1. SUFFICES ASSUME NEW r \in Ids(decode'), r \notin Ids(finished'), r \notin Ids(preempted)
                 PROVE  \E t \in Live' : ids'[t] = r /\ state'[t] = RUNNING /\ generated'[t] > 0
    BY <1>1 DEF Decoded
  <2>2. CASE r = ids[s]
    <3>1. finished' # Append(finished, ids[s])
      BY <1>7, <2>1, <2>2
    <3>2. QED
      BY <1>2, <1>6, <2>2, <3>1
  <2>3. CASE r # ids[s]
    <3>1. r \in Ids(decode) /\ r \notin Ids(finished)
      BY <1>3, <1>6, <1>7, <2>1, <2>3
    <3>2. PICK t \in Live : ids[t] = r /\ state[t] = RUNNING /\ generated[t] > 0
      BY <2>1, <3>1 DEF Plan, Story, Decoded
    <3>3. t \in Live \ {s} /\ t \in Live'
      BY <1>6, <2>3, <3>2
    <3>4. QED
      BY <1>6, <3>2, <3>3
  <2>4. QED
    BY <2>2, <2>3
<1>11. Preempted'
  <2>1. SUFFICES ASSUME NEW r \in Ids(preempted)
                 PROVE  \E t \in Live' : ids'[t] = r /\ state'[t] = WAITING /\ done'[t] = 0
    BY <1>1 DEF Preempted
  <2>2. PICK t \in Live : ids[t] = r /\ state[t] = WAITING /\ done[t] = 0
    BY <1>5, <2>1 DEF Plan, Story, Preempted
  <2>3. t \in Live \ {s} /\ t \in Live'
    BY <1>6, <2>2 DEF WAITING, RUNNING
  <2>4. QED
    BY <1>6, <2>2, <2>3
<1>12. WhoIsLive' /\ Early'
  BY <1>1 DEF WhoIsLive, Early, AdmissionIsAtomic
<1>13. CancelledGetNothing'
  <2>1. Named' \subseteq Named \cup {ids[s]} /\ LiveIds' \subseteq LiveIds
    BY <1>1, <1>3, <1>5, <1>6, <1>7 DEF Named
  <2>2. Ids(inp.cancelled) \cap (LiveIds \cup Named) = {}
    BY DEF Plan, CancelledGetNothing
  <2>3. QED
    BY <1>1, <1>2, <2>1, <2>2 DEF CancelledGetNothing
<1>14. QED
  BY <1>4, <1>5, <1>6, <1>8, <1>9, <1>10, <1>11, <1>12, <1>13 DEF Plan, Story

\* The phases after the arrivals move on without a decision.
LEMMA MovePlan ==
    ASSUME Plan, pc \in {"decode", "starved", "prefill", "watermark"},
           UNCHANGED <<state, ids, done, generated, action, budget, progressed, raised, call>>,
           \/ pc' \in {"starved", "prefill", "watermark", "idle"}
           \/ pc' = "decode" /\ pc = "decode"
    PROVE  Plan'
<1>1. Live' = Live
  BY DEF Live
<1>2. Story' /\ LiveIds' = LiveIds /\ Named' = Named
  BY <1>1, StoryRests DEF Plan
<1>3. raised' = "no" /\ inp' = inp /\ p' = p
  BY DEF Plan, Early, call, action
<1>4. WhoIsLive' /\ Early'
  BY <1>3 DEF WhoIsLive, Early, AdmissionIsAtomic, Plan
<1>5. CancelledGetNothing'
  BY <1>2, <1>3 DEF CancelledGetNothing, Plan
<1>6. QED
  BY <1>2, <1>4, <1>5 DEF Plan

\* No room for a token, even with every other request preempted.
LEMMA NoRoomPlan ==
    ASSUME IInv, Plan, pc = "decode", Raise("room"),
           UNCHANGED <<request, progressed, books, budget, call>>
    PROVE  Plan'
<1>1. /\ pc' = "idle" /\ raised' = "room" /\ inp' = inp /\ seen' = seen /\ ids' = ids
      /\ p' = <<>> /\ decode' = <<>> /\ preempted' = <<>> /\ finished' = <<>>
      /\ budget' \in 0 .. token_budget
  BY DEF Raise, Goto, call, request, IInv, TypeOK
<1>2. Live' = Live
  BY DEF Live, request
<1>3. LiveIds' = LiveIds /\ OneSlotEach'
  BY <1>1, <1>2, IdsStay DEF Plan, Story
<1>4. /\ Budgeted' /\ OneChunkEach' /\ Decoded' /\ Preempted' /\ Chunked'
      /\ Named' = Ids(finished') /\ p' \in Seq(Chunks) /\ decode' \in Seq(Nat)
  BY <1>1, NothingPlanned
<1>5. Ids(finished') = {}
  BY <1>1, IdsEmpty
<1>6. PlanLists' /\ FreshIds' /\ Gone'
  BY <1>1, <1>3, <1>4, <1>5 DEF PlanLists, FreshIds, ArrivedIds, Gone, Plan, Story
<1>7. WhoIsLive' /\ Early'
  BY <1>1 DEF WhoIsLive, Early, AdmissionIsAtomic
<1>8. Ids(inp.cancelled) \cap LiveIds = {}
  BY DEF Plan, CancelledGetNothing
<1>9. CancelledGetNothing'
  BY <1>1, <1>3, <1>4, <1>5, <1>8 DEF CancelledGetNothing
<1>10. QED
  BY <1>3, <1>4, <1>6, <1>7, <1>9 DEF Plan, Story

LEMMA DecodePhasePlan ==
    ASSUME IInv, Plan, DecodePhase
    PROVE  Plan'
<1>1. pc = "decode" /\ at \in Nat /\ MAX_BATCH \in Nat /\ budget \in Int
  BY SchedAssumption DEF DecodePhase, IInv, TypeOK
<1>2. CASE at >= MAX_BATCH \/ budget <= 0
  BY <1>1, <1>2, MovePlan DEF DecodePhase, Goto, request
<1>3. CASE at < MAX_BATCH /\ budget > 0 /\ state[at] # RUNNING
  BY <1>1, <1>3, MovePlan DEF DecodePhase, Goto, request
<1>4. CASE at < MAX_BATCH /\ budget > 0 /\ state[at] = RUNNING
  <2>1. \/ PreemptOne(at)
        \/ Raise("room") /\ UNCHANGED <<request, progressed, books, budget, call>>
        \/ Decode(at) /\ Goto("decode", at + 1)
    BY <1>1, <1>4 DEF DecodePhase
  <2>2. CASE PreemptOne(at)
    BY <1>1, <2>2, PreemptPlan
  <2>3. CASE Raise("room") /\ UNCHANGED <<request, progressed, books, budget, call>>
    BY <1>1, <2>3, NoRoomPlan
  <2>4. CASE Decode(at) /\ Goto("decode", at + 1)
    <3>1. at \in Slots /\ pc' = "decode"
      BY <1>1, <1>4, <2>4 DEF Slots, Goto
    <3>2. QED
      BY <1>1, <1>4, <2>4, <3>1, DecodePlan
  <2>5. QED
    BY <2>1, <2>2, <2>3, <2>4
<1>5. QED
  BY <1>1, <1>2, <1>3, <1>4

\* A chunk starts where the request stands, and no slot gets two.
LEMMA ChunkPlan ==
    ASSUME IInv, Plan, pc \in {"starved", "prefill"}, NEW s \in Slots,
           Servable(s), RoomFor(s), try_prefill(s),
           UNCHANGED <<state, ids, generated, decode, preempted, finished, raised, call>>,
           pc' \in {"starved", "prefill", "watermark"}
    PROVE  Plan'
<1> DEFINE c == [req |-> ids[s], start |-> done[s], end |-> done[s] + Chunk(s)]
<1>1. /\ p' = Append(p, c) /\ budget' = budget - Chunk(s)
      /\ done' = [done EXCEPT ![s] = c.end]
      /\ progressed' = progressed \cup {s}
  BY DEF try_prefill
<1>2. /\ state[s] = WAITING /\ s \notin progressed /\ s \in Live /\ RequestsOK
      /\ ids[s] \in Nat /\ ids[s] \in LiveIds /\ done[s] \in Nat /\ prompt_len[s] \in Nat
      /\ budget > 0 /\ budget \in Nat /\ done[s] < prompt_len[s]
      /\ raised = "no" /\ inp' = inp /\ seen' = seen
      /\ p \in Seq(Chunks) /\ decode \in Seq(Nat)
  BY DEF Servable, Live, LiveIds, FREE, WAITING, IInv, TypeOK, RequestsOK, Plan, Early, Story,
         PlanLists, call
<1>3. Chunk(s) \in 1 .. budget
  BY <1>2, SchedAssumption DEF Chunk
<1>4. /\ c \in Chunks /\ c.end \in Nat /\ c.end - c.start = Chunk(s)
      /\ c.req = ids[s] /\ c.start = done[s]
  BY <1>2, <1>3 DEF Chunks
<1> HIDE DEF c
<1>5. /\ p' \in Seq(Chunks) /\ DOMAIN p' = DOMAIN p \cup {Len(p) + 1}
      /\ p'[Len(p) + 1] = c /\ \A i \in DOMAIN p : p'[i] = p[i]
  <2>1. DOMAIN p = 1 .. Len(p) /\ Len(p) \in Nat
    BY <1>2
  <2>2. p' \in Seq(Chunks) /\ DOMAIN p' = 1 .. Len(p) + 1
    BY <1>1, <1>2, <1>4
  <2>3. p'[Len(p) + 1] = c /\ \A i \in DOMAIN p : p'[i] = p[i]
    BY <1>1, <1>2, <1>4, <2>1
  <2>4. QED
    BY <2>1, <2>2, <2>3
<1>6. Live' = Live /\ Live \subseteq Slots
  BY DEF Live
<1>7. LiveIds' = LiveIds /\ OneSlotEach'
  BY <1>6, IdsStay DEF Plan, Story
<1>8. PlanLists' /\ FreshIds' /\ Gone'
  BY <1>2, <1>5, <1>7 DEF Plan, Story, PlanLists, FreshIds, ArrivedIds, Gone
<1>9. Prefilling' = Prefilling \cup {ids[s]}
  <2>1. /\ Prefilling' = {p'[i].req : i \in DOMAIN p'}
        /\ Prefilling = {p[i].req : i \in DOMAIN p}
    BY DEF Prefilling
  <2>2. QED
    BY <1>4, <1>5, <2>1
<1>10. Budgeted'
  <2>1. /\ Count(decode, p) \in Nat
        /\ Count(decode, Append(p, c)) = Count(decode, p) + (c.end - c.start)
    BY <1>2, <1>4, CountNat, CountChunk
  <2>2. Tokens \in Nat /\ Tokens' = Tokens + Chunk(s)
    BY <1>1, <1>4, <2>1, TokensAreCounted
  <2>3. Tokens + budget <= token_budget /\ token_budget \in Nat
    BY SchedAssumption DEF Plan, Story, Budgeted
  <2>4. \A n, b, k \in Nat : n + b <= token_budget => (n + k) + (b - k) <= token_budget
    BY <2>3
  <2>5. Chunk(s) \in Nat
    BY <1>2, <1>3
  <2>6. Tokens' + budget' <= token_budget
    BY <1>1, <1>2, <2>2, <2>3, <2>4, <2>5
  <2>7. QED
    BY <2>6 DEF Budgeted
<1>11. \A i \in DOMAIN p : \E t \in Live \ {s} :
         /\ ids[t] = p[i].req /\ t \in progressed
         /\ state[t] = WAITING /\ done[t] = p[i].end
         /\ p[i].req \in Ids(preempted) => p[i].start = 0
  BY <1>2 DEF Plan, Story, Chunked
<1>12. ids[s] \notin Prefilling
  BY <1>2, <1>11 DEF Prefilling, Plan, Story, OneSlotEach
<1>13. OneChunkEach'
  <2>1. \A i \in DOMAIN p : p[i].req # ids[s]
    BY <1>12 DEF Prefilling
  <2>2. \A i, j \in DOMAIN p : i # j => p[i].req # p[j].req
    BY DEF Plan, Story, OneChunkEach
  <2>3. QED
    BY <1>4, <1>5, <2>1, <2>2 DEF OneChunkEach
<1>14. \A t \in Live : done'[t] = IF t = s THEN c.end ELSE done[t]
  BY <1>1, <1>2, <1>6 DEF RequestsOK
<1>15. Decoded'
  BY <1>6 DEF Plan, Story, Decoded
<1>16. Preempted'
  <2>1. SUFFICES ASSUME NEW r \in Ids(preempted) \ Prefilling, r # ids[s]
                 PROVE  \E t \in Live' : ids'[t] = r /\ state'[t] = WAITING /\ done'[t] = 0
    BY <1>9 DEF Preempted
  <2>2. PICK t \in Live : ids[t] = r /\ state[t] = WAITING /\ done[t] = 0
    BY <2>1 DEF Plan, Story, Preempted
  <2>3. QED
    BY <1>6, <1>14, <2>1, <2>2
<1>17. Chunked'
  <2> DEFINE Stands(i) == \E t \in Live : /\ ids[t] = p'[i].req /\ t \in progressed'
                                          /\ state[t] = WAITING /\ done'[t] = p'[i].end
                                          /\ p'[i].req \in Ids(preempted) => p'[i].start = 0
  <2>1. ASSUME NEW i \in DOMAIN p PROVE Stands(i)
    <3>1. PICK t \in Live \ {s} : /\ ids[t] = p[i].req /\ t \in progressed
                                  /\ state[t] = WAITING /\ done[t] = p[i].end
                                  /\ p[i].req \in Ids(preempted) => p[i].start = 0
      BY <1>11
    <3>2. p'[i] = p[i] /\ done'[t] = done[t] /\ t \in progressed'
      BY <1>1, <1>5, <1>14, <3>1
    <3>3. QED
      BY <3>1, <3>2
  <2>2. Stands(Len(p) + 1)
    <3>1. ids[s] \in Ids(preempted) => done[s] = 0
      <4>1. SUFFICES ASSUME ids[s] \in Ids(preempted) PROVE done[s] = 0
        OBVIOUS
      <4>2. PICK t \in Live : ids[t] = ids[s] /\ done[t] = 0
        BY <1>12, <4>1 DEF Plan, Story, Preempted
      <4>3. t = s
        BY <1>2, <4>2 DEF Plan, Story, OneSlotEach
      <4>4. QED
        BY <4>2, <4>3
    <3>2. done'[s] = c.end /\ s \in progressed'
      BY <1>1, <1>2, <1>14
    <3>3. QED
      BY <1>2, <1>4, <1>5, <3>1, <3>2
  <2>3. \A i \in DOMAIN p' : Stands(i)
    BY <1>5, <2>1, <2>2
  <2>4. QED
    BY <1>6, <2>3 DEF Chunked
<1>18. WhoIsLive' /\ Early'
  BY <1>2 DEF WhoIsLive, Early, AdmissionIsAtomic
<1>19. CancelledGetNothing'
  <2>1. Named' = Named \cup {ids[s]}
    BY <1>9 DEF Named
  <2>2. Ids(inp.cancelled) \cap (LiveIds \cup Named) = {}
    BY DEF Plan, CancelledGetNothing
  <2>3. QED
    BY <1>2, <1>7, <2>1, <2>2 DEF CancelledGetNothing
<1>20. QED
  BY <1>7, <1>8, <1>10, <1>13, <1>15, <1>16, <1>17, <1>18, <1>19 DEF Plan, Story

LEMMA PrefillPhasePlan ==
    ASSUME IInv, Plan, NEW phase \in {"starved", "prefill"},
           NEW next \in {"prefill", "watermark"}, NEW wanted,
           PrefillPhase(phase, next, wanted)
    PROVE  Plan'
<1>1. /\ pc = phase /\ pc' \in {"starved", "prefill", "watermark"}
      /\ UNCHANGED <<state, ids, generated, decode, preempted, finished, raised, call>>
  BY DEF PrefillPhase, Goto
<1>2. CASE UNCHANGED <<p, done, progressed, budget>>
  <2>1. UNCHANGED <<state, ids, done, generated, action, budget, progressed, raised, call>>
    BY <1>1, <1>2 DEF action
  <2>2. QED
    BY <1>1, <2>1, MovePlan
<1>3. CASE at \in Slots /\ Servable(at) /\ RoomFor(at) /\ try_prefill(at)
  BY <1>1, <1>3, ChunkPlan
<1>4. QED
  <2>1. at >= MAX_BATCH \/ at \in Slots
    BY SlotReached
  <2>2. QED
    BY <1>2, <1>3, <2>1 DEF PrefillPhase, try_prefill

LEMMA WatermarkPlan ==
    ASSUME IInv, Plan, Watermark
    PROVE  Plan'
<1>1. CASE PreemptOne(-1)
  BY <1>1, PreemptPlan DEF Watermark
<1>2. CASE /\ Goto("idle", 0)
           /\ UNCHANGED <<request, progressed, books, action, budget, raised, call>>
  BY <1>2, MovePlan DEF Watermark, Goto, request
<1>3. QED
  BY <1>1, <1>2 DEF Watermark

LEMMA NextPlan ==
    ASSUME IInv, Plan, [Next]_vars
    PROVE  Plan'
<1>1. CASE UNCHANGED vars
  BY <1>1, StutterPlan
<1>2. CASE NextTick
  BY <1>2, TickPlan
<1>3. CASE Cancel
  BY <1>3, CancelPlan
<1>4. CASE Report
  BY <1>4, ReportPlan
<1>5. CASE Wait
  BY <1>5, WaitPlan
<1>6. CASE Arrive
  BY <1>6, ArrivePlan
<1>7. CASE Promote
  BY <1>7, PromotePlan
<1>8. CASE DecodePhase
  BY <1>8, DecodePhasePlan
<1>9. CASE StarvedPrefill
  BY <1>9, PrefillPhasePlan DEF StarvedPrefill
<1>10. CASE OrdinaryPrefill
  BY <1>10, PrefillPhasePlan DEF OrdinaryPrefill
<1>11. CASE Watermark
  BY <1>11, WatermarkPlan
<1>12. QED
  BY <1>1, <1>2, <1>3, <1>4, <1>5, <1>6, <1>7, <1>8, <1>9, <1>10, <1>11 DEF Next, Step
-----------------------------------------------------------------------------
\* What the action under construction says holds in every reachable state.
THEOREM PlanInvariant == Spec => []Plan
<1>1. Init => Plan
  BY InitPlan
<1>2. IInv /\ Plan /\ [Next]_vars => Plan'
  BY NextPlan
<1>3. QED
  BY <1>1, <1>2, SchedInvariant, PTL DEF Spec

\* When step() refuses an arrival, exactly the requests that were live before
\* the tick, without those cancelled and reported in it, are still there: its
\* own earlier arrivals have been taken back and no other request with them.
THEOREM RefusalLeavesNothing == Spec => []AdmissionIsAtomic
<1>1. Plan => AdmissionIsAtomic
  BY DEF Plan, WhoIsLive
<1>2. QED
  BY <1>1, PlanInvariant, PTL

\* The action step() builds stays within the token budget, gives a cancelled
\* request nothing and no request two chunks, and names the requests as the
\* book has them.
THEOREM PolicyIsKept == Spec => []PlanKeepsPolicy
<1>1. IInv /\ Plan => PlanKeepsPolicy
  <2> SUFFICES ASSUME IInv, Plan PROVE PlanKeepsPolicy
    OBVIOUS
  <2>1. Tokens <= token_budget
    <3>1. Tokens \in Nat
      BY CountNat, TokensAreCounted DEF Plan, Story, PlanLists
    <3>2. budget \in Nat /\ token_budget \in Nat
      BY SchedAssumption DEF IInv, TypeOK
    <3>3. Tokens + budget <= token_budget
      BY DEF Plan, Story, Budgeted
    <3>4. QED
      BY <3>1, <3>2, <3>3
  <2>2. CancelWins
    BY DEF CancelWins, Plan, CancelledGetNothing, Named
  <2>3. PlanMatchesBook
    BY DEF PlanMatchesBook, Plan, Story, Decoded, Preempted, Chunked, Gone
  <2>4. QED
    BY <2>1, <2>2, <2>3 DEF PlanKeepsPolicy, Plan, Story, OneChunkEach
<1>2. QED
  BY <1>1, SchedInvariant, PlanInvariant, PTL
=============================================================================
