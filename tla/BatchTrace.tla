----------------------------- MODULE BatchTrace -----------------------------
(***************************************************************************)
(* A BatchPool and a BatchSlots as the recorded traces drive them          *)
(* (scripts/dump_batch_reference.py, engine/batch.mojo): one operation     *)
(* after another in any order, each by anybody.  An operation that is      *)
(* refused changes nothing, so it has no step here.                        *)
(***************************************************************************)
EXTENDS BatchOps

CONSTANTS CAPACITY,     \* bytes of the pool's buffer
          Sizes,        \* sizes that are asked for
          Requests,     \* request ids
          Counts        \* rows a request may have

VARIABLES pool, slots

vars == <<pool, slots>>

Init ==
    /\ pool = NewBatchPool(CAPACITY)
    /\ slots = NewSlots

get(size) ==
    /\ CanBorrow(pool, size)
    /\ pool' = Borrow(pool, size)
    /\ UNCHANGED slots

rel(h) ==
    /\ h \in LiveHandles(pool)
    /\ pool' = Release(pool, h)
    /\ UNCHANGED slots

add(r, n) ==
    /\ CanAddRun(slots, r, n)
    /\ slots' = AddRun(slots, r, n)
    /\ UNCHANGED pool

del(r) ==
    /\ Owns(slots, r)
    /\ slots' = RemoveRun(slots, r)
    /\ UNCHANGED pool

clr ==
    /\ pool' = ResetPool(pool)
    /\ slots' = ClearRuns(slots)

Next ==
    \/ \E size \in Sizes : get(size)
    \/ \E h \in Handles : rel(h)
    \/ \E r \in Requests, n \in Counts : add(r, n)
    \/ \E r \in Requests : del(r)
    \/ clr

Spec == Init /\ [][Next]_vars
-----------------------------------------------------------------------------
\* Two leases never share a byte, and every lease is aligned and inside the
\* buffer, whatever order they were taken and given back in (defects()).
LeasesApart == LeasesSound(pool, LiveHandles(pool))

\* Two requests never share a row, in whatever order requests join and leave.
RowsApart == RunsApart(slots)

\* place finds the lowest offset at which nothing is taken for as long as is
\* asked: a refusal means there is no such offset, not that it was missed.
\* The same for rows, which never run out.
LeaseFits(at, n) ==
    \A h \in LiveHandles(pool) : at + n <= Begin(pool, h) \/ End(pool, h) <= at

RunFits(at, n) ==
    \A i \in LiveRuns(slots) : at + n <= slots[i].off \/ RunEnd(slots, i) <= at

FirstFit ==
    /\ \A size \in Sizes :
         LET n    == ceil_bytes(size)
             fits == {at \in 0 .. CAPACITY - n : LeaseFits(at, n)}
         IN  size > 0 => Place(pool, n) = IF fits = {} THEN NO_SLOT ELSE Min(fits)
    /\ \A n \in Counts :
         LET at == PlaceRun(slots, n)
         IN  RunFits(at, n) /\ \A lower \in 0 .. at - 1 : ~RunFits(lower, n)

\* After every operation defects() of pool and slots is empty, and the gaps
\* that are left are found, at their lowest.
NoDefects == LeasesApart /\ RowsApart /\ FirstFit
=============================================================================
