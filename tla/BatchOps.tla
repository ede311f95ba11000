------------------------------ MODULE BatchOps ------------------------------
(***************************************************************************)
(* engine/batch.mojo: the byte intervals a step borrows from one buffer    *)
(* (BatchPool) and the runs of rows the requests of a step own             *)
(* (BatchSlots), as operators on a pool value                              *)
(*   [capacity, used, high_water, lease]                                   *)
(* and on a slots value [owner, off, cnt].  Both place first fit in the    *)
(* gaps of what is live; nothing else is remembered.                       *)
(***************************************************************************)
EXTENDS Integers, Sequences, SequencesExt, FiniteSets

CONSTANTS ALIGN,         \* every lease begins and ends at a multiple of it
          MAX_HANDLES,   \* leases at once
          MAX_BATCH      \* requests of one step

Handles    == 0 .. MAX_HANDLES - 1
BatchSlots == 0 .. MAX_BATCH - 1

NO_SLOT    == -1
NO_REQUEST == -1

ceil_bytes(n) == ((n + ALIGN - 1) \div ALIGN) * ALIGN
-----------------------------------------------------------------------------
(* BatchPool *)

NoLease == [ live |-> FALSE, begin |-> 0, size |-> 0 ]

NewBatchPool(capacity) ==
    [ capacity |-> capacity, used |-> 0, high_water |-> 0,
      lease    |-> [h \in Handles |-> NoLease] ]

LiveHandles(p) == {h \in Handles : p.lease[h].live}

\* free_slot: the lowest handle that is not live.
FreeHandle(p) ==
    IF LiveHandles(p) = Handles THEN NO_SLOT ELSE Min(Handles \ LiveHandles(p))

Begin(p, h) == p.lease[h].begin
End(p, h)   == p.lease[h].begin + p.lease[h].size

\* Where a gap can begin: at the front and behind every live lease.
GapStarts(p, live) ==
    {at \in {0} \cup {End(p, h) : h \in live} :
        \A h \in live : ~(Begin(p, h) <= at /\ at < End(p, h))}

Room(p, live, at) ==
    Min({p.capacity} \cup {Begin(p, h) : h \in {g \in live : Begin(p, g) >= at}}) - at

\* Looks behind a lease without asking what begins there.
PlaceLoose(p, aligned) ==
    LET fits == {at \in {0} \cup {End(p, h) : h \in LiveHandles(p)} :
                    at + aligned <= p.capacity}
    IN  IF fits = {} THEN NO_SLOT ELSE Min(fits)

\* place: the lowest gap with room.
Place(p, aligned) ==
    LET live == LiveHandles(p)
        fits == {at \in GapStarts(p, live) : Room(p, live, at) >= aligned}
    IN  IF fits = {} THEN NO_SLOT ELSE Min(fits)

CanBorrow(p, size) ==
    /\ size > 0
    /\ ceil_bytes(size) <= p.capacity
    /\ FreeHandle(p) # NO_SLOT
    /\ Place(p, ceil_bytes(size)) # NO_SLOT

LeaseAt(p, at, aligned) ==
    [ p EXCEPT !.lease[FreeHandle(p)] = [live |-> TRUE, begin |-> at, size |-> aligned],
               !.used = @ + aligned,
               !.high_water = Max({@, at + aligned}) ]

Borrow(p, size) == LeaseAt(p, Place(p, ceil_bytes(size)), ceil_bytes(size))

\* The code's arrays keep begin and size of a released handle, which nothing
\* but the digest reads.
Release(p, h) == [p EXCEPT !.lease[h] = NoLease, !.used = @ - p.lease[h].size]

ResetPool(p) == [p EXCEPT !.used = 0, !.lease = [h \in Handles |-> NoLease]]

\* What BatchPool.defects() re-derives from the leases.
LeasesSound(p, live) ==
    /\ \A h \in live :
         /\ Begin(p, h) >= 0 /\ Begin(p, h) = ceil_bytes(Begin(p, h))
         /\ p.lease[h].size > 0
         /\ End(p, h) <= p.capacity
    /\ \A h, g \in live :
         h # g => End(p, h) <= Begin(p, g) \/ End(p, g) <= Begin(p, h)

PoolSound(p) ==
    /\ LeasesSound(p, LiveHandles(p))
    /\ p.used = SumFunctionOnSet([h \in Handles |-> p.lease[h].size], LiveHandles(p))
-----------------------------------------------------------------------------
(* BatchSlots *)

NoRun == [ owner |-> NO_REQUEST, off |-> 0, cnt |-> 0 ]

NewSlots == [i \in BatchSlots |-> NoRun]

LiveRuns(b) == {i \in BatchSlots : b[i].owner # NO_REQUEST}

Owns(b, request) == \E i \in LiveRuns(b) : b[i].owner = request

total_tokens(b) ==
    SumFunctionOnSet([i \in BatchSlots |-> b[i].cnt], LiveRuns(b))

RunEnd(b, i) == b[i].off + b[i].cnt

\* place: the lowest row from which count rows are nobody's.  The rows have
\* no upper bound here.
PlaceRun(b, count) ==
    Min({at \in {0} \cup {RunEnd(b, i) : i \in LiveRuns(b)} :
            \A i \in LiveRuns(b) : RunEnd(b, i) <= at \/ at + count <= b[i].off})

CanAddRun(b, request, count) ==
    /\ count > 0
    /\ ~Owns(b, request)
    /\ LiveRuns(b) # BatchSlots

AddRun(b, request, count) ==
    [b EXCEPT ![Min(BatchSlots \ LiveRuns(b))] =
        [owner |-> request, off |-> PlaceRun(b, count), cnt |-> count]]

RemoveRun(b, request) ==
    [i \in BatchSlots |-> IF b[i].owner = request THEN NoRun ELSE b[i]]

ClearRuns(b) == [i \in BatchSlots |-> NoRun]

RunsApart(b) ==
    \A i, j \in LiveRuns(b) :
        i # j => RunEnd(b, i) <= b[j].off \/ RunEnd(b, j) <= b[i].off
=============================================================================
