------------------------------- MODULE Replay -------------------------------
(***************************************************************************)
(* The recorded traces played through the operators the other modules are  *)
(* built from, as run() of the three reference scripts plays them through  *)
(* the reference implementations and the unit tests through the engine:    *)
(* one operation after another, at the sizes the scripts use, each         *)
(* answering what was recorded for it.                                     *)
(***************************************************************************)
EXTENDS KvTraces, SequencesExt, FiniteSets

Batches == INSTANCE BatchOps WITH ALIGN <- 64, MAX_HANDLES <- 24, MAX_BATCH <- 8
Recorded == INSTANCE BatchTraces

CAPACITY == 262144

VARIABLES trace,     \* the trace being replayed
          at,        \* operations done
          room,      \* a KvRoom; the s traces use its space only
          pool,      \* a BatchPool
          slots,     \* a BatchSlots
          answer     \* what the last operation answered

replay == <<trace, at, room, pool, slots, answer>>

KvScenarios ==
    { s01_prompt_sharing, s02_split_divergence, s03_long_prompt_chain, s04_append_grow,
      s05_evict_and_reuse, s06_small_blocks, s07_refcount_pressure,
      r01_second_prompt_is_free, r02_sliced_prompt, r03_decode_growth,
      r04_evict_returns_cache, r05_hit_then_reclaim }

BatchScenarios ==
    { Recorded!s01_executor_step, Recorded!s02_interleaved_lifetimes,
      Recorded!s03_room_but_not_contiguous, Recorded!s04_batch_turnover,
      Recorded!s05_two_holes, Recorded!s06_refusals_are_named,
      Recorded!s07_handle_pressure }

\* The scripts' sizes; only the size of a block differs between traces.
BlockSize == IF trace = s06_small_blocks THEN 4 ELSE 16

Kv == INSTANCE RoomOps WITH
    MAX_BLOCKS <- 112, MAX_BLOCKS_PER_SEQ <- 16, MAX_REQUESTS <- 8, MAX_NODES <- 32,
    MAX_NODE_TOKENS <- 16, MAX_NODE_BLOCKS <- 4, MAX_SEQ_TOKENS <- 64, MAX_PATH <- 8,
    block_size <- BlockSize

Step == trace[at + 1]

ReplayInit(traces) ==
    /\ trace \in traces
    /\ at = 0
    /\ room = Kv!NewRoom
    /\ pool = Batches!NewBatchPool(CAPACITY)
    /\ slots = Batches!NewSlots
    /\ answer = <<>>
-----------------------------------------------------------------------------
(* KV traces: what an operation answers, read off the space it leaves *)

Unique(s) ==
    FoldLeft(LAMBDA acc, b : IF acc # <<>> /\ Last(acc) = b THEN acc ELSE Append(acc, b),
             <<>>, s)

\* alloc_one pops the tail of the free stack, release pushes.
Fresh(old, new) ==
    LET taken == Kv!n_free(old.pool) - Kv!n_free(new.pool)
    IN  Reverse(SubSeq(old.pool.free_stack, Len(old.pool.free_stack) - taken + 1,
                       Len(old.pool.free_stack)))

GivenBack(old, new) ==
    SubSeq(new.pool.free_stack, Len(old.pool.free_stack) + 1, Len(new.pool.free_stack))

Offset(t, path) == IF path = <<>> THEN Dash ELSE t[path[1].node].offset

Node(path) == IF path = <<>> THEN Dash ELSE Last(path).node

\* The blocks of the new request's table that were there before it came.
SharedBlocks(old, new, slot) ==
    Unique(SelectSeq(Kv!TableBlocks(new.rq[slot].table),
                     LAMBDA b : old.pool.refcnt[b] > 0))

\* The nodes commit allocated, lowest id first: the other half of a split
\* node, then the nodes of the request's own.
NewNodes(old, new) ==
    SetToSortSeq({x \in Kv!AliveNodes(new.tree) : ~old.tree[x].alive}, <)

WasSplit(old, new) ==
    \E x \in Kv!AliveNodes(old.tree) :
        Len(new.tree[x].tokens) < Len(old.tree[x].tokens)

OwnBlocks(new, nodes) == Unique(FlattenSeq([i \in DOMAIN nodes |-> new.tree[nodes[i]].blocks]))

Answered(kv, op, fields) ==
    /\ room' = [room EXCEPT !.kv = kv]
    /\ answer' = Append(fields, kv.pool.used)

new_request(op) ==
    LET m    == Kv!match(room.kv.tree, op.T)
        slot == Kv!FreeSlot(room.kv)
    IN  \E kv \in {Kv!new_request(room.kv, op.r, op.T)} :
          Answered(kv, op, <<m.matched, Offset(room.kv.tree, m.path),
                             SharedBlocks(room.kv, kv, slot), Fresh(room.kv, kv)>>)

commit(op) ==
    LET slot == Kv!SlotOf(room, op.r)
        m    == Kv!match(room.kv.tree,
                                        Kv!tokens_of(room.kv, slot))
    IN  \E kv \in {Kv!commit(room.kv, slot)} :
          LET nodes == NewNodes(room.kv, kv)
          IN  Answered(kv, op, <<m.matched, nodes,
                 OwnBlocks(kv, IF WasSplit(room.kv, kv) THEN Tail(nodes) ELSE nodes)>>)

match_only(op) ==
    LET m == Kv!match(room.kv.tree, op.T)
    IN  Answered(Kv!match_only(room.kv, op.T), op,
                 <<m.matched, Node(m.path), Offset(room.kv.tree, m.path)>>)

append_tokens(op) ==
    \E kv \in {Kv!append_tokens(room.kv, Kv!SlotOf(room, op.r), op.n)} :
        Answered(kv, op, <<Fresh(room.kv, kv)>>)

release(op) ==
    \E kv \in {Kv!release(room.kv, Kv!SlotOf(room, op.r))} :
        Answered(kv, op, <<GivenBack(room.kv, kv)>>)

evict(op) ==
    \E kv \in {Kv!evict(room.kv, op.v)} :
        Answered(kv, op, <<GivenBack(room.kv, kv)>>)

SpaceOp ==
    /\ \/ Step.op = "NEW" /\ new_request(Step)
       \/ Step.op = "COM" /\ commit(Step)
       \/ Step.op = "MAT" /\ match_only(Step)
       \/ Step.op = "APP" /\ append_tokens(Step)
       \/ Step.op = "REL" /\ release(Step)
       \/ Step.op = "EVI" /\ evict(Step)
    /\ UNCHANGED <<pool, slots>>
-----------------------------------------------------------------------------
(* KV room traces *)

Called(op) ==
    LET s == Kv!SlotOf(room, op.r)
    IN  CASE op.op = "ADM" -> Kv!admit(room, op.r, op.T, op.n)
          [] op.op = "EXT" -> Kv!extend(room, s, op.n)
          [] op.op = "PUB" -> Kv!publish(room, s)
          [] op.op = "DRP" -> Kv!drop(room, s)
          [] op.op = "REC" -> Kv!reclaim(room, op.need)

RoomOp ==
    /\ Step.op \in {"ADM", "EXT", "PUB", "DRP", "REC"}
    /\ room' = Called(Step)
    /\ answer' = << room'.kv.pool.used, Kv!n_free(room'.kv.pool),
                    Cardinality(Kv!cached_blocks(room')) >>
    /\ UNCHANGED <<pool, slots>>
-----------------------------------------------------------------------------
(* Batch traces: a refused operation changes nothing and says why *)

Refuses(name) ==
    /\ answer' = <<name>>
    /\ UNCHANGED <<pool, slots>>

RowsNow(b, row) == <<row, Batches!total_tokens(b), Cardinality(Batches!LiveRuns(b))>>

Lent(p) == <<p.used, Cardinality(Batches!LiveHandles(p))>>

get(op) ==
    IF ~Batches!CanBorrow(pool, op.size)
    THEN Refuses(IF op.size <= 0 THEN "invalid_argument" ELSE "capacity")
    ELSE LET h == Batches!FreeHandle(pool)
         IN  /\ pool' = Batches!Borrow(pool, op.size)
             /\ answer' = <<Batches!Begin(pool', h), h>> \o Lent(pool')
             /\ UNCHANGED slots

rel(op) ==
    IF op.h \notin Batches!LiveHandles(pool) THEN Refuses("double_free")
    ELSE /\ pool' = Batches!Release(pool, op.h)
         /\ answer' = <<Batches!Begin(pool, op.h)>> \o Lent(pool')
         /\ UNCHANGED slots

clr ==
    /\ pool' = Batches!ResetPool(pool)
    /\ slots' = Batches!ClearRuns(slots)
    /\ answer' = Lent(pool')

add(op) ==
    IF ~Batches!CanAddRun(slots, op.r, op.n)
    THEN Refuses(IF op.n <= 0 \/ Batches!Owns(slots, op.r) THEN "invalid_argument"
                                                             ELSE "capacity")
    ELSE /\ slots' = Batches!AddRun(slots, op.r, op.n)
         /\ answer' = RowsNow(slots', Batches!PlaceRun(slots, op.n))
         /\ UNCHANGED pool

del(op) ==
    IF ~Batches!Owns(slots, op.r) THEN Refuses("invalid_argument")
    ELSE LET i == CHOOSE i \in Batches!LiveRuns(slots) : slots[i].owner = op.r
         IN  /\ slots' = Batches!RemoveRun(slots, op.r)
             /\ answer' = RowsNow(slots', slots[i].off)
             /\ UNCHANGED pool

BatchOp ==
    /\ \/ Step.op = "get" /\ get(Step)
       \/ Step.op = "rel" /\ rel(Step)
       \/ Step.op = "clr" /\ clr
       \/ Step.op = "add" /\ add(Step)
       \/ Step.op = "del" /\ del(Step)
    /\ UNCHANGED room
-----------------------------------------------------------------------------
ReplayNext ==
    /\ at < Len(trace)
    /\ at' = at + 1
    /\ UNCHANGED trace
    /\ SpaceOp \/ RoomOp \/ BatchOp

\* Every operation of every recorded trace answers what was recorded, and
\* leaves the pool, the tables and the tree in agreement (check_invariants) and
\* the leases and rows apart (defects).
ReproducesRecordedTraces ==
    at > 0 =>
        /\ answer = trace[at].R
        /\ room.kv.ok
        /\ \A b \in 0 .. 111 :
             room.kv.pool.refcnt[b]
               = Cardinality(Kv!HoldersIn(room.kv, Kv!LiveSlots(room.kv), b))
        /\ \A s \in Kv!LiveSlots(room.kv) : Kv!TableExact(room.kv, s)
        /\ Kv!FreeListExact(room.kv.pool)
        /\ Batches!PoolSound(pool) /\ Batches!RunsApart(slots)
=============================================================================
