----------------------------- MODULE MCFixtures -----------------------------
(***************************************************************************)
(* The computations the reference scripts write fixtures of, one at a time *)
(* and from start to end: a recorded trace, a sampler call, a quantised    *)
(* block, a step's rows written to and read from pages.  The computations  *)
(* not chosen stay empty.  Beside the recorded traces, a batch pool and    *)
(* slots are driven by every trace of a smaller one: three handles over    *)
(* eight bytes and three runs of one or two rows make holes of every       *)
(* shape, the tightest of which is not always the lowest; one of the two   *)
(* at a time, since neither sees the other.                                *)
(***************************************************************************)
EXTENDS Replay, ExecutorReplay, SchedulerReplay, Sampler, Quant, Paged

VARIABLE job    \* "replay", "batch", "execute", "schedule", "sample", "quantise" or "page"

AnyBatch == INSTANCE BatchTrace WITH
    CAPACITY <- 8, Sizes <- {0, 1, 3}, Requests <- {1, 2, 3}, Counts <- {1, 2},
    ALIGN <- 2, MAX_HANDLES <- 3, MAX_BATCH <- 3

vars == <<job, replay, execution, scheduling, sampling, quant, paging>>

FixtureLogits == {-2, 0, 2, 4}

FixtureHistories == { <<>>, <<0, 1, 1>> }

FixtureBiases ==
    { [t \in Vocab |-> 0], [t \in Vocab |-> IF t = 2 THEN 4 ELSE 0] }

Setting(temperature, k, p, m, rep, freq, pres, strict) ==
    [temperature |-> temperature, top_k |-> k, top_p |-> p, min_p |-> m,
     rep |-> rep, freq |-> freq, pres |-> pres, strict |-> strict]

\* Every filter alone and with each other, as cases c0 to c8 choose them.
FixtureCalls ==
    { Setting(0, 0, 10, 0, 1, 0, 0, FALSE), Setting(1, 2, 10, 0, 1, 0, 0, TRUE),
      Setting(1, 2, 10, 0, 1, 0, 0, FALSE), Setting(1, 3, 9, 0, 2, 0, 0, FALSE),
      Setting(1, 3, 9, 2, 1, 1, 2, FALSE), Setting(2, 0, 5, 3, 1, 0, 0, TRUE),
      Setting(1, 0, 8, 0, 1, 0, 0, FALSE), Setting(1, 0, 10, 5, 2, 1, 0, FALSE) }

\* Every block of small weights; streams of blocks of different scales.
FixtureStreams ==
    { <<b>> : b \in [1 .. 2 * HALF -> {-3, -1, 0, 2, 4}] }
      \cup { <<a, b>> : a, b \in { <<0, 0, 0, 0>>, <<4, -3, 1, 0>>, <<-8, 5, 2, 7>> } }

FixtureSuperBlocks == [0 .. 7 -> { <<-2, 1>>, <<1, 4>>, <<-6, -1>> }]

PagedCall(block_size, n_blocks, runs, first, n) ==
    [block_size |-> block_size, n_blocks |-> n_blocks, first |-> first, n |-> n,
     runs |-> [i \in DOMAIN runs |->
                  [block |-> runs[i][1], start |-> runs[i][2], len |-> runs[i][3]]]]

CASES ==
    { PagedCall(4, 3, <<<<0, 0, 4>>, <<1, 0, 3>>>>, 0, 7),
      PagedCall(4, 3, <<<<0, 0, 4>>, <<1, 0, 3>>>>, 2, 3),
      PagedCall(4, 3, <<<<0, 0, 4>>, <<1, 0, 3>>>>, 3, 3),
      PagedCall(4, 3, <<<<0, 2, 2>>, <<0, 0, 2>>>>, 0, 4),
      PagedCall(4, 3, <<<<2, 0, 2>>, <<2, 2, 2>>>>, 0, 4),
      PagedCall(4, 3, <<<<2, 0, 3>>, <<0, 0, 2>>>>, 0, 5) }

SYNTHETIC ==
    { PagedCall(16, 4, <<<<2, 3, 4>>, <<3, 7, 5>>, <<2, 11, 4>>>>, 12, 1),
      PagedCall(16, 4, <<<<1, 5, 9>>, <<0, 0, 6>>>>, 12, 3),
      PagedCall(16, 4, <<<<2, 1, 6>>, <<3, 9, 3>>, <<1, 13, 2>>>>, 9, 2) }

\* Any two runs, overlapping, outside their block or absent ones among them.
FixturePagedCalls ==
    CASES \cup SYNTHETIC \cup
    { PagedCall(4, 3, runs, first, n) :
        runs \in ({0, 1, 3} \X {0, 2} \X {0, 1, 2, 3}) \X ({0, 2} \X {0, 1} \X {1, 3}),
        first \in {0, 1, 3}, n \in {1, 3} }

\* After which commit of which trace the tables of how many requests are taken.
SNAPSHOTS ==
    { [of |-> s01_prompt_sharing, commits |-> 3, q_len |-> 1, want |-> 3],
      [of |-> s02_split_divergence, commits |-> 3, q_len |-> 2, want |-> 3],
      [of |-> s03_long_prompt_chain, commits |-> 2, q_len |-> 3, want |-> 2] }

NoPaging ==
    /\ paged = [block_size |-> 1, n_blocks |-> 0, runs |-> <<>>, first |-> 0, n |-> 0]
    /\ cache = <<>> /\ put = 0 /\ read = <<>> /\ phase = "none"

NoReplay ==
    /\ trace = <<>> /\ at = 0
    /\ room = <<>> /\ pool = <<>> /\ slots = <<>> /\ answer = <<>>

NoSchedule == SchedulingInit({<<>>})

NoSampling ==
    /\ stage = "none"
    /\ call = "none"
    /\ x = [t \in Vocab |-> 0]
    /\ alive = Vocab
    /\ drawn = NoDraw

\* `job` decides which computation starts; the others have nothing to do.
Init ==
    \/ /\ job = "replay"
       /\ ReplayInit(KvScenarios \cup BatchScenarios)
       /\ ExecutionInit({<<>>}) /\ NoSchedule /\ NoSampling /\ QuantInit({<<>>}) /\ NoPaging
    \/ /\ job = "batch"
       /\ AnyBatch!Init
       /\ trace = <<>> /\ at = 0 /\ room = <<>> /\ answer = <<>>
       /\ ExecutionInit({<<>>}) /\ NoSchedule /\ NoSampling /\ QuantInit({<<>>}) /\ NoPaging
    \/ /\ job = "execute"
       /\ ExecutionInit(ExecutorScenarios)
       /\ NoReplay /\ NoSchedule /\ NoSampling /\ QuantInit({<<>>}) /\ NoPaging
    \/ /\ job = "schedule"
       /\ SchedulingInit(SchedulerScenarios)
       /\ NoReplay /\ ExecutionInit({<<>>}) /\ NoSampling /\ QuantInit({<<>>}) /\ NoPaging
    \/ /\ job = "sample"
       /\ SamplerInit
       /\ NoReplay /\ ExecutionInit({<<>>}) /\ NoSchedule /\ QuantInit({<<>>}) /\ NoPaging
    \/ /\ job = "quantise"
       /\ QuantInit(Q40Streams \cup Q4KBlocks)
       /\ NoReplay /\ ExecutionInit({<<>>}) /\ NoSchedule /\ NoSampling /\ NoPaging
    \/ /\ job = "page"
       /\ PagedInit(PagedCalls)
       /\ NoReplay /\ ExecutionInit({<<>>}) /\ NoSchedule /\ NoSampling /\ QuantInit({<<>>})

\* A replay stops after a commit; the last rows of a live request's context are
\* written and attended over through the table it has by then.
Snapshot ==
    /\ job = "replay" /\ at > 0
    /\ \E s \in SNAPSHOTS :
         /\ trace = s.of
         /\ trace[at].op = "COM"
         /\ Cardinality({i \in 1 .. at : trace[i].op = "COM"}) = s.commits
         /\ \E slot \in Kv!LiveSlots(room.kv) :
              LET runs   == room.kv.rq[slot].table
                  kv_len == n_tokens(runs)
                  q_len  == Min({s.q_len, kv_len})
              IN  /\ Cardinality({i \in Kv!LiveSlots(room.kv) : i < slot}) < s.want
                  /\ paged' = [block_size |-> BlockSize, runs |-> runs,
                               n_blocks |-> 1 + Max({runs[i].block : i \in DOMAIN runs}),
                               first |-> kv_len - q_len, n |-> q_len]
    /\ cache' = [o \in 0 .. paged'.n_blocks * paged'.block_size * kv_cols - 1 |-> o]
    /\ put' = 0 /\ read' = <<>> /\ phase' = "asked"
    /\ job' = "page"
    /\ UNCHANGED <<replay, execution, scheduling, sampling, quant>>

Next ==
    \/ job = "replay" /\ ReplayNext
       /\ UNCHANGED <<job, execution, scheduling, sampling, quant, paging>>
    \/ job = "batch" /\ AnyBatch!Next
       /\ (slots' = AnyBatch!NewSlots \/ pool' = AnyBatch!NewBatchPool(8))
       /\ UNCHANGED <<job, trace, at, room, answer, execution, scheduling, sampling,
                      quant, paging>>
    \/ ExecutionNext /\ UNCHANGED <<job, replay, scheduling, sampling, quant, paging>>
    \/ SchedulingNext /\ UNCHANGED <<job, replay, execution, sampling, quant, paging>>
    \/ SamplerNext /\ UNCHANGED <<job, replay, execution, scheduling, quant, paging>>
    \/ QuantNext /\ UNCHANGED <<job, replay, execution, scheduling, sampling, paging>>
    \/ PagedNext /\ UNCHANGED <<job, replay, execution, scheduling, sampling, quant>>
    \/ Snapshot

Spec == Init /\ [][Next]_vars

\* The specifications these traces are played through answer every operation
\* as the reference implementations did.
ReproducesTraces ==
    /\ ReproducesRecordedTraces
    /\ ReproducesExecutorTraces
    /\ ReproducesSchedulerTraces

\* After any trace, not only a recorded one, defects() of pool and slots is
\* empty and the gaps that are left are found, at their lowest.
NoDefects == job = "batch" => AnyBatch!NoDefects
=============================================================================
