--------------------------- MODULE SchedulerTraces ---------------------------
(***************************************************************************)
(* The scenarios of scripts/dump_scheduler_reference.py with the actions   *)
(* recorded under tests/fixtures/scheduler: an engine's configuration,     *)
(* what it is told in the n ticks of the trunk, and the action of every    *)
(* tick, those of the tail included.  Counters and digest are left out.    *)
(***************************************************************************)
EXTENDS Integers, Sequences, SequencesExt

Config(budget, chunk, capacity, watermark, max_wait) ==
    [budget |-> budget, chunk |-> chunk, capacity |-> capacity,
     watermark |-> watermark, max_wait |-> max_wait]

\* A=, C=, F= and R= of an IN line; one arrival is id:prompt_len:max_new.
Told(arrived, cancelled, reports, freed) ==
    [arrived |-> arrived, cancelled |-> cancelled, reports |-> reports, freed |-> freed]

Arrival(r, len, new) == [id |-> r, prompt_len |-> len, max_new |-> new]
Arrivals(rs, len, new) == [i \in DOMAIN rs |-> Arrival(rs[i], len, new)]
Submits(rs, len, new)  == Told(Arrivals(rs, len, new), <<>>, <<>>, 0)

\* empty(): ticks in which the engine has nothing to say.
Nothing == Told(<<>>, <<>>, <<>>, 0)
empty(n) == [i \in 1 .. n |-> Nothing]

\* P=, D=, X= and F= of an OUT line; one chunk is id:start:end.
Acts(P, D, X, F) == [P |-> P, D |-> D, X |-> X, F |-> F]
Chunk(r, start, end) == [req |-> r, start |-> start, end |-> end]
Whole(r)    == Chunk(r, 0, 16)
Fills(P)    == Acts(P, <<>>, <<>>, <<>>)
Decodes(D)  == Acts(<<>>, D, <<>>, <<>>)
Ends(D, F)  == Acts(<<>>, D, <<>>, F)
Rests(n)    == [i \in 1 .. n |-> Fills(<<>>)]

Repeated(n, ticks) == FlattenSeq([i \in 1 .. n |-> ticks])

Scenario(config, tail, ticks, actions) ==
    [config |-> config, tail |-> tail, ticks |-> ticks, actions |-> actions]
-----------------------------------------------------------------------------
\* One prompt in nineteen chunks, end to end.
s01_long_prompt ==
    Scenario(Config(64, 16, 64, 900, 8), TRUE,
        <<Submits(<<1>>, 300, 8)>> \o empty(31),
        [i \in 1 .. 18 |-> Fills(<<Chunk(1, 16 * (i - 1), 16 * i)>>)]
          \o <<Fills(<<Chunk(1, 288, 300)>>)>>
          \o Repeated(7, <<Decodes(<<1>>)>>) \o <<Ends(<<1>>, <<1>>)>> \o Rests(5))

\* Three requests that preempt each other for ever, since what has finished
\* holds the cache: six ticks from which they come back to where they were.
StormBegins(a, b, c) ==
    << Fills(<<Whole(a), Whole(b)>>),
       Acts(<<Whole(c)>>, <<a, b>>, <<b, a>>, <<>>),
       Acts(<<Whole(a), Chunk(b, 0, 15)>>, <<c>>, <<c>>, <<>>),
       Acts(<<Chunk(b, 15, 16), Whole(c)>>, <<a>>, <<a>>, <<>>) >>

Storm(a, b, c) ==
    << Acts(<<Whole(a)>>, <<b, c>>, <<c, b>>, <<>>),
       Acts(<<Whole(b), Chunk(c, 0, 15)>>, <<a>>, <<a>>, <<>>),
       Acts(<<Whole(a), Chunk(c, 15, 16)>>, <<b>>, <<b>>, <<>>),
       Acts(<<Whole(b)>>, <<a, c>>, <<c, a>>, <<>>),
       Acts(<<Whole(a), Chunk(c, 0, 15)>>, <<b>>, <<b>>, <<>>),
       Acts(<<Whole(b), Chunk(c, 15, 16)>>, <<a>>, <<a>>, <<>>) >>

\* The cache is emptied, and they get through.
StormEnds(a, b, c) ==
    << Storm(a, b, c)[1],
       Acts(<<Whole(b), Chunk(c, 0, 15)>>, <<a>>, <<>>, <<>>),
       Acts(<<Chunk(c, 15, 16)>>, <<a, b>>, <<>>, <<>>),
       Ends(<<a, b, c>>, <<a>>), Ends(<<b, c>>, <<b>>), Ends(<<c>>, <<c>>) >>

Stormy(a, b, c) ==
    StormBegins(a, b, c) \o Repeated(6, Storm(a, b, c)) \o StormEnds(a, b, c)

\* One request in four ticks, which leaves its two blocks to the cache.
Alone(r)  == <<Submits(<<r>>, 16, 1)>> \o empty(3)
Served(r) == <<Fills(<<Whole(r)>>), Ends(<<r>>, <<r>>)>> \o Rests(2)

s02_preempt_storm ==
    Scenario(Config(32, 32, 12, 500, 8), TRUE,
        Alone(1) \o Alone(2) \o <<Submits(<<3, 4, 5>>, 16, 3)>> \o empty(40),
        Served(1) \o Served(2) \o Stormy(3, 4, 5))

\* Four prompts, eight tokens in a tick.
s03_budget_exhausted ==
    Scenario(Config(8, 16, 64, 900, 4), TRUE,
        <<Submits(<<1, 2, 3, 4>>, 32, 2)>> \o empty(23),
        << Fills(<<Chunk(1, 0, 8)>>), Fills(<<Chunk(1, 8, 16)>>),
           Fills(<<Chunk(1, 16, 24)>>), Fills(<<Chunk(1, 24, 32)>>),
           Acts(<<Chunk(2, 0, 7)>>, <<1>>, <<>>, <<>>),
           Acts(<<Chunk(3, 0, 7)>>, <<1>>, <<>>, <<1>>),
           Fills(<<Chunk(4, 0, 8)>>), Fills(<<Chunk(2, 7, 15)>>),
           Fills(<<Chunk(2, 15, 23)>>), Fills(<<Chunk(3, 7, 15)>>),
           Fills(<<Chunk(4, 8, 16)>>), Fills(<<Chunk(2, 23, 31)>>),
           Fills(<<Chunk(2, 31, 32), Chunk(3, 15, 22)>>),
           Acts(<<Chunk(3, 22, 29)>>, <<2>>, <<>>, <<>>),
           Acts(<<Chunk(4, 16, 23)>>, <<2>>, <<>>, <<2>>),
           Fills(<<Chunk(3, 29, 32), Chunk(4, 23, 28)>>),
           Acts(<<Chunk(4, 28, 32)>>, <<3>>, <<>>, <<>>),
           Ends(<<3, 4>>, <<3>>), Ends(<<4>>, <<4>>) >> \o Rests(5))

\* Without a budget nothing moves, and nothing empties the queue.
s04_zero_budget ==
    Scenario(Config(0, 16, 64, 900, 2), FALSE,
        <<Submits(<<1>>, 32, 4)>> \o empty(7), Rests(8))

\* Cancelled while arriving, while running, and in the tick of its report.
s05_cancel_race ==
    Scenario(Config(16, 16, 64, 900, 4), TRUE,
        << Told(<<Arrival(1, 32, 2), Arrival(2, 16, 2)>>, <<>>, <<>>, 0),
           Told(<<Arrival(3, 16, 2)>>, <<1, 3>>, <<>>, 0),
           Submits(<<4, 5>>, 32, 2),
           Told(<<>>, <<5>>, <<5>>, 0),
           Told(<<>>, <<>>, <<4>>, 0) >> \o empty(8),
        << Fills(<<Whole(1)>>), Fills(<<Whole(2)>>),
           Acts(<<Chunk(4, 0, 15)>>, <<2>>, <<>>, <<>>),
           Acts(<<Chunk(4, 15, 30)>>, <<2>>, <<>>, <<2>>),
           Ends(<<>>, <<4>>) >> \o Rests(8))

\* The storm in a larger pool: the watermark is not the capacity.
s06_kv_watermark ==
    Scenario(Config(32, 32, 16, 500, 8), TRUE,
        Alone(1) \o Alone(2) \o Alone(3) \o <<Submits(<<4, 5, 6>>, 16, 3)>> \o empty(40),
        Served(1) \o Served(2) \o Served(3) \o Stormy(4, 5, 6))

\* Blocks come back from the cache only because the engine says so.
s07_cache_freed ==
    Scenario(Config(16, 16, 12, 1000, 8), TRUE,
        << Submits(<<1, 2>>, 16, 1), Nothing, Submits(<<3, 4>>, 16, 1), Nothing, Nothing,
           Told(Arrivals(<<5, 6>>, 16, 1), <<>>, <<>>, 4), Nothing,
           Told(Arrivals(<<7, 8>>, 16, 1), <<>>, <<>>, 2), Nothing,
           Told(<<>>, <<>>, <<>>, 1) >> \o empty(6),
        << Fills(<<Whole(1)>>),
           Acts(<<Chunk(2, 0, 15)>>, <<1>>, <<>>, <<1>>),
           Fills(<<Whole(3)>>),
           Acts(<<Chunk(2, 15, 16), Chunk(4, 0, 14)>>, <<3>>, <<>>, <<3>>),
           Acts(<<Chunk(4, 14, 16)>>, <<2>>, <<>>, <<2>>),
           Acts(<<Chunk(5, 0, 15)>>, <<4>>, <<>>, <<4>>),
           Fills(<<Chunk(5, 15, 16), Chunk(6, 0, 15)>>),
           Acts(<<Chunk(6, 15, 16), Chunk(7, 0, 14)>>, <<5>>, <<>>, <<5>>),
           Acts(<<Chunk(7, 14, 16), Chunk(8, 0, 13)>>, <<6>>, <<>>, <<6>>),
           Acts(<<Chunk(8, 13, 16)>>, <<7>>, <<>>, <<7>>),
           Ends(<<8>>, <<8>>) >> \o Rests(5))

SchedulerScenarios ==
    { s01_long_prompt, s02_preempt_storm, s03_budget_exhausted, s04_zero_budget,
      s05_cancel_race, s06_kv_watermark, s07_cache_freed }
=============================================================================
