--------------------------- MODULE SchedulerReplay ---------------------------
(***************************************************************************)
(* The scheduler scenarios played through Scheduler's own actions, as      *)
(* run() of scripts/dump_scheduler_reference.py plays them through the     *)
(* reference: the trunk, and then reclaim_tail's ticks, which hand back    *)
(* all the cache holds until nobody is left.                               *)
(***************************************************************************)
EXTENDS SchedulerTraces

VARIABLES played,                  \* the scenario, or <<>>
          ticks,                   \* ticks taken
          state, ids, prompt_len, max_new, filled, generated, wait_ticks,
          progressed, blocks_used, cached_blocks,
          prefill, decode, preempted, finished,
          pc, reached, budget, raised, told, seen      \* the scheduler's

scheduling ==
    << played, ticks, state, ids, prompt_len, max_new, filled, generated, wait_ticks,
       progressed, blocks_used, cached_blocks, prefill, decode, preempted, finished,
       pc, reached, budget, raised, told, seen >>

Sched(c) == INSTANCE Scheduler WITH
    MAX_BATCH <- 32, block_size <- 16,
    token_budget <- c.budget, max_chunk <- c.chunk, capacity_blocks <- c.capacity,
    watermark_permille <- c.watermark, max_wait_ticks <- c.max_wait,
    Offers <- {}, ARRIVALS <- 0, EVENTS <- 0,
    done <- filled, p <- prefill, at <- reached, inp <- told

SchedulingInit(scenarios) ==
    /\ played \in scenarios
    /\ ticks = 0
    /\ Sched(Config(0, 0, 0, 0, 0))!Init

\* What the engine says next: the trunk's word, or all that is cached.
Emptied == Told(<<>>, <<>>, <<>>, cached_blocks)

Due == IF ticks < Len(played.ticks) THEN played.ticks[ticks + 1] ELSE Emptied

MoreDue ==
    \/ ticks < Len(played.ticks)
    \/ played.tail /\ \E s \in DOMAIN state : state[s] # "FREE"

SchedulingNext ==
    /\ played # <<>>
    /\ UNCHANGED played
    /\ \E scenario \in SchedulerScenarios :
         /\ scenario = played
         /\ \/ /\ pc = "idle" /\ MoreDue
               /\ Sched(scenario.config)!Tick(Due.freed, Due.cancelled, Due.reports, Due.arrived)
               /\ ticks' = ticks + 1
            \/ /\ pc # "idle"
               /\ Sched(scenario.config)!Step
               /\ UNCHANGED ticks

\* Every tick acts as recorded and none raises, there are as many ticks as were
\* recorded, and no queue stalls behind the cache before the tail, where
\* reclaim_tail would put a tick in between.
ReproducesSchedulerTraces ==
    played # <<>> /\ pc = "idle" /\ ticks > 0 =>
      /\ raised = "no"
      /\ played.actions[ticks] = Acts(prefill, decode, preempted, finished)
      /\ MoreDue <=> ticks < Len(played.actions)
      /\ prefill = <<>> /\ cached_blocks > 0 /\ played.tail =>
           \A s \in DOMAIN state : state[s] # "WAITING"
=============================================================================
