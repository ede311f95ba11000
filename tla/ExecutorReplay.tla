--------------------------- MODULE ExecutorReplay ---------------------------
(***************************************************************************)
(* The recorded executor traces played through BatchExecutor, as run() of  *)
(* scripts/dump_batch_executor_reference.py plays them through the         *)
(* reference: the sizes are the script's, and a step's buffers are given   *)
(* back (FIN) before the answers come (NEXT), which is one of the orders   *)
(* the executor allows.                                                    *)
(***************************************************************************)
EXTENDS ExecutorTraces, FiniteSets, FiniteSetsExt

VARIABLES script,     \* the trace being replayed
          ran,        \* operations done
          entry, own, row, scratch, handles,    \* the executor's
          said        \* what the last operation answered

execution == <<script, ran, entry, own, row, scratch, handles, said>>

Executor == INSTANCE BatchExecutor WITH
    ALIGN <- 64, MAX_HANDLES <- 24, MAX_BATCH <- 8, MAX_ROWS <- 16, MAX_POS <- 24,
    MAX_GEN <- 32, HIDDEN <- 8, INTER <- 12, KV_DIM <- 4, VOCAB <- 16,
    Requests <- {}, Prompts <- {}, Answers <- {}, Budgets <- {}, ADMISSIONS <- 0,
    slot <- entry, pool <- scratch,
    kv <- <<>>, prompt <- <<>>, at <- "idle", admitted <- 0

ExecutorScenarios ==
    { e01_two_requests, e02_hole_after_drop, e03_more_than_one_step, e04_batch_full,
      e05_prompt_longer_than_a_step, e06_history_outgrows_its_region }

ExecutionInit(scripts) ==
    /\ script \in scripts
    /\ ran = 0
    /\ entry = [i \in Executor!BatchSlots |-> Executor!FreeEntry]
    /\ own = Executor!NewSlots
    /\ row = <<>>
    /\ scratch = Executor!NewBatchPool(Executor!scratch_bytes)
    /\ handles = <<>>
    /\ said = <<>>

Operation == script[ran + 1]

\* Histories and queues of the resident requests, in slot order.
Rendered(e) ==
    LET held == SelectSeq([k \in 1 .. 8 |-> e[k - 1]], LAMBDA q : q.live)
    IN  << [k \in DOMAIN held |-> held[k].hist],
           [k \in DOMAIN held |-> Len(held[k].pending)] >>

ADDED(op) ==
    LET i == Min(Executor!BatchSlots \ Executor!LiveEntries)
    IN  IF Len(op.tokens) > 16 \/ Executor!LiveEntries = Executor!BatchSlots
        THEN said' = Refused("capacity") /\ UNCHANGED entry
        ELSE /\ entry' = [entry EXCEPT ![i] =
                   Executor!Entered(op.r, Len(op.tokens), 0, op.tokens, op.budget)]
             /\ said' = <<i, Len(entry'[i].pending)>>

DROPPED(op) ==
    /\ entry' = [entry EXCEPT ![Executor!slot_of(op.r)] = Executor!FreeEntry]
    /\ said' = <<Executor!slot_of(op.r)>>

\* A step that cannot be planned has no rows to describe.
PLANNED ==
    \E pl \in {Executor!Planned} :
      \E b \in {Executor!Borrowed(Len(pl.row), Cardinality(Executor!LiveRuns(pl.own)))} :
        /\ entry' = [i \in DOMAIN entry |-> [entry[i] EXCEPT !.served = pl.served[i]]]
        /\ own' = pl.own
        /\ IF pl.ok /\ pl.row # <<>>
           THEN /\ row' = pl.row /\ scratch' = b.pool /\ handles' = b.handles
                /\ said' = <<Executor!total_tokens(pl.own),
                             Cardinality(Executor!LiveRuns(pl.own)), b.pool.used>>
           ELSE /\ row' = <<>> /\ UNCHANGED <<scratch, handles>>
                /\ said' = IF pl.ok THEN <<0, 0, 0>> ELSE Refused("capacity")

FINISHED ==
    /\ scratch' = Executor!GivenBack
    /\ handles' = <<>>
    /\ said' = <<scratch'.used>>

ADVANCED(op) ==
    /\ entry' = [i \in DOMAIN entry |->
          Executor!Advanced(entry[i], IF i < Len(op.chosen) THEN op.chosen[i + 1]
                                                            ELSE Executor!NO_TOKEN)]
    /\ said' = Rendered(entry')

ExecutionNext ==
    /\ ran < Len(script)
    /\ ran' = ran + 1
    /\ UNCHANGED script
    /\ \/ Operation.op = "ADD" /\ ADDED(Operation) /\ UNCHANGED <<own, row, scratch, handles>>
       \/ Operation.op = "DROP" /\ DROPPED(Operation) /\ UNCHANGED <<own, row, scratch, handles>>
       \/ Operation.op = "PLAN" /\ PLANNED
       \/ Operation.op = "FIN" /\ FINISHED /\ UNCHANGED <<entry, own, row>>
       \/ Operation.op = "NEXT" /\ ADVANCED(Operation)
                                /\ UNCHANGED <<own, row, scratch, handles>>

\* Every operation answers what was recorded for it, a planned step has exactly
\* the recorded rows, in their order, and its buffers lie apart.
ReproducesExecutorTraces ==
    ran > 0 =>
        /\ said = script[ran].R
        /\ script[ran].op = "PLAN" => row = script[ran].rows
        /\ Executor!PoolSound(scratch) /\ Executor!RunsApart(own)
=============================================================================
