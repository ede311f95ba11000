--------------------------- MODULE BatchExecutor ---------------------------
(***************************************************************************)
(* engine/executor.mojo and its reference: requests queue tokens, a step   *)
(* gives each of them a run of rows, the model runs the rows, and what it  *)
(* chooses is queued again.                                                *)
(*                                                                         *)
(* slot is the executor's per-request record.  own, row and leases are the *)
(* step: runs of rows, the rows themselves and the buffers borrowed for    *)
(* them.  Two variables are not the executor's: kv is what the model has   *)
(* left at each position of a slot's history, and prompt is the text the   *)
(* engine holds for a resident request and feeds in slices.  at is the     *)
(* caller's place in plan - forward - advance - finish.                    *)
(***************************************************************************)
EXTENDS BatchOps

CONSTANTS MAX_ROWS,      \* rows of one step
          MAX_POS,       \* positions of one history
          MAX_GEN,       \* answers a transcript keeps
          HIDDEN, INTER, KV_DIM, VOCAB,    \* dimensions of the model
          Requests,      \* request ids
          Prompts,       \* prompts that arrive, as token sequences
          Answers,       \* tokens the model may choose
          Budgets,       \* answers a request may ask for
          ADMISSIONS     \* bound: requests added

ASSUME ExecutorAssumption ==
    /\ MAX_ROWS \in Nat \ {0} /\ MAX_POS \in Nat \ {0} /\ MAX_GEN \in Nat \ {0}
    /\ HIDDEN \in Nat \ {0} /\ INTER \in Nat \ {0} /\ KV_DIM \in Nat \ {0}
    /\ VOCAB \in Nat \ {0}
    /\ MAX_BATCH \in Nat \ {0} /\ MAX_HANDLES \in Nat /\ MAX_HANDLES >= 15
    /\ ALIGN \in Nat \ {0}
    /\ Answers \subseteq 0 .. VOCAB - 1
    /\ \A p \in Prompts : p \in Seq(Nat) /\ p # <<>>
    /\ Budgets \subseteq Nat \ {0}
    /\ NO_REQUEST \notin Requests /\ Requests \subseteq Nat
    /\ IsFiniteSet(Requests) /\ Cardinality(Requests) >= MAX_BATCH

VARIABLES slot, own, row, pool, handles, kv, prompt, at, admitted

vars == <<slot, own, row, pool, handles, kv, prompt, at, admitted>>
step == <<own, row, pool, handles, at>>

Positions == 0 .. MAX_POS - 1
NO_TOKEN  == -1

FreeEntry == [ live |-> FALSE, req |-> 0, hist |-> 0, n_prompt |-> 0,
               pending |-> <<>>, budget |-> 0, served |-> 0, out |-> <<>> ]

LiveEntries == {i \in BatchSlots : slot[i].live}

Resident(r) == \E i \in LiveEntries : slot[i].req = r

slot_of(r) == CHOOSE i \in LiveEntries : slot[i].req = r
-----------------------------------------------------------------------------
(* Memory of one step *)

\* Rounding every buffer up costs at most ALIGN each, and there are 15.
scratch_bytes ==
    ceil_bytes(4 * (MAX_ROWS * (6 * HIDDEN + 3 * KV_DIM + 3 * INTER + MAX_POS)
                      + MAX_BATCH * (HIDDEN + VOCAB))
                 + 16 * ALIGN)

\* Every buffer one forward borrows, in the executor's order.
step_sizes(rows, served) ==
    << rows * HIDDEN * 4, rows * HIDDEN * 4, rows * HIDDEN * 4,
       rows * KV_DIM * 4, rows * KV_DIM * 4, rows * HIDDEN * 4,
       rows * KV_DIM * 4, rows * HIDDEN * 4, rows * HIDDEN * 4,
       rows * INTER * 4, rows * INTER * 4, rows * INTER * 4,
       rows * MAX_POS * 4, served * HIDDEN * 4, served * VOCAB * 4 >>

\* One borrow of the step, st = [pool, handles, ok]: a refusal ends it and
\* what was borrowed stays recorded.
Take(st, size) ==
    IF ~st.ok \/ ~CanBorrow(st.pool, size) THEN [st EXCEPT !.ok = FALSE]
    ELSE [ pool    |-> Borrow(st.pool, size),
           handles |-> Append(st.handles, FreeHandle(st.pool)),
           ok      |-> TRUE ]

Borrowed(rows, served) ==
    LET sizes == step_sizes(rows, served)
        taken[k \in 0 .. 15] ==
            IF k = 0 THEN [pool |-> pool, handles |-> <<>>, ok |-> TRUE]
            ELSE Take(taken[k - 1], sizes[k])
    IN  taken[15]
-----------------------------------------------------------------------------
Init ==
    /\ slot = [i \in BatchSlots |-> FreeEntry]
    /\ own = NewSlots
    /\ row = <<>>
    /\ pool = NewBatchPool(scratch_bytes)
    /\ handles = <<>>
    /\ kv = [i \in BatchSlots |-> [p \in Positions |-> NO_TOKEN]]
    /\ prompt = [r \in Requests |-> <<>>]
    /\ at = "idle"
    /\ admitted = 0

\* The token ids the model knows.
Tokens == 0 .. VOCAB - 1

\* A request of n tokens' prompt as add records it: its history begins behind
\* what is cached, and the rest of what is handed over is queued.
Entered(r, n, cached, queue, budget) ==
    [FreeEntry EXCEPT !.live = TRUE, !.req = r, !.n_prompt = n, !.hist = cached,
                      !.pending = queue, !.budget = budget]

\* The last token is always run: the first answer is read off its row.
Cached(matched, n) == IF matched < n THEN matched ELSE n - 1

\* What is queued of the first n tokens.  At a token outside the vocabulary
\* add raises, the request live already, and whatever lay in the slot's queue
\* from there on is its queue.
Queues(p, n, cached) ==
    {queue \in [1 .. n - cached -> Tokens] :
        \A j \in 1 .. n - cached :
            (\A k \in 1 .. cached + j : p[k] \in Tokens) => queue[j] = p[cached + j]}

\* add: a request joins with the first n tokens of its prompt, of which the
\* room has matched the KV that another one has left.  Ids are only compared
\* with those of residents: the lowest unused one stands for all.
add(r, p, n, matched, budget) ==
    LET i      == Min(BatchSlots \ LiveEntries)
        cached == Cached(matched, n)
    IN  /\ at = "idle"
        /\ admitted < ADMISSIONS
        /\ n <= MAX_ROWS
        /\ LiveEntries # BatchSlots
        /\ ~Resident(r) /\ \A id \in Requests : ~Resident(id) => r <= id
        /\ \E queue \in Queues(p, n, cached) :
             slot' = [slot EXCEPT ![i] = Entered(r, Len(p), cached, queue, budget)]
        /\ kv' = [kv EXCEPT ![i] =
                    [k \in Positions |-> IF k < cached THEN p[k + 1] ELSE @[k]]]
        /\ prompt' = [prompt EXCEPT ![r] = p]
        /\ admitted' = admitted + 1
        /\ UNCHANGED step

\* feed: one more token of the prompt, which the queue and the history
\* together must not pass.
feed(i) ==
    LET q    == slot[i]
        next == q.hist + Len(q.pending) + 1
    IN  /\ at = "idle"
        /\ q.live
        /\ Len(q.pending) < MAX_ROWS
        /\ next <= q.n_prompt
        /\ prompt[q.req][next] \in Tokens
        /\ slot' = [slot EXCEPT ![i].pending = Append(@, prompt[q.req][next])]
        /\ UNCHANGED <<step, kv, prompt, admitted>>

drop(i) ==
    /\ at = "idle"
    /\ slot[i].live
    /\ slot' = [slot EXCEPT ![i] = FreeEntry]
    /\ prompt' = [prompt EXCEPT ![slot[i].req] = <<>>]
    /\ UNCHANGED <<step, kv, admitted>>
-----------------------------------------------------------------------------
(* plan: slots in order, each gets as many rows as its queue needs and the *)
(* block has left.  pl = [served, own, row, ok].                           *)

RowsOf(q, n) ==
    [j \in 1 .. n |-> [req |-> q.req, tok |-> q.pending[j], pos |-> q.hist + j - 1]]

WidthUnbounded(pl, q) == Len(q.pending)

Width(pl, q) == Min({Len(q.pending), MAX_ROWS - total_tokens(pl.own)})

Served(pl, i, q, n) ==
    [ pl EXCEPT !.served[i] = n, !.own = AddRun(@, q.req, n), !.row = @ \o RowsOf(q, n) ]

PlanEntry(pl, i) ==
    LET q == slot[i]
        n == Width(pl, q)
    IN  IF ~pl.ok THEN pl
        ELSE IF ~q.live \/ n <= 0 THEN [pl EXCEPT !.served[i] = 0]
        ELSE IF q.hist + n > MAX_POS THEN [pl EXCEPT !.served[i] = 0, !.ok = FALSE]
        ELSE Served(pl, i, q, n)

Unplanned == [ served |-> [i \in BatchSlots |-> slot[i].served],
               own    |-> ClearRuns(own), row |-> <<>>, ok |-> TRUE ]

Planned ==
    LET turn[k \in 0 .. MAX_BATCH] ==
            IF k = 0 THEN Unplanned ELSE PlanEntry(turn[k - 1], k - 1)
    IN  turn[MAX_BATCH]

\* A history that would outgrow its region fails the whole step: nothing is
\* borrowed and no row described.  So does a buffer the pool refuses, but
\* what was borrowed before it stays.
plan ==
    /\ at = "idle"
    /\ handles = <<>>
    /\ LiveEntries # {}
    /\ \E pl \in {Planned} :
         /\ slot' = [i \in BatchSlots |-> [slot[i] EXCEPT !.served = pl.served[i]]]
         /\ own' = pl.own
         /\ row' = IF pl.ok THEN pl.row ELSE <<>>
         /\ \/ /\ pl.ok /\ pl.row # <<>>
               /\ \E b \in {Borrowed(Len(pl.row), Cardinality(LiveRuns(pl.own)))} :
                    /\ pool' = b.pool
                    /\ handles' = b.handles
                    /\ at' = IF b.ok THEN "planned" ELSE "idle"
            \/ /\ ~pl.ok \/ pl.row = <<>>
               /\ UNCHANGED <<pool, handles, at>>
    /\ UNCHANGED <<kv, prompt, admitted>>

\* forward: every row leaves the KV of its token at its own position of its
\* request's history.
Leaves(i) == {k \in DOMAIN row : slot[i].live /\ row[k].req = slot[i].req}

forward ==
    /\ at = "planned"
    /\ kv' = [i \in BatchSlots |-> [p \in Positions |->
                LET put == {k \in Leaves(i) : row[k].pos = p}
                IN  IF put = {} THEN kv[i][p] ELSE row[Max(put)].tok]]
    /\ at' = "run"
    /\ UNCHANGED <<slot, own, row, pool, handles, prompt, admitted>>
-----------------------------------------------------------------------------
(* advance: histories grow by what was served; a request that has run its  *)
(* whole prompt records its answer and queues it again.                    *)

Consumed(q) ==
    [q EXCEPT !.hist = @ + q.served,
              !.pending = SubSeq(@, q.served + 1, Len(@))]

\* An empty queue taken for the end of the prompt.
OwesWhenEmpty(q) == q.pending = <<>>

OwesPastThePrompt(q) == q.pending = <<>> /\ q.hist > q.n_prompt

Owes(q) == q.pending = <<>> /\ q.hist >= q.n_prompt

SpokenUncapped(q, tok) ==
    [q EXCEPT !.out     = Append(@, tok),
              !.budget  = @ - 1,
              !.pending = IF q.budget > 1 THEN Append(@, tok) ELSE @]

Spoken(q, tok) ==
    [q EXCEPT !.out     = IF Len(@) < MAX_GEN THEN Append(@, tok) ELSE @,
              !.budget  = @ - 1,
              !.pending = IF q.budget > 1 THEN Append(@, tok) ELSE @]

Advanced(q, tok) ==
    IF ~q.live \/ q.served = 0 THEN q
    ELSE IF Owes(Consumed(q)) /\ tok # NO_TOKEN THEN Spoken(Consumed(q), tok)
    ELSE Consumed(q)

\* The caller chooses for every served slot, inside the prompt or not.
advance(chosen) ==
    /\ at = "run"
    /\ slot' = [i \in BatchSlots |-> Advanced(slot[i], chosen[i])]
    /\ at' = "advanced"
    /\ UNCHANGED <<own, row, pool, handles, kv, prompt, admitted>>

GivenBackOf(done) ==
    [pool EXCEPT !.lease = [h \in Handles |-> IF h \in done THEN NoLease ELSE @[h]],
                 !.used  = @ - SumFunctionOnSet([h \in Handles |-> pool.lease[h].size], done)]

\* Each of the step's handles is released.
GivenBack == GivenBackOf(ToSet(handles))

finish ==
    /\ at = "advanced"
    /\ pool' = GivenBack
    /\ handles' = <<>>
    /\ at' = "idle"
    /\ UNCHANGED <<slot, own, row, kv, prompt, admitted>>

\* What can be matched of a prompt: what some request has run before.
Matches(p, n) ==
    {m \in 0 .. n : m <= MAX_POS /\ \A k \in 1 .. m : p[k] \in Tokens}

Arrive == \E r \in Requests, p \in Prompts, budget \in Budgets :
            \E n \in 1 .. Len(p) :
              \E matched \in Matches(p, n) : add(r, p, n, matched, budget)

Next ==
    \/ Arrive
    \/ \E i \in BatchSlots : feed(i) \/ drop(i)
    \/ plan
    \/ forward
    \/ \E chosen \in [BatchSlots -> Answers] : advance(chosen)
    \/ finish

\* A step that plan can describe, for somebody with tokens queued.
TooLong == \E i \in LiveEntries : slot[i].hist + Len(slot[i].pending) > MAX_POS

StepDue == ~TooLong /\ \E i \in LiveEntries : slot[i].pending # <<>>

\* The engine's thread goes on stepping: it does not stay idle while a step
\* is due, and takes a step it has planned to its end.
Fairness ==
    /\ []<>(at # "idle" \/ ~StepDue)
    /\ WF_at(forward)
    /\ WF_at(\E chosen \in [BatchSlots -> Answers] : advance(chosen))
    /\ WF_at(finish)

Spec == Init /\ [][Next]_vars /\ Fairness
-----------------------------------------------------------------------------
TypeOK ==
    /\ \A i \in BatchSlots :
         /\ slot[i].live \in BOOLEAN
         /\ slot[i].hist \in 0 .. MAX_POS
         /\ Len(slot[i].pending) <= MAX_ROWS
         /\ slot[i].served \in 0 .. MAX_ROWS
         /\ Len(slot[i].out) <= MAX_GEN
    /\ kv \in [BatchSlots -> [Positions -> Tokens \cup {NO_TOKEN}]]
    /\ Len(row) <= MAX_ROWS
    /\ at \in {"idle", "planned", "run", "advanced"}

\* The text of a resident request as the executor has it: the history the
\* model left behind and the queue.
Text(i) == [k \in 1 .. slot[i].hist |-> kv[i][k - 1]] \o slot[i].pending

StreamOf(r) ==
    IF ~Resident(r)
    THEN [ open |-> FALSE, text |-> <<>>, done |-> 0, want |-> 0, out |-> <<>>, left |-> 0 ]
    ELSE LET q == slot[slot_of(r)]
         IN  [ open |-> TRUE, text |-> Text(slot_of(r)), done |-> q.hist,
               want |-> q.n_prompt, out |-> q.out, left |-> q.budget ]

\* Batching is invisible to a request: whatever shares its steps, its tokens
\* from the first that is not cached on are run in order and once, at positions
\* of its own behind the cached ones, and its answers follow its whole prompt.
Alone == INSTANCE TokenStreams WITH stream <- [r \in Requests |-> StreamOf(r)]

RunsAlone == Alone!Spec

\* A step always gets its buffers, apart from one another and inside the
\* pool, and gives all of them back.
BuffersComeBack ==
    /\ PoolSound(pool)
    /\ IF at = "idle" THEN LiveHandles(pool) = {} ELSE Len(handles) = 15

\* What a step runs in is its own.  A request's run of rows, as the slots have
\* it, holds the front of its queue at the positions behind its history, no
\* row is anybody else's, the block is not passed, and the buffers come back.
RowsAreOwned ==
    /\ TypeOK
    /\ BuffersComeBack
    /\ at \in {"planned", "run"} =>
        /\ Len(row) = total_tokens(own) /\ Len(row) \in 1 .. MAX_ROWS
        /\ RunsApart(own)
        /\ \A k \in LiveRuns(own) :
             LET q == slot[slot_of(own[k].owner)]
             IN  /\ Resident(own[k].owner)
                 /\ q.served = own[k].cnt
                 /\ SubSeq(row, own[k].off + 1, RunEnd(own, k))
                      = [j \in 1 .. q.served |->
                           [req |-> q.req, tok |-> q.pending[j], pos |-> q.hist + j - 1]]

\* A request that has its prompt queued gets the answers it asked for or is
\* dropped - unless a history outgrows its region, which fails every step for
\* everybody until that request is dropped.
Waits(i) == /\ slot[i].live
            /\ slot[i].budget > 0
            /\ slot[i].hist + Len(slot[i].pending) >= slot[i].n_prompt

AnsweredUnlessTooLong == \A i \in BatchSlots : []<>(~Waits(i) \/ TooLong)
=============================================================================
