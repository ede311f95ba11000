# A verification project for alofa

alofa (`src/`) serves language models on CPU: an HTTP server in front of an
engine that batches requests over a paged KV cache whose prefixes are shared.
The engine is written in Mojo; for each of its bookkeeping parts the repository
also has a Python reference implementation (`src/scripts/dump_*_reference.py`)
that recorded the fixtures its tests replay.  This directory holds TLA+ modules
for the parts whose correctness is a matter of *order* and *bookkeeping* - who
holds a block, what a tick may promise, whose token a row is, which connection an
answer belongs to - with the TLC runs that check them on small instances and the
TLAPS proofs of what holds for every instance.

Source paths below are under `src/src/alofa/` unless they begin with `scripts/`,
which is `src/scripts/`.

## 1. Inventory

### 1.1 The parts, and how a request goes through them

    client -> Loop (srv/loop) -> Mailbox -> engine thread (srv/engine_thread)
           -> ChatHandler (srv/openai) -> ModelService (serve)
                 -> EngineCore (engine/core)
                       -> Scheduler (engine/scheduler)  which tokens this tick
                       -> KvRoom (engine/kv_room) -> KvSpace (runtime/kv/space)
                             -> BlockPool, RadixTree    which blocks they live in
                       -> BatchExecutor (engine/executor)
                             -> BatchPool, BatchSlots (engine/batch)
                             -> model, paged and quantised kernels
                 -> Sampler (runtime/sampler)
           -> Result -> Loop -> client

A master process (`srv/master`) forks workers that each run one such loop.

| Part | State | Operations | Interacts through | Module |
|---|---|---|---|---|
| Block pool `runtime/kv/pool` | `refcnt`, `free_stack`, `n_free`, `used` | `alloc_one`, `retain`, `release` | called by KvSpace only | `PoolOps`, `BlockPool` |
| Prefix tree `runtime/kv/radix` | nodes: tokens, blocks, offset, parent/child/sibling, `freq` | `match`, `split`, `add_child`, `detach`, `kill`, `alloc_node` | called by KvSpace | `RadixTree` |
| KV space `runtime/kv/space` | a page table and a token array per request slot, pool and tree | `new_request`, `append_tokens`, `commit`, `release`, `evict`, `match_only` | shares blocks between tables and tree by reference count | `KvSpace` |
| KV room `engine/kv_room` | `n_prompt`, `published`, `freed_pending` | `admit`, `extend`/`grow_to`, `publish`, `drop`, `reclaim`, `take_freed_upto` | called by EngineCore; the executor writes through its page tables | `RoomOps`, `KvRoom` |
| Scheduler `engine/scheduler` | request slots, two books `blocks_used`, `cached_blocks` | `step` (one tick) | pure; told of cancels, completions, arrivals and freed blocks | `Scheduler` |
| Batch pool, batch slots `engine/batch` | leases of byte intervals; runs of rows | `borrow`, `release`, `reset`; `add`, `remove`, `clear` | the executor borrows a step's buffers and rows | `BatchOps`, `BatchTrace` |
| Executor `engine/executor` | per request: history, queue, served tokens; per step: rows and buffers | `add`, `feed`, `plan`, `forward`, `advance`, `finish`, `drop` | writes KV through page tables | `BatchExecutor` |
| Engine core `engine/core` | an entry per request, lists for the next tick | `submit`, `cancel`, `release`, `prepare`, `settle` | drives scheduler, room and executor | `EngineCore` |
| Model service `serve`, chat handler `srv/openai` | batch rows, queue, the serial stream; phase per connection slot | `begin_stream`, `stream_next`, `complete`, `stream_end` | EngineCore below, an engine thread above | `Service` |
| Server loop `srv/loop` | per slot: `live`, `gen`, `inflight`, `streaming`, `owner` | `on_events`, `collect`, `dispatch`, `reap` | sockets, mailbox | `ServerLoop` |
| Connection `srv/conn` | inbound buffer, outbound queue, `peer_closed`, `closing` | `feed`, `take_with_raw`, `enqueue`, `advance` | owned by the loop | `ServerLoop` |
| Engine threads `srv/engine_thread` | job list, result list, `stop`; a handler each | `push_job`, `take_job`, `push_result`, `_engine_main` | mutex-guarded mailbox | `ServerLoop` |
| Master `srv/master` | pids, shutdown phase, counts | `supervise`, `begin_stop`, `worker_main` | fork, signals, wait4 | `Master` |
| Sampler `runtime/sampler` | history | bias, temperature, top-k, top-p, min-p, draw | service | `Sampler` |
| Quantised weights `kernels/cpu/quant` | none | quantise, read back | kernels | `Quant` |
| Paged kernels `kernels/cpu/paged` | the cache array | scatter, attention | executor | `Paged` |
| Formats `srv/http, sse, openai, config` | none | parse, serialise | - | - |
| Tokenizer, models, core library | tables, tensors | `encode`, `decode`, forward passes | service, executor | - |

### 1.2 The Python references

The Python classes and the Mojo structs say the same operations in the same order;
where both exist the map names the Python lines, and what only the Mojo code has
(`take_freed_upto`, the executor's buffers, the engine core, everything under
`srv/`) names the Mojo lines.

| Reference script | Part | Module |
|---|---|---|
| `dump_kv_reference` | pool, tree, space; 7 recorded traces | `PoolOps`, `RadixTree`, `KvSpace`, `KvTraces`, `Replay` |
| `dump_kv_room_reference` | room; 5 traces | `RoomOps`, `KvRoom`, `KvTraces`, `Replay` |
| `dump_scheduler_reference` | scheduler; 7 traces | `Scheduler`, `SchedulerTraces`, `SchedulerReplay` |
| `dump_batch_reference` | batch pool and slots; 7 traces | `BatchOps`, `BatchTraces`, `Replay` |
| `dump_batch_executor_reference` | executor; 6 traces | `BatchExecutor`, `ExecutorTraces`, `ExecutorReplay` |
| `dump_sampler_reference` | sampler | `Sampler` |
| `dump_q4_reference`, `dump_q4k_reference` | weight quantisation | `Quant` |
| `dump_paged_reference`, `dump_paged_scatter_reference` | paged kernels | `Paged`, and the cached bytes of `KvRoom` |

### 1.3 What is hard, and what makes each part correct

*Block pool, tree, space, room.* One reference count stands for two views (the
page tables and the tree).  Every operation can raise in the middle - pool,
table, node array or match path full - and nothing is undone.  A node may start
and end inside a block, so two nodes, and a node and a request, share a block.
Correct means: no reference is lost or invented, the free stack is exactly the
free blocks, what `reclaim` reports really came back, a published sequence is
found again and nothing else is, and above all *the bytes behind a cached token
are the KV of that token in its context*.

*Scheduler.* A tick is nine phases over one set of books; cancels, reports,
refusals, preemption and errors interleave inside it.  Correct means: the books
balance after every phase and every error, admission promises only what the
watermark can keep, a cancelled request gets nothing, a refused arrival takes
its companions with it, and requests finish.

*Executor and batch.* Requests with prompts in slices, decodes and newcomers
share the rows of one step; buffers and rows are lent first fit and come back in
any order.  Correct means: every request is served as if it were alone, and no
two of them own the same row or byte.

*Engine core.* Two bookkeepers - the scheduler's nominal books and the room's
real, deduplicated ones - must not drift apart, and what is handed out in a plan
must be known to the room and the executor when they meet it.

*Service and chat handler.* Streams of many connections take turns in a table of
rows, a queue and one serial path that shares the model with `complete()`; every
stream's poll ticks the engine for all of them; a connection goes away and nobody
says so.  Correct means: the table and the engine agree about who is served, and a
client gets its own answer from the first token on.

*Server loop, connections, engine threads.* Real concurrency: one I/O thread and
N engine threads over a mutex-guarded mailbox; slots are reused while work for
their earlier connection is still running; clients stop reading, hang up, send
garbage or pipeline; the stop flag may be set at any time.  Correct means: an
answer reaches the connection it was made for, in the order of the requests, a
stream's step runs on the thread that holds the stream, what a thread could see
before it asked whether to stop is run, and whatever is in flight comes back.

*Master.* Workers die, fail to start, drain or leave at any moment of the
master's rounds.  Correct means: what it reports is what happened, it stops the
fleet for a reason only, and it comes to an end.

*Sampler, quantisation, paged kernels.* Sequential, with boundaries that a test
meets by luck: ties at the edge of a filter, scales packed across bytes, runs
that begin and end inside a page.

The list of hazards, each at its line with the properties that watch it, is
`hazards` in `PROJECT.json`.

## 2. Plan

| # | Module | Of | State |
|---|---|---|---|
| 1 | `BlockRefs` (abstract), `PoolOps`, `BlockPool` | pool | checked, proved |
| 2 | `RadixTree`, `KvSpace`, `RoomOps`, `KvRoom` | radix, space, kv_room | checked, replayed; references, views and reclaim proved |
| 3 | `Scheduler` | scheduler | checked; all its safety proved; replayed |
| 4 | `ServerLoop` | loop, conn, engine_thread | checked; all its safety proved |
| 5 | `BatchOps`, `BatchTrace` | batch | checked, replayed; what borrowing keeps apart proved |
| 6 | `TokenStreams` (abstract), `BatchExecutor` | executor | checked, replayed; its safety and its refinement proved |
| 7 | `EngineCore` | core, over 2, 3 and 6 | checked |
| 8 | `Master` | master | checked; both safety properties proved |
| 9 | `Service` | serve, openai | checked; both safety properties proved |
| 10 | `Sampler`, `Quant`, `Paged` | the pure parts | checked against reference definitions |
| 11 | the merge loop of `tokenizer/bpe` against a reference definition | tokenizer | not begun |

The proofs are one module for each component, `<component>Proofs`.  Still to come:
the engine core (`PlanIsExecutable`, `RoomWithinBooks`), which would rest on those of
the scheduler and of the room.  Section 5.9 says what stays with TLC and why.

## 3. Modules and the code

Names follow the source.  A definition such as `FitsCapacity` or
`ShareRunRetainsAlways`, which stands before the one it resembles and is used by
no specification, is that definition with a plausible mistake in it;
`PROJECT.json` (`mutants`) pairs it with the property that must notice.

### 3.1 `PoolOps`, `BlockPool`, `BlockRefs`, `BlockPoolProofs`

`PoolOps` has the three operations as functions from a pool value to the next
one, with their error conditions as `CanAlloc`, `CanRetain`, `CanRelease`.
`BlockPool` runs them beside `held`, which says what block each view entry (a
page-table entry, a block entry of a tree node) holds, and `fresh`, which entries
got theirs from `alloc_one` (the code's `OpResult.fresh` and `.shared`); a caller
only retains a block it reads from another entry.  `BlockRefs` is what a pool
promises without counts: a fresh block is nobody else's.  `ImplementsRefs` maps
`held` and `fresh` to themselves; without `fresh` a block handed out twice would
look like one that was shared.

### 3.2 `RadixTree`, `KvSpace`, `RoomOps`, `KvRoom`; `KvSpaceProofs`, `KvRoomProofs`

`RadixTree` has the node operations on a tree value.  `match` goes to
`child[ROOT]` - the *newest* child of the root - as the code does, and from there
to the last child with the right first token; it bumps `freq` of the last node and
fails past `MAX_PATH`.  `KvSpace` composes pool, tree and page tables; each
operation maps a space value `[pool, tree, rq, ok]` to the next, `ok = FALSE`
being a raise with everything done before it kept.  A loop is a recursive function of the
number of turns; a turn does nothing once `ok` is false.  `RoomOps` has the room's operations in the
same form, for `KvRoom` and for `EngineCore`.  `KvRoom` is the state machine: the
engine's calls in any order it may make them.  It adds

- `ctx[s]`, the tokens the request in slot `s` really is;
- `ran[s]`, how many of them the executor has run or shares: its history.  The room
  is ahead of it.  `Extend` grows the room by a slice of the prompt, or by the token
  just generated, and runs nothing; `Run` is the forward pass, later, which writes
  the KV of the next tokens through the page table.  A token is generated only when
  all before it have been run, and the last one of a request is never run at all:
  `settle` grows the room for it, drops the request from the executor and publishes
  (`core.mojo:652-662`), which is `Publish`;
- `bytes[b][i]`, the context whose last token's KV the model left in slot `i` of
  block `b`.  A token run behind a slot that does not hold what it should leaves the
  KV of no sequence;
- `stale`, the block slots that `publish` gave away, for a sequence, without its KV: that of
  the last token, and those under tokens that `append_tokens` did not record; and the
  slots of tokens that were run by reading one of these.  An entry goes when its block
  is freed or its KV has come after all;
- `mishaps`, which of five situations have occurred: `raised` (an operation failed
  half way), `full` (it failed on a full page table or a full list of ids), `forked`
  (the root got a second child), `uneven` (a request was published from an entry of
  its table on behind which a block is not filled: the prefix it shared inside that
  block had been reclaimed), `reused` (a request came to a slot in which a failed one
  had left entries).

`stale` and `mishaps` only record; no guard but the bound `MISHAP_BOUND` reads them.

`grow_to` calls `extend` for what is missing and is that action; `match_only` is
called by the replay of fixtures only.

### 3.3 `Scheduler`, `SchedulerProofs`

`step()` is one call.  It is cut into the iterations of its loops: `pc` is the
phase, `at` the element the loop has reached, and nothing but the next iteration
can happen before `pc` is `idle` again.  So invariants hold *inside* the tick too,
and a raise ends the tick exactly where it happens.  `Tick` takes the input
(`SchedInput`) and does step 0; `Cancel`, `Report`, `Wait`, `Arrive`, `Promote`,
`DecodePhase`, `StarvedPrefill`, `OrdinaryPrefill` and `Watermark` are steps 1-9.
`preempt_count`, `preempt_total`, `tick_seq` and the digest are left out: no
decision reads them.  `seen` is the order in which ids arrived.

### 3.4 `BatchOps`, `BatchTrace`, `BatchExecutor`, `TokenStreams`, `BatchExecutorProofs`

`BatchOps` has the byte leases and the runs of rows as operators on values; both
place first fit in the gaps of what is live.  `BatchTrace` drives one of each in
any order.

`BatchExecutor` is the executor with the buffers and rows of its steps: `add` and
`feed` queue tokens, `plan` gives each request with a queue a run of rows while
there are rows and borrows the fifteen buffers of the step, `forward` leaves a
row's token at its position of its request's KV, `advance` consumes what was
served and queues the model's answer, `finish` gives the buffers back, `drop`
frees the slot between two steps.  `add` is told how much of the prompt the room has
`matched`: the history begins there - one token earlier when all is cached, for
the first answer is read off the last token's row - and only the rest is queued.
What lies at the cached positions is the KV of those tokens: that it is, is the room's
matter (`KvRoom`).  The slot is live before the tokens are looked at, so a token the
model does not know makes `add` raise and leaves a resident that is half admitted:
its queue has the right length, and from that token on what was in the slot
before (`Queues`).  The arithmetic of the layers is abstracted: what
is computed at a position is told apart by the text before it.  The engine's part,
feeding a prompt in slices, is `prompt`.

`TokenStreams` is what batching promises a single request, without rows, slots or
steps: its tokens, from the first that is not cached on, are run in order and once
each, and the first answer comes after the whole prompt, of which the last token
at least is its own run.  `RunsAlone` is the refinement; a resident request's text is mapped
to what the model has left in its KV followed by its queue, so a token written
at a wrong position, or twice, is a step `TokenStreams` does not have.

### 3.5 `EngineCore`

`EngineCore` EXTENDS `Scheduler` - the scheduler's step runs in its own actions in
the middle of a tick - and instantiates `RoomOps`.  `prepare` (reclaim what is
wanted, hand over freed blocks, arrivals, cancels and reports) starts the tick,
`decide` is one action of the scheduler, `refuse` its raise, and `settle` everything
the engine does with the action: cancels, preemptions, prefill chunks and decodes
in the room and the executor, one step of the model, answers, completions and
publication.  A raise inside keeps what was done, `failed` says which one it was,
and the tick's handles stay borrowed, as in the code.  The executor's requests
are known by the length of their queues; the tokens the model chooses are left
out, since the room never reads them.

`EngineAssumption` excludes what makes the engine raise by configuration: a
budget larger than the executor's rows and an eviction list shorter than the pool.
The second is not so in the code's own constants (section 6.3).

### 3.6 `Service`, `ServiceProofs`

`ModelService` under `ChatHandler`: `begin_stream`, `stream_next`, `complete` and
the connection's loss (`drop`) are the calls, one step each; a `stream_next` of a
stream in the batch goes on in `batch_tick` and `batch_next`, between which a
connection may go.  (A drop during a call and one right after it are the same to
the handler: nobody tells it.)  The number of a stream is its connection slot.
The engine is what `EngineCore` promises of it: a tick lands every cancel, gives every
running request one token, raises, or preempts.  A request is `[steps, fits,
temp]`; a prompt the handler refuses is `NoAsk`.  `svc.upset` names the streams to
which one of three things happened that the code does not prevent: the model was
reset under the serial stream, its temperature was set by a row of the batch, or a
preemption took back a row's answer.

### 3.7 `ServerLoop`, `ServerLoopProofs`

A step of the loop is what `run_threaded` does between two uses of the mailbox's
mutex, so an engine thread may move between any two of them; `pc` is the place in
the round (`events`, `collect`, `streams`, `requests`, `join`) and `at` the slot
its scan has reached.  `Collect` takes one result, `DispatchStream` and
`DispatchRequest` one slot each, `DispatchRoom` is the one `has_room` between
them, `Reap` closes what is drained or idle and may see the stop flag.  An engine
thread takes its oldest job (`TakeJob`), runs it (`RunJob`: a whole answer, a
stream head, a frame or the end).  When it finds none (`FindNone`) it asks whether it is
stopped (`AskStop`) under another lock: the loop may have dispatched to it in between,
and stopped.  `belated` keeps the jobs that came so.
Requests are units, output is counted in frames.  `cid`, `number`, `last`
record who is served and what was last sent; `upset` names connections to
which one of three things happened that the code does not prevent: a late result
took the mark off their request, a request of theirs was taken from the buffer
and did not fit the mailbox, or the second dispatch pass reached them in the
middle of a stream or after an answer that closes.

### 3.8 `Master`, `MasterProofs`

The master forks its workers one by one, sleeps, scans them one `wait4` at a time
and decides: `begin_stop`, `escalate`, `go_on`, `leave`.  Between any two of these
a worker may arm its handler, drain, leave, fail or be killed, and a signal may
reach the master (inside its sleep it is noticed, outside it is lost) or a worker.  A
worker has its own SIGTERM handler only once it serves.  The clock is two flags,
the only two questions asked of it.

### 3.9 `Sampler`, `Quant`, `Paged`, `Replay`, `ExecutorReplay`, `SchedulerReplay`

`Sampler` is one call of the pipeline, one filter a step, over integer logits
whose weights halve with every unit below the best; probabilities are exact
quotients.  Beside it stands the reference definition, transformers' order of
filters (`AgreesWithHF`).  `Quant` writes blocks of q4_0 and Q4_K to a stream of cells
and reads them back by position; scales are exact rationals.  `Paged` scatters
the rows of a step and attends over the pages, in a flat cache whose elements are
all different, beside the reference that gathers positions first.

`Replay`, `ExecutorReplay` and `SchedulerReplay` play the 32 traces the reference
scripts record (`KvTraces`, `BatchTraces`, `ExecutorTraces`, `SchedulerTraces`)
through the very operators of `RoomOps`, `KvSpace`, `BatchOps` and through the
actions of `BatchExecutor` and `Scheduler`: every operation must answer what the
reference answered.  A scheduler trace is the scenario as the script gives it
and the actions recorded for each tick; the ticks `reclaim_tail` adds at its end,
which hand back what the cache holds, are computed by the model, and there must
be as many of them as were recorded.  (The ticks it would put into the middle
of a scenario never come up, which is part of the property; the counters C and K of
an action line are left out.)  This ties the models to the
fixtures the unit tests hold the engine to.  `MCFixtures` runs all of these jobs,
one at a time; where a trace reaches a snapshot that the paged reference takes,
its page tables go on into `Paged`.

## 4. Runs

| Run | Expect | Distinct states | What it asks |
|---|---|---|---|
| `pool` | pass | 1,842 | counts, free stack and refinement of `BlockRefs` |
| `kv_room` | pass | about 511,000 | references, tree, cached bytes and published prefixes under every order of calls and failures |
| `scheduler` | pass | about 108,000 | books, promises, policies, plan, and that requests leave |
| `server_loop` | pass | about 629,000 | answers, order, streams, stop and return of what is in flight |
| `executor` | pass | about 128,000 | refinement of `TokenStreams`, rows and buffers, and that everybody is answered |
| `fixtures` | pass | about 117,000 | the recorded traces; any trace of a small batch pool; the pure parts against their references |
| `engine` | pass | about 1,325,000 | the two books, the plan, and that requests end |
| `master` | pass | about 702,000 | report, reason to stop, end |
| `service` | pass | about 1,064,000 | table against engine, whose answer a client gets |
| `service_ends` | pass | about 58,600 | every stream ends |
| `kv_stale` | violation | - | a cached node's blocks hold the KV of no other tokens than its own |
| `service_cut` | violation | - | a streamed answer is whole |

### 4.1 Bounds

*`pool`*: three blocks, four holders.  The pool runs dry while blocks are shared
and every order of return occurs.

*`kv_room`, `kv_stale`*: three (four) blocks of two tokens, four (three) nodes beside
the root, nodes of up to three tokens (so that a sequence needs two nodes and a node
ends inside a block), two requests, prompts `<<1>>` and `<<1,1,0>>`.  The short one
shares half a block with the long one, and its publication splits the long one's node
inside that block; the long one, with its answer, takes two nodes.  The token that is
generated is 0, which is also what the code has in an unused entry of `rq_tok`: so some
sequences are published under their own tokens, and some, in a slot that was used
before, under others.  `<<1,1,0>>` is long enough to share, and not run again, the
slot of a last token that nobody has run.  (In `kv_stale` the generated token is 2, which
no prompt has.)  Two sequences fill the pool, so `new_request`
and `append_tokens` fail half way, and the tree runs full inside `commit`.  Page
tables, and the list of an eviction, have two entries in `kv_room`, where a sequence
has up to four tokens: a prompt behind shared blocks fills its table, and a
subtree of three blocks overflows the list.  `LOOKUPS` (five matches; four in
`kv_stale`) bounds the frequencies and how long a behaviour is: with four, the two
nodes of a block that was split are not both shared by one request.  `FREED_BOUND`
(two) the blocks not yet
handed over, and `MISHAP_BOUND` (one) how long a behaviour goes on: it stops
after a second kind of mishap.  These bounds stop the system, so deadlock is not
checked.  The byte properties were also run with prompts that part at their first
token (`ForkingPrompts`, 1,141,000 states) and with four blocks and page tables of four
(1,604,000 states): `KvSoundButForStale` holds there too.

*`scheduler`*: two slots, three requests chosen so that one is longer than two
chunks and does not fit beside the second, and the second's last token starts a
block; block size 2, capacity 5, watermark 4 blocks, budget 3, chunk 2.  Two
arrivals and one cancel and one report in a tick; an id arrives once; `wait_ticks`
is counted up to `max_wait_ticks`, with which alone it is compared.  Freed blocks
go from none to one more than the book holds, which raises.

*`server_loop`*: two slots, two threads, a mailbox of one job - the smallest in
which the two passes of `dispatch` compete for room - two connections and two
requests, streams of one frame, an inbound buffer of one request (so that
pipelining overflows it) and a send queue of one whole answer.  `MALFORMED` bounds which
connections may send bytes no request can be cut from: the second.

*`executor`*: two slots, three rows, a region of three positions, prompts of three
tokens and of one, any part of which may be cached and one of which (`<<2>>`) has a
token outside the vocabulary of two, budgets of one and two, `MAX_GEN` 1 (so that an answer beyond it is
dropped), three admissions (so that a slot is used again).  Both prompts together
need more rows than a step has, the long prompt with an answer outgrows
its region.  `ADMISSIONS` stops the system: deadlock is not checked.

*`fixtures`*: the traces as recorded.  The free batch pool has 8 bytes, alignment
2 and three handles, the slots three runs of one or two rows: the smallest with a
hole that fits and one that does not on either side of a lease.  Samplers: four
tokens with logits from four values, so that every pattern of ties occurs; the
settings of the reference's cases.  Quantisation: all blocks of four weights out
of five values, all combinations of three kinds of sub-block over eight.
Paging: two runs with every overlap, gap and error, and the scripts' own cases.
These computations end: no deadlock check.

*`engine`*: the scheduler's sizes, seven blocks in the room (above the book's
capacity by a block of rounding for each slot), nodes that hold a whole sequence,
requests 1 and 2 with the same prompt (so that book and room drift), 4 branching
off it inside their second block, 3 sharing nothing and decoding across a block boundary; one cancel at
any moment.  The cache must be emptied for the later ones.  `MAX_NODES` 8 keeps
the tree from running full, which `EveryRequestEnds` does not survive (6.3).

*`master`*: three workers - one that is being scanned, one before and one behind
it; one signal to the master and one to a worker.

*`service`*: three connections over two rows, one place in the queue and the
serial path; answers of two tokens; one tick that raises or preempts.  `service_ends`
has one row, so that two streams take turns.  Requests that do not fit go the
serial way.

### 4.2 Fairness

*Scheduler*: `WF(Next)` - the engine ticks while it has work
(`EngineCore.has_work`) and a call returns.  `Drains` also supposes, in its own
premise, that the cache's book keeps being emptied: the engine reclaims when the
occupancy stands in the way of a queued request, and a cache nobody empties may
hold all blocks for ever.

*Engine*: `WF` on the tick's beginning, its decisions and its end: somebody waits
for an answer and ticks while `has_work`.  Nothing is assumed of who submits,
cancels or releases.

*Executor*: `WF` on `forward`, `advance` and `finish` - a step that is planned is
carried to its end - and `[]<>` that a step has begun or none is due: the engine's
thread does not stay idle for ever while one is.

*Service*: `SF(stream_next(r))` - the loop asks for every open stream in every
round and a thread's jobs are taken in order, so a stream is polled again and again -
and `WF` on the rest of a call.  `EveryStreamEnds` supposes, in its premise, that from
some time on no stream is left behind by its connection: one that is
holds its row for ever.

*Server loop*: `WF` on the loop and on each engine thread, with the variables as
subscripts that every step of theirs changes: both are threads with
nothing to wait for but the mailbox (a loop that finds nothing polls for 50 ms, an
idle engine thread sleeps 1 ms).  `SF` on `Flush(s)`: poll is level-triggered, so
it reports a client that can take bytes in every round until its queue is empty;
the assumption is that a client that stays connected reads.  One that does
not is closed only by its socket's failure, since `reap` spares a connection with
unsent bytes.

*Master*: `WF` on the master's own steps and on its clock.  Nothing is assumed of
the workers: they may drain for ever.

### 4.3 What the passing runs show

- Pool: `PoolSound` and `ImplementsRefs` - whatever the order of shares and returns,
  a block that is handed out is nobody's.
- KV room: `RefsAccountedUntilFull` (table and tree references, free stack, shape of
  the tree) holds after every call, failed ones included, until one fails on a full
  table or a full list of ids: the other errors leave blocks to dead slots but never
  lose a reference or free a held block.  Those two do (6.3).  `ViewsAgreeUntilError`:
  the code's own `check_invariants` finds nothing until an operation has failed
  half way.  `KvSoundButForStale`: whatever a cached node or a running request's table
  leads to is the KV of the sequence it is reached by, but for what was published
  without its KV and what was computed from that.  Sharing half blocks,
  splitting nodes, forking, failing operations, reclaiming what live requests share and
  running behind a room that has grown never put foreign bytes there - until one of three
  things the code does wrong (6.3): a request comes to a slot in which a failed one has
  left entries, a call fails on a full table or list, or a request is published whose
  half-filled shared block has left the tree.  `LongestPrefixUntilMishap`, and
  `PublishAddsExactlyThat` - publishing adds the request's prefixes and loses none
  through any split - hold until a failed eviction has cut a node off the tree.
  `ReclaimMeasured`: what is reported came back to the pool.
- Scheduler: `BooksBalance` and `CommittedWithinWatermark` inside the tick;
  `OnlyCachePreempts` - preemption and "pool too small" need a non-empty cache;
  `OverCapacityOnlyByReport` - the hard capacity is passed only by publishing a
  reported sequence, topped up to its full length, which the code does do;
  `PlanKeepsPolicy` - the plan and the state kept tell the same story, and a
  cancelled request is in no plan; `AdmissionIsAtomic`; `Drains`.
- Executor: `RunsAlone`, `RowsAreOwned`, and `AnsweredUnlessTooLong`: a request
  with its prompt queued is answered, unless some history outgrows its region,
  which fails every step for everybody until that request is dropped.  All three
  with cached starts and half-admitted requests.
- Fixtures: `ReproducesTraces`, `NoDefects`, `AgreesWithHF`, `QuantReadsBack`,
  `PagesAsReference`.
- Engine: `RoomWithinBooks` - what the room holds is within the scheduler's book
  but for one block of rounding for each resident request and each answer
  not yet reported, through sharing, deduplication, eviction, preemption and cancels;
  `PlanIsExecutable` - no plan names a request that executor, room and entries do
  not all know, and no tick raises but for want of a block or a refused arrival;
  `EveryRequestEnds`.
- Master: `ReportIsHonest`, `StopsForAReason`, `FleetEnds`.
- Service: `TablesAgree` - the engine serves nobody the table does not know, no
  stream is in two places, nothing is kept for a closed one, nobody waits beside
  a free row; `OwnAnswerUnlessUpset`; `EveryStreamEnds`.
- Server loop: `AnswersGoHome` for every reuse of a slot - an answer, and a step of
  a stream, is for the connection and the thread it belongs to; `OneInFlight`,
  `AnswersInOrderUnlessUpset`, `NotClosedWhileOwed` for connections that are not
  `upset`; `OnlyLateWorkIsLeft` - what is left unrun when all threads are joined was
  dispatched after its thread had found nothing to do and before it asked whether to
  stop; `InFlightReturns` unless `feed` raises out of the loop.

### 4.4 What the violation runs show

Each checks one sentence of the repository against what the code does; the
sentence is quoted in `PROJECT.json` under `findings`.

- `kv_stale`: `append_tokens` is given a count, not tokens.  A prompt that arrives
  in two slices is published under whatever the slot's token array held, over the KV of
  its own tokens.  (Slots nobody has written are not held against it.)
- `service_cut`: `_batch_next` returns the text of the last token together with
  `done`, and `ChatHandler.stream_next` sends text only when it is not done: the
  last token of every stream of the batch is not sent.

## 5. Proofs

Everything in this section holds for *every* value of the constants that meets
the named assumption.

### 5.1 `BlockPoolProofs` (from `PoolAssumption`)

`PoolAssumption`: at least one block, finitely many view entries, `None` is not a
block.  The inductive invariant is `TypeOK`, `RefcntExact`, `FreeStackExact` and
`CountsExact` together: `alloc_one` needs the exact free stack to know the popped
block is unheld (so its double-free check never trips), `release` needs the exact
count to know that the block whose count falls to zero is on the stack nowhere
yet.  Theorems `PoolTypeOK`, `PoolIsSound` (`PoolSound`), `RefcntIsExact`,
`FreeStackIsExact`, `CountsAreExact`, and `PoolImplementsRefs`: every step maps to
a step of `BlockRefs` or a stutter.

### 5.2 `SchedulerProofs` (from `SchedAssumption`)

`SchedAssumption` is what `SchedConfig` checks: positive sizes, a watermark
between 0 and 1000 per mille.  The invariant `IInv` is

- `TypeOK`, which says what a waiting and a running slot look like - it is needed
  for `NewBlocks` never to be negative;
- `ListsOK`, the shape of the input lists;
- `ArrivalsAreFresh`: the slots `AdmittedSoFar` names have written nothing.  Without
  it `RollBack`, which gives back no block, could unbalance the books;
- `BooksBalance` and `CommittedWithinWatermark`.

Sums over slots are cardinalities of sets with one element per block, so that
changing one slot changes the sum by that slot's cells (lemmas on `Cells`), and
`blocks_for` is monotone (`BlocksForMonotone`).  One lemma per action shows that
the step keeps `IInv`.  Theorems: `SchedTypeOK`, `BooksAlwaysBalance`,
`PromisesAreKept`, and two action properties: `PreemptionNeedsCache` - with an empty
cache what is live is within what was promised, the promise is within the watermark, and
the watermark within capacity, so the next token always fits (`TokenFits`) and
nothing is above the watermark - and `CapacityHoldsButForReports`: decoding and
prefilling look at the capacity first, a request that finishes by itself is topped
up by nothing, and nothing else charges.

### 5.3 `SchedulerProofs`, the plan (from `SchedAssumption`)

The two invariants of `Scheduler` that speak of the action under construction.
Both hold at the end of a tick because something holds in each phase of it, and
that is `Plan`, over `IInv` of 5.2:

- `WhoIsLive`: the live ids are those before the tick less the cancels handled so
  far, then less the reports handled so far, then with the arrivals admitted so far.
  `AdmissionIsAtomic` is its last case;
- `OneSlotEach` and `FreshIds`: no two slots have one id and an id arrives once.
  Without the first, clearing a slot would not take its id away; without the second
  `RollBack`, which finds the slots to clear by their ids, could take an
  older request for a new one;
- `Early`: what is still empty in which phase; `CancelledGetNothing` from the moment
  the cancels are in;
- `Budgeted`: what the plan asks for and what is left of the budget are within the
  budget.  `Tokens` is the size of a set with one element per token, so a
  chunk adds its length (`CountChunk`, on the lemmas for `Cells`);
- `Decoded`, `Preempted`, `Chunked`, `Gone`: what each list of the action says about
  the slots, and that a slot with a chunk is marked `progressed`, so that it
  gets no second one; a chunk of a preempted request starts at 0.

Theorems `RefusalLeavesNothing` (`AdmissionIsAtomic`) and `PolicyIsKept`
(`PlanKeepsPolicy`).

### 5.4 `ServerLoopProofs` (from `LoopAssumption`)

`LoopAssumption` is positive sizes, and bounds on connections, requests and frames
that are any naturals.  The safety properties of the run say nothing about what is
in the queues, so none is inductive.  `IInv` says what a piece of work
outside the loop is and where:

- `Types`, and `Named`: a live slot's connection has a name no other slot has;
- `AllKnown`: a job, a running job or a result names a generation of its slot that
  is past or present, and when it is the present one it belongs to the connection
  that is in the slot and is on the thread that owns it.  That is why an answer
  goes home: `Collect` compares generations;
- `InTurn` and `NoneOfElders`: a thread has the jobs of a slot in the order of its
  connections, so once it has answered one, it has no work left of an earlier one in
  that slot.  Without this a late job of a connection that is gone could
  overwrite the stream that the next one, on the same thread, has begun;
- `StepsFind`: a queued step finds its stream, and nothing before it in the
  queue will touch it;
- `OneEach`: one thing outside for a marked slot, none for another, counted as
  the sizes of three sets of places;
- `Suited`: that one thing is what comes next - its number, the frames that are left
  and what the thread holds agree with what was sent last;
- `Closed`: a connection that is closing has nothing outside, and only a final answer
  closes one; `Leaving`: a thread that has found nothing to do, or has gone, has only
  jobs that came in afterwards (`OnlyBelated`).

`StepIs` reduces the next-state relation to eight kinds of effect on these (a
slot is lost, a thing is sent, taken, run, delivered, ...), and each conjunct has one
lemma over the eight.  Theorems: `TypeCorrect`, `GoesHome` (`AnswersGoHome`),
`OneThingInFlight` (`OneInFlight`), `WorkIsDoneButForLate` (`OnlyLateWorkIsLeft`), and two
action properties, `AnswersAreInOrder` (`AnswersInOrderUnlessUpset`) and
`ClosedWhenDone` (`NotClosedWhileOwed`): the same exception, `upset`, as in the
properties.  TLC found `IInv` true on the bounds of the run `server_loop` before it was
proved.

### 5.5 `MasterProofs` (from `MasterAssumption`: at least one worker)

`ReportAlwaysHonest` and `StopsOnlyForAReason`, for any number of workers.  A count
made in one round is still true when the master returns because a worker that
was reaped has met its fate and keeps it (`FateStays`): that is `Reaped`.  `Rounds`
says what a scan that has found nobody alive has passed, so that the master
leaves only when all are reaped.  `Counted` says that the two counts together are
the unclean deaths reaped so far, and that SIGKILL is sent only while stopping, so
that who is shot is among the forced; `Reasoned` carries the reason from the scan
that found it to the decision.  Only a scan reaps and counts (`OnlyScanReaps`,
`CountsStand`, `ScanCounts`).

### 5.6 `ServiceProofs` (from `ServiceAssumption`)

`ServiceAssumption` is positive sizes and asks of the right type; the queue may have
no place at all.  `IInv` is the types and

- `Sound`: `OnePlace` (a stream is in one row, one place of the queue, or the serial
  stream), and `Known`: what the engine has is in a row, and it has said nothing for
  whom it has not begun;
- `InTurn`: while somebody waits no row is free;
- `CallHasRow`: the stream a `_batch_next` is ticking for keeps its row meanwhile;
- `InStep`, for each stream: what has a place is not idle, and while its answer is
  being sent what is on the connection is what its place has been asked for
  (`Matches`): a row has emitted what the connection got, and the engine has at
  least that; who waits got nothing; the serial stream's count, KV and
  temperature are its own.  `OwnAnswerUnlessUpset` alone is not inductive: the
  next token is right only because `emitted` and `count` are.

`Kept` says what a call of the service must not do to a stream it is not about; it is
transitive, so a call that ticks, releases a row and admits from the queue keeps
what each of its parts keeps (`TickedKeeps`, `ReleaseKeeps`, `OneTurn`, `EndKeeps`,
`BeginKeeps`).  `_admit` is a loop over the queue, in the model a recursive function
of the number of turns: `TurnsExist` and `UpTo` do its induction by least
counterexample.  `OneTurn` shows on the way that `_submit` never fails in `_admit`: a
free row means room in the engine (`RoomInEngine`, by counting), so the branch of
`_admit` for an engine that is full though the table is not (`serve.mojo:622-644`)
is not taken since `stream_end` releases the engine's slot itself (`527-531`).  Theorems
`TheTablesAgree` (`TablesAgree`) and `AnswersAreOwn` (`OwnAnswerUnlessUpset`).  TLC
found `IInv` true on the bounds of the run `service` before it was proved.

### 5.7 `BatchExecutorProofs` (from `ExecutorAssumption`)

`ExecutorAssumption`: positive sizes, handles for the fifteen buffers of a step
(`MAX_HANDLES` is 24 in `batch.mojo:70`), prompts that are not empty, and at
least as many request ids as slots.

The first part is about values.  A sum over a table is unfolded to the recursive
function behind it (`SumIsRead`) and shown not to depend on the order by
induction on the size of the set (`TableAny`, `SumWith`).  Then: `ceil_bytes` is
the least multiple (`CeilIs`); `BorrowKeeps`, that first fit in any pool leaves
the leases aligned, inside and apart and `used` their sum; and, because a step
borrows from an empty pool and hands out runs from empty slots, that leases and
runs without gaps stay without gaps (`PackedBorrow`, `PackedAddRun`).

The second part proves `IInv`:

- `Typed`, `Residents`: a request has one slot, and its prompt is the one it came
  with;
- `Lending`: between steps nothing is lent, during one the fifteen lowest handles
  are, without gaps.  `StepBuffers` needs this to say that `plan` never fails for
  want of memory: `scratch_bytes` is enough for the fifteen buffers, each
  rounded up (`BuffersFit`);
- `Planning`, with `Described`: the runs cover the rows without gaps, each is one
  resident's, its rows are the front of that queue at the positions behind that
  history, and who is served has a run.  `RowsAreOwned` alone is not inductive:
  `forward` and `advance` read `served` of the slots, and that nobody is served
  without rows is said nowhere in it;
- `Ran`: after `forward`, what was served is in the KV behind the history.  It is
  true only because no two rows of a request have one position (`RowsApart`), so
  that the order in which rows are written does not matter.

`plan` goes through the slots, in the model by a recursive function of the number of
turns; `TurnPlans` is one turn, `TurnsExist` and `UpTo` do the induction.  Theorems
`TypeCorrect`, `OwnedRows` (`RowsAreOwned`), and `ExecutorRunsAlone` (`RunsAlone`):
every step maps to a step of `TokenStreams` or a stutter - `add` to `Open`, with the
cached tokens done already and a half-admitted queue as its text, `feed`
to `Give`, `drop` to `Close`, `advance` to `Compute` for the residents served,
`plan`, `forward` and `finish` to none.  `AdvancedText` is the heart of it: with
`Ran`, the text is the same before and after a step but for the answer.

### 5.8 `KvSpaceProofs`, `KvRoomProofs` (from `RoomAssumption`)

`RoomAssumption` is positive sizes (a node beside the root) and two relations between
the constants of `runtime/kv/__init__.mojo`: a node's list of blocks holds a full node that
starts anywhere in a block, which is the comment at line 67, and a page table holds a
longest sequence that shares nothing.  The number
of nodes, of blocks, of requests and what is in the prompts is free.

`KvSpaceProofs` is about values.  A view is the list of blocks of one page table or of
one node; `Refs(kv, b)` is the number of places `b` has in all views, and a space is
`Sound` when

- `PoolOK`: the free stack is exactly the blocks whose count is zero, each once;
- `Accounted`: a block's count is `Refs` of it - places of abandoned slots included;
- `Formed(tree, {})`: every node but the root is among the children of its parent, once,
  what is dead has no children, and a node has the blocks its offset and its tokens need;
- `SlotOK`: only a live request owns its last block, which then starts at slot 0.
  Without it `append_tokens`, which lengthens an owned block in place, could grow a
  run past its block.

The operations are loops, some inside others.  `LoopRuns` says once what a recursive
function of the number of turns comes to: given, for each turn, the set of values
possible after it, and that a turn leads from each set to the next, every value is
in its set.  Each loop then has one lemma about one turn and one that cites `LoopRuns`.
`RetainBlocksOK`, `FreshRunsOK`, `AppendTokensOK`, `SplitLastOK`, `CommitOK` follow the
code from the pool upwards.
`split` is the subtle one: the node that is divided gives its later blocks to the new
node, and when it is divided inside a block both hold that block, which the split
retains once more; so `Refs` grows by one just where the count does.

`KvRoomProofs` has evictions.  `detach` leaves a node that hangs nowhere, and every turn
takes one such node, puts its children on the stack and kills it: in between the
tree is not one.  `Formed(t, S)` says that it is one but for the nodes of `S`, and
`Evicting` that the stack is `S`; a turn kills a node, so there are enough turns in
the function (`AliveCounted`).  `reclaim` evicts the coldest node with all below it until it
has enough; `CacheMeasured` shows that it stops short of that only with an empty cache.

The inductive invariant is `KvInv`:

- as long as `full` has not occurred the room has its types and its space is `Sound`;
- as long as nothing has `raised`, moreover, a slot's table has exactly its tokens
  and a slot that is not live has an empty table (`Agreeing`).

Nothing is claimed of a room after `full` - that is what the two faults of section
6.3 leave of it - but the invariant is inductive all the same, for `mishaps` only grows.
Theorems `KvInvariant`, `RefsAreAccounted` (`RefsAccountedUntilFull`),
`ViewsAlwaysAgree` (`ViewsAgreeUntilError`), `ReclaimIsMeasured` (`ReclaimMeasured`);
and of the two longest operations, whose statements serve every caller, `CommitOK` and
`EvictOK`: a commit keeps a space sound even when it fails half way, an eviction
does unless it fails on its list.

The second half of the module is about what a path spells.  The sequence from the root
to a node is a recursion along parents, and `Formed` is local: it says nothing of
cycles.  So the proof carries a witness: `Spells(t, p)` says that `p` gives every node
its parent's sequence followed by its own tokens.  A node has at least one token, so a
tree that has such a `p` has no cycle among what is in use, and `p` is unique there
(`OneSpelling`); `TokensTo` is then `p` (`TokensToIs`), and `Cached` is the prefixes
of what `p` gives (`CachedIs`).  Each operation on the tree has a lemma that says what `p`
becomes: `SplitSpelt`, `AddSpelt`, `PrunedNeat`.  Beside it goes `Branching`: no two
children of one node, the root excepted, start with the same token.  The exception
is the code's: `match` enters the tree by the root's first child whatever that child
starts with, so a second child of the root may repeat its token.

`TreeInv` is the two together until `full`, and that the root has one child at most until
`forked`.  It is inductive with `KvInv` (`TreeInvariant`).  Two properties follow.

- `PublishAddsExactly` (`PublishAddsExactlyThat`): the walk of `match` agrees with the
  request's tokens up to where it ends and no further (`WalkFinds`), so the split it calls
  for leaves no child that starts with the next token, and each turn of commit's
  loop hangs the next stretch where nothing competes with it (`Writing`, `NodesWrite`).
- `LongestPrefixFound` (`LongestPrefixUntilMishap`): if one node agreed with the tokens
  further than the walk did, a shortest such node would hang where the walk ended
  (`OneCarries`: one node at most carries the l-th token of a sequence), and
  the walk would have gone on into it (`StuckLongest`).

### 5.9 Only model-checked

*Liveness* (`Drains`, `InFlightReturns`, `AnsweredUnlessTooLong`, `EveryRequestEnds`,
`FleetEnds`, `EveryStreamEnds`): fairness is out of the prover's reach.

*What the bytes hold* (`KvSoundButForStale`): it relates every table and every node
to the writes of the model, through the sharing of blocks by `match`, the blocks a
split divides, the slots that are written in place and the tokens not yet run.  `TreeInv`
is the half of it that is about the tree; the other half is an invariant on the block
slots of each view, which is not stated yet.

*The engine core* (`RoomWithinBooks`, `PlanIsExecutable`): they relate three machines.
`KvInv`, `Plan` and the scheduler's `IInv` are the parts such a proof would start
from; what is missing is the relation between the two books, through a whole `settle`.
As stated they also need a tree with room for every sequence, as in the run: with
the code's own `MAX_NODES` a `publish` may raise (6.3).

*The traces and the pure parts* (`ReproducesTraces`, `NoDefects`, `AgreesWithHF`,
`QuantReadsBack`, `PagesAsReference`): the traces are single computations, and the others
compare what two recursive computations yield from the same data - induction over data, with
an operator as its parameter, which the installed provers cannot instantiate.

## 6. Not modelled, and where the code and its words part

### 6.1 Parts left out

Wire formats and configuration (`srv/http`, `sse`, `openai`'s parsing, `config`,
`server`) are sequential, keep no state and are covered by tests.  The tokenizer
is tables and a merge loop (planned, section 2).  The models and kernels are
floating point, the core library FFI and memory; the command line and the
generator scripts run once and keep nothing.  The stress client
(`scripts/stress_serve`) is a client of the system, and is modelled only as what
clients may do in `ServerLoop` and `Service`.

### 6.2 Steps left out of modelled parts

*Server loop*: the single-threaded `run`, the `max_requests` budget (a test
device; its end is a stop), the clock (an idle connection may be closed in any
round), `Expect: 100-continue`, a twin handler that cannot be made
(`engine_thread.mojo:530-535`), a failing mutex.  *Service*: `spawn_twin` and
loading.  *Master*: the restart of a worker does not exist in the code; the wake-up
connections of `begin_stop` change no state.  *Executor*: `generate`, a loop over
the modelled operations for tests.  *Chat handler*: `handle`'s routes other than a
completion.  *Sampler*: the random generator - every draw a weight allows may be
made.

### 6.3 Differences noticed on the way

Beside the two violation runs, these were met while modelling.  Where a property is
named it is stated in the module and fails; the others are read off the code.
The passing properties say by their names or premises that they leave these aside.

- *KV*.  `match` enters at one child of the root only, against
  `radix.mojo:182` (`LongestPrefix`, with prompts that differ in their first token).
  A `new_request` that fails half way leaves references in a slot that is not live,
  which `check_invariants` counts (`ViewsAgree`).  Nothing clears them: the next
  request in that slot is given a page table that begins with the other's entries
  (`add_block`, `space.mojo:151-160`, appends to `rq_nblk`), and its prompt
  is then written through them, into blocks the cache holds - against "the request never
  writes into the tail of a shared block" (`space.mojo:169-170`).  Six calls do it
  (two requests are admitted, the first is published and dropped, a prompt that
  shares its beginning fails on the empty pool, the first prompt comes again and is
  found whole: its last token, which the engine runs anyway, goes to the slot of the
  token before); `KvSoundButForStale` fails without `reused` in its premise.  After a
  reclaim, or with a forked root, the tree matches less than the table shares; `commit`
  then takes the table's blocks for filled one after the other, though the one that was
  shared is not, and files the tokens behind it under slots they are not in
  (`space.mojo:331-352`, against the comment at 310-311 that nothing assumes so): it
  fails without `uneven`.  The last token of a request is recorded in the room and
  published, but was never run (`core.mojo:652-662`): a prompt that goes on from it shares
  a slot nobody has written (`executor.mojo:459-468` starts behind it).  A new run's block is taken from the pool
  before `add_block` finds the table full (`space.mojo:226-231`, `258-263`): nobody
  holds that block and it never comes back.  `evict` pushes freed ids to a list of
  `MAX_BLOCKS_PER_SEQ` (16; `__init__.mojo:110-119`) while a subtree may free up to
  `MAX_BLOCKS` (112): the push that raises (`space.mojo:418-421`) comes after the
  release and before the `kill`, so a node whose blocks are free stays in the tree,
  alive.  Both break `RefsAccounted` itself; `check_invariants` would count them.
- *Scheduler*.  `preempt_one` takes the highest slot, which with slot reuse is not
  the newest request.
- *Engine core*.  `publish` may raise inside `settle` after the request was marked
  done (`core.mojo:659`): with `MAX_NODES` 32 and nodes of 16 tokens a handful
  of distinct requests is enough, and the request is never dropped
  (`IdleHoldsNothing`, against `test_engine_core.mojo:458`).  Two alike prompts
  are charged twice and cached once (`core.mojo:320-324`), and a reclaim is told to
  the scheduler a tick late (`409-413`): `RoomWithinBooks` is the bound that is left.
  A tick that raises in `step` loses its action and its reports; one that raises
  in `forward` leaves its buffers borrowed.  A `cancel` of a request that is done leaves
  `has_work` true for ever; the service does not do it.  A prompt of 65 to 128
  tokens, or one that grows past `MAX_SEQ_TOKENS`, is accepted by `submit` and then
  makes every tick raise.
- *Engine threads*.  The docstring of `_engine_main` (`engine_thread.mojo:521`) says
  (translated) that before leaving, the work is to be finished: take first, and look at
  the flag only when there is none.  The two questions are two locks (540, 554): a
  job dispatched between them, in the round whose end stops the mailbox, is left, and
  `loop.mojo:305-318` only counts what is left over.  `OnlyLateWorkIsLeft` says that
  nothing else is.
- *Executor*.  `add` makes its slot live (`executor.mojo:475`) before a token outside
  the vocabulary makes it raise (487-490): a resident nobody has accepted is left, and it
  is run.  The Python reference knows no `matched`: its traces all start at nought.
- *Server loop*.  `collect` clears `inflight[slot]` before it compares generations
  (`loop.mojo:377`, against the comment at 156-159), so a late result of the
  slot's earlier connection lets a second request of the newcomer be
  dispatched (`AnswersInOrder`).  What is finished after the last `collect` is
  counted and not sent (305-319, against `src/README.md:121`).  A `feed` that raises
  leaves `run_threaded` (624).
- *Service*.  `complete()` resets the model under a serial stream (`serve.mojo:340`)
  and a row's sampling sets the temperature both share (721), against 22-27 and
  122-126 (`OwnAnswer`).  `stream_begin` lets go of the serial stream before it asks
  whether there is one, so "one sampling stream at a time" is never refused.  Nobody calls
  `stream_end` for a connection that is gone.  A `stream_end` whose tick raises
  keeps row and entry.  A cancel still queued can hit the request that has taken the
  same slot.  After a preemption the text is sent from its beginning again, and a
  sampled request is drawn anew.  Queue entries that are crossed out count
  toward its limit.  A stream cut by length ends as `stop`.
- *Master*.  A signal outside `usleep` is lost (`master.mojo:211`); a SIGTERM
  before the handler is armed is lost, so the worker is killed; a worker that dies of a signal
  while the fleet stops counts as forced; a failing `fork` leaves its siblings.
- *Fixtures*.  The answers recorded for `r05_hit_then_reclaim` are not those of a
  whole-prefix hit that its comment announces.  In `e02` the chosen tokens are
  indexed by slot, so request 4 is never answered.  The comparison with transformers
  applies frequency and presence penalties before repetition.
