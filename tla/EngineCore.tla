----------------------------- MODULE EngineCore -----------------------------
(***************************************************************************)
(* engine/core.mojo: one engine on top of the scheduler's book, the KV     *)
(* room's blocks and the executor's requests.  A tick is one call, but the *)
(* scheduler's step in the middle of it runs in Scheduler's own actions:   *)
(* phase is "deciding" from what prepare does before the step to what the  *)
(* engine does after it.                                                   *)
(*                                                                         *)
(* core is the engine's own state: the entries of the requests it has      *)
(* promised to answer, the executor's requests (their queues by length),   *)
(* the room and the lists for the next tick.  ok = FALSE is a raised       *)
(* error; what was done before it stays done.  Tokens the model chooses    *)
(* are left out: the room never reads them.                                *)
(***************************************************************************)
EXTENDS Scheduler, SequencesExt

CONSTANTS MAX_ROWS,            \* rows of one executor step
          MAX_BLOCKS, MAX_NODES, MAX_NODE_TOKENS, MAX_NODE_BLOCKS, MAX_PATH,
          MAX_REQUESTS, MAX_SEQ_TOKENS, MAX_BLOCKS_PER_SEQ,   \* the room's
          PromptOf(_),         \* the tokens of each offer's prompt
          CANCELS              \* bound: cancels in a run

KV == INSTANCE RoomOps

\* A step has rows for the whole budget, and the list of ids an eviction fills
\* holds every block, so that no reclaim raises half way.
ASSUME EngineAssumption ==
    /\ MAX_ROWS \in Nat /\ token_budget <= MAX_ROWS /\ max_chunk <= MAX_ROWS
    /\ \A o \in Offers : Len(PromptOf(o.id)) = o.prompt_len
    /\ MAX_BLOCKS <= MAX_BLOCKS_PER_SEQ
    /\ CANCELS \in Nat

VARIABLES core,       \* [entry, ex, room, arrivals, cancels, report, handles, ok]
          phase,      \* "idle" or "deciding"
          failed,     \* why the last tick raised, or "no"
          known,      \* the requests submitted so far
          cancelled   \* the requests a cancel named

engine     == <<core, phase, failed, known, cancelled>>
engineVars == <<vars, engine>>

NoEntry == [st |-> "free", id |-> 0, len |-> 0, new |-> 0, fed |-> 0, out |-> 0]

NoSeat == [ req |-> 0, hist |-> 0, pending |-> 0, n_prompt |-> 0, budget |-> 0,
            served |-> 0, out |-> 0, pages |-> 0 ]

EngineInit ==
    /\ Init
    /\ core = [ entry |-> [i \in Slots |-> NoEntry], ex |-> [i \in Slots |-> NoSeat],
                room |-> KV!NewRoom, arrivals |-> <<>>, cancels |-> <<>>,
                report |-> <<>>, handles |-> FALSE, ok |-> TRUE ]
    /\ phase = "idle" /\ failed = "no" /\ known = {} /\ cancelled = {}

Failing(c) == [c EXCEPT !.ok = FALSE]

Held(c, r)  == \E i \in Slots : c.entry[i].st # "free" /\ c.entry[i].id = r
entry(c, r) == CHOOSE i \in Slots : c.entry[i].st # "free" /\ c.entry[i].id = r

Seated(c, r)  == \E i \in Slots : c.ex[i].req = r
slot_of(c, r) == CHOOSE i \in Slots : c.ex[i].req = r

InRoom(c, r) == \E s \in KV!LiveSlots(c.room.kv) : c.room.kv.rq[s].id = r

\* A call of the room: when it raises, what it has done stays.
Roomed(c, room) ==
    [c EXCEPT !.room = [room EXCEPT !.kv.ok = TRUE], !.ok = room.kv.ok]

ExDrop(c, r) ==
    IF Seated(c, r) THEN [c EXCEPT !.ex[slot_of(c, r)] = NoSeat] ELSE c

RoomDrop(c, r) ==
    IF InRoom(c, r) THEN Roomed(c, KV!drop(c.room, KV!SlotOf(c.room, r))) ELSE c
-----------------------------------------------------------------------------
(* The caller *)

submit(o) ==
    /\ phase = "idle"
    /\ o.id \notin known
    /\ \E i \in Slots :
         /\ core.entry[i].st = "free"
         /\ \A j \in Slots : core.entry[j].st = "free" => i <= j
         /\ core' = [core EXCEPT
                       !.entry[i] = [NoEntry EXCEPT !.st = "queued", !.id = o.id,
                                        !.len = o.prompt_len, !.new = o.max_new],
                       !.arrivals = Append(@, o)]
    /\ known' = known \cup {o.id}
    /\ UNCHANGED <<vars, phase, failed, cancelled>>

\* The service cancels a stream it closes unless the engine is done with it.
cancel(r) ==
    /\ phase = "idle"
    /\ Held(core, r)
    /\ core.entry[entry(core, r)].st # "done"
    /\ Cardinality(cancelled) < CANCELS /\ r \notin cancelled
    /\ core' = [core EXCEPT !.cancels = Append(@, r)]
    /\ cancelled' = cancelled \cup {r}
    /\ UNCHANGED <<vars, phase, failed, known>>

release(r) ==
    /\ phase = "idle"
    /\ Held(core, r)
    /\ core.entry[entry(core, r)].st = "done"
    /\ core' = [core EXCEPT !.entry[entry(core, r)] = NoEntry]
    /\ UNCHANGED <<vars, phase, failed, known, cancelled>>

has_work(c) ==
    \/ c.report # <<>>
    \/ c.room.freed_pending > 0
    \/ \E i \in Slots : c.entry[i].st \in {"queued", "resident"}
-----------------------------------------------------------------------------
(* prepare, up to the scheduler's step *)

blocks_wanted ==
    Cardinality(UNION {{s} \X (blocks_for(done[s]) + 1 .. blocks_for(prompt_len[s]))
                         : s \in {t \in Slots : state[t] = WAITING}})

CachedInRoom(room) == Cardinality(KV!cached_blocks(room))

reclaimable(room) == Min({CachedInRoom(room), cached_blocks})

\* First the cache yields what the queued requests are owed, then what keeps
\* the book above the watermark; one allowance for both.
YieldNothing(room) == room

Yield(room) ==
    LET budget0 == reclaimable(room)
        spare   == capacity_blocks - (blocks_used + blocks_wanted)
        want    == Min({budget0 - spare, budget0})
        once    == IF want > 0 THEN KV!reclaim(room, want) ELSE room
        left    == budget0 - (once.freed_pending - room.freed_pending)
        over    == blocks_used - threshold_blocks
    IN  IF once.kv.ok /\ over > 0 /\ left > 0
        THEN KV!reclaim(once, Min({over, left})) ELSE once

\* What the room gave back is told as far as the cache's book goes.
Prepares ==
    /\ phase = "idle"
    /\ has_work(core) \/ core.cancels # <<>>
    /\ phase' = "deciding"

prepare ==
    /\ Prepares
    /\ LET told  == KV!take_freed_upto(core.room, cached_blocks)
           freed == core.room.freed_pending - told.freed_pending
       IN  /\ \E room \in {Yield(told)} :
                core' = [core EXCEPT !.room = room, !.report = <<>>]
           /\ Tick(freed, core.cancels, core.report, core.arrivals)
    /\ UNCHANGED <<failed, known, cancelled>>

decide == phase = "deciding" /\ Step /\ UNCHANGED engine

\* The step raised: the arrivals it did not take lose their entries.
refuse ==
    /\ phase = "deciding" /\ pc = "idle" /\ raised # "no"
    /\ core' = [core EXCEPT
         !.entry = [i \in Slots |->
             IF /\ \E k \in DOMAIN core.arrivals : core.arrivals[k].id = core.entry[i].id
                /\ core.entry[i].id \notin LiveIds
             THEN NoEntry ELSE core.entry[i]],
         !.arrivals = <<>>]
    /\ phase' = "idle"
    /\ failed' = raised
    /\ UNCHANGED <<vars, known, cancelled>>
-----------------------------------------------------------------------------
(* The rest of the tick, on a core value c *)

Retired(c, r) ==
    IF Held(c, r) THEN [c EXCEPT !.entry[entry(c, r)].st = "done"] ELSE c

ApplyCancel(c, r) == IF ~c.ok THEN c ELSE Retired(RoomDrop(ExDrop(c, r), r), r)

Cancelled(c) ==
    LET out == FoldLeft(ApplyCancel, c, c.cancels)
    IN  IF out.ok THEN [out EXCEPT !.cancels = <<>>, !.arrivals = <<>>] ELSE out

\* A preempted request starts over: history, blocks and answers are gone.
Forget(c, r) ==
    IF ~Held(c, r) THEN c
    ELSE [c EXCEPT !.entry[entry(c, r)].st = "queued",
                   !.entry[entry(c, r)].out = 0, !.entry[entry(c, r)].fed = 0]

ApplyPreemptionKeepingBlocks(c, r) == IF ~c.ok THEN c ELSE Forget(ExDrop(c, r), r)

ApplyPreemption(c, r) == IF ~c.ok THEN c ELSE Forget(RoomDrop(ExDrop(c, r), r), r)

\* sync_page_table: the executor learns how many positions the table covers.
Synced(c, r) ==
    LET table == c.room.kv.rq[KV!SlotOf(c.room, r)].table
    IN  IF ~c.ok THEN c
        ELSE [c EXCEPT !.ex[slot_of(c, r)].pages =
                 KV!n_tokens(table)]

GrowTo(c, r, target) ==
    LET s   == KV!SlotOf(c.room, r)
        had == c.room.kv.rq[s].ntok
    IN  IF ~c.ok THEN c
        ELSE IF ~InRoom(c, r) \/ target > MAX_SEQ_TOKENS THEN Failing(c)
        ELSE IF had >= target THEN c
        ELSE IF c.room.published[s] THEN Failing(c)
        ELSE Roomed(c, KV!extend(c.room, s, target - had))

\* Another slice: no more than the queue holds and the prompt has left.
Feed(c, r, n) ==
    LET q    == c.ex[slot_of(c, r)]
        fits == Min({n, MAX_ROWS - q.pending, q.n_prompt - q.hist - q.pending})
    IN  [c EXCEPT !.ex[slot_of(c, r)].pending = @ + fits, !.ok = (fits = n)]

\* A first slice: the room looks it up, and the executor starts behind what
\* it found - one row at least is run.
Enter(c, r, n) ==
    LET i      == entry(c, r)
        prompt == PromptOf(r)
        hit    == KV!match(c.room.kv.tree, SubSeq(prompt, 1, n)).matched
        cached == Min({hit, n - 1})
        seat   == {j \in Slots : c.ex[j].req = 0}
    IN  IF \/ c.entry[i].len > MAX_SEQ_TOKENS \/ InRoom(c, r)
           \/ KV!LiveSlots(c.room.kv) = KV!Slots
        THEN Failing(c)
        ELSE LET in == Roomed(c, KV!admit(c.room, r, prompt, n))
             IN  IF ~in.ok THEN in ELSE IF n > MAX_ROWS \/ seat = {} THEN Failing(in)
                 ELSE [in EXCEPT !.ex[Min(seat)] =
                         [NoSeat EXCEPT !.req = r, !.hist = cached, !.pending = n - cached,
                            !.n_prompt = c.entry[i].len, !.budget = c.entry[i].new]]

ApplyPrefill(c, q) ==
    LET n  == q.end - q.start
        in == IF Seated(c, q.req) THEN GrowTo(Feed(c, q.req, n), q.req, q.end)
              ELSE IF q.start # 0 THEN Failing(c) ELSE Enter(c, q.req, n)
    IN  IF ~c.ok THEN c ELSE IF ~Held(c, q.req) THEN Failing(c)
        ELSE IF ~in.ok THEN in
        ELSE [Synced([in EXCEPT !.entry[entry(c, q.req)].fed = q.end], q.req)
                EXCEPT !.entry[entry(c, q.req)].st = "resident"]

ApplyDecode(c, r) ==
    IF ~c.ok \/ r \in Ids(preempted) \/ (Held(c, r) /\ Seated(c, r)) THEN c
    ELSE Failing(c)

\* plan: rows in slot order, as many as there are.
PlanSeat(c, i) ==
    LET taken == SumFunctionOnSet([j \in Slots |-> c.ex[j].served], 0 .. i - 1)
    IN  [c EXCEPT !.ex[i].served = Min({c.ex[i].pending, MAX_ROWS - taken})]

Planned(c) ==
    IF ~c.ok THEN c ELSE IF c.handles THEN Failing(c)
    ELSE FoldLeft(PlanSeat, c, [k \in 1 .. MAX_BATCH |-> k - 1])

Rows(c) == {i \in Slots : c.ex[i].served > 0}

\* forward raises on a table shorter than the history, and the buffers the
\* step has borrowed stay recorded.
Forwarded(c) ==
    IF ~c.ok THEN c
    ELSE IF \E i \in Rows(c) : c.ex[i].pages < c.ex[i].hist + c.ex[i].served
    THEN [Failing(c) EXCEPT !.handles = TRUE] ELSE c

\* advance: one answer for a request whose prompt is all in.
AdvancedSeat(q) ==
    LET ran == [q EXCEPT !.hist = @ + q.served, !.pending = @ - q.served]
    IN  IF q.served = 0 THEN q
        ELSE IF ran.pending > 0 \/ ran.hist < q.n_prompt THEN ran
        ELSE [ran EXCEPT !.out = @ + 1, !.budget = @ - 1,
                         !.pending = IF q.budget > 1 THEN 1 ELSE 0]

Advanced(c) == [c EXCEPT !.ex = [i \in Slots |-> AdvancedSeat(c.ex[i])]]

\* publish: to the cache first, then out of the room.
Publish(c, r) ==
    LET s == KV!SlotOf(c.room, r)
    IN  IF ~c.ok \/ ~InRoom(c, r) THEN c
        ELSE IF c.room.kv.rq[s].ntok < c.room.n_prompt[s] THEN Failing(c)
        ELSE LET out == Roomed(c, KV!publish(c.room, s))
             IN  IF out.ok THEN RoomDrop(out, r) ELSE out

\* A complete answer: reported on the next tick.
Completed(c, i) ==
    LET r   == c.entry[i].id
        out == Publish([ExDrop(c, r) EXCEPT !.entry[i].st = "done"], r)
    IN  IF out.ok THEN [out EXCEPT !.report = Append(@, r)] ELSE out

Harvest(c, i) ==
    LET r == c.entry[i].id
        n == c.ex[slot_of(c, r)].out
        g == Synced(GrowTo([c EXCEPT !.entry[i].out = n], r, c.entry[i].fed + n), r)
    IN  IF ~c.ok \/ c.entry[i].st # "resident" \/ ~Seated(c, r) THEN c
        ELSE IF g.ok /\ n >= c.entry[i].new /\ r \notin Ids(finished)
        THEN Completed(g, i) ELSE g

ApplyFinished(c, r) ==
    LET out == Publish(ExDrop(c, r), r)
    IN  IF ~c.ok \/ ~out.ok THEN out ELSE Retired(out, r)

Settled(c) ==
    IF ~c.ok THEN c
    ELSE FoldLeft(ApplyFinished,
                  FoldLeft(Harvest, Advanced(c), [k \in 1 .. MAX_BATCH |-> k - 1]),
                  finished)

\* Cancels and preemptions first, then what the action asks for, one step of
\* the model, and what has come of it.
Applied(c) ==
    Settled(Forwarded(Planned(
        FoldLeft(ApplyDecode,
            FoldLeft(ApplyPrefill,
                FoldLeft(ApplyPreemption, Cancelled(c), preempted), p), decode))))

Settles == phase = "deciding" /\ pc = "idle" /\ raised = "no" /\ phase' = "idle"

settle ==
    /\ Settles
    /\ \E c \in {Applied(core)} :
         /\ core' = [c EXCEPT !.ok = TRUE]
         /\ failed' = IF c.ok THEN "no" ELSE "tick"
    /\ UNCHANGED <<vars, known, cancelled>>
-----------------------------------------------------------------------------
EngineTick == prepare \/ decide \/ refuse \/ settle

EngineNext ==
    \/ \E o \in Offers : submit(o)
    \/ \E r \in Requests : cancel(r) \/ release(r)
    \/ EngineTick

\* Somebody waits for an answer and ticks as long as there is work, and a
\* tick returns: settle is the one step that is a Settles.
EngineSpec ==
    /\ EngineInit /\ [][EngineNext]_engineVars
    /\ WF_phase(Prepares) /\ WF_engineVars(decide \/ refuse) /\ WF_phase(Settles)
-----------------------------------------------------------------------------
InUse(room) == {b \in KV!Blocks : room.kv.pool.refcnt[b] > 0}

In(st) == {core.entry[i].id : i \in {j \in Slots : core.entry[j].st = st}}

\* What the scheduler decides by and what the room holds: "one block's worth
\* of rounding, and no more" for each resident request and each answer not
\* reported yet, whatever has been shared, cached, evicted, preempted or
\* cancelled.  This is what makes a decision by the books safe for the pool.
RoomWithinBooks ==
    phase = "idle" /\ failed = "no" =>
      Cardinality(InUse(core.room)) + core.room.freed_pending
        <= blocks_used + Cardinality(In("resident")) + Len(core.report)

\* Every plan can be carried out: no tick raises but for want of a block or a
\* refused arrival.  After one that did not raise, executor, room and entries
\* know the same requests, and the scheduler those and the queued ones, beside
\* answers that have not been reported yet.
PlanIsExecutable ==
    /\ failed \in {"no", "admit", "room"}
    /\ phase = "idle" /\ failed = "no" =>
         /\ In("resident") = {core.ex[i].req : i \in Slots} \ {0}
         /\ In("resident") =
              {core.room.kv.rq[s].id : s \in KV!LiveSlots(core.room.kv)}
         /\ In("queued") \cup In("resident")
              \subseteq LiveIds \cup {core.arrivals[k].id : k \in DOMAIN core.arrivals}
         /\ LiveIds \subseteq In("queued") \cup In("resident") \cup Ids(core.report)

\* An engine without work is one that holds nothing for anybody: "idle has to
\* mean idle".
IdleHoldsNothing ==
    phase = "idle" /\ ~has_work(core) =>
      LiveIds = {} /\ KV!LiveSlots(core.room.kv) = {}

\* "All five finish": a request is answered, refused or cancelled, however the
\* cache, the queue and preemption compete for the blocks - and the engine
\* then runs out of work.
EveryRequestEnds == <>[](phase = "idle" /\ ~has_work(core))
=============================================================================
