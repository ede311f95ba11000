----------------------------- MODULE Scheduler -----------------------------
(***************************************************************************)
(* engine/scheduler.mojo.  step() decides one tick: it is one call, cut    *)
(* here into the iterations of its loops.  pc is the loop it is in, at the *)
(* element that loop has reached; nothing else happens before pc is "idle" *)
(* again.  The slot arrays are functions on Slots.  An error ends the call *)
(* at once: what was done stays done and the action is lost.               *)
(*                                                                         *)
(* It is the model of scripts/dump_scheduler_reference.py as well, but for  *)
(* two things that script has otherwise: its first request is exempt from  *)
(* the watermark, and a refusal does not take back what was admitted.      *)
(*                                                                         *)
(* Left out: preempt_count, preempt_total, tick_seq and the digest, which  *)
(* no decision reads.                                                      *)
(***************************************************************************)
EXTENDS Integers, Sequences, FiniteSets

CONSTANTS MAX_BATCH, token_budget, max_chunk, block_size, capacity_blocks,
          watermark_permille, max_wait_ticks,
          Offers,   \* arrivals [id, prompt_len, max_new] the engine may submit
          ARRIVALS, \* bound: arrivals in one tick
          EVENTS    \* bound: cancels, and reports, in one tick

\* The checks of SchedConfig.
ASSUME SchedAssumption ==
    /\ MAX_BATCH \in Nat \ {0}
    /\ token_budget \in Nat
    /\ max_chunk \in Nat \ {0}
    /\ block_size \in Nat \ {0}
    /\ capacity_blocks \in Nat \ {0}
    /\ watermark_permille \in 0 .. 1000
    /\ max_wait_ticks \in Nat
    /\ Offers \subseteq [id : Nat \ {0}, prompt_len : Int, max_new : Int]
    /\ ARRIVALS \in Nat
    /\ EVENTS \in Nat

Slots     == 0 .. MAX_BATCH - 1
FREE      == "FREE"
WAITING   == "WAITING"
RUNNING   == "RUNNING"
Requests  == {a.id : a \in Offers}

VARIABLES
    state, ids, prompt_len, max_new, done, generated, wait_ticks,  \* per slot
    progressed,                       \* slots that got a chunk this tick
    blocks_used, cached_blocks,       \* the two books
    p, decode, preempted, finished,   \* the action being built
    pc, at, budget, raised,
    inp,                              \* this tick's events; live: LiveIds before it
    seen                              \* the ids that have arrived, in order

request == <<state, ids, prompt_len, max_new, done, generated, wait_ticks>>
books   == <<blocks_used, cached_blocks>>
action  == <<p, decode, preempted, finished>>
call    == <<inp, seen>>
vars    == <<request, progressed, books, action, pc, at, budget, raised, call>>

blocks_for(n) == IF n <= 0 THEN 0 ELSE (n + block_size - 1) \div block_size

threshold_blocks == (capacity_blocks * watermark_permille) \div 1000

Live    == {s \in Slots : state[s] # FREE}
LiveIds == {ids[s] : s \in Live}

held(s)  == blocks_for(done[s] + generated[s])
whole(s) == blocks_for(prompt_len[s] + max_new[s])

\* A sum over slots, as the size of a set with one element per block.
HeldBlocks      == UNION {{s} \X (1 .. held(s)) : s \in Live}
CommittedBlocks == UNION {{s} \X (1 .. whole(s)) : s \in Live}

blocks_held == Cardinality(HeldBlocks)
committed   == Cardinality(CommittedBlocks)

\* s is the slot that find(r) returns.
Finds(s, r) ==
    /\ s \in Live /\ ids[s] = r
    /\ \A t \in Live : ids[t] = r => s <= t
-----------------------------------------------------------------------------
Init ==
    /\ state = [s \in Slots |-> FREE]
    /\ ids = [s \in Slots |-> 0]
    /\ prompt_len = [s \in Slots |-> 0]
    /\ max_new = [s \in Slots |-> 0]
    /\ done = [s \in Slots |-> 0]
    /\ generated = [s \in Slots |-> 0]
    /\ wait_ticks = [s \in Slots |-> 0]
    /\ progressed = {}
    /\ blocks_used = 0
    /\ cached_blocks = 0
    /\ p = <<>> /\ decode = <<>> /\ preempted = <<>> /\ finished = <<>>
    /\ pc = "idle" /\ at = 0 /\ budget = 0 /\ raised = "no"
    /\ inp = [cancelled |-> <<>>, finished |-> <<>>, arrived |-> <<>>, live |-> {}]
    /\ seen = <<>>

Goto(phase, first) == pc' = phase /\ at' = first

\* The call raises: the caller gets no action.
Raise(why) ==
    /\ raised' = why
    /\ Goto("idle", 0)
    /\ p' = <<>> /\ decode' = <<>> /\ preempted' = <<>> /\ finished' = <<>>

Clear(s) ==
    /\ state' = [state EXCEPT ![s] = FREE]
    /\ ids' = [ids EXCEPT ![s] = 0]
    /\ prompt_len' = [prompt_len EXCEPT ![s] = 0]
    /\ max_new' = [max_new EXCEPT ![s] = 0]
    /\ done' = [done EXCEPT ![s] = 0]
    /\ generated' = [generated EXCEPT ![s] = 0]
    /\ wait_ticks' = [wait_ticks EXCEPT ![s] = 0]

\* A finished request is charged for its whole sequence, which passes to the
\* cache: what it was charged as a live request is topped up.
TopUpNothing(s, tokens) == 0
TopUp(s, tokens) == whole(s) - blocks_for(tokens)

ToCache(s, tokens, need) ==
    /\ blocks_used' = blocks_used + need + TopUp(s, tokens)
    /\ cached_blocks' = cached_blocks + whole(s)

\* The requests preempt_one may take, other than the one being decoded.
Victims(protect) ==
    {s \in Slots \ {protect} : state[s] = RUNNING /\ done[s] + generated[s] > 0}

\* preempt_one: the highest running slot starts over.
Preempt(s) ==
    /\ preempted' = Append(preempted, ids[s])
    /\ blocks_used' = blocks_used - held(s)
    /\ done' = [done EXCEPT ![s] = 0]
    /\ generated' = [generated EXCEPT ![s] = 0]
    /\ wait_ticks' = [wait_ticks EXCEPT ![s] = 0]
    /\ state' = [state EXCEPT ![s] = WAITING]
    /\ UNCHANGED <<ids, prompt_len, max_new, progressed, cached_blocks>>

PreemptOne(protect) ==
    \E s \in Victims(protect) :
        /\ \A t \in Victims(protect) : t <= s
        /\ Preempt(s)
        /\ UNCHANGED <<p, decode, finished, pc, at, budget, raised, call>>
-----------------------------------------------------------------------------
Lists(S, most) == UNION {[1 .. n -> S] : n \in 0 .. most}

\* Step 0: what the engine hands back must be in the cache's book.
FreedUnchecked(freed) == TRUE
FreedAccounted(freed) == freed <= cached_blocks

Tick(freed, cancelled, reports, arrived) ==
    /\ pc = "idle"
    /\ inp' = [cancelled |-> cancelled, finished |-> reports, arrived |-> arrived,
               live |-> LiveIds]
    /\ seen' = seen \o [i \in DOMAIN arrived |-> arrived[i].id]
    /\ progressed' = {}
    /\ budget' = token_budget
    /\ p' = <<>> /\ decode' = <<>> /\ preempted' = <<>> /\ finished' = <<>>
    /\ UNCHANGED request
    /\ IF FreedAccounted(freed)
       THEN /\ cached_blocks' = cached_blocks - freed
            /\ blocks_used' = blocks_used - freed
            /\ raised' = "no"
            /\ Goto("cancel", 1)
       ELSE /\ raised' = "freed"
            /\ Goto("idle", 0)
            /\ UNCHANGED books

\* Step 1: a cancelled request gives its blocks back.
Cancel ==
    /\ pc = "cancel"
    /\ UNCHANGED <<progressed, action, budget, raised, call>>
    /\ IF at > Len(inp.cancelled)
       THEN Goto("report", 1) /\ UNCHANGED <<request, books>>
       ELSE /\ Goto("cancel", at + 1)
            /\ \/ \E s \in Slots :
                    /\ Finds(s, inp.cancelled[at])
                    /\ Clear(s)
                    /\ blocks_used' = blocks_used - held(s)
                    /\ UNCHANGED cached_blocks
               \/ /\ inp.cancelled[at] \notin LiveIds
                  /\ UNCHANGED <<request, books>>

\* Step 2: the engine says these are complete.
Report ==
    /\ pc = "report"
    /\ UNCHANGED <<progressed, p, decode, preempted, budget, raised, call>>
    /\ IF at > Len(inp.finished)
       THEN Goto("wait", 1) /\ UNCHANGED <<request, books, finished>>
       ELSE /\ Goto("report", at + 1)
            /\ \/ \E s \in Slots :
                    /\ Finds(s, inp.finished[at])
                    /\ finished' = Append(finished, ids[s])
                    /\ Clear(s)
                    /\ ToCache(s, done[s] + generated[s], 0)
               \/ /\ inp.finished[at] \notin LiveIds
                  /\ UNCHANGED <<request, books, finished>>

\* Step 3.  Bound: a wait is counted up to max_wait_ticks, the one value it is
\* compared with.
Wait ==
    /\ pc = "wait"
    /\ wait_ticks' = [s \in Slots |->
          IF state[s] = WAITING /\ wait_ticks[s] < max_wait_ticks
          THEN wait_ticks[s] + 1 ELSE wait_ticks[s]]
    /\ Goto("arrive", 1)
    /\ UNCHANGED <<state, ids, prompt_len, max_new, done, generated, progressed,
                   books, action, budget, raised, call>>

\* Step 4.  Admission is judged against the watermark, for the sequences in
\* full: everything a live request may still write is spoken for.
Blocked(a) == \E j \in DOMAIN inp.cancelled : inp.cancelled[j] = a.id

FitsPromptsOnly(a) ==
    Cardinality(UNION {{s} \X (1 .. blocks_for(prompt_len[s])) : s \in Live})
      + blocks_for(a.prompt_len) <= threshold_blocks

FitsCapacity(a) ==
    committed + blocks_for(a.prompt_len + a.max_new) <= capacity_blocks

Fits(a) ==
    /\ blocks_for(a.prompt_len) <= capacity_blocks
    /\ committed + blocks_for(a.prompt_len + a.max_new) <= threshold_blocks

Admissible(a) ==
    /\ a.prompt_len > 0 /\ a.max_new > 0
    /\ a.id \notin LiveIds
    /\ Fits(a)
    /\ Live # Slots

admit(s, a) ==
    /\ state' = [state EXCEPT ![s] = WAITING]
    /\ ids' = [ids EXCEPT ![s] = a.id]
    /\ prompt_len' = [prompt_len EXCEPT ![s] = a.prompt_len]
    /\ max_new' = [max_new EXCEPT ![s] = a.max_new]
    /\ done' = [done EXCEPT ![s] = 0]
    /\ generated' = [generated EXCEPT ![s] = 0]
    /\ wait_ticks' = [wait_ticks EXCEPT ![s] = 0]

\* The slots of this tick's arrivals before the failing one: they have written
\* nothing, so clearing them gives back no block.
AdmittedNone == {}
AdmittedSoFar ==
    {s \in Live : \E j \in 1 .. at - 1 :
        ids[s] = inp.arrived[j].id /\ ~Blocked(inp.arrived[j])}

Without(f, S, v) == [s \in Slots |-> IF s \in S THEN v ELSE f[s]]

RollBack(S) ==
    /\ state' = Without(state, S, FREE)
    /\ ids' = Without(ids, S, 0)
    /\ prompt_len' = Without(prompt_len, S, 0)
    /\ max_new' = Without(max_new, S, 0)
    /\ done' = Without(done, S, 0)
    /\ generated' = Without(generated, S, 0)
    /\ wait_ticks' = Without(wait_ticks, S, 0)

Arrive ==
    /\ pc = "arrive"
    /\ UNCHANGED <<progressed, books, budget, call>>
    /\ IF at > Len(inp.arrived)
       THEN Goto("promote", 0) /\ UNCHANGED <<request, action, raised>>
       ELSE LET a == inp.arrived[at]
            IN  \/ /\ Blocked(a)
                   /\ Goto("arrive", at + 1)
                   /\ UNCHANGED <<request, action, raised>>
                \/ /\ ~Blocked(a) /\ Admissible(a)
                   /\ \E s \in Slots \ Live :
                        /\ \A t \in Slots \ Live : s <= t
                        /\ admit(s, a)
                   /\ Goto("arrive", at + 1)
                   /\ UNCHANGED <<action, raised>>
                \/ /\ ~Blocked(a) /\ ~Admissible(a)
                   /\ RollBack(AdmittedSoFar)
                   /\ Raise("admit")

\* Step 5: a request whose prompt is all in decodes from now on.
PrefilledPast(s) == done[s] > prompt_len[s]
Prefilled(s) == done[s] >= prompt_len[s] /\ prompt_len[s] > 0

Promote ==
    LET S == {s \in Slots : state[s] = WAITING /\ Prefilled(s)}
    IN  /\ pc = "promote"
        /\ state' = Without(state, S, RUNNING)
        /\ wait_ticks' = Without(wait_ticks, S, 0)
        /\ Goto("decode", 0)
        /\ UNCHANGED <<ids, prompt_len, max_new, done, generated, progressed,
                       books, action, budget, raised, call>>
-----------------------------------------------------------------------------
\* Step 6: one token for each running request, low slots first.
NewBlocks(old, new) == blocks_for(new) - blocks_for(old)

Decode(s) ==
    LET seq  == done[s] + generated[s]
        need == NewBlocks(seq, seq + 1)
    IN  /\ decode' = Append(decode, ids[s])
        /\ budget' = budget - 1
        /\ IF generated[s] + 1 >= max_new[s]
           THEN /\ finished' = Append(finished, ids[s])
                /\ Clear(s)
                /\ ToCache(s, seq + 1, need)
           ELSE /\ generated' = [generated EXCEPT ![s] = @ + 1]
                /\ blocks_used' = blocks_used + need
                /\ UNCHANGED <<state, ids, prompt_len, max_new, done, wait_ticks,
                               cached_blocks, finished>>
        /\ UNCHANGED <<p, preempted, progressed, raised, call>>

\* Running requests are preempted until the token's block fits; when there is
\* none left the call fails.
DecodePhase ==
    /\ pc = "decode"
    /\ IF at >= MAX_BATCH \/ budget <= 0
       THEN /\ Goto("starved", 0)
            /\ UNCHANGED <<request, progressed, books, action, budget, raised, call>>
       ELSE IF state[at] # RUNNING
       THEN /\ Goto("decode", at + 1)
            /\ UNCHANGED <<request, progressed, books, action, budget, raised, call>>
       ELSE LET need == NewBlocks(done[at] + generated[at],
                                  done[at] + generated[at] + 1)
                full == need > 0 /\ blocks_used + need > capacity_blocks
            IN  \/ full /\ PreemptOne(at)
                \/ /\ full /\ Victims(at) = {}
                   /\ Raise("room")
                   /\ UNCHANGED <<request, progressed, books, budget, call>>
                \/ ~full /\ Decode(at) /\ Goto("decode", at + 1)
-----------------------------------------------------------------------------
\* Steps 7 and 8: one chunk for a waiting request.
Chunk(s) ==
    LET want == IF prompt_len[s] - done[s] <= max_chunk
                THEN prompt_len[s] - done[s] ELSE max_chunk
    IN  IF want <= budget THEN want ELSE budget

ServableAgain(s) == budget > 0 /\ state[s] = WAITING /\ prompt_len[s] > done[s]

Servable(s) ==
    /\ budget > 0
    /\ state[s] = WAITING
    /\ s \notin progressed
    /\ prompt_len[s] > done[s]

RoomForAlways(s) == TRUE
RoomFor(s) ==
    blocks_used + NewBlocks(done[s], done[s] + Chunk(s)) <= capacity_blocks

try_prefill(s) ==
    LET end == done[s] + Chunk(s)
    IN  IF Servable(s) /\ RoomFor(s)
        THEN /\ p' = Append(p, [req |-> ids[s], start |-> done[s], end |-> end])
             /\ blocks_used' = blocks_used + NewBlocks(done[s], end)
             /\ done' = [done EXCEPT ![s] = end]
             /\ progressed' = progressed \cup {s}
             /\ wait_ticks' = [wait_ticks EXCEPT ![s] = 0]
             /\ budget' = budget - Chunk(s)
        ELSE UNCHANGED <<p, blocks_used, done, progressed, wait_ticks, budget>>

PrefillPhase(phase, next, wanted) ==
    /\ pc = phase
    /\ IF at >= MAX_BATCH
       THEN /\ Goto(next, 0)
            /\ UNCHANGED <<p, blocks_used, done, progressed, wait_ticks, budget>>
       ELSE /\ Goto(phase, at + 1)
            /\ IF at \in wanted THEN try_prefill(at)
               ELSE UNCHANGED <<p, blocks_used, done, progressed, wait_ticks, budget>>
    /\ UNCHANGED <<state, ids, prompt_len, max_new, generated, cached_blocks,
                   decode, preempted, finished, raised, call>>

Starved == {s \in Slots : wait_ticks[s] >= max_wait_ticks}

StarvedPrefill  == PrefillPhase("starved", "prefill", Starved)
OrdinaryPrefill == PrefillPhase("prefill", "watermark", Slots)

\* Step 9: above the watermark the newest running requests start over.
Watermark ==
    /\ pc = "watermark"
    /\ \/ blocks_used > threshold_blocks /\ PreemptOne(-1)
       \/ /\ blocks_used <= threshold_blocks \/ Victims(-1) = {}
          /\ Goto("idle", 0)
          /\ UNCHANGED <<request, progressed, books, action, budget, raised, call>>
-----------------------------------------------------------------------------
\* What the engine may say: an id arrives in one tick only, a cancel names a
\* request that has been submitted, a report one whose prompt is in.
NextTick ==
    \E freed \in 0 .. cached_blocks + 1,
       arrived \in Lists({a \in Offers : \A i \in DOMAIN seen : seen[i] # a.id}, ARRIVALS),
       reports \in Lists({ids[s] : s \in {t \in Live : done[t] = prompt_len[t]}}, EVENTS) :
         \E cancelled \in Lists({seen[i] : i \in DOMAIN seen}
                                  \cup {arrived[i].id : i \in DOMAIN arrived}, EVENTS) :
            Tick(freed, cancelled, reports, arrived)

Step == \/ Cancel \/ Report \/ Wait \/ Arrive \/ Promote \/ DecodePhase
        \/ StarvedPrefill \/ OrdinaryPrefill \/ Watermark

Next == NextTick \/ Step

\* The engine ticks as long as it has work, and a call returns.
Spec == Init /\ [][Next]_vars /\ WF_vars(Next)
-----------------------------------------------------------------------------
RequestsOK ==
    /\ state \in [Slots -> {FREE, WAITING, RUNNING}]
    /\ ids \in [Slots -> Nat]
    /\ prompt_len \in [Slots -> Nat] /\ max_new \in [Slots -> Nat]
    /\ done \in [Slots -> Nat] /\ generated \in [Slots -> Nat]
    /\ wait_ticks \in [Slots -> 0 .. max_wait_ticks]
    /\ \A s \in Slots :
         /\ state[s] = FREE => prompt_len[s] + max_new[s] + done[s] + generated[s] = 0
         /\ state[s] = WAITING =>
              done[s] <= prompt_len[s] /\ generated[s] = 0 /\ max_new[s] > 0
         /\ state[s] = RUNNING => done[s] = prompt_len[s] /\ generated[s] < max_new[s]

TypeOK ==
    /\ RequestsOK
    /\ progressed \subseteq Slots
    /\ blocks_used \in Nat /\ cached_blocks \in Nat
    /\ budget \in 0 .. token_budget
    /\ pc \in {"idle", "cancel", "report", "wait", "arrive", "promote", "decode",
               "starved", "prefill", "watermark"}
    /\ at \in Nat
    /\ raised \in {"no", "freed", "admit", "room"}

\* "The invariant is blocks_used == blocks_held() + cached_blocks" - after
\* every loop iteration and every error, not only between ticks.
BooksBalance == blocks_used = blocks_held + cached_blocks

\* Nothing live may ever come to need more than the watermark, in full.
CommittedWithinWatermark == committed <= threshold_blocks

\* Admission makes preemption, and a tick that fails for want of a block, the
\* cache's doing: while nothing is cached neither happens.
OnlyCachePreempts ==
    [][Len(preempted') > Len(preempted) \/ (raised' = "room" /\ raised # "room")
         => cached_blocks > 0]_vars

\* The hard capacity is only ever exceeded by publishing a reported sequence.
OverCapacityOnlyByReport ==
    [][blocks_used' > blocks_used /\ blocks_used' > capacity_blocks
         => pc = "report"]_vars
-----------------------------------------------------------------------------
\* Tokens the action asks the model for: one for each decode, and those of the
\* chunks, again as the size of a set.
Tokens ==
    Len(decode)
      + Cardinality(UNION {{i} \X (1 .. p[i].end - p[i].start) : i \in DOMAIN p})

Ids(list)  == {list[i] : i \in DOMAIN list}
Prefilling == {p[i].req : i \in DOMAIN p}

\* Policy 2: a request cancelled in a tick, queued or only arriving in it,
\* gets nothing in that tick and does not stay.
CancelWins ==
    pc \in {"promote", "decode", "starved", "prefill", "watermark"}
        \/ (pc = "idle" /\ raised # "freed") =>
      Ids(inp.cancelled) \cap (LiveIds \cup Ids(decode) \cup Prefilling
                                 \cup Ids(preempted) \cup Ids(finished)) = {}

\* What the engine is told and what the scheduler remembers are the same: a
\* decoded request has finished, has been preempted since or is running, a
\* preempted one has nothing but this tick's chunk, a chunk ends where the
\* request stands and a finished request is gone.
PlanMatchesBook ==
    pc = "idle" /\ raised = "no" =>
      /\ \A r \in Ids(decode) \ (Ids(finished) \cup Ids(preempted)) :
           \E s \in Live : ids[s] = r /\ state[s] = RUNNING /\ generated[s] > 0
      /\ \A r \in Ids(preempted) \ Prefilling :
           \E s \in Live : ids[s] = r /\ state[s] = WAITING /\ done[s] = 0
      /\ \A i \in DOMAIN p :
           \E s \in Live : /\ ids[s] = p[i].req
                           /\ state[s] = WAITING /\ done[s] = p[i].end
                           /\ p[i].req \in Ids(preempted) => p[i].start = 0
      /\ Ids(finished) \cap LiveIds = {}

\* Policies 1 to 3: one budget for everything, cancellation first, one chunk
\* per request; and the plan tells the same story as the book.
PlanKeepsPolicy ==
    /\ Tokens <= token_budget
    /\ CancelWins
    /\ \A i, j \in DOMAIN p : i # j => p[i].req # p[j].req
    /\ PlanMatchesBook

\* When an arrival is refused, none of this tick's arrivals stays.
AdmissionIsAtomic ==
    pc = "idle" /\ raised = "admit" =>
      LiveIds = inp.live \ (Ids(inp.cancelled) \cup Ids(inp.finished))

\* If the engine keeps emptying the cache and ids stop arriving (there are
\* finitely many), every request that was admitted leaves.
Drains ==
    []<>(pc = "idle" /\ raised = "no" /\ cached_blocks = 0) => <>[](LiveIds = {})
=============================================================================
