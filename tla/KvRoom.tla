------------------------------- MODULE KvRoom -------------------------------
(***************************************************************************)
(* engine/kv_room.mojo over runtime/kv: the calls the engine makes, in any *)
(* order it may make them, and the KV bytes they are about.                *)
(*                                                                         *)
(* The room's own state is n_prompt, published and freed_pending beside    *)
(* the space.  Growing the room is not running the model: ctx is the token *)
(* sequence a request really is (prompt, then generated tokens), ran is    *)
(* how far the executor has run it (its history), and bytes is what the    *)
(* model has written into each block slot - the context whose last token's *)
(* KV lies there.  Two variables only record: stale which block slots were *)
(* given out for what they do not hold, mishaps which of the situations    *)
(* below have occurred.                                                    *)
(***************************************************************************)
EXTENDS RoomOps

CONSTANTS Tokens,       \* token ids
          Prompts,      \* prompts that arrive, as token sequences
          LOOKUPS,      \* bound: matches in the tree (admissions, publications)
          MISHAP_BOUND, \* bound: kinds of mishap a run goes on after
          FREED_BOUND   \* bound: reclaimed blocks not yet taken

\* The device gets what the model needs at least to admit every prompt.
ASSUME RoomAssumption ==
    /\ block_size \in Nat \ {0}
    /\ MAX_BLOCKS \in Nat \ {0}
    /\ MAX_REQUESTS \in Nat \ {0}
    /\ MAX_NODES \in Nat \ {0, 1}
    /\ MAX_NODE_TOKENS \in Nat \ {0}
    /\ MAX_PATH \in Nat \ {0}
    /\ MAX_NODE_BLOCKS \in Nat /\ MAX_BLOCKS_PER_SEQ \in Nat /\ MAX_SEQ_TOKENS \in Nat
    /\ FREED_BOUND \in Nat
    \* "MAX_NODE_BLOCKS >= ceil((MAX_NODE_TOKENS + block_size) / block_size)"
    /\ MAX_NODE_BLOCKS >= ceil_div(MAX_NODE_TOKENS + block_size, block_size)
    /\ MAX_BLOCKS_PER_SEQ >= ceil_div(MAX_SEQ_TOKENS, block_size)
    /\ \A p \in Prompts : p \in Seq(Nat) /\ Len(p) \in 1 .. MAX_SEQ_TOKENS

VARIABLES room,      \* [kv, n_prompt, published, freed_pending]
          ctx,       \* ctx[s]: the tokens of the request in slot s
          ran,       \* ran[s]: how many of them the executor has run or shares
          bytes,     \* bytes[b][i]: the context whose KV is in slot i of b
          stale,     \* <<block slot, sequence>>: published without its KV
          mishaps,   \* subset of Situations
          lookups    \* number of matches so far

vars == <<room, ctx, ran, bytes, stale, mishaps, lookups>>

\* raised: an operation failed half way.   forked: the root got a second child.
\* uneven: a request was published from an entry of its table on behind which
\*         a block is not filled: the cached prefix it shares was reclaimed.
\* full:   an operation failed on a full page table or a full list of ids.
\* reused: a request came to a slot in which a failed one had left entries.
Situations == {"raised", "forked", "uneven", "full", "reused"}

NoKv == <<>>
-----------------------------------------------------------------------------
(* The bytes *)

\* The block slots a page table names, in token order.
Cells(table) ==
    FlattenSeq([i \in DOMAIN table |->
        [j \in 1 .. table[i].len |-> <<table[i].block, table[i].start + j - 1>>]])

At(by, cell) == by[cell[1]][cell[2]]

\* The model runs tokens from+1 .. to of context c through the cells.  What it
\* leaves for a token is the KV of the whole context up to it, if it read the
\* KV of what comes before (sound), and of no sequence at all if it did not.
Written(by, cells, c, from, to, sound) ==
    LET put(b, i) == {k \in from + 1 .. to : cells[k] = <<b, i>>}
    IN  [b \in Blocks |-> [i \in 0 .. block_size - 1 |->
            IF put(b, i) = {} THEN by[b][i]
            ELSE IF sound THEN SubSeq(c, 1, Max(put(b, i))) ELSE NoKv]]

\* What a page table reads back: its runs' slots in order.
Gathered(by, table) ==
    LET cells == Cells(table)
    IN  [k \in DOMAIN cells |-> At(by, cells[k])]

\* The contents of free blocks do not matter.
Scrubbed(by, kv) ==
    [b \in Blocks |-> [i \in 0 .. block_size - 1 |->
        IF kv.pool.refcnt[b] = 0 THEN NoKv ELSE by[b][i]]]

\* Block slot by block slot, what the first n entries of a table stand for.
ClaimsOf(table, c, n) ==
    LET cells == Cells(table)
    IN  {<<cells[k], SubSeq(c, 1, k)>> : k \in 1 .. Min({n, Len(cells)})}

\* Those of them that are given away without their KV.
StillStale(claims, by, kv) ==
    {c \in claims : kv.pool.refcnt[c[1][1]] > 0 /\ At(by, c[1]) # c[2]}
-----------------------------------------------------------------------------
Init ==
    /\ room = NewRoom
    /\ ctx = [s \in Slots |-> <<>>]
    /\ ran = [s \in Slots |-> 0]
    /\ bytes = [b \in Blocks |-> [i \in 0 .. block_size - 1 |-> NoKv]]
    /\ stale = {}
    /\ mishaps = {}
    /\ lookups = 0

\* A call has returned r, raising or not: the caller sees the error and goes on.
Returned(r, more) ==
    /\ room' = [r EXCEPT !.kv.ok = TRUE]
    /\ mishaps' = mishaps \cup more
                    \cup (IF r.kv.ok THEN {} ELSE {"raised"})
                    \cup (IF Len(r.kv.tree[ROOT].kids) > 1 THEN {"forked"} ELSE {})

\* The call returned r with the page table of s full: the block it had taken
\* for one more entry is nobody's.
TableFull(r, s) ==
    IF ~r.kv.ok /\ Len(r.kv.rq[s].table) = MAX_BLOCKS_PER_SEQ THEN {"full"} ELSE {}

\* A call of the room writes no KV, but a block it frees is anybody's; what
\* it publishes may be without its KV.
Given(claims) ==
    /\ bytes' = Scrubbed(bytes, room'.kv)
    /\ stale' = StillStale(stale \cup claims, bytes', room'.kv)

\* The slot a request comes to has entries that are not its own.
LeftBehind(s) == IF room.kv.rq[s].table # <<>> THEN {"reused"} ELSE {}

\* More blocks came back than the list of ids they go into has room for: the
\* node whose blocks they are is still in the tree.
ListFull(r) ==
    IF ~r.kv.ok /\ n_free(r.kv.pool) - n_free(room.kv.pool) > MAX_BLOCKS_PER_SEQ
    THEN {"full"} ELSE {}

\* The engine hands over the first n_now tokens of a prompt; the executor's
\* history starts behind what the cache supplies, the last token excepted.
\* Ids are only compared with those of live requests, so the lowest unused one
\* stands for all.
Admit(id, prompt, n_now) ==
    LET s       == FreeSlot(room.kv)
        matched == match(room.kv.tree, SubSeq(prompt, 1, n_now)).matched
    IN  /\ LiveSlots(room.kv) # Slots
        /\ lookups < LOOKUPS
        /\ lookups' = lookups + 1
        /\ id = Min(1 .. MAX_REQUESTS \ {room.kv.rq[t].id : t \in LiveSlots(room.kv)})
        /\ \E r \in {admit(room, id, prompt, n_now)} :
             /\ Returned(r, TableFull(r, s) \cup LeftBehind(s))
             /\ ctx' = IF r.kv.ok THEN [ctx EXCEPT ![s] = prompt] ELSE ctx
             /\ ran' = IF r.kv.ok THEN [ran EXCEPT ![s] = Min({matched, n_now - 1})]
                                  ELSE ran
             /\ Given({})

\* One more slice of the prompt, or the token just generated: there is one
\* when all before it has been run, and it has not been run itself.
Extend(s, n, tok) ==
    LET had == room.kv.rq[s].ntok
        c   == IF had < Len(ctx[s]) THEN ctx[s] ELSE Append(ctx[s], tok)
    IN  /\ s \in LiveSlots(room.kv)
        /\ ctx[s] # <<>>
        /\ had < Len(ctx[s]) \/ ran[s] = had
        /\ had + n <= MAX_SEQ_TOKENS
        /\ had + n <= Len(c)
        /\ UNCHANGED <<ran, lookups>>
        /\ \E r \in {extend(room, s, n)} :
             /\ Returned(r, TableFull(r, s))
             /\ ctx' = IF r.kv.ok THEN [ctx EXCEPT ![s] = c] ELSE ctx
             /\ Given({})

\* The executor runs the request on, up to token last of what the room holds of
\* it: it reads and writes through the page table it got from the room.
Run(s, last) ==
    LET table   == room.kv.rq[s].table
        before  == ClaimsOf(table, ctx[s], ran[s])
        sound   == \A c \in before : At(bytes, c[1]) = c[2]
        written == ClaimsOf(table, ctx[s], last) \ before
    IN  /\ s \in LiveSlots(room.kv)
        /\ last > ran[s]
        /\ last <= Min({room.kv.rq[s].ntok, Len(ctx[s]), Len(Cells(table))})
        /\ ran' = [ran EXCEPT ![s] = last]
        /\ bytes' = Written(bytes, Cells(table), ctx[s], ran[s], last, sound)
        /\ stale' = StillStale(stale \cup (IF before \cap stale = {} THEN {} ELSE written),
                               bytes', room.kv)
        /\ UNCHANGED <<room, ctx, mishaps, lookups>>

\* Where commit starts, it takes the entries of the table for blocks filled one
\* after the other.
Uneven(s) ==
    LET table == room.kv.rq[s].table
        at    == Cursor(table, match(room.kv.tree, tokens_of(room.kv, s)).matched)
    IN  IF \E i \in at .. Len(table) - 1 : table[i].start + table[i].len < block_size
        THEN {"uneven"} ELSE {}

\* A request is over with its last token chosen, recorded in the room and not
\* run; the executor lets go of it before the room publishes it.
Publish(s) ==
    LET table == room.kv.rq[s].table
        toks  == tokens_of(room.kv, s)
        now   == ClaimsOf(table, toks, Len(toks))
    IN  /\ s \in LiveSlots(room.kv)
        /\ room.n_prompt[s] < room.kv.rq[s].ntok
        /\ room.kv.rq[s].ntok = Len(ctx[s])
        /\ ran[s] = Len(ctx[s]) - 1
        /\ lookups < LOOKUPS
        /\ lookups' = lookups + 1
        /\ Returned(publish(room, s), Uneven(s))
        /\ ctx' = [ctx EXCEPT ![s] = <<>>]
        /\ ran' = [ran EXCEPT ![s] = 0]
        /\ Given(now \ ClaimsOf(table, ctx[s], ran[s]))

Drop(s) ==
    /\ s \in LiveSlots(room.kv)
    /\ Returned(drop(room, s), {})
    /\ UNCHANGED lookups
    /\ ctx' = [ctx EXCEPT ![s] = <<>>]
    /\ ran' = [ran EXCEPT ![s] = 0]
    /\ Given({})

Reclaim(need) ==
    /\ UNCHANGED <<ctx, ran, lookups>>
    /\ room.freed_pending + need <= FREED_BOUND
    /\ cached_blocks(room) # {}
    /\ \E r \in {reclaim(room, need)} :
         Returned(r, ListFull(r))
    /\ Given({})

TakeFreed(limit) ==
    /\ room.freed_pending > 0
    /\ room' = take_freed_upto(room, limit)
    /\ UNCHANGED <<ctx, ran, bytes, stale, mishaps, lookups>>

Next ==
    /\ Cardinality(mishaps) <= MISHAP_BOUND
    /\ \/ \E id \in 1 .. MAX_REQUESTS, prompt \in Prompts :
            \E n_now \in 1 .. Len(prompt) : Admit(id, prompt, n_now)
       \/ \E s \in Slots, n \in 1 .. MAX_SEQ_TOKENS, tok \in Tokens : Extend(s, n, tok)
       \/ \E s \in Slots, last \in 1 .. MAX_SEQ_TOKENS : Run(s, last)
       \/ \E s \in Slots : Publish(s) \/ Drop(s)
       \/ \E need \in 1 .. MAX_BLOCKS : Reclaim(need)
       \/ \E limit \in 1 .. FREED_BOUND : TakeFreed(limit)

Spec == Init /\ [][Next]_vars
-----------------------------------------------------------------------------
TypeOK ==
    /\ room.kv.pool \in [refcnt : [Blocks -> Nat], free_stack : Seq(Blocks), used : Int]
    /\ room.kv.ok
    /\ \A s \in Slots :
         /\ room.kv.rq[s].ntok \in 0 .. MAX_SEQ_TOKENS
         /\ Len(room.kv.rq[s].table) <= MAX_BLOCKS_PER_SEQ
         /\ \A i \in DOMAIN room.kv.rq[s].table : room.kv.rq[s].table[i].block \in Blocks
    /\ room.published \in [Slots -> BOOLEAN]
    /\ room.n_prompt \in [Slots -> 0 .. MAX_SEQ_TOKENS]
    /\ room.freed_pending \in Nat
    /\ mishaps \subseteq Situations

\* No reference is lost: a block's count is the number of table entries, of
\* live and abandoned slots, and of tree entries with it, the free list is
\* exactly the blocks nobody holds, and the tree that holds them stays a tree
\* through every split, partial commit and eviction.
RefsAccounted ==
    /\ TypeOK
    /\ \A b \in Blocks :
         room.kv.pool.refcnt[b] = Cardinality(HoldersIn(room.kv, Slots, b))
    /\ FreeListExact(room.kv.pool)
    /\ WellFormed(room.kv.tree)

\* It holds after every call, failed ones included, until one fails on a full
\* table or a full list: that one leaves a block to nobody, or a node in the
\* tree whose blocks are free.
RefsAccountedUntilFull == "full" \notin mishaps => RefsAccounted

\* KvSpace.check_invariants() = 0: the counts equal what the live requests and
\* the tree hold, and every live table describes exactly its tokens.
ViewsAgree ==
    /\ \A b \in Blocks :
         room.kv.pool.refcnt[b]
           = Cardinality(HoldersIn(room.kv, LiveSlots(room.kv), b))
    /\ \A s \in LiveSlots(room.kv) : TableExact(room.kv, s)

ViewsAgreeUntilError == "raised" \notin mishaps => ViewsAgree
-----------------------------------------------------------------------------
\* No block slot of a cached node holds the KV of another sequence than the one
\* the node stands for ("these blocks hold the KV of this token sequence").
NodeSound(x) ==
    LET t     == room.kv.tree
        path  == TokensTo(t, x)
        above == Len(path) - Len(t[x].tokens)
        read  == Gathered(bytes, NodeRuns(t[x], Len(t[x].tokens)))
    IN  \A k \in DOMAIN t[x].tokens : read[k] \in {NoKv, SubSeq(path, 1, above + k)}

CacheSound == \A x \in AliveNodes(room.kv.tree) : NodeSound(x)

\* What the tree and the live page tables lead to: the slots of the cached
\* nodes, and of the tokens the executor has run or shares.
NodeClaims(x) ==
    LET t     == room.kv.tree
        path  == TokensTo(t, x)
        above == Len(path) - Len(t[x].tokens)
        cells == Cells(NodeRuns(t[x], Len(t[x].tokens)))
    IN  {<<cells[k], SubSeq(path, 1, above + k)>> : k \in DOMAIN t[x].tokens}

Claims == UNION {NodeClaims(x) : x \in AliveNodes(room.kv.tree)}
            \cup UNION {ClaimsOf(room.kv.rq[s].table, ctx[s], ran[s]) : s \in LiveSlots(room.kv)}

\* Whatever the tree and the page tables lead to holds the KV of the sequence
\* it is reached by - nobody wrote over it, freed it or shared it under another
\* name - but for what was published without its KV (the last token of every
\* request, and every token that append_tokens did not record) and what the
\* model computed from that.
KvSoundButForStale ==
    mishaps \cap {"uneven", "full", "reused"} = {} =>
        \A c \in Claims : c \in stale \/ At(bytes, c[1]) = c[2]

\* match finds the longest cached prefix.
LongestPrefix ==
    \A p \in Prompts :
        match(room.kv.tree, p).matched
          = Max({CommonLen(TokensTo(room.kv.tree, x), p)
                   : x \in AliveNodes(room.kv.tree)} \cup {0})

\* It enters at one child of the root only, and does not find a node that a
\* failed eviction has cut off.
LongestPrefixUntilMishap == mishaps \cap {"forked", "full"} = {} => LongestPrefix
-----------------------------------------------------------------------------
\* What reclaim reports is what really came back to the pool, and it hands
\* back enough or everything the cache had.
ReclaimMeasured ==
    [][\A need \in 1 .. MAX_BLOCKS :
         Reclaim(need) /\ "raised" \notin mishaps' =>
           LET freed == room'.freed_pending - room.freed_pending
           IN  /\ freed = n_free(room'.kv.pool) - n_free(room.kv.pool)
               /\ freed >= need \/ cached_blocks(room') = {}]_vars

\* The token sequences the cache can serve: every prefix of a path.
Cached(t) == {<<>>} \cup UNION {Prefixes(TokensTo(t, x)) : x \in AliveNodes(t)}

\* Publishing adds the request's sequence to the cache, prefix by prefix, and
\* loses or invents nothing, however the tree had to be split for it - unless
\* a failed eviction has cut nodes off, below which a new one may appear.
PublishAddsExactlyThat ==
    [][\A s \in Slots :
         "full" \notin mishaps /\ ~room.published[s] /\ room'.published[s] =>
            Cached(room'.kv.tree)
              = Cached(room.kv.tree) \cup Prefixes(tokens_of(room.kv, s))]_vars
=============================================================================
