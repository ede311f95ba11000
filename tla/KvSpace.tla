------------------------------ MODULE KvSpace ------------------------------
(***************************************************************************)
(* runtime/kv/space.mojo: the pool, one page table per request and the     *)
(* prefix tree, sharing blocks by reference count.  An operation maps a    *)
(* space value [pool, tree, rq, ok] to the next one.  ok = FALSE is a      *)
(* raised error: whatever was done before the raise stays done, and the    *)
(* rest of the operation does not happen.                                  *)
(*                                                                         *)
(* A page table is a sequence of runs [block, start, len]: len tokens in   *)
(* block from slot start on.  tok is rq_tok: a fixed array that only       *)
(* new_request writes and nothing clears.                                  *)
(***************************************************************************)
EXTENDS PoolOps, RadixTree

CONSTANTS MAX_REQUESTS,        \* live requests
          MAX_SEQ_TOKENS,      \* tokens of one sequence
          MAX_BLOCKS_PER_SEQ   \* page-table entries of one request, and the
                               \* capacity of an IdList

Slots == 0 .. MAX_REQUESTS - 1

EmptySlot ==
    [ live |-> FALSE, id |-> 0, ntok |-> 0, priv |-> FALSE,
      tok |-> [i \in 1 .. MAX_SEQ_TOKENS |-> 0], table |-> <<>> ]

NewSpace ==
    [ pool |-> NewPool, tree |-> NewTree, rq |-> [s \in Slots |-> EmptySlot],
      ok |-> TRUE ]

Fail(kv) == [kv EXCEPT !.ok = FALSE]

LiveSlots(kv) == {s \in Slots : kv.rq[s].live}

\* free_slot: the lowest slot that is not live.
FreeSlot(kv) == Min(Slots \ LiveSlots(kv))
-----------------------------------------------------------------------------
(* Page tables *)

\* add_block extends the last run when the new one starts where it ends.
Continues(table, run) ==
    /\ table # <<>>
    /\ Last(table).block = run.block
    /\ Last(table).start + Last(table).len = run.start

\* The block after take tokens of a table's last run.
Widened(table, take) == [table EXCEPT ![Len(table)].len = @ + take]

\* One run of a matched node: a new entry takes a reference, a widened one
\* does not.
ShareRunRetainsAlways(kv, s, run) ==
    LET table == kv.rq[s].table
        new   == [kv EXCEPT !.rq[s].table =
                    IF Continues(table, run) THEN Widened(table, run.len)
                                             ELSE Append(table, run)]
    IN  IF ~kv.ok THEN kv ELSE [new EXCEPT !.pool = AfterRetain(@, run.block)]

ShareRun(kv, s, run) ==
    LET table == kv.rq[s].table
        new   == [kv EXCEPT !.rq[s].table = Append(table, run)]
    IN  CASE ~kv.ok -> kv
          [] kv.ok /\ Continues(table, run) ->
               [kv EXCEPT !.rq[s].table = Widened(table, run.len)]
          [] kv.ok /\ ~Continues(table, run) ->
               IF Len(table) = MAX_BLOCKS_PER_SEQ THEN Fail(kv)
               ELSE IF ~CanRetain(kv.pool, run.block) THEN Fail(new)
               ELSE [new EXCEPT !.pool = AfterRetain(@, run.block)]

\* A fresh block for take tokens.  The block is taken before the table is
\* found to be full.
FreshRun(kv, s, take) ==
    LET b     == NextFree(kv.pool)
        taken == [kv EXCEPT !.pool = AfterAlloc(@)]
    IN  IF ~kv.ok THEN kv
        ELSE IF ~CanAlloc(kv.pool) THEN Fail(kv)
        ELSE IF kv.pool.refcnt[b] # 0 \/ Len(kv.rq[s].table) = MAX_BLOCKS_PER_SEQ
        THEN Fail(taken)
        ELSE [taken EXCEPT !.rq[s].table =
                Append(@, [block |-> b, start |-> 0, len |-> take])]

\* n tokens over fresh blocks, all but the last one full.
Take(n, i) == IF i * block_size <= n THEN block_size ELSE n % block_size

FreshRuns(kv, s, n) ==
    LET after[i \in 0 .. ceil_div(n, block_size)] ==
            IF i = 0 THEN kv ELSE FreshRun(after[i - 1], s, Take(n, i))
    IN  after[ceil_div(n, block_size)]

\* The runs of a node's first used tokens.
NodeRuns(node, used) ==
    [j \in 1 .. BlocksFor(node, used) |->
        LET start == IF j = 1 THEN node.offset ELSE 0
            stop  == Min({block_size, node.offset + used - (j - 1) * block_size})
        IN  [block |-> node.blocks[j], start |-> start, len |-> stop - start]]

ShareRuns(kv, s, runs) ==
    LET after[j \in 0 .. Len(runs)] ==
            IF j = 0 THEN kv ELSE ShareRun(after[j - 1], s, runs[j])
    IN  after[Len(runs)]

ReleaseBlock(kv, b) ==
    IF ~kv.ok THEN kv
    ELSE IF ~CanRelease(kv.pool, b) THEN Fail(kv)
    ELSE [kv EXCEPT !.pool = AfterRelease(@, b)]

ReleaseBlocks(kv, blocks) ==
    LET after[i \in 0 .. Len(blocks)] ==
            IF i = 0 THEN kv ELSE ReleaseBlock(after[i - 1], blocks[i])
    IN  after[Len(blocks)]

RetainBlock(kv, b) ==
    IF ~kv.ok THEN kv
    ELSE IF ~CanRetain(kv.pool, b) THEN Fail(kv)
    ELSE [kv EXCEPT !.pool = AfterRetain(@, b)]

RetainBlocks(kv, blocks) ==
    LET after[i \in 0 .. Len(blocks)] ==
            IF i = 0 THEN kv ELSE RetainBlock(after[i - 1], blocks[i])
    IN  after[Len(blocks)]

\* The tokens in the first runs of a table.
TokensIn(table) ==
    LET upto[i \in 0 .. Len(table)] == IF i = 0 THEN 0 ELSE upto[i - 1] + table[i].len
    IN  upto

n_tokens(table) == TokensIn(table)[Len(table)]

TableBlocks(table) == [i \in DOMAIN table |-> table[i].block]
-----------------------------------------------------------------------------
(* Operations *)

\* The slot's token array after its first tokens have been written.
Recorded(kv, s, toks) ==
    [kv EXCEPT !.rq[s].tok =
       [i \in DOMAIN @ |-> IF i <= Len(toks) THEN toks[i] ELSE @[i]]]

\* The matched prefix is shared, node by node.
Shared(kv, s, m) ==
    LET after[p \in 0 .. Len(m.path)] ==
            IF p = 0 THEN [kv EXCEPT !.tree = m.tree]
            ELSE ShareRuns(after[p - 1], s,
                           NodeRuns(m.tree[m.path[p].node], m.path[p].used))
    IN  after[Len(m.path)]

Started(kv, s, id, n, fresh) ==
    IF ~kv.ok THEN kv
    ELSE [kv EXCEPT !.rq[s].live = TRUE, !.rq[s].id = id,
                    !.rq[s].ntok = n, !.rq[s].priv = fresh]

Placed(kv, s, id, n, m) ==
    IF ~m.ok THEN Fail(kv)
    ELSE Started(FreshRuns(Shared(kv, s, m), s, n - m.matched),
                 s, id, n, m.matched < n)

\* new_request: the tokens are written, the prefix the tree has is shared and
\* the rest gets fresh blocks.  A slot left behind by an earlier failure keeps
\* its entries: the table is not cleared here.
new_request(kv, id, toks) ==
    LET s == FreeSlot(kv)
    IN  Placed(Recorded(kv, s, toks), s, id, Len(toks), match(kv.tree, toks))

\* n more tokens in the table, the first room of them in the last block.
GrownBy(kv, s, n, room) ==
    LET wide == IF room > 0 THEN [kv EXCEPT !.rq[s].table = Widened(@, room)]
                            ELSE kv
    IN  FreshRuns(wide, s, n - room)

Appended(kv, s, n) ==
    IF kv.ok THEN [kv EXCEPT !.rq[s].ntok = @ + n, !.rq[s].priv = TRUE] ELSE kv

\* Writes into the last block whether or not somebody shares it.
AppendTokensInPlace(kv, s, n) ==
    LET table == kv.rq[s].table
    IN  Appended(GrownBy(kv, s, n,
                   IF table # <<>> THEN Min({n, block_size - Last(table).len}) ELSE 0),
                 s, n)

\* append_tokens: room left in a last block of the request's own first, then
\* fresh blocks.  The tokens themselves are not recorded.
append_tokens(kv, s, n) ==
    LET table == kv.rq[s].table
    IN  Appended(GrownBy(kv, s, n,
                   IF kv.rq[s].priv /\ table # <<>>
                   THEN Min({n, block_size - Last(table).len}) ELSE 0),
                 s, n)

tokens_of(kv, s) == SubSeq(kv.rq[s].tok, 1, kv.rq[s].ntok)

\* The part of commit that gives a partly matched last node its own branch:
\* the new child takes references, the parent drops those past its share.
SplitLastUnreferenced(kv, path) ==
    LET hop == Last(path)
    IN  IF DeadNodes(kv.tree) = {} THEN Fail(kv)
        ELSE [kv EXCEPT !.tree = split(@, hop.node, hop.used)]

SplitLast(kv, path) ==
    LET hop  == Last(path)
        old  == kv.tree[hop.node]
        new  == NextNode(kv.tree)
        cut  == [kv EXCEPT !.tree = split(@, hop.node, hop.used)]
        kept == BlocksFor(old, hop.used)
    IN  IF DeadNodes(kv.tree) = {} THEN Fail(kv)
        ELSE ReleaseBlocks(RetainBlocks(cut, cut.tree[new].blocks),
                           SubSeq(old.blocks, kept + 1, Len(old.blocks)))

\* Where commit starts: the entry of the page table that holds token k + 1,
\* and its slot in that entry's block.
Cursor(table, k) ==
    LET held == {i \in 1 .. Len(table) : TokensIn(table)[i] > k}
    IN  IF held = {} THEN Len(table) + 1 ELSE Min(held)

SlotAt(table, k) ==
    LET at == Cursor(table, k)
    IN  k - TokensIn(table)[at - 1] + IF at <= Len(table) THEN table[at].start ELSE 0

\* One node of commit's loop, st = [kv, parent, from, at, slot]: the tokens
\* from + 1 .. of the request, as many as a node takes, in the blocks of the
\* entries from at on; from there on it takes the entries for blocks filled
\* one after the other.  The next node goes below it.
NodeBelow(st, s) ==
    LET kv     == st.kv
        q      == kv.rq[s]
        take   == Min({MAX_NODE_TOKENS, MAX_NODE_BLOCKS * block_size - st.slot,
                       q.ntok - st.from})
        stop   == st.slot + take
        nb     == ceil_div(stop, block_size)
        node   == NextNode(kv.tree)
        blocks == TableBlocks(SubSeq(q.table, st.at, st.at + nb - 1))
        new    == [DeadNode EXCEPT !.alive  = TRUE,
                                   !.tokens = SubSeq(q.tok, st.from + 1, st.from + take),
                                   !.offset = st.slot,
                                   !.blocks = blocks]
        grown  == [kv EXCEPT !.tree = add_child([@ EXCEPT ![node] = new], st.parent, node)]
    IN  IF ~kv.ok \/ st.from = q.ntok THEN st
        ELSE IF st.at + nb - 1 > Len(q.table) \/ DeadNodes(kv.tree) = {}
        THEN [st EXCEPT !.kv = Fail(kv)]
        ELSE [ kv     |-> RetainBlocks(grown, blocks),
               parent |-> node,
               from   |-> st.from + take,
               at     |-> st.at + stop \div block_size,
               slot   |-> stop % block_size ]

AddNodeFlat(st, s) == [NodeBelow(st, s) EXCEPT !.parent = st.parent]
AddNode(st, s)     == NodeBelow(st, s)

\* The unmatched tokens of s, a node at a time.
AddNodes(st, s) ==
    LET n == st.kv.rq[s].ntok
        after[i \in 0 .. n - st.from] == IF i = 0 THEN st ELSE AddNode(after[i - 1], s)
    IN  after[n - st.from]

\* Published blocks are no longer grown in place.
Committed(kv, s) == IF kv.ok THEN [kv EXCEPT !.rq[s].priv = FALSE] ELSE kv

CommitBelow(kv, s, m) ==
    LET q      == kv.rq[s]
        seen   == [kv EXCEPT !.tree = m.tree]
        partly == /\ m.path # <<>>
                  /\ Last(m.path).used < Len(m.tree[Last(m.path).node].tokens)
        start  == [ kv     |-> IF partly THEN SplitLast(seen, m.path) ELSE seen,
                    parent |-> IF m.path = <<>> THEN ROOT ELSE Last(m.path).node,
                    from   |-> m.matched,
                    at     |-> Cursor(q.table, m.matched),
                    slot   |-> SlotAt(q.table, m.matched) ]
    IN  IF ~m.ok THEN Fail(kv) ELSE Committed(AddNodes(start, s).kv, s)

\* commit: publish the request's tokens in the tree; the request keeps its
\* references and the tree takes its own.
commit(kv, s) == CommitBelow(kv, s, match(kv.tree, tokens_of(kv, s)))

\* match_only: a lookup for its own sake, counted like any other.
match_only(kv, toks) ==
    LET m == match(kv.tree, toks)
    IN  IF m.ok THEN [kv EXCEPT !.tree = m.tree] ELSE Fail(kv)

\* The slot's token array stays.  (So does its id, which nothing reads in a
\* slot that is not live.)
Emptied(kv, s) ==
    IF ~kv.ok THEN kv ELSE [kv EXCEPT !.rq[s] = [EmptySlot EXCEPT !.tok = kv.rq[s].tok]]

\* release: the references of the table go back, then the request's view goes.
release(kv, s) == Emptied(ReleaseBlocks(kv, TableBlocks(kv.rq[s].table)), s)

\* One block of an evicted node, st = [kv, freed, stack].  The freed ids go
\* into a list of MAX_BLOCKS_PER_SEQ entries, which raises when it is full,
\* after the block has gone back and before the node is killed.
Counted(st, kv, freed) ==
    [st EXCEPT !.kv = IF freed > MAX_BLOCKS_PER_SEQ THEN Fail(kv) ELSE kv, !.freed = freed]

EvictBlock(st, b) ==
    LET last == st.kv.ok /\ st.kv.pool.refcnt[b] = 1
    IN  Counted(st, ReleaseBlock(st.kv, b), IF last THEN st.freed + 1 ELSE st.freed)

EvictBlocks(st, blocks) ==
    LET after[i \in 0 .. Len(blocks)] ==
            IF i = 0 THEN st ELSE EvictBlock(after[i - 1], blocks[i])
    IN  after[Len(blocks)]

Killed(st, x) == IF ~st.kv.ok THEN st ELSE [st EXCEPT !.kv.tree = kill(@, x)]

\* One node of evict's walk: popped off the stack, its children pushed.
EvictNode(st) ==
    LET x    == Last(st.stack)
        node == st.kv.tree[x]
    IN  IF ~st.kv.ok \/ st.stack = <<>> THEN st
        ELSE Killed(EvictBlocks([st EXCEPT !.stack = Front(@) \o node.kids], node.blocks), x)

\* evict: free a node and its whole subtree, MAX_NODES nodes at the most.
evict(kv, node) ==
    LET after[i \in 0 .. MAX_NODES] ==
            IF i = 0 THEN [ kv    |-> [kv EXCEPT !.tree = detach(@, node)],
                            freed |-> 0,
                            stack |-> <<node>> ]
            ELSE EvictNode(after[i - 1])
    IN  after[MAX_NODES].kv
-----------------------------------------------------------------------------
(* check_invariants, recomputed from the views *)

\* Holders of a block: the entries of the given slots' tables and the block
\* entries of the tree.
HoldersIn(kv, slots, b) ==
    (UNION {{<<"request", s, i>> :
               i \in {i \in DOMAIN kv.rq[s].table : kv.rq[s].table[i].block = b}}
             : s \in slots})
    \cup
    (UNION {{<<"node", x, i>> :
               i \in {i \in DOMAIN kv.tree[x].blocks : kv.tree[x].blocks[i] = b}}
             : x \in AliveNodes(kv.tree)})

\* The table of a live request describes exactly its tokens, each run inside
\* one block.
TableExact(kv, s) ==
    /\ n_tokens(kv.rq[s].table) = kv.rq[s].ntok
    /\ \A i \in DOMAIN kv.rq[s].table :
         LET run == kv.rq[s].table[i]
         IN  run.len > 0 /\ run.start >= 0 /\ run.start + run.len <= block_size

FreeListExact(p) ==
    /\ IsInjective(p.free_stack)
    /\ ToSet(p.free_stack) = {b \in Blocks : p.refcnt[b] = 0}
    /\ n_free(p) + p.used = MAX_BLOCKS
=============================================================================
