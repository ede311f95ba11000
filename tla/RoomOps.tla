------------------------------- MODULE RoomOps -------------------------------
(***************************************************************************)
(* engine/kv_room.mojo: the operations the engine calls on its KV room, on *)
(* a room value [kv, n_prompt, published, freed_pending] around the space. *)
(* KvRoom runs them in any order the engine may call them, Replay in the   *)
(* order the recorded traces do.                                           *)
(***************************************************************************)
EXTENDS KvSpace, FiniteSets

NewRoom ==
    [ kv            |-> NewSpace,
      n_prompt      |-> [s \in Slots |-> 0],
      published     |-> [s \in Slots |-> FALSE],
      freed_pending |-> 0 ]

SlotOf(r, id) == CHOOSE s \in LiveSlots(r.kv) : r.kv.rq[s].id = id

\* Counts what the tree holds, live requests' blocks included.
CachedBlocksOfTree(r) ==
    UNION {ToSet(r.kv.tree[x].blocks) : x \in AliveNodes(r.kv.tree)}

\* Blocks in use that no live request's table names.
cached_blocks(r) ==
    {b \in Blocks :
        /\ r.kv.pool.refcnt[b] > 0
        /\ \A s \in LiveSlots(r.kv) : b \notin ToSet(TableBlocks(r.kv.rq[s].table))}

\* A call that did not raise sets the slot's fields.
Noted(r, s, n, published) ==
    IF ~r.kv.ok THEN r
    ELSE [r EXCEPT !.n_prompt[s] = n, !.published[s] = published]

admit(r, id, prompt, n_now) ==
    Noted([r EXCEPT !.kv = new_request(@, id, SubSeq(prompt, 1, n_now))],
          FreeSlot(r.kv), Len(prompt), FALSE)

extend(r, s, n) == [r EXCEPT !.kv = append_tokens(@, s, n)]

publish(r, s) == Noted([r EXCEPT !.kv = commit(@, s)], s, r.n_prompt[s], TRUE)

drop(r, s) == Noted([r EXCEPT !.kv = release(@, s)], s, 0, FALSE)

\* Lowest frequency, ties to the smallest id.
coldest_node(kv) ==
    LET least == Min({kv.tree[x].freq : x \in AliveNodes(kv.tree)})
    IN  Min({x \in AliveNodes(kv.tree) : kv.tree[x].freq = least})

Freed(before, r) == Cardinality(before) - Cardinality(cached_blocks(r))

\* reclaim evicts cold nodes until at least need blocks left the cache or no
\* node is left, and counts what left by comparing the cache before and after.
ReclaimStep(before, need, r) ==
    IF r.kv.ok /\ Freed(before, r) < need /\ AliveNodes(r.kv.tree) # {}
    THEN [r EXCEPT !.kv = evict(@, coldest_node(@))]
    ELSE r

Reclaimed(before, r) ==
    IF ~r.kv.ok THEN r ELSE [r EXCEPT !.freed_pending = @ + Freed(before, r)]

ReclaimFrom(before, r, need) ==
    LET after[i \in 0 .. MAX_NODES] ==
            IF i = 0 THEN r ELSE ReclaimStep(before, need, after[i - 1])
    IN  Reclaimed(before, after[MAX_NODES])

reclaim(r, need) == ReclaimFrom(cached_blocks(r), r, need)

TakeFreedUncapped(r, limit) == [r EXCEPT !.freed_pending = @ - limit]

take_freed_upto(r, limit) ==
    [r EXCEPT !.freed_pending = @ - Min({@, limit})]
=============================================================================
