----------------------------- MODULE BlockRefs -----------------------------
(***************************************************************************)
(* What a reference-counted block pool promises, without the counts: every *)
(* view entry (a page-table entry of a request or a block entry of a tree  *)
(* node) holds one block or none, a block handed out as fresh is one that  *)
(* no entry holds, and an entry is added to a block already held only by   *)
(* somebody who holds it.  BlockPool implements this with a counter per    *)
(* block and a stack of free ids.                                          *)
(***************************************************************************)
CONSTANTS Blocks, Holders, None

VARIABLES held,     \* held[h]: the block entry h holds, or None
          fresh     \* entries whose block was handed out, not shared, to them

vars == <<held, fresh>>

HeldBlocks == {held[h] : h \in Holders} \ {None}

Init ==
    /\ held = [h \in Holders |-> None]
    /\ fresh = {}

\* A fresh block is exclusive: nobody else holds it.
Take(h) ==
    /\ held[h] = None
    /\ \E b \in Blocks \ HeldBlocks : held' = [held EXCEPT ![h] = b]
    /\ fresh' = fresh \cup {h}

Share(h, from) ==
    /\ held[h] = None
    /\ held[from] # None
    /\ held' = [held EXCEPT ![h] = held[from]]
    /\ UNCHANGED fresh

Drop(h) ==
    /\ held[h] # None
    /\ held' = [held EXCEPT ![h] = None]
    /\ fresh' = fresh \ {h}

Next ==
    \/ \E h \in Holders : Take(h) \/ Drop(h)
    \/ \E h, from \in Holders : Share(h, from)

Spec == Init /\ [][Next]_vars
=============================================================================
