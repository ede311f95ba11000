------------------------------ MODULE PoolOps ------------------------------
(***************************************************************************)
(* The operations of runtime/kv/pool.mojo on a pool value                  *)
(*   [refcnt, free_stack, used]:                                           *)
(* a reference count per block and a stack of free ids.  BlockPool runs    *)
(* them alone, KvSpace on behalf of page tables and tree nodes.            *)
(***************************************************************************)
EXTENDS Integers, Sequences

CONSTANT MAX_BLOCKS    \* number of physical blocks

Blocks == 0 .. MAX_BLOCKS - 1

\* Definitions named after a fault (OffByOne, Uncounted, ...) are mutations of
\* the definition that follows them: no module uses them, and a run in which
\* one replaces its original must violate the property it is listed for.

\* Highest id at the bottom of the stack: allocation order is 0, 1, 2, ...
NewPoolOffByOne ==
    [ refcnt     |-> [b \in Blocks |-> 0],
      free_stack |-> [i \in 1 .. MAX_BLOCKS |-> MAX_BLOCKS + 1 - i],
      used       |-> 0 ]

NewPool ==
    [ refcnt     |-> [b \in Blocks |-> 0],
      free_stack |-> [i \in 1 .. MAX_BLOCKS |-> MAX_BLOCKS - i],
      used       |-> 0 ]

n_free(p) == Len(p.free_stack)

\* The block the next alloc_one pops: the tail of the stack.
NextFree(p) == p.free_stack[n_free(p)]

Popped(p) == SubSeq(p.free_stack, 1, n_free(p) - 1)

CanAlloc(p)      == n_free(p) > 0
CanRetain(p, b)  == b \in Blocks /\ p.refcnt[b] > 0
CanRelease(p, b) == b \in Blocks /\ p.refcnt[b] > 0

\* The popped id is checked after the pop: a referenced one is dropped from
\* the stack and nothing else changes (ERR_DOUBLE_FREE).
AfterAlloc(p) ==
    LET b == NextFree(p)
    IN  IF p.refcnt[b] = 0
        THEN [ refcnt     |-> [p.refcnt EXCEPT ![b] = 1],
               free_stack |-> Popped(p),
               used       |-> p.used + 1 ]
        ELSE [ refcnt |-> p.refcnt, free_stack |-> Popped(p), used |-> p.used ]

AfterRetainUncounted(p, b) == p

AfterRetain(p, b) ==
    [ refcnt     |-> [p.refcnt EXCEPT ![b] = @ + 1],
      free_stack |-> p.free_stack,
      used       |-> p.used ]

AfterReleaseKeepsUsed(p, b) ==
    [ refcnt     |-> [p.refcnt EXCEPT ![b] = @ - 1],
      free_stack |-> IF p.refcnt[b] = 1 THEN Append(p.free_stack, b) ELSE p.free_stack,
      used       |-> p.used ]

\* The block goes back on the stack when its last holder leaves.
AfterRelease(p, b) ==
    LET last == p.refcnt[b] = 1
    IN  [ refcnt     |-> [p.refcnt EXCEPT ![b] = @ - 1],
          free_stack |-> IF last THEN Append(p.free_stack, b) ELSE p.free_stack,
          used       |-> IF last THEN p.used - 1 ELSE p.used ]
=============================================================================
