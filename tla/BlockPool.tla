----------------------------- MODULE BlockPool -----------------------------
(***************************************************************************)
(* runtime/kv/pool.mojo as a state machine: the pool and the view entries  *)
(* that hold its blocks.  The pool knows only counts; held and fresh are   *)
(* what its callers know (fresh and shared are the two lists of OpResult)  *)
(* and the counts must agree with.                                         *)
(***************************************************************************)
EXTENDS PoolOps, FiniteSets

CONSTANTS Holders,      \* view entries that may hold a block
          None          \* held[h] of an entry that holds nothing

ASSUME PoolAssumption ==
    /\ MAX_BLOCKS \in Nat \ {0}
    /\ IsFiniteSet(Holders)
    /\ None \notin Blocks

VARIABLES pool,         \* [refcnt, free_stack, used]
          held,
          fresh         \* entries whose block alloc_one handed out

vars == <<pool, held, fresh>>
-----------------------------------------------------------------------------
Init ==
    /\ pool = NewPool
    /\ held = [h \in Holders |-> None]
    /\ fresh = {}

alloc_one(h) ==
    /\ held[h] = None
    /\ CanAlloc(pool)
    /\ pool' = AfterAlloc(pool)
    /\ IF pool.refcnt[NextFree(pool)] = 0
       THEN /\ held' = [held EXCEPT ![h] = NextFree(pool)]
            /\ fresh' = fresh \cup {h}
       ELSE UNCHANGED <<held, fresh>>

\* A view shares a block it read from another view entry.
retain(h, from) ==
    /\ held[h] = None
    /\ held[from] # None
    /\ CanRetain(pool, held[from])
    /\ pool' = AfterRetain(pool, held[from])
    /\ held' = [held EXCEPT ![h] = held[from]]
    /\ UNCHANGED fresh

release(h) ==
    /\ held[h] # None
    /\ CanRelease(pool, held[h])
    /\ pool' = AfterRelease(pool, held[h])
    /\ held' = [held EXCEPT ![h] = None]
    /\ fresh' = fresh \ {h}

Next ==
    \/ \E h \in Holders : alloc_one(h)
    \/ \E h \in Holders : release(h)
    \/ \E h, from \in Holders : retain(h, from)

Spec == Init /\ [][Next]_vars
-----------------------------------------------------------------------------
Referenced == {b \in Blocks : pool.refcnt[b] > 0}

HoldersOf(b) == {h \in Holders : held[h] = b}

TypeOK ==
    /\ pool \in [ refcnt     : [Blocks -> Nat],
                  free_stack : Seq(Blocks),
                  used       : Int ]
    /\ held \in [Holders -> Blocks \cup {None}]
    /\ fresh \subseteq Holders

\* The consistency equation of runtime/kv/__init__.mojo: a block's count is
\* the number of view entries that hold it.
RefcntExact == \A b \in Blocks : pool.refcnt[b] = Cardinality(HoldersOf(b))

\* The free stack holds each unreferenced block once and no other, so a popped
\* block never trips alloc_one's double-free check and none is lost.
FreeStackExact ==
    /\ \A i, j \in 1 .. n_free(pool) :
         pool.free_stack[i] = pool.free_stack[j] => i = j
    /\ {pool.free_stack[i] : i \in 1 .. n_free(pool)} = Blocks \ Referenced

\* check_invariants: n_free + used == MAX_BLOCKS.
CountsExact == n_free(pool) + pool.used = MAX_BLOCKS

\* Nothing is lost and nothing is given twice: check_invariants of one pool,
\* after every operation and not only where the reference calls it.
PoolSound == RefcntExact /\ FreeStackExact /\ CountsExact

\* Handing out, sharing and dropping blocks by counts alone never gives a
\* block that somebody holds to somebody else as fresh.
Refs == INSTANCE BlockRefs
ImplementsRefs == Refs!Spec
=============================================================================
