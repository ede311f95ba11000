----------------------------- MODULE RadixTree -----------------------------
(***************************************************************************)
(* runtime/kv/radix.mojo: the prefix tree, as operators on a tree value.   *)
(* A node covers a run of tokens (one path piece) whose KV lies in blocks, *)
(* from slot offset of the first one on.  The child/sibling links are the  *)
(* sequence kids, newest child first.  ntok and nblk are the lengths of    *)
(* tokens and blocks.                                                      *)
(***************************************************************************)
EXTENDS Integers, Sequences, SequencesExt

CONSTANTS block_size,        \* tokens per block
          MAX_NODES,         \* tree nodes, the root included
          MAX_NODE_TOKENS,   \* tokens one node covers
          MAX_NODE_BLOCKS,   \* blocks one node references
          MAX_PATH           \* nodes visited by one match

ROOT    == 0
INVALID == -1
Nodes   == 0 .. MAX_NODES - 1

ceil_div(a, b) == (a + b - 1) \div b

DeadNode ==
    [ alive |-> FALSE, parent |-> INVALID, kids |-> <<>>, tokens |-> <<>>,
      offset |-> 0, blocks |-> <<>>, freq |-> 0 ]

NewTree == [x \in Nodes |-> [DeadNode EXCEPT !.alive = (x = ROOT)]]

AliveNodes(t) == {x \in Nodes \ {ROOT} : t[x].alive}
DeadNodes(t)  == {x \in Nodes : ~t[x].alive}

\* alloc_node takes the lowest dead id.
NextNode(t) == Min(DeadNodes(t))
-----------------------------------------------------------------------------
FirstKid(t, x) == IF t[x].kids = <<>> THEN INVALID ELSE Head(t[x].kids)

KidStartingWithAny(t, x, tok) == FirstKid(t, x)

\* The sibling walk remembers the last child that starts with the token.
KidStartingWith(t, x, tok) ==
    LET hits == {i \in DOMAIN t[x].kids : t[t[x].kids[i]].tokens[1] = tok}
    IN  IF hits = {} THEN INVALID ELSE t[x].kids[Max(hits)]

\* The number of leading tokens two sequences have in common.
CommonLen(a, b) ==
    Max({k \in 0 .. Min({Len(a), Len(b)}) : \A i \in 1 .. k : a[i] = b[i]})

\* One node of match's walk, w = [cur, path, matched]: the node the walk has
\* come to, the hops so far - a node, the tokens matched before it and how
\* many of its own agree - and the tokens matched.  It ends at a node that
\* does not agree to its last token.
Hop(t, toks, w) ==
    LET used == CommonLen(t[w.cur].tokens, SubSeq(toks, w.matched + 1, Len(toks)))
        m    == w.matched + used
        on   == used = Len(t[w.cur].tokens) /\ m < Len(toks)
    IN  IF w.cur = INVALID THEN w
        ELSE IF used = 0 THEN [w EXCEPT !.cur = INVALID]
        ELSE [ cur     |-> IF on THEN KidStartingWith(t, w.cur, toks[m + 1]) ELSE INVALID,
               path    |-> Append(w.path, [node |-> w.cur, start |-> w.matched, used |-> used]),
               matched |-> m ]

\* The whole walk.  It enters the tree by the root's first child, whatever
\* that child's first token is, and each hop matches a token at least.
Walk(t, toks) ==
    LET walk[i \in 0 .. Len(toks)] ==
            IF i = 0 THEN [cur |-> FirstKid(t, ROOT), path |-> <<>>, matched |-> 0]
            ELSE Hop(t, toks, walk[i - 1])
    IN  walk[Len(toks)]

\* match: the last node reached counts one more use.  A path of more than
\* MAX_PATH nodes raises before that.
Matched(t, w) ==
    [ ok      |-> Len(w.path) <= MAX_PATH,
      path    |-> w.path,
      matched |-> w.matched,
      tree    |-> IF w.path = <<>> \/ Len(w.path) > MAX_PATH THEN t
                  ELSE [t EXCEPT ![Last(w.path).node].freq = @ + 1] ]

match(t, toks) == Matched(t, Walk(t, toks))
-----------------------------------------------------------------------------
add_child(t, parent, node) ==
    [t EXCEPT ![parent].kids = <<node>> \o @, ![node].parent = parent]

detach(t, node) ==
    LET parent == t[node].parent
        cut    == [t EXCEPT ![node].parent = INVALID]
    IN  IF parent = INVALID THEN cut
        ELSE [cut EXCEPT ![parent].kids = RemoveFirst(@, node)]

kill(t, node) == [t EXCEPT ![node] = DeadNode]

\* The number of blocks a node keeps when it keeps k tokens.
BlocksFor(node, k) == ceil_div(node.offset + k, block_size)

\* split: node keeps k tokens, a new only child takes the rest together with
\* the node's children.  The block of the split point is referenced by both.
split(t, node, k) ==
    LET old   == t[node]
        child == NextNode(t)
        slot  == old.offset + k
    IN  [x \in Nodes |->
          CASE x = child ->
                 [ alive  |-> TRUE,
                   parent |-> node,
                   kids   |-> old.kids,
                   tokens |-> SubSeq(old.tokens, k + 1, Len(old.tokens)),
                   offset |-> slot % block_size,
                   blocks |-> SubSeq(old.blocks, slot \div block_size + 1,
                                     Len(old.blocks)),
                   freq   |-> 0 ]
            [] x = node ->
                 [old EXCEPT !.tokens = SubSeq(@, 1, k),
                             !.blocks = SubSeq(@, 1, BlocksFor(old, k)),
                             !.kids   = <<child>>]
            [] x \notin {child, node} ->
                 IF x \in ToSet(old.kids) THEN [t[x] EXCEPT !.parent = child]
                                          ELSE t[x]]
-----------------------------------------------------------------------------
\* The token sequence a node stands for: its own tokens after its ancestors'.
TokensTo(t, node) ==
    LET path[x \in Nodes] ==
            IF x = ROOT \/ t[x].parent = INVALID THEN t[x].tokens
            ELSE path[t[x].parent] \o t[x].tokens
    IN  path[node]

\* Every node hangs on its parent exactly once, covers at least one token and
\* references exactly the blocks its tokens reach.
WellFormed(t) ==
    /\ t[ROOT].tokens = <<>>
    /\ \A x \in Nodes :
         /\ IsInjective(t[x].kids)
         /\ \A c \in ToSet(t[x].kids) : t[c].alive /\ t[c].parent = x
    /\ \A x \in AliveNodes(t) :
         /\ t[x].parent # INVALID
         /\ x \in ToSet(t[t[x].parent].kids)
         /\ Len(t[x].tokens) \in 1 .. MAX_NODE_TOKENS
         /\ t[x].offset \in 0 .. block_size - 1
         /\ Len(t[x].blocks) = BlocksFor(t[x], Len(t[x].tokens))
         /\ Len(t[x].blocks) <= MAX_NODE_BLOCKS

=============================================================================
