------------------------------ MODULE MCKvRoom ------------------------------
(* Two requests, blocks of two tokens.  A generated token is also what an   *)
(* unused entry of rq_tok holds, so some sequences are published under the  *)
(* tokens they have and some are not; one prompt is long enough to share a  *)
(* token that another request has left behind without running it.          *)
EXTENDS KvRoom

CommonPrompts == {<<1>>, <<1, 1, 0>>}

\* Two prompts that part at their first token: LongestPrefix does not hold of
\* these, for match enters the tree by the newest child of the root.
ForkingPrompts == {<<1, 1, 2>>, <<2, 1>>}
=============================================================================
