--------------------------- MODULE MCBatchExecutor ---------------------------
(* Two slots and three rows for prompts of up to three tokens: prompts that  *)
(* come in slices, steps too small for everybody, histories that outgrow     *)
(* their region, slots used again, prompts that are cached in part, and one  *)
(* whose token the model does not know.                                      *)
EXTENDS BatchExecutor

SomePrompts == {<<1, 0, 1>>, <<0>>, <<2>>}
=============================================================================
