---------------------------- MODULE MCScheduler ----------------------------
(* Two slots and three requests: the first is longer than two chunks and    *)
(* does not fit beside the second; the last token of the second starts a    *)
(* block.                                                                   *)
EXTENDS Scheduler

ThreeOffers ==
    { [id |-> 1, prompt_len |-> 5, max_new |-> 1],
      [id |-> 2, prompt_len |-> 2, max_new |-> 2],
      [id |-> 3, prompt_len |-> 1, max_new |-> 1] }
=============================================================================
