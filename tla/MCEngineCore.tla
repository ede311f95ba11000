---------------------------- MODULE MCEngineCore ----------------------------
(* Four requests that may arrive, in any order and two at a time: 1 and 2   *)
(* have the same prompt, 4 branches off it inside its second block, and 3   *)
(* shares nothing with them but asks for two tokens.                        *)
EXTENDS EngineCore

Prompts(r) == CASE r \in {1, 2} -> <<1, 2, 3>> [] r = 3 -> <<2, 1>> [] OTHER -> <<1, 2, 4>>

FourOffers ==
    { [id |-> 1, prompt_len |-> 3, max_new |-> 1],
      [id |-> 2, prompt_len |-> 3, max_new |-> 1],
      [id |-> 3, prompt_len |-> 2, max_new |-> 2],
      [id |-> 4, prompt_len |-> 3, max_new |-> 2] }
=============================================================================
