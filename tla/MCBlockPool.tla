---------------------------- MODULE MCBlockPool ----------------------------
(* BlockPool with more view entries than blocks: the pool runs dry while    *)
(* blocks are shared, and blocks come back in every order.                  *)
EXTENDS BlockPool

CONSTANTS h1, h2, h3, h4

MCHolders == {h1, h2, h3, h4}
=============================================================================
