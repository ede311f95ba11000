---------------------------- MODULE MCServerLoop ----------------------------
(***************************************************************************)
(* Two slots, so that one is reused while the other is served.             *)
(***************************************************************************)
EXTENDS ServerLoop
=============================================================================
