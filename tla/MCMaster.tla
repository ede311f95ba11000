------------------------------ MODULE MCMaster ------------------------------
(* Three workers, so that one can die while another drains and a third has  *)
(* not armed its handler; one signal for the master and one for a worker.   *)
EXTENDS Master
=============================================================================
