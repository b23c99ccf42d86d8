------------------------------ MODULE MCWorker ------------------------------
(***************************************************************************)
(* A worker with an interval of 1 and a cap of 6: the delays are 1, 2, 4,  *)
(* 6, 6, and the step from 4 to 6 is the one that doubling would overshoot. *)
(***************************************************************************)
EXTENDS Worker
=============================================================================
