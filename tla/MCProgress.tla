------------------------------ MODULE MCProgress ------------------------------
(***************************************************************************)
(* The progress relay on a small instance: a bucket and a queue of Burst.  *)
(***************************************************************************)
EXTENDS ProgressRelay
=============================================================================
