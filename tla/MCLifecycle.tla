----------------------------- MODULE MCLifecycle ----------------------------
(* A small instance of Lifecycle for TLC: two draining and two cancellable requests, two handles or tasks on up *)
(* to three positions, two producers; in the pipeline the two draining requests, a delayed mutation and one that *)
(* a hook may run. *)
EXTENDS Lifecycle
=============================================================================
