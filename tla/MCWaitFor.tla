----------------------------- MODULE MCWaitFor -----------------------------
(* A small instance of WaitFor for TLC: a holder and two more requests on one *)
(* channel.  No symmetry, because the run also checks liveness.               *)
EXTENDS WaitFor
=============================================================================
