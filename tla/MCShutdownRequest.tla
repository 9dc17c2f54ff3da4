------------------------- MODULE MCShutdownRequest --------------------------
(* A small instance of ShutdownRequest for TLC: two daemon threads and two client connections. *)
EXTENDS ShutdownRequest
=============================================================================
