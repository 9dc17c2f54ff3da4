-------------------------- MODULE MCSessionLeases ---------------------------
(* A small instance of SessionLeases for TLC: one kind of disturbance at a time, so that each is explored with *)
(* everything the owner, its heartbeat and the reaper can do. *)
EXTENDS SessionLeases

ScenariosValue == {{"suspend"}, {"names"}, {"takeover"}, {"cleanup"}, {"signals"}, {"lossy"}, {"slow"}, {"terminals"}}
=============================================================================
