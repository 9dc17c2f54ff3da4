------------------------- MODULE LifecycleProducers -------------------------
(***************************************************************************)
(* Delayed local tasks that may mutate state and publish lifecycle effects *)
(* (rmux-server handler/lifecycle_producer_tasks.rs).                      *)
(*                                                                         *)
(* A parent registers a task in a lane, may hold a mutation guard on it    *)
(* while it installs the task's state (the hand-off), and spawns it.  The  *)
(* runner polls the task's future until it completes or the lane closes;   *)
(* then it lets a mutation in progress end and drops the future.  A runner *)
(* with a cancellation cleanup holds a second registration, and runs the   *)
(* cleanup under a guard of its own before it gives the last one back.     *)
(* Shutdown closes a lane in two steps (stop accepting, then signal) and   *)
(* waits for its registrations.                                            *)
(*                                                                         *)
(* A poll is two steps, the runner's check of the closing signal and the   *)
(* future's own steps, so a lane may close between them.  An await on a    *)
(* watch channel or on a Notify is the condition it waits for.             *)
(***************************************************************************)
EXTENDS Naturals, FiniteSets

CONSTANTS Producers,   \* registered tasks in flight at once
          MaxDepth     \* bound on nested mutation guards

(* Producers are live objects of the process. *)
ASSUME ProducersAssumption == IsFiniteSet(Producers) /\ MaxDepth \in Nat

VARIABLES p_accepting,      \* accepting_normal, accepting_lifecycle_hook
          closing,          \* normal_closing, lifecycle_hook_closing (watch channels)
          registrations,    \* registrations_normal, registrations_lifecycle_hook
          p_pc, p_lane,     \* the runner and its lane
          cleanup,          \* it runs with a cancellation cleanup
          depth, rejected,  \* LifecycleProducerExecution
          handoff,          \* the parent holds a mutation guard on the registration
          p_phase           \* the shutdown task

laneVars == <<p_accepting, closing, registrations>>
runnerVars == <<p_pc, p_lane, cleanup, depth, rejected, handoff>>
producerVars == <<laneVars, runnerVars, p_phase>>

ProducerLanes == {"Normal", "LifecycleHook"}
Running == {"poll", "future", "drain", "drain_future"}   \* the future exists and may be polled
ProducerStates == {"free", "admitted", "handoff", "handoff_closing", "cleanup"} \cup Running

ProducerInit == /\ p_accepting = [l \in ProducerLanes |-> TRUE]
                /\ closing = [l \in ProducerLanes |-> FALSE]
                /\ registrations = [l \in ProducerLanes |-> 0]
                /\ p_pc = [p \in Producers |-> "free"]
                /\ p_lane = [p \in Producers |-> "Normal"]
                /\ cleanup = [p \in Producers |-> FALSE]
                /\ depth = [p \in Producers |-> 0]
                /\ rejected = [p \in Producers |-> FALSE]
                /\ handoff = [p \in Producers |-> FALSE]
                /\ p_phase = "open"

GotoProducer(p, state) == p_pc' = [p_pc EXCEPT ![p] = state]
Register(p, n) == registrations' = [registrations EXCEPT ![p_lane[p]] = @ + n]
Unregister(p, n) == registrations' = [registrations EXCEPT ![p_lane[p]] = @ - n]

(* Registrations a task owns: the scoped duplicate exists while its future does. *)
Owned(p) == IF p_pc[p] = "free" THEN 0 ELSE IF cleanup[p] /\ p_pc[p] \in Running THEN 2 ELSE 1

(***************************************************************************)
(* The parent.                                                             *)
(***************************************************************************)
try_register(p, l, c) ==
    /\ p_pc[p] = "free" /\ p_accepting[l]
    /\ p_lane' = [p_lane EXCEPT ![p] = l] /\ cleanup' = [cleanup EXCEPT ![p] = c]
    /\ registrations' = [registrations EXCEPT ![l] = @ + 1]
    /\ depth' = [depth EXCEPT ![p] = 0] /\ rejected' = [rejected EXCEPT ![p] = FALSE]
    /\ GotoProducer(p, "admitted")
    /\ UNCHANGED <<p_accepting, closing, handoff, p_phase>>

(* The parent gives up (its own guard was refused, or it changed its mind). *)
DropRegistration(p) ==
    /\ p_pc[p] = "admitted"
    /\ depth' = [depth EXCEPT ![p] = 0] /\ handoff' = [handoff EXCEPT ![p] = FALSE]
    /\ Unregister(p, 1)
    /\ GotoProducer(p, "free")
    /\ UNCHANGED <<p_accepting, closing, p_lane, cleanup, rejected, p_phase>>

BeginHandoff(p) ==
    /\ p_pc[p] = "admitted" /\ ~handoff[p] /\ p_accepting[p_lane[p]]
    /\ depth' = [depth EXCEPT ![p] = @ + 1] /\ handoff' = [handoff EXCEPT ![p] = TRUE]
    /\ UNCHANGED <<laneVars, p_pc, p_lane, cleanup, rejected, p_phase>>

Spawn(p) ==
    /\ p_pc[p] = "admitted"
    /\ GotoProducer(p, "handoff")
    /\ UNCHANGED <<laneVars, p_lane, cleanup, depth, rejected, handoff, p_phase>>

EndHandoff(p) ==
    /\ handoff[p] /\ p_pc[p] # "admitted"
    /\ depth' = [depth EXCEPT ![p] = @ - 1] /\ handoff' = [handoff EXCEPT ![p] = FALSE]
    /\ UNCHANGED <<laneVars, p_pc, p_lane, cleanup, rejected, p_phase>>

(***************************************************************************)
(* The runner.  `Cancelled` drops the future and everything it owns.       *)
(***************************************************************************)

Cancelled(p) ==
    IF cleanup[p]
    THEN /\ Unregister(p, Owned(p) - 1)
         /\ depth' = [depth EXCEPT ![p] = @ + 1]
         /\ GotoProducer(p, "cleanup")
    ELSE /\ Unregister(p, 1)
         /\ GotoProducer(p, "free")
         /\ UNCHANGED depth

wait_until_handoff_complete(p) ==
    /\ p_pc[p] = "handoff"
    /\ IF closing[p_lane[p]]
       THEN GotoProducer(p, "handoff_closing") /\ UNCHANGED registrations
       ELSE /\ depth[p] = 0
            /\ GotoProducer(p, "poll") /\ Register(p, IF cleanup[p] THEN 1 ELSE 0)
    /\ UNCHANGED <<p_accepting, closing, p_lane, cleanup, depth, rejected, handoff, p_phase>>

HandoffCancelled(p) ==
    /\ p_pc[p] = "handoff_closing" /\ depth[p] = 0
    /\ Cancelled(p)
    /\ UNCHANGED <<p_accepting, closing, p_lane, cleanup, rejected, handoff, p_phase>>

\* Mutant: a closing lane drops the future even while it is mutating.
PollDropsMutation(p) ==
    /\ p_pc[p] = "poll"
    /\ IF closing[p_lane[p]]
       THEN Cancelled(p)
       ELSE GotoProducer(p, "future") /\ UNCHANGED <<registrations, depth>>
    /\ UNCHANGED <<p_accepting, closing, p_lane, cleanup, rejected, handoff, p_phase>>

(* The outer select is biased towards the closing signal. *)
Poll(p) ==
    /\ p_pc[p] = "poll"
    /\ IF closing[p_lane[p]] /\ depth[p] = 0
       THEN Cancelled(p)
       ELSE /\ GotoProducer(p, IF closing[p_lane[p]] THEN "drain" ELSE "future")
            /\ UNCHANGED <<registrations, depth>>
    /\ UNCHANGED <<p_accepting, closing, p_lane, cleanup, rejected, handoff, p_phase>>

(* The inner select is biased towards the end of the mutation. *)
PollDraining(p) ==
    /\ p_pc[p] = "drain"
    /\ IF depth[p] = 0
       THEN Cancelled(p)
       ELSE GotoProducer(p, "drain_future") /\ UNCHANGED <<registrations, depth>>
    /\ UNCHANGED <<p_accepting, closing, p_lane, cleanup, rejected, handoff, p_phase>>

InFuture(p) == p_pc[p] \in {"future", "drain_future"}

(* The future awaits something else and hands control back to the runner. *)
Yield(p) ==
    /\ InFuture(p)
    /\ GotoProducer(p, IF p_pc[p] = "future" THEN "poll" ELSE "drain")
    /\ UNCHANGED <<laneVars, p_lane, cleanup, depth, rejected, handoff, p_phase>>

try_begin_mutation(p) ==
    /\ InFuture(p) /\ depth[p] < MaxDepth
    /\ IF depth[p] = 0 /\ ~p_accepting[p_lane[p]]
       THEN rejected' = [rejected EXCEPT ![p] = TRUE] /\ UNCHANGED depth
       ELSE depth' = [depth EXCEPT ![p] = @ + 1] /\ UNCHANGED rejected
    /\ UNCHANGED <<laneVars, p_pc, p_lane, cleanup, handoff, p_phase>>

DropMutationGuard(p) ==
    /\ InFuture(p) /\ depth[p] > 0
    /\ depth' = [depth EXCEPT ![p] = @ - 1]
    /\ UNCHANGED <<laneVars, p_pc, p_lane, cleanup, rejected, handoff, p_phase>>

(* The future returns; its output is discarded when a mutation was refused. *)
Complete(p) ==
    /\ InFuture(p) /\ depth[p] = 0
    /\ IF rejected[p]
       THEN Cancelled(p)
       ELSE Unregister(p, Owned(p)) /\ GotoProducer(p, "free") /\ UNCHANGED depth
    /\ UNCHANGED <<p_accepting, closing, p_lane, cleanup, rejected, handoff, p_phase>>

(* cleanup.await, drop(cleanup_mutation), drop of the registration. *)
EndCleanup(p) ==
    /\ p_pc[p] = "cleanup"
    /\ depth' = [depth EXCEPT ![p] = @ - 1]
    /\ Unregister(p, 1)
    /\ GotoProducer(p, "free")
    /\ UNCHANGED <<p_accepting, closing, p_lane, cleanup, rejected, handoff, p_phase>>

(* The owner of a silence timer aborts its task, which is dropped where it *)
(* awaits, with the guards it holds.  Owners abort under the state lock,   *)
(* under which the parent also hands the task over.                        *)
Abort(p) ==
    /\ p_pc[p] \in {"handoff", "handoff_closing", "poll", "drain"}
    /\ cleanup[p] /\ p_lane[p] = "Normal" /\ ~handoff[p]
    /\ depth' = [depth EXCEPT ![p] = 0]
    /\ Unregister(p, Owned(p))
    /\ GotoProducer(p, "free")
    /\ UNCHANGED <<p_accepting, closing, p_lane, cleanup, rejected, handoff, p_phase>>

(***************************************************************************)
(* The shutdown task: close_normal_and_wait, later close_and_wait.         *)
(***************************************************************************)
Closed == IF p_phase \in {"open", "signal_normal", "wait_normal"} THEN {"Normal"} ELSE ProducerLanes

StopAccepting ==
    /\ p_phase \in {"open", "normal_drained"}
    /\ p_phase' = IF p_phase = "open" THEN "signal_normal" ELSE "signal_all"
    /\ p_accepting' = [l \in ProducerLanes |-> p_accepting[l] /\ l \notin Closed]
    /\ UNCHANGED <<closing, registrations, runnerVars>>

SignalClosing ==
    /\ p_phase \in {"signal_normal", "signal_all"}
    /\ p_phase' = IF p_phase = "signal_normal" THEN "wait_normal" ELSE "wait_all"
    /\ closing' = [l \in ProducerLanes |-> closing[l] \/ l \in Closed]
    /\ UNCHANGED <<p_accepting, registrations, runnerVars>>

wait_until_producers_idle ==
    /\ p_phase \in {"wait_normal", "wait_all"}
    /\ \A l \in Closed : registrations[l] = 0
    /\ p_phase' = IF p_phase = "wait_normal" THEN "normal_drained" ELSE "drained"
    /\ UNCHANGED <<laneVars, runnerVars>>

RunnerStep(p) == \/ wait_until_handoff_complete(p) \/ HandoffCancelled(p) \/ Poll(p) \/ PollDraining(p)
                 \/ Yield(p) \/ Complete(p) \/ EndCleanup(p)

ProducerNext == \/ \E p \in Producers : \/ \E l \in ProducerLanes, c \in BOOLEAN : try_register(p, l, c)
                                        \/ DropRegistration(p) \/ BeginHandoff(p) \/ Spawn(p) \/ EndHandoff(p)
                                        \/ RunnerStep(p) \/ try_begin_mutation(p) \/ DropMutationGuard(p) \/ Abort(p)
                \/ StopAccepting \/ SignalClosing \/ wait_until_producers_idle

ProducerSpec == ProducerInit /\ [][ProducerNext]_producerVars

(***************************************************************************)
(* Properties.                                                             *)
(***************************************************************************)
(* Every variable keeps the shape its Rust type gives it. *)
ProducerTypeOK == /\ p_accepting \in [ProducerLanes -> BOOLEAN] /\ closing \in [ProducerLanes -> BOOLEAN]
                  /\ registrations \in [ProducerLanes -> Nat]
                  /\ p_pc \in [Producers -> ProducerStates] /\ p_lane \in [Producers -> ProducerLanes]
                  /\ cleanup \in [Producers -> BOOLEAN] /\ depth \in [Producers -> Nat]
                  /\ rejected \in [Producers -> BOOLEAN] /\ handoff \in [Producers -> BOOLEAN]
                  /\ p_phase \in {"open", "signal_normal", "wait_normal", "normal_drained",
                                  "signal_all", "wait_all", "drained"}

(* Closing a lane never drops a future or a registration in the middle of a  *)
(* mutation (the debug_assert in LifecycleProducerRegistration::drop), and   *)
(* the cleanup starts outside any mutation (the debug_assert_eq of           *)
(* begin_cancellation_cleanup_mutation).  Only a task's owner may drop it    *)
(* there, by Abort, which takes the guards along.  The spawned future does   *)
(* not run while its parent is still installing it, so its first mutation    *)
(* can never pass for a nested one (the comment on                           *)
(* wait_until_handoff_complete).                                             *)
MutationIsNeverCut == \A p \in Producers :
    /\ p_pc[p] = "free" => depth[p] = 0
    /\ p_pc[p] = "cleanup" => depth[p] = 1 /\ ~handoff[p]
    /\ p_pc[p] \in Running => ~handoff[p]

(* Once a lane was drained, no producer of it runs, mutates or cleans up. *)
Drained == \A p \in Producers : p_pc[p] # "free" =>
    /\ p_phase \in {"normal_drained", "signal_all", "wait_all"} => p_lane[p] = "LifecycleHook"
    /\ p_phase # "drained"

(* A closed lane stays closed: after it stopped accepting, only a          *)
(* cancellation cleanup starts to mutate, and after it was drained nothing  *)
(* of it is left.                                                           *)
ClosingIsFinal ==
    /\ []Drained
    /\ [][\A p \in Producers :
            depth[p] = 0 /\ depth'[p] > 0 /\ ~p_accepting[p_lane[p]] => p_pc'[p] = "cleanup"]_producerVars

(* No closing of a lane is waiting for its producers. *)
ProducerDrainsReturned == p_phase \in {"open", "normal_drained", "drained"}
=============================================================================
