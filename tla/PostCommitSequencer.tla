------------------------ MODULE PostCommitSequencer ------------------------
(***************************************************************************)
(* The post-commit sequencer (rmux-server handler/post_commit_sequencer.rs)*)
(*                                                                         *)
(* A mutation first acquires a slot of a bounded semaphore and registers   *)
(* it in its lane, takes a position while it commits, waits for the turn   *)
(* of that position and runs its post-commit work.  It gives back, in this *)
(* order and in separate steps, the position, the slot and the lane count: *)
(* when the work ends, when the publication of a lifecycle event releases  *)
(* the turn early, or when its future is dropped at any await.  Shutdown   *)
(* first closes and drains the normal lane, later both lanes.              *)
(*                                                                         *)
(* Waits are the "enable, check, await" loop on a Notify, as in            *)
(* LifecycleCommitOrder.                                                   *)
(***************************************************************************)
EXTENDS Naturals, FiniteSets, Sequences

CONSTANTS Tasks,            \* mutations in flight at once
          Capacity,         \* capacity of the semaphore
          MaxPositions      \* bound on next_reservation_sequence

(* Tasks are live objects of the process. *)
ASSUME TasksAssumption == IsFiniteSet(Tasks) /\ Capacity \in Nat /\ MaxPositions \in Nat

VARIABLES permits, slots_closed, slot_queue,  \* tokio Semaphore: free permits, closed, FIFO of acquirers
          s_accepting,                        \* accepting_normal, accepting_lifecycle_hook
          pending,                            \* pending_normal, pending_lifecycle_hook
          next_reservation_sequence, next_turn_sequence, s_finished_out_of_order,
          s_pc, s_lane, s_seq, s_woken,       \* the tasks
          s_phase, s_barrier, drained_woken   \* the shutdown task

semaphore == <<permits, slots_closed, slot_queue>>
turns == <<next_reservation_sequence, next_turn_sequence, s_finished_out_of_order>>
taskVars == <<s_pc, s_lane, s_seq, s_woken>>
drainVars == <<s_phase, s_barrier, drained_woken>>
sequencerVars == <<semaphore, s_accepting, pending, turns, taskVars, drainVars>>

PostCommitLanes == {"Normal", "LifecycleHook"}
Waiting == {"reserved", "enabled", "checked", "parked"}
Positioned == Waiting \cup {"turn", "leaving", "abandoning"}   \* owns a PostCommitPosition
Registered == Positioned \cup {"capacity", "drop_slot", "drop_pending"}   \* owns a PostCommitPending
Slotted == Positioned \cup {"slot", "capacity", "drop_slot"}   \* owns a permit
TaskStates == {"free", "acquiring"} \cup Slotted \cup Registered

PostCommitInit == /\ permits = Capacity /\ slots_closed = FALSE /\ slot_queue = <<>>
                  /\ s_accepting = [l \in PostCommitLanes |-> TRUE]
                  /\ pending = [l \in PostCommitLanes |-> 0]
                  /\ next_reservation_sequence = 0 /\ next_turn_sequence = 0 /\ s_finished_out_of_order = {}
                  /\ s_pc = [t \in Tasks |-> "free"]
                  /\ s_lane = [t \in Tasks |-> "Normal"]
                  /\ s_seq = [t \in Tasks |-> 0]
                  /\ s_woken = [t \in Tasks |-> FALSE]
                  /\ s_phase = "open" /\ s_barrier = "none" /\ drained_woken = FALSE

GotoTask(t, state) == s_pc' = [s_pc EXCEPT ![t] = state]

(***************************************************************************)
(* acquire_capacity: the lane is read before the first await.              *)
(***************************************************************************)
acquire_capacity(t, l) ==
    /\ s_pc[t] = "free"
    /\ ~slots_closed
    /\ s_lane' = [s_lane EXCEPT ![t] = l]
    /\ slot_queue' = Append(slot_queue, t)
    /\ GotoTask(t, "acquiring")
    /\ UNCHANGED <<permits, slots_closed, s_accepting, pending, turns, s_seq, s_woken, drainVars>>

AcquireSlot(t) ==
    /\ s_pc[t] = "acquiring"
    /\ slot_queue[1] = t /\ permits > 0 /\ ~slots_closed
    /\ slot_queue' = Tail(slot_queue)
    /\ permits' = permits - 1
    /\ GotoTask(t, "slot")
    /\ UNCHANGED <<slots_closed, s_accepting, pending, turns, s_lane, s_seq, s_woken, drainVars>>

(* The semaphore was closed, or the caller dropped the future. *)
AcquireFails(t) ==
    /\ s_pc[t] = "acquiring"
    /\ \E i \in DOMAIN slot_queue :
         /\ slot_queue[i] = t
         /\ slot_queue' = SubSeq(slot_queue, 1, i - 1) \o SubSeq(slot_queue, i + 1, Len(slot_queue))
    /\ GotoTask(t, "free")
    /\ UNCHANGED <<permits, slots_closed, s_accepting, pending, turns, s_lane, s_seq, s_woken, drainVars>>

\* Mutant: the lane is not checked again once the slot is there.
RegisterUnchecked(t) ==
    /\ s_pc[t] = "slot"
    /\ pending' = [pending EXCEPT ![s_lane[t]] = @ + 1]
    /\ GotoTask(t, "capacity")
    /\ UNCHANGED <<semaphore, s_accepting, turns, s_lane, s_seq, s_woken, drainVars>>

register_capacity(t) ==
    /\ s_pc[t] = "slot"
    /\ IF s_accepting[s_lane[t]]
       THEN /\ pending' = [pending EXCEPT ![s_lane[t]] = @ + 1]
            /\ GotoTask(t, "capacity")
            /\ UNCHANGED permits
       ELSE /\ permits' = permits + 1
            /\ GotoTask(t, "free")
            /\ UNCHANGED pending
    /\ UNCHANGED <<slots_closed, slot_queue, s_accepting, turns, s_lane, s_seq, s_woken, drainVars>>

(***************************************************************************)
(* PostCommitCapacity and PostCommitReservation.                           *)
(***************************************************************************)
sequence(t) ==
    /\ s_pc[t] = "capacity"
    /\ next_reservation_sequence < MaxPositions
    /\ s_seq' = [s_seq EXCEPT ![t] = next_reservation_sequence]
    /\ next_reservation_sequence' = next_reservation_sequence + 1
    /\ GotoTask(t, "reserved")
    /\ UNCHANGED <<semaphore, s_accepting, pending, next_turn_sequence, s_finished_out_of_order,
                   s_lane, s_woken, drainVars>>

(* The mutation failed or was cancelled before it took a position. *)
DropCapacity(t) ==
    /\ s_pc[t] = "capacity"
    /\ GotoTask(t, "drop_slot")
    /\ UNCHANGED <<semaphore, s_accepting, pending, turns, s_lane, s_seq, s_woken, drainVars>>

PostCommitEnable(t) ==
    /\ s_pc[t] = "reserved"
    /\ GotoTask(t, "enabled")
    /\ s_woken' = [s_woken EXCEPT ![t] = FALSE]
    /\ UNCHANGED <<semaphore, s_accepting, pending, turns, s_lane, s_seq, drainVars>>

PostCommitCheckTurn(t) ==
    /\ s_pc[t] = "enabled"
    /\ GotoTask(t, IF next_turn_sequence = s_seq[t] THEN "turn" ELSE "checked")
    /\ UNCHANGED <<semaphore, s_accepting, pending, turns, s_lane, s_seq, s_woken, drainVars>>

PostCommitAwait(t) ==
    /\ s_pc[t] = "checked"
    /\ GotoTask(t, "parked")
    /\ UNCHANGED <<semaphore, s_accepting, pending, turns, s_lane, s_seq, s_woken, drainVars>>

PostCommitResume(t) ==
    /\ s_pc[t] = "parked" /\ s_woken[t]
    /\ GotoTask(t, "reserved")
    /\ UNCHANGED <<semaphore, s_accepting, pending, turns, s_lane, s_seq, s_woken, drainVars>>

(* The future is dropped while it waits for the turn. *)
CancelReservation(t) ==
    /\ s_pc[t] \in Waiting
    /\ GotoTask(t, "abandoning")
    /\ UNCHANGED <<semaphore, s_accepting, pending, turns, s_lane, s_seq, s_woken, drainVars>>

(* PostCommitRelease.release: the work ended, or emit_prepared released the turn early. *)
release(t) ==
    /\ s_pc[t] = "turn"
    /\ GotoTask(t, "leaving")
    /\ UNCHANGED <<semaphore, s_accepting, pending, turns, s_lane, s_seq, s_woken, drainVars>>

(***************************************************************************)
(* The drops of PostCommitTurn / PostCommitReservation / PostCommitCapacity*)
(***************************************************************************)

finish_turn(t) ==
    /\ s_pc[t] \in {"leaving", "abandoning"}
    /\ LET s == s_seq[t] IN
       \/ /\ s = next_turn_sequence
          /\ \E n \in (s + 1)..MaxPositions :
               /\ n \notin s_finished_out_of_order
               /\ (s + 1)..(n - 1) \subseteq s_finished_out_of_order
               /\ next_turn_sequence' = n
               /\ s_finished_out_of_order' = s_finished_out_of_order \ ((s + 1)..(n - 1))
          /\ s_woken' = [u \in Tasks |-> s_woken[u] \/ s_pc[u] \in {"enabled", "checked", "parked"}]
       \/ /\ s > next_turn_sequence
          /\ s_finished_out_of_order' = s_finished_out_of_order \cup {s}
          /\ UNCHANGED <<next_turn_sequence, s_woken>>
       \/ /\ s < next_turn_sequence
          /\ UNCHANGED <<next_turn_sequence, s_finished_out_of_order, s_woken>>
    /\ GotoTask(t, "drop_slot")
    /\ UNCHANGED <<semaphore, s_accepting, pending, next_reservation_sequence, s_lane, s_seq, drainVars>>

DropSlot(t) ==
    /\ s_pc[t] = "drop_slot"
    /\ permits' = permits + 1
    /\ GotoTask(t, "drop_pending")
    /\ UNCHANGED <<slots_closed, slot_queue, s_accepting, pending, turns, s_lane, s_seq, s_woken, drainVars>>

finish_pending(t) ==
    /\ s_pc[t] = "drop_pending"
    /\ pending' = [pending EXCEPT ![s_lane[t]] = IF @ = 0 THEN 0 ELSE @ - 1]
    /\ drained_woken' = (drained_woken \/ s_barrier \in {"enabled", "checked", "parked"})
    /\ GotoTask(t, "free")
    /\ UNCHANGED <<semaphore, s_accepting, turns, s_lane, s_seq, s_woken, s_phase, s_barrier>>

(***************************************************************************)
(* close_normal_and_drain, then close_and_drain.  Each turn of the loop    *)
(* closes its lanes again under the mutex before it reads the counts.      *)
(***************************************************************************)
BeginDrain ==
    /\ s_phase \in {"open", "normal_drained"} /\ s_barrier = "none"
    /\ s_phase' = IF s_phase = "open" THEN "draining_normal" ELSE "draining_all"
    /\ s_barrier' = "loop"
    /\ UNCHANGED <<semaphore, s_accepting, pending, turns, taskVars, drained_woken>>

close_normal_and_drain ==
    /\ s_phase = "draining_normal" /\ s_barrier = "enabled"
    /\ s_accepting' = [s_accepting EXCEPT !["Normal"] = FALSE]
    /\ IF pending["Normal"] = 0
       THEN s_phase' = "normal_drained" /\ s_barrier' = "none"
       ELSE s_barrier' = "checked" /\ UNCHANGED s_phase
    /\ UNCHANGED <<semaphore, pending, turns, taskVars, drained_woken>>

close_and_drain ==
    /\ s_phase = "draining_all" /\ s_barrier = "enabled"
    /\ s_accepting' = [l \in PostCommitLanes |-> FALSE]
    /\ slots_closed' = TRUE
    /\ IF \A l \in PostCommitLanes : pending[l] = 0
       THEN s_phase' = "drained" /\ s_barrier' = "none"
       ELSE s_barrier' = "checked" /\ UNCHANGED s_phase
    /\ UNCHANGED <<permits, slot_queue, pending, turns, taskVars, drained_woken>>

EnableDrained ==
    /\ s_barrier = "loop" /\ s_barrier' = "enabled" /\ drained_woken' = FALSE
    /\ UNCHANGED <<semaphore, s_accepting, pending, turns, taskVars, s_phase>>

AwaitDrained ==
    /\ s_barrier = "checked" /\ s_barrier' = "parked"
    /\ UNCHANGED <<semaphore, s_accepting, pending, turns, taskVars, s_phase, drained_woken>>

ResumeDrain ==
    /\ s_barrier = "parked" /\ drained_woken /\ s_barrier' = "loop"
    /\ UNCHANGED <<semaphore, s_accepting, pending, turns, taskVars, s_phase, drained_woken>>

TaskStep(t) == \/ AcquireSlot(t) \/ (slots_closed /\ AcquireFails(t)) \/ register_capacity(t)
               \/ DropCapacity(t) \/ sequence(t) \/ PostCommitEnable(t) \/ PostCommitCheckTurn(t) \/ PostCommitAwait(t) \/ PostCommitResume(t)
               \/ release(t) \/ finish_turn(t) \/ DropSlot(t) \/ finish_pending(t)

DrainStep == \/ EnableDrained \/ close_normal_and_drain \/ close_and_drain
             \/ AwaitDrained \/ ResumeDrain

PostCommitNext == \/ \E t \in Tasks : \/ \E l \in PostCommitLanes : acquire_capacity(t, l)
                                      \/ AcquireFails(t) \/ CancelReservation(t) \/ TaskStep(t)
                  \/ BeginDrain \/ DrainStep

PostCommitSpec == PostCommitInit /\ [][PostCommitNext]_sequencerVars

(***************************************************************************)
(* Properties.                                                             *)
(***************************************************************************)
(* Every variable keeps the shape its Rust type gives it. *)
PostCommitTypeOK == /\ permits \in 0..Capacity /\ slots_closed \in BOOLEAN
                    /\ slot_queue \in Seq(Tasks)
                    /\ s_accepting \in [PostCommitLanes -> BOOLEAN] /\ pending \in [PostCommitLanes -> Nat]
                    /\ next_reservation_sequence \in 0..MaxPositions
                    /\ next_turn_sequence \in 0..MaxPositions
                    /\ s_finished_out_of_order \subseteq 0..(MaxPositions - 1)
                    /\ s_pc \in [Tasks -> TaskStates] /\ s_lane \in [Tasks -> PostCommitLanes]
                    /\ s_seq \in [Tasks -> 0..MaxPositions] /\ s_woken \in [Tasks -> BOOLEAN]
                    /\ s_phase \in {"open", "draining_normal", "normal_drained", "draining_all", "drained"}
                    /\ s_barrier \in {"none", "loop", "enabled", "checked", "parked"}
                    /\ drained_woken \in BOOLEAN

(* A drained lane stays drained: once close_normal_and_drain returned, no     *)
(* normal mutation holds capacity or runs; once close_and_drain returned, none *)
(* of any lane does.                                                           *)
DrainIsFinal == \A t \in Tasks : s_pc[t] \in Registered =>
    /\ s_phase \in {"normal_drained", "draining_all"} => s_lane[t] = "LifecycleHook"
    /\ s_phase # "drained"

(* No drain is waiting (close_normal_and_drain admits new hooks meanwhile).  *)
PostCommitDrainsReturned == s_phase \notin {"draining_normal", "draining_all"}

PostCommitOutstanding == {s_seq[t] : t \in {u \in Tasks : s_pc[u] \in Positioned}}
PostCommitInside == {s_seq[t] : t \in {u \in Tasks : s_pc[u] \in {"turn", "leaving"}}}

(* The sequencer implements the turn order its users rely on. *)
PostCommitOrder == INSTANCE TurnOrder WITH MaxReservations <- MaxPositions, reserved <- next_reservation_sequence,
                                           outstanding <- PostCommitOutstanding, inside <- PostCommitInside

PostCommitOrderSpec == PostCommitOrder!Spec
=============================================================================
