------------------------ MODULE LifecycleCommitOrder ------------------------
(***************************************************************************)
(* Commit-ordered publication of lifecycle events (rmux-server             *)
(* lifecycle_commit_order.rs).                                             *)
(*                                                                         *)
(* A ticket is reserved under the state lock; any number of handles        *)
(* (clones) share it.  The first handle to wait claims the turn, the       *)
(* others only wait for the ticket to be finished.  A cancelled claim, a   *)
(* dropped turn and the drop of the last handle all run `finish_once`,     *)
(* which is three separate steps: the swap of the ticket state, the        *)
(* coordinator's `finish` under its mutex, and the pending count under     *)
(* another.  Shutdown closes ticket admission, waits for the pending count *)
(* to reach zero, and later seals untracked publications and waits again.  *)
(*                                                                         *)
(* Every wait is tokio's "enable, check under the mutex, await" loop on a  *)
(* Notify; `woken` says a notification reached the enabled waiter.  A      *)
(* notify_waiters that follows an unlock is part of the step that unlocks: *)
(* a waiter that enables in between already reads the new value.           *)
(***************************************************************************)
EXTENDS Naturals, FiniteSets

CONSTANTS Handles,          \* ticket clones and publication guards alive at once
          MaxReservations   \* bound on next_sequence (a u64 that never wraps in practice)

(* Handles are live objects of the process. *)
ASSUME HandlesAssumption == IsFiniteSet(Handles) /\ MaxReservations \in Nat

VARIABLES c_accepting, accepting_publications,  \* LifecycleCommitAdmission
          reserved,                             \* LifecycleCommitAdmission.next_sequence
          next_sequence,                        \* LifecycleCommitCoordinatorState.next_sequence
          c_finished_out_of_order,              \* LifecycleCommitCoordinatorState
          count,                                \* LifecycleCommitPendingInner.count
          ticket,                               \* AtomicU8 state of every reserved ticket
          c_pc, c_seq,                          \* where each handle is, and its ticket
          c_woken,                              \* its Notified future was notified
          c_phase, c_barrier,                   \* the shutdown task: barrier reached, wait loop
          idle_woken                            \* the `idle` notification reached its Notified future

admission == <<c_accepting, accepting_publications, reserved>>
coordinator == <<next_sequence, c_finished_out_of_order>>
commitShutdownVars == <<c_phase, c_barrier, idle_woken>>
commitVars == <<admission, coordinator, count, ticket, c_pc, c_seq, c_woken, commitShutdownVars>>

Sequences == 0..(MaxReservations - 1)
TicketStates == {"unreserved", "pending", "claimed", "finished"}

Claiming == {"claim", "claim_enabled", "claim_checked", "claim_parked"}   \* holds a ClaimGuard
Watching == {"watch", "watch_enabled", "watch_checked", "watch_parked"}   \* waits for `finished`
Finishing == {"leaving", "abandoning", "counting"}   \* inside finish_once
Idle == {"held", "empty"}                            \* a ticket not waited on
OnTicket == Idle \cup Claiming \cup Watching \cup {"turn"} \cup Finishing
HandleStates == {"free", "guard"} \cup OnTicket

Owners(s) == {h \in Handles : c_pc[h] \in OnTicket /\ c_seq[h] = s}

CommitInit == /\ c_accepting = TRUE /\ accepting_publications = TRUE /\ reserved = 0
              /\ next_sequence = 0 /\ c_finished_out_of_order = {}
              /\ count = 0
              /\ ticket = [s \in Sequences |-> "unreserved"]
              /\ c_pc = [h \in Handles |-> "free"]
              /\ c_seq = [h \in Handles |-> 0]
              /\ c_woken = [h \in Handles |-> FALSE]
              /\ c_phase = "open" /\ c_barrier = "none" /\ idle_woken = FALSE

GotoHandle(h, state) == c_pc' = [c_pc EXCEPT ![h] = state]

(***************************************************************************)
(* LifecycleCommitPending.  `finish` notifies `idle` at zero.              *)
(***************************************************************************)
start == count' = count + 1

PendingFinish == /\ count' = count - 1
                 /\ idle_woken' = (idle_woken \/ (count = 1 /\ c_barrier \in {"enabled", "checked", "parked"}))
                 /\ UNCHANGED <<c_phase, c_barrier>>

(***************************************************************************)
(* Admission.                                                              *)
(***************************************************************************)

try_reserve(h) ==
    /\ c_pc[h] = "free"
    /\ c_accepting /\ reserved < MaxReservations
    /\ reserved' = reserved + 1
    /\ start
    /\ ticket' = [ticket EXCEPT ![reserved] = "pending"]
    /\ c_seq' = [c_seq EXCEPT ![h] = reserved]
    /\ GotoHandle(h, "held")
    /\ UNCHANGED <<c_accepting, accepting_publications, coordinator, c_woken, commitShutdownVars>>

track_unordered_publication(h) ==
    /\ c_pc[h] = "free"
    /\ accepting_publications
    /\ start
    /\ GotoHandle(h, "guard")
    /\ UNCHANGED <<admission, coordinator, ticket, c_seq, c_woken, commitShutdownVars>>

DropPublicationGuard(h) ==
    /\ c_pc[h] = "guard"
    /\ PendingFinish
    /\ GotoHandle(h, "free")
    /\ UNCHANGED <<admission, coordinator, ticket, c_seq, c_woken>>

(* #[derive(Clone)] of LifecycleCommitTicket: h2 becomes another owner of h's ticket. *)
Clone(h, h2) ==
    /\ c_pc[h] = "held" /\ c_pc[h2] = "free"
    /\ c_seq' = [c_seq EXCEPT ![h2] = c_seq[h]]
    /\ GotoHandle(h2, "held")
    /\ UNCHANGED <<admission, coordinator, count, ticket, c_woken, commitShutdownVars>>

(***************************************************************************)
(* LifecycleCommitTicket.wait_for_turn.  The compare_exchange decides      *)
(* between the claim and the wait for the claimer.                         *)
(***************************************************************************)
wait_for_turn(h) ==
    /\ c_pc[h] = "held"
    /\ IF ticket[c_seq[h]] = "pending"
       THEN GotoHandle(h, "claim") /\ ticket' = [ticket EXCEPT ![c_seq[h]] = "claimed"]
       ELSE GotoHandle(h, "watch") /\ UNCHANGED ticket
    /\ UNCHANGED <<admission, coordinator, count, c_seq, c_woken, commitShutdownVars>>

CommitEnable(h) ==
    /\ \/ c_pc[h] = "claim" /\ GotoHandle(h, "claim_enabled")
       \/ c_pc[h] = "watch" /\ GotoHandle(h, "watch_enabled")
    /\ c_woken' = [c_woken EXCEPT ![h] = FALSE]
    /\ UNCHANGED <<admission, coordinator, count, ticket, c_seq, commitShutdownVars>>

CommitCheckTurn(h) ==
    /\ c_pc[h] = "claim_enabled"
    /\ GotoHandle(h, IF next_sequence = c_seq[h] THEN "turn" ELSE "claim_checked")
    /\ UNCHANGED <<admission, coordinator, count, ticket, c_seq, c_woken, commitShutdownVars>>

CheckFinished(h) ==
    /\ c_pc[h] = "watch_enabled"
    /\ GotoHandle(h, IF ticket[c_seq[h]] = "finished" THEN "empty" ELSE "watch_checked")
    /\ UNCHANGED <<admission, coordinator, count, ticket, c_seq, c_woken, commitShutdownVars>>

CommitAwait(h) ==
    /\ \/ c_pc[h] = "claim_checked" /\ GotoHandle(h, "claim_parked")
       \/ c_pc[h] = "watch_checked" /\ GotoHandle(h, "watch_parked")
    /\ UNCHANGED <<admission, coordinator, count, ticket, c_seq, c_woken, commitShutdownVars>>

CommitResume(h) ==
    /\ c_woken[h]
    /\ \/ c_pc[h] = "claim_parked" /\ GotoHandle(h, "claim")
       \/ c_pc[h] = "watch_parked" /\ GotoHandle(h, "watch")
    /\ UNCHANGED <<admission, coordinator, count, ticket, c_seq, c_woken, commitShutdownVars>>

(***************************************************************************)
(* finish_once: swap, coordinator.finish, finish_pending_once + `finished`.*)
(***************************************************************************)
Swap(h, state) == /\ ticket' = [ticket EXCEPT ![c_seq[h]] = "finished"]
                  /\ GotoHandle(h, state)
                  /\ UNCHANGED <<admission, coordinator, count, c_seq, c_woken, commitShutdownVars>>

(* Drop of the LifecycleCommitTurn once publication is complete. *)
DropTurn(h) == c_pc[h] = "turn" /\ Swap(h, "leaving")

(* The future of wait_for_turn is dropped: its ClaimGuard finishes the position. *)
CancelClaim(h) == c_pc[h] \in Claiming /\ Swap(h, "abandoning")

(* A handle is dropped; the last one drops LifecycleCommitTicketInner. *)
DropHandle(h) ==
    /\ c_pc[h] \in Idle \cup Watching
    /\ IF Owners(c_seq[h]) = {h} /\ ticket[c_seq[h]] # "finished"
       THEN Swap(h, "abandoning")
       ELSE /\ GotoHandle(h, "free")
            /\ UNCHANGED <<admission, coordinator, count, ticket, c_seq, c_woken, commitShutdownVars>>

(* Notify::notify_waiters reaches the futures that are enabled. *)
NotifyWaiters(states) == c_woken' = [h \in Handles |-> c_woken[h] \/ c_pc[h] \in states]

\* Mutant: the position after the next one is assumed to be finished too.
FinishSkipsOne(h) ==
    /\ c_pc[h] \in {"leaving", "abandoning"}
    /\ LET s == c_seq[h] IN
       \/ /\ s = next_sequence
          /\ \E n \in (s + 1)..MaxReservations :
               /\ n \notin c_finished_out_of_order
               /\ n > s + 1 \/ s + 2 > MaxReservations
               /\ next_sequence' = n
               /\ c_finished_out_of_order' = c_finished_out_of_order \ ((s + 1)..(n - 1))
          /\ NotifyWaiters(Claiming \ {"claim"})
       \/ /\ s > next_sequence
          /\ c_finished_out_of_order' = c_finished_out_of_order \cup {s}
          /\ UNCHANGED <<next_sequence, c_woken>>
       \/ /\ s < next_sequence
          /\ UNCHANGED <<next_sequence, c_finished_out_of_order, c_woken>>
    /\ GotoHandle(h, "counting")
    /\ UNCHANGED <<admission, count, ticket, c_seq, commitShutdownVars>>

(* LifecycleCommitCoordinator.finish: the loop stops at the first position *)
(* that is not in finished_out_of_order.                                   *)
finish(h) ==
    /\ c_pc[h] \in {"leaving", "abandoning"}
    /\ LET s == c_seq[h] IN
       \/ /\ s = next_sequence
          /\ \E n \in (s + 1)..MaxReservations :
               /\ n \notin c_finished_out_of_order
               /\ (s + 1)..(n - 1) \subseteq c_finished_out_of_order
               /\ next_sequence' = n
               /\ c_finished_out_of_order' = c_finished_out_of_order \ ((s + 1)..(n - 1))
          /\ NotifyWaiters(Claiming \ {"claim"})
       \/ /\ s > next_sequence
          /\ c_finished_out_of_order' = c_finished_out_of_order \cup {s}
          /\ UNCHANGED <<next_sequence, c_woken>>
       \/ /\ s < next_sequence
          /\ UNCHANGED <<next_sequence, c_finished_out_of_order, c_woken>>
    /\ GotoHandle(h, "counting")
    /\ UNCHANGED <<admission, count, ticket, c_seq, commitShutdownVars>>

finish_pending_once(h) ==
    /\ c_pc[h] = "counting"
    /\ PendingFinish
    /\ GotoHandle(h, "empty")
    /\ c_woken' = [g \in Handles |-> c_woken[g] \/ (c_seq[g] = c_seq[h] /\ c_pc[g] \in Watching \ {"watch"})]
    /\ UNCHANGED <<admission, coordinator, ticket, c_seq>>

(***************************************************************************)
(* The shutdown task: close, wait_until_idle, seal, wait_until_idle.       *)
(***************************************************************************)
close == /\ c_phase = "open"
         /\ c_accepting' = FALSE
         /\ c_phase' = "closing" /\ c_barrier' = "loop"
         /\ UNCHANGED <<accepting_publications, reserved, coordinator, count, ticket, c_pc, c_seq,
                        c_woken, idle_woken>>

seal_publications ==
    /\ c_phase = "closed"
    /\ c_accepting' = FALSE /\ accepting_publications' = FALSE
    /\ c_phase' = "sealing" /\ c_barrier' = "loop"
    /\ UNCHANGED <<reserved, coordinator, count, ticket, c_pc, c_seq, c_woken, idle_woken>>

wait_until_idle ==
    /\ \/ c_barrier = "loop" /\ c_barrier' = "enabled" /\ idle_woken' = FALSE /\ UNCHANGED c_phase
       \/ c_barrier = "enabled" /\ count # 0 /\ c_barrier' = "checked" /\ UNCHANGED <<c_phase, idle_woken>>
       \/ /\ c_barrier = "enabled" /\ count = 0 /\ c_barrier' = "none" /\ UNCHANGED idle_woken
          /\ c_phase' = IF c_phase = "closing" THEN "closed" ELSE "sealed"
       \/ c_barrier = "checked" /\ c_barrier' = "parked" /\ UNCHANGED <<c_phase, idle_woken>>
       \/ c_barrier = "parked" /\ idle_woken /\ c_barrier' = "loop" /\ UNCHANGED <<c_phase, idle_woken>>
    /\ UNCHANGED <<admission, coordinator, count, ticket, c_pc, c_seq, c_woken>>

HandleStep(h) == \/ wait_for_turn(h) \/ CommitEnable(h) \/ CommitCheckTurn(h) \/ CheckFinished(h) \/ CommitAwait(h)
                 \/ CommitResume(h) \/ DropTurn(h) \/ DropHandle(h) \/ finish(h)
                 \/ finish_pending_once(h) \/ DropPublicationGuard(h)

CommitNext == \/ \E h \in Handles : \/ try_reserve(h) \/ track_unordered_publication(h)
                             \/ CancelClaim(h) \/ HandleStep(h)
                             \/ \E h2 \in Handles : Clone(h, h2)
              \/ close \/ seal_publications \/ wait_until_idle

CommitSpec == CommitInit /\ [][CommitNext]_commitVars

(***************************************************************************)
(* Properties.                                                             *)
(***************************************************************************)
(* Every variable keeps the shape its Rust type gives it. *)
CommitTypeOK == /\ c_accepting \in BOOLEAN /\ accepting_publications \in BOOLEAN
                /\ reserved \in 0..MaxReservations /\ next_sequence \in 0..MaxReservations
                /\ c_finished_out_of_order \subseteq Sequences
                /\ count \in Nat
                /\ ticket \in [Sequences -> TicketStates]
                /\ c_pc \in [Handles -> HandleStates]
                /\ c_seq \in [Handles -> 0..MaxReservations]
                /\ c_woken \in [Handles -> BOOLEAN]
                /\ c_phase \in {"open", "closing", "closed", "sealing", "sealed"}
                /\ c_barrier \in {"none", "loop", "enabled", "checked", "parked"} /\ idle_woken \in BOOLEAN

(* Tickets whose finish_once has not reached the coordinator yet. *)
CommitOutstanding == {s \in Sequences :
    \/ ticket[s] \in {"pending", "claimed"}
    \/ \E h \in Handles : c_pc[h] \in {"leaving", "abandoning"} /\ c_seq[h] = s}

(* The position whose turn is being used. *)
CommitInside == {c_seq[h] : h \in {g \in Handles : c_pc[g] \in {"turn", "leaving"}}}

(* The shutdown barriers mean what drain_lifecycle_hooks_before_deadline and *)
(* the listener rely on: after close_and_wait every ordered commit has been  *)
(* passed by the coordinator, and after seal_and_wait nothing at all is left *)
(* or can start.                                                             *)
BarrierIsFinal ==
    /\ c_phase \in {"closed", "sealing", "sealed"} =>
          CommitOutstanding = {} /\ next_sequence = reserved /\ c_finished_out_of_order = {}
    /\ c_phase = "sealed" => count = 0 /\ \A h \in Handles : c_pc[h] \notin {"guard", "turn"}

(* No reserved ticket is unfinished, and no barrier waits; close_and_wait  *)
(* may be delayed by unordered publications, but by nothing else.          *)
NothingWaits ==
    /\ \A s \in Sequences : ticket[s] \notin {"pending", "claimed"}
    /\ c_phase # "sealing"
    /\ c_phase # "closing" \/ \E h \in Handles : c_pc[h] = "guard"

(* The commit order implements the turn order its users rely on. *)
CommitOrder == INSTANCE TurnOrder WITH outstanding <- CommitOutstanding, inside <- CommitInside

CommitOrderSpec == CommitOrder!Spec
=============================================================================
