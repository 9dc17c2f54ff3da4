------------------------- MODULE LifecycleShutdown -------------------------
(***************************************************************************)
(* The lifecycle pipeline as a whole and the way the daemon stops it       *)
(* (rmux-server handler_lifecycle.rs, handler/lifecycle_dispatch_queue.rs, *)
(* listener/lifecycle_shutdown.rs, listener.rs).                           *)
(*                                                                         *)
(* A mutation takes a slot and a post-commit position, commits in its turn *)
(* under the state lock, and there prepares its event: with a commit       *)
(* ticket, or, when it runs inside a hook or tickets are closed, as an     *)
(* unordered publication.  Emitting the event releases the post-commit     *)
(* turn and spawns the publication, which in commit order dispatches the   *)
(* control effects and puts the event into the bounded outbox.  The only   *)
(* consumer of the outbox runs the event's hooks, whose commands are       *)
(* mutations again.  Shutdown drains this against a deadline, falls back   *)
(* to aborting the consumer, and then closes everything for good.          *)
(*                                                                         *)
(* The two turn dispensers appear here as what TurnOrder promises: queues  *)
(* whose head holds the turn.                                              *)
(***************************************************************************)
EXTENDS Naturals, Sequences

CONSTANTS RequestMutations,    \* mutations of admitted client requests (normal lane)
          ProducerMutations,   \* delayed mutations with a position, such as clipboard answers (normal lane)
          HookMutations,       \* mutations made by hook commands (lifecycle-hook lane)
          SlotCapacity,        \* capacity of the post-commit sequencer
          OutboxCapacity,      \* capacity of the lifecycle dispatch queue
          None

(* A mutation is of one kind, and "nothing" is none of them. *)
ASSUME MutationsAssumption ==
    /\ HookMutations \cap (RequestMutations \cup ProducerMutations) = {}
    /\ RequestMutations \cap ProducerMutations = {}
    /\ None \notin RequestMutations \cup ProducerMutations \cup HookMutations \cup {"Drained", "Forced"}
    /\ SlotCapacity \in Nat /\ OutboxCapacity \in Nat

VARIABLES mutation,                    \* where each mutation is
          publication,                 \* where the publication of its event is
          ticketed,                    \* events that own a commit ticket
          discarded,                   \* events dropped because publications were sealed
          post_commit,                 \* PostCommitSequencer: outstanding positions, head in turn
          lane_open,                   \* its accepting_normal, accepting_lifecycle_hook
          commit_order,                \* LifecycleCommitOrder: outstanding tickets, head in turn
          l_accepting, l_accepting_publications,
          outbox, free_slots, l_active, receiver,  \* LifecycleDispatchOutbox and its mpsc channel
          consumer, item, command,     \* the hook task, its event and the hook command it awaits
          l_phase, hook_shutdown,      \* the listener's shutdown, and its signal to the consumer
          outcome,                     \* LifecycleHookShutdownOutcome
          committed, hooked,           \* history: ticketed commits, hooks run,
          effects, unordered           \* control effects dispatched with and without a commit turn

mutationVars == <<mutation, publication, ticketed, discarded>>
turnVars == <<post_commit, lane_open, commit_order, l_accepting, l_accepting_publications>>
outboxVars == <<outbox, free_slots, l_active, receiver>>
consumerVars == <<consumer, item, command>>
shutdownVars == <<l_phase, hook_shutdown, outcome>>
history == <<committed, hooked, effects, unordered>>
pipelineVars == <<mutationVars, turnVars, outboxVars, consumerVars, shutdownVars, history>>

Mutations == RequestMutations \cup ProducerMutations \cup HookMutations
Lane(m) == IF m \in HookMutations THEN "LifecycleHook" ELSE "Normal"

Members(queue) == {queue[i] : i \in DOMAIN queue}
Begins(queue, whole) == Len(queue) <= Len(whole) /\ \A i \in DOMAIN queue : queue[i] = whole[i]

(* Mutations that own capacity, and publications that shutdown has to wait for. *)
Sequenced == Members(post_commit)
Pending == {m \in Mutations : publication[m] \notin {"none", "done"}}

PipelineInit == /\ mutation = [m \in Mutations |-> "free"]
                /\ publication = [m \in Mutations |-> "none"]
                /\ ticketed = {} /\ discarded = {}
                /\ post_commit = <<>> /\ commit_order = <<>>
                /\ lane_open = [l \in {"Normal", "LifecycleHook"} |-> TRUE]
                /\ l_accepting = TRUE /\ l_accepting_publications = TRUE
                /\ outbox = <<>> /\ free_slots = OutboxCapacity /\ l_active = TRUE /\ receiver = "open"
                /\ consumer = "recv" /\ item = None /\ command = None
                /\ l_phase = "open" /\ hook_shutdown = FALSE /\ outcome = None
                /\ committed = <<>> /\ hooked = <<>> /\ effects = <<>> /\ unordered = {}

(* The head of a queue gives up its turn; who has none (left) changes nothing. *)
LeaveTurn(queue, m) == IF queue # <<>> /\ queue[1] = m THEN Tail(queue) ELSE queue

MutationAt(m, state) == mutation' = [mutation EXCEPT ![m] = state]
PublicationAt(m, state) == publication' = [publication EXCEPT ![m] = state]

(***************************************************************************)
(* A mutation (for instance handle_delete_buffer).  "refused": it ended    *)
(* with an error and changed nothing.                                      *)
(***************************************************************************)
(* Requests are admitted until the gate closes; a delayed producer may fire later. *)
BeginMutation(m) ==
    /\ mutation[m] = "free"
    /\ m \in ProducerMutations \/ (m \in RequestMutations /\ l_phase = "open")
    /\ MutationAt(m, "acquiring")
    /\ UNCHANGED <<publication, ticketed, discarded, turnVars, outboxVars, consumerVars, shutdownVars, history>>

(* acquire_capacity and sequence; refused once the lane is closed. *)
AcquireAndSequence(m) ==
    /\ mutation[m] = "acquiring"
    /\ IF lane_open[Lane(m)]
       THEN /\ Len(post_commit) < SlotCapacity
            /\ MutationAt(m, "waiting")
            /\ post_commit' = Append(post_commit, m)
       ELSE /\ MutationAt(m, "refused")
            /\ UNCHANGED post_commit
    /\ UNCHANGED <<publication, ticketed, discarded, lane_open, commit_order, l_accepting, l_accepting_publications,
                   outboxVars, consumerVars, shutdownVars, history>>

(* The event is prepared under the state lock (prepare_lifecycle_event,     *)
(* sequence_prepared_lifecycle_event).  Hooks are disabled inside hook      *)
(* commands, so their events never get a ticket.                            *)
PrepareEvent(m) ==
    /\ MutationAt(m, "committed")
    /\ IF m \notin HookMutations /\ l_accepting
       THEN /\ ticketed' = ticketed \cup {m}
            /\ commit_order' = Append(commit_order, m)
            /\ committed' = Append(committed, m)
            /\ PublicationAt(m, "prepared")
            /\ UNCHANGED discarded
       ELSE /\ IF l_accepting_publications
               THEN PublicationAt(m, "prepared") /\ UNCHANGED discarded
               ELSE discarded' = discarded \cup {m} /\ UNCHANGED publication
            /\ UNCHANGED <<ticketed, commit_order, committed>>
    /\ UNCHANGED <<post_commit, lane_open, l_accepting, l_accepting_publications, outboxVars, consumerVars, shutdownVars,
                   hooked, effects, unordered>>

(* A mutation that took a post-commit position commits in its turn. *)
Commit(m) == mutation[m] = "waiting" /\ post_commit[1] = m /\ PrepareEvent(m)

(* Most requests and hook commands need no position (emit, or the events   *)
(* that kill-session prepares): they commit under the state lock alone.    *)
emit(m) == m \in RequestMutations \cup HookMutations /\ mutation[m] = "acquiring" /\ PrepareEvent(m)

(* A mutation that fails in its turn (no such buffer) has no event. *)
FailInTurn(m) ==
    /\ mutation[m] = "waiting" /\ post_commit[1] = m
    /\ MutationAt(m, "refused")
    /\ post_commit' = Tail(post_commit)
    /\ UNCHANGED <<publication, ticketed, discarded, lane_open, commit_order, l_accepting, l_accepting_publications,
                   outboxVars, consumerVars, shutdownVars, history>>

\* Mutant: the post-commit turn is kept until the publication is complete.
EmitHoldingTurn(m) ==
    /\ mutation[m] = "committed"
    /\ \/ publication[m] = "prepared" /\ PublicationAt(m, "wait_turn") /\ UNCHANGED <<mutation, post_commit>>
       \/ /\ publication[m] \in {"none", "done"} /\ MutationAt(m, "publishing")
          /\ post_commit' = LeaveTurn(post_commit, m) /\ UNCHANGED publication
    /\ UNCHANGED <<ticketed, discarded, lane_open, commit_order, l_accepting, l_accepting_publications,
                   outboxVars, consumerVars, shutdownVars, history>>

(* emit_prepared: release_current_post_commit_turn, then spawn the publication. *)
emit_prepared(m) ==
    /\ mutation[m] = "committed"
    /\ MutationAt(m, "publishing")
    /\ post_commit' = LeaveTurn(post_commit, m)
    /\ IF publication[m] = "prepared" THEN PublicationAt(m, "wait_turn") ELSE UNCHANGED publication
    /\ UNCHANGED <<ticketed, discarded, lane_open, commit_order, l_accepting, l_accepting_publications,
                   outboxVars, consumerVars, shutdownVars, history>>

(* The response is sent when the publication task has been joined. *)
EndMutation(m) ==
    /\ mutation[m] = "publishing" /\ publication[m] \in {"none", "done"}
    /\ MutationAt(m, "done")
    /\ UNCHANGED <<publication, ticketed, discarded, turnVars, outboxVars, consumerVars, shutdownVars, history>>

(***************************************************************************)
(* The publication task (emit_prepared_inner).                             *)
(***************************************************************************)
(* Wait for the commit turn when there is a ticket; dispatch control effects. *)
DispatchEffects(m) ==
    /\ publication[m] = "wait_turn"
    /\ IF m \in ticketed
       THEN commit_order[1] = m /\ effects' = Append(effects, m) /\ UNCHANGED unordered
       ELSE unordered' = unordered \cup {m} /\ UNCHANGED effects
    /\ PublicationAt(m, IF m \in ticketed THEN "send" ELSE "done")
    /\ UNCHANGED <<mutation, ticketed, discarded, turnVars, outboxVars, consumerVars, shutdownVars, committed, hooked>>

(* The end of emit_prepared_inner drops the commit turn. *)
EndPublication(m) == /\ PublicationAt(m, "done")
                     /\ commit_order' = LeaveTurn(commit_order, m)

\* Mutant: the commit turn is dropped before the event is in the outbox.
SendAfterTurn(m) ==
    /\ publication[m] = "send"
    /\ IF l_active THEN PublicationAt(m, "reserve") /\ commit_order' = LeaveTurn(commit_order, m) ELSE EndPublication(m)
    /\ UNCHANGED <<mutation, ticketed, discarded, post_commit, lane_open, l_accepting, l_accepting_publications,
                   outboxVars, consumerVars, shutdownVars, history>>

(* send_if_active: check, reserve().await, check again, send. *)
CheckActive(m) ==
    /\ publication[m] = "send"
    /\ IF l_active THEN PublicationAt(m, "reserve") /\ UNCHANGED commit_order ELSE EndPublication(m)
    /\ UNCHANGED <<mutation, ticketed, discarded, post_commit, lane_open, l_accepting, l_accepting_publications,
                   outboxVars, consumerVars, shutdownVars, history>>

Reserve(m) ==
    /\ publication[m] = "reserve"
    /\ IF receiver = "open"
       THEN /\ free_slots > 0 /\ free_slots' = free_slots - 1
            /\ PublicationAt(m, "permit") /\ UNCHANGED commit_order
       ELSE EndPublication(m) /\ UNCHANGED free_slots
    /\ UNCHANGED <<mutation, ticketed, discarded, post_commit, lane_open, l_accepting, l_accepting_publications,
                   outbox, l_active, receiver, consumerVars, shutdownVars, history>>

(* A permit that is dropped unused gives its slot back. *)
Send(m) ==
    /\ publication[m] = "permit"
    /\ IF l_active /\ receiver # "dropped" THEN outbox' = Append(outbox, m) /\ UNCHANGED free_slots
                                         ELSE free_slots' = free_slots + 1 /\ UNCHANGED outbox
    /\ EndPublication(m)
    /\ UNCHANGED <<mutation, ticketed, discarded, post_commit, lane_open, l_accepting, l_accepting_publications,
                   l_active, receiver, consumerVars, shutdownVars, history>>

(***************************************************************************)
(* consume_lifecycle_hooks.                                                *)
(***************************************************************************)
Recv ==
    /\ consumer \in {"recv", "drain"} /\ outbox # <<>>
    /\ item' = Head(outbox) /\ outbox' = Tail(outbox) /\ free_slots' = free_slots + 1
    /\ consumer' = IF consumer = "recv" THEN "hook" ELSE "drain_hook"
    /\ UNCHANGED <<mutationVars, turnVars, l_active, receiver, command, shutdownVars, history>>

(* A hook command of the event starts a mutation and awaits it. *)
RunHookCommand(m) ==
    /\ consumer \in {"hook", "drain_hook"} /\ command = None
    /\ m \in HookMutations /\ mutation[m] = "free"
    /\ command' = m
    /\ MutationAt(m, "acquiring")
    /\ UNCHANGED <<publication, ticketed, discarded, turnVars, outboxVars, consumer, item, shutdownVars, history>>

HookCommandReturns ==
    /\ command # None /\ mutation[command] \in {"done", "refused"}
    /\ command' = None
    /\ UNCHANGED <<mutationVars, turnVars, outboxVars, consumer, item, shutdownVars, history>>

EndHook ==
    /\ consumer \in {"hook", "drain_hook"} /\ command = None
    /\ hooked' = Append(hooked, item)
    /\ item' = None
    /\ consumer' = IF consumer = "hook" THEN "recv" ELSE "drain"
    /\ UNCHANGED <<mutationVars, turnVars, outboxVars, command, shutdownVars, committed, effects, unordered>>

(* The shutdown signal: deactivate, close the receiver, drain what is queued. *)
BeginConsumerDrain ==
    /\ consumer = "recv" /\ hook_shutdown
    /\ l_active' = FALSE /\ receiver' = "closed"
    /\ consumer' = "drain"
    /\ UNCHANGED <<mutationVars, turnVars, outbox, free_slots, item, command, shutdownVars, history>>

(* recv returns None once the channel is closed, empty and has all its slots back. *)
EndConsumerDrain ==
    /\ consumer = "drain" /\ outbox = <<>> /\ free_slots = OutboxCapacity
    /\ consumer' = "gone" /\ receiver' = "dropped"
    /\ UNCHANGED <<mutationVars, turnVars, outbox, free_slots, l_active, item, command, shutdownVars, history>>

(***************************************************************************)
(* drain_lifecycle_hooks_before_deadline, then the listener's final drains.*)
(* The producers' own drain is in LifecycleProducers.                      *)
(***************************************************************************)
LaneDrained(l) == \A m \in Sequenced : Lane(m) # l

Proceed(from, to) == l_phase = from /\ l_phase' = to

(* The accept loop ends: close_normal_request_admission. *)
BeginShutdown ==
    /\ Proceed("open", "quiesce")
    /\ UNCHANGED <<mutationVars, turnVars, outboxVars, consumerVars, hook_shutdown, outcome, history>>

(* quiesce_and_drain_connection_tasks waits for every admitted mutation, *)
(* then close_normal_and_drain_post_commit_operations closes the lane.   *)
CloseNormalLane ==
    /\ \/ Proceed("quiesce", "drain_normal") /\ \A m \in RequestMutations : mutation[m] \in {"free", "refused", "done"}
       \/ Proceed("aborted", "forced_drain_normal")
    /\ lane_open' = [lane_open EXCEPT !["Normal"] = FALSE]
    /\ UNCHANGED <<mutationVars, post_commit, commit_order, l_accepting, l_accepting_publications,
                   outboxVars, consumerVars, hook_shutdown, outcome, history>>

NormalLaneDrained ==
    /\ LaneDrained("Normal")
    /\ Proceed("drain_normal", "close_tickets") \/ Proceed("forced_drain_normal", "forced_close_tickets")
    /\ UNCHANGED <<mutationVars, turnVars, outboxVars, consumerVars, hook_shutdown, outcome, history>>

(* close_and_wait_for_lifecycle_publications *)
CloseTickets ==
    /\ Proceed("close_tickets", "wait_tickets") \/ Proceed("forced_close_tickets", "forced_wait_tickets")
    /\ l_accepting' = FALSE
    /\ UNCHANGED <<mutationVars, post_commit, lane_open, commit_order, l_accepting_publications,
                   outboxVars, consumerVars, hook_shutdown, outcome, history>>

TicketsPublished ==
    /\ Pending = {}
    /\ \/ Proceed("wait_tickets", "join_consumer") /\ hook_shutdown' = TRUE /\ UNCHANGED outcome
       \/ Proceed("forced_wait_tickets", "final_close") /\ outcome' = "Forced" /\ UNCHANGED hook_shutdown
    /\ UNCHANGED <<mutationVars, turnVars, outboxVars, consumerVars, history>>

ConsumerJoined ==
    /\ Proceed("join_consumer", "final_close") /\ consumer = "gone"
    /\ outcome' = "Drained"
    /\ UNCHANGED <<mutationVars, turnVars, outboxVars, consumerVars, hook_shutdown, history>>

(* The deadline passes during any of the bounded waits. *)
Deadline ==
    /\ l_phase \in {"drain_normal", "close_tickets", "wait_tickets", "join_consumer"}
    /\ l_phase' = "deadline"
    /\ l_active' = FALSE
    /\ UNCHANGED <<mutationVars, turnVars, outbox, free_slots, receiver, consumerVars, hook_shutdown, outcome, history>>

(* The hook command that is between its commit and its emission without a position. *)
CutByAbort == {m \in HookMutations : m = command /\ mutation[m] = "committed" /\ m \notin Sequenced}

\* Mutant: the fallback leaves the consumer and its receiver alone.
AbortNothing ==
    /\ Proceed("deadline", "aborted")
    /\ UNCHANGED <<mutationVars, turnVars, outboxVars, consumerVars, hook_shutdown, outcome, history>>

(* hook_task.abort(): the receiver is dropped with everything queued.  A    *)
(* hook command with a position runs in a task of its own (run_durable) and *)
(* goes on.  One without is cut at the await it has reached: before its     *)
(* commit it changed nothing; after it ("cut") the events it prepared are   *)
(* dropped, and their publication guards with them; once they are emitted   *)
(* their publication is a task of its own too.                              *)
AbortConsumer ==
    /\ Proceed("deadline", "aborted")
    /\ consumer' = "gone" /\ receiver' = "dropped"
    /\ outbox' = <<>> /\ free_slots' = free_slots + Len(outbox)
    /\ item' = None /\ command' = None
    /\ mutation' = [m \in Mutations |-> IF m = command /\ mutation[m] = "acquiring" THEN "refused"
                                       ELSE IF m \in CutByAbort THEN "cut" ELSE mutation[m]]
    /\ publication' = [m \in Mutations |-> IF m \in CutByAbort THEN "none" ELSE publication[m]]
    /\ UNCHANGED <<ticketed, discarded, turnVars, l_active, hook_shutdown, outcome, history>>

(* close_and_drain_post_commit_operations *)
CloseAllLanes ==
    /\ Proceed("final_close", "final_drain")
    /\ lane_open' = [l \in DOMAIN lane_open |-> FALSE]
    /\ UNCHANGED <<mutationVars, post_commit, commit_order, l_accepting, l_accepting_publications,
                   outboxVars, consumerVars, hook_shutdown, outcome, history>>

\* Mutant: publications are sealed before the last mutations have drained.
SealBeforeDrain ==
    /\ Proceed("final_drain", "sealing")
    /\ l_accepting' = FALSE /\ l_accepting_publications' = FALSE
    /\ UNCHANGED <<mutationVars, post_commit, lane_open, commit_order, outboxVars, consumerVars, hook_shutdown, outcome, history>>

(* seal_and_wait_for_lifecycle_publications *)
SealPublications ==
    /\ Proceed("final_drain", "sealing") /\ Sequenced = {}
    /\ l_accepting' = FALSE /\ l_accepting_publications' = FALSE
    /\ UNCHANGED <<mutationVars, post_commit, lane_open, commit_order, outboxVars, consumerVars, hook_shutdown, outcome, history>>

EndpointReleased ==
    /\ Proceed("sealing", "stopped") /\ Pending = {}
    /\ UNCHANGED <<mutationVars, turnVars, outboxVars, consumerVars, hook_shutdown, outcome, history>>

MutationStep(m) == AcquireAndSequence(m) \/ Commit(m) \/ emit(m) \/ FailInTurn(m) \/ emit_prepared(m) \/ EndMutation(m)
PublicationStep(m) == DispatchEffects(m) \/ CheckActive(m) \/ Reserve(m) \/ Send(m)
ConsumerStep == Recv \/ HookCommandReturns \/ BeginConsumerDrain \/ EndConsumerDrain
ShutdownStep == \/ CloseNormalLane \/ NormalLaneDrained \/ CloseTickets \/ TicketsPublished \/ ConsumerJoined
                \/ AbortConsumer \/ CloseAllLanes \/ SealPublications \/ EndpointReleased

PipelineNext == \/ \E m \in Mutations : BeginMutation(m) \/ MutationStep(m) \/ PublicationStep(m) \/ RunHookCommand(m)
                \/ ConsumerStep \/ EndHook \/ BeginShutdown \/ Deadline \/ ShutdownStep

PipelineSpec == PipelineInit /\ [][PipelineNext]_pipelineVars

(***************************************************************************)
(* Properties.                                                             *)
(***************************************************************************)
(* Every variable keeps its shape; slots and outbox stay within capacity. *)
PipelineTypeOK == /\ mutation \in [Mutations -> {"free", "acquiring", "refused", "waiting", "committed", "cut", "publishing", "done"}]
                  /\ publication \in [Mutations -> {"none", "prepared", "wait_turn", "send", "reserve", "permit", "done"}]
                  /\ ticketed \subseteq Mutations \ HookMutations /\ discarded \subseteq Mutations
                  /\ Sequenced \subseteq Mutations /\ Members(commit_order) \subseteq ticketed
                  /\ Len(post_commit) <= SlotCapacity
                  /\ free_slots \in Nat /\ Len(outbox) + free_slots <= OutboxCapacity
                  /\ l_active \in BOOLEAN /\ receiver \in {"open", "closed", "dropped"}
                  /\ consumer \in {"recv", "hook", "drain", "drain_hook", "gone"}
                  /\ item \in ticketed \cup {None} /\ command \in HookMutations \cup {None}
                  /\ outcome \in {None, "Drained", "Forced"}

(* Control effects of ticketed events become visible in commit order and   *)
(* without a gap, whatever order their publication tasks are scheduled in.  *)
(* The hooks that ran, the one that is running and the queued ones are, in  *)
(* this order, a prefix of the commits: none is skipped, doubled or early.  *)
EventsInCommitOrder ==
    /\ Begins(effects, committed)
    /\ Begins(hooked \o (IF item = None THEN <<>> ELSE <<item>>) \o outbox, committed)

Cut == {m \in Mutations : mutation[m] = "cut"}

(* A drain that reports Drained has run the hooks of every ticketed event  *)
(* and cut no command.  When the endpoint is released nothing is running,  *)
(* queued or pending any more, no event was discarded, and every mutation  *)
(* that committed had its control effects dispatched.  The one exception   *)
(* is the command of the hook that a forced shutdown aborts: if it has no  *)
(* post-commit position and is between its commit and its emission, its    *)
(* change stays and its events are lost.  There is at most one such.       *)
ReleaseIsLast ==
    /\ outcome = "Drained" => Members(hooked) = ticketed /\ Cut = {}
    /\ l_phase = "stopped" =>
        /\ Sequenced = {} /\ Pending = {} /\ consumer = "gone" /\ outbox = <<>>
        /\ discarded = {}
        /\ \A m, k \in Cut : m = k /\ m \in HookMutations
        /\ Members(effects) \cup unordered = {m \in Mutations : mutation[m] \in {"committed", "publishing", "done"}}

(* Every mutation that was begun has been answered. *)
NoMutationWaits == \A m \in Mutations : mutation[m] \in {"free", "done", "refused", "cut"}
=============================================================================
