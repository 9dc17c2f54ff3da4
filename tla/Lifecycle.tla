------------------------------ MODULE Lifecycle -----------------------------
(***************************************************************************)
(* The lifecycle shutdown and the four primitives it is built from, side   *)
(* by side: the request admission gate, the commit order, the post-commit  *)
(* sequencer, the registry of producer tasks, and the pipeline that        *)
(* composes what they promise.  A behaviour runs one of them, chosen by    *)
(* `part`, and leaves the others in their initial states.                  *)
(***************************************************************************)
EXTENDS RequestAdmission, LifecycleCommitOrder, PostCommitSequencer, LifecycleProducers, LifecycleShutdown

VARIABLE part

allVars == <<part, admissionVars, commitVars, sequencerVars, producerVars, pipelineVars>>

LifecycleInit == /\ part \in {"admission", "commit", "post_commit", "producers", "pipeline"}
                 /\ AdmissionInit /\ CommitInit /\ PostCommitInit /\ ProducerInit /\ PipelineInit

LifecycleNext ==
    /\ UNCHANGED part
    /\ \/ /\ part = "admission" /\ AdmissionNext
          /\ UNCHANGED <<commitVars, sequencerVars, producerVars, pipelineVars>>
       \/ /\ part = "commit" /\ CommitNext
          /\ UNCHANGED <<admissionVars, sequencerVars, producerVars, pipelineVars>>
       \/ /\ part = "post_commit" /\ PostCommitNext
          /\ UNCHANGED <<admissionVars, commitVars, producerVars, pipelineVars>>
       \/ /\ part = "producers" /\ ProducerNext
          /\ UNCHANGED <<admissionVars, commitVars, sequencerVars, pipelineVars>>
       \/ /\ part = "pipeline" /\ PipelineNext
          /\ UNCHANGED <<admissionVars, commitVars, sequencerVars, producerVars>>

(***************************************************************************)
(* Fairness.  Threads keep running, mutating requests end and the listener *)
(* polls; a request need not arrive, and a cancellable one (a wait) may    *)
(* run for ever.                                                           *)
(***************************************************************************)
AdmissionFairness ==
    /\ \A r \in Requests : /\ WF_admissionVars(part = "admission" /\ pc[r] # "idle" /\ RequestStep(r))
                          /\ WF_admissionVars(part = "admission" /\ abort_all(r))
    /\ \A r \in DrainRequests : WF_admissionVars(part = "admission" /\ Finish(r))
    /\ WF_admissionVars(part = "admission" /\ ListenerStep)

(***************************************************************************)
(* Publications run in tasks of their own (emit_prepared spawns them), so  *)
(* every handle keeps taking steps; nothing forces a reservation, a clone, *)
(* a cancellation or a shutdown.  A ticket is not passed from clone to     *)
(* clone for ever without being waited on.                                 *)
(***************************************************************************)
CommitFairness ==
    /\ WF_commitVars(part = "commit" /\ wait_until_idle)
    /\ \A h \in Handles : WF_commitVars(part = "commit" /\ HandleStep(h))
    /\ []<>(\A h \in Handles : c_pc[h] # "held")

(***************************************************************************)
(* run_durable spawns the tasks, so each keeps running and ends its turn;  *)
(* nothing forces a new mutation, a cancellation or a shutdown.            *)
(***************************************************************************)
PostCommitFairness ==
    /\ WF_sequencerVars(part = "post_commit" /\ DrainStep)
    /\ \A t \in Tasks : WF_sequencerVars(part = "post_commit" /\ TaskStep(t))

(***************************************************************************)
(* Parents and runners keep running, and a mutation scope is bounded local *)
(* work: a future that is polled again and again leaves its outermost      *)
(* scope, however often it yields in it or opens nested ones.              *)
(***************************************************************************)
ProducerFairness ==
    /\ WF_producerVars(part = "producers" /\ SignalClosing)
    /\ WF_producerVars(part = "producers" /\ wait_until_producers_idle)
    /\ \A p \in Producers :
         /\ WF_producerVars(part = "producers" /\ RunnerStep(p))
         /\ WF_producerVars(part = "producers" /\ (Spawn(p) \/ DropRegistration(p)))
         /\ WF_producerVars(part = "producers" /\ EndHandoff(p))
         /\ <>[]~InFuture(p) \/ []<>(depth[p] = 0)

(***************************************************************************)
(* Mutations and publications are spawned tasks, so each keeps running; a  *)
(* shutdown that started goes on.  Nothing forces a mutation to begin, a   *)
(* hook to run a command or to end, or the shutdown to start.              *)
(***************************************************************************)
PipelineFairness ==
    /\ WF_pipelineVars(part = "pipeline" /\ ConsumerStep)
    /\ WF_pipelineVars(part = "pipeline" /\ ShutdownStep)
    /\ \A m \in Mutations : /\ WF_pipelineVars(part = "pipeline" /\ MutationStep(m))
                           /\ WF_pipelineVars(part = "pipeline" /\ PublicationStep(m))

LifecycleSpec == /\ LifecycleInit /\ [][LifecycleNext]_allVars
                 /\ AdmissionFairness /\ CommitFairness /\ PostCommitFairness /\ ProducerFairness
                 /\ PipelineFairness

(***************************************************************************)
(* Properties.                                                             *)
(***************************************************************************)
TypesOK == AdmissionTypeOK /\ CommitTypeOK /\ PostCommitTypeOK /\ ProducerTypeOK /\ PipelineTypeOK

(* The commit order and the post-commit sequencer both implement the turn  *)
(* order their users rely on: turns are taken one at a time and in the     *)
(* order of the reservations, whatever is cancelled or dropped.            *)
TurnsAreOrdered == CommitOrderSpec /\ PostCommitOrderSpec

(* The barriers of shutdown mean what it relies on: after close_and_wait   *)
(* and seal_and_wait no ticket and no publication is left or can start,    *)
(* and a drained lane of mutations or of producer tasks stays drained.     *)
(* Guards, tickets, slots, registrations and places in the outbox are not  *)
(* given back once too often, nor taken beyond their capacity.             *)
DrainsAreFinal == [](TypesOK /\ BarrierIsFinal /\ DrainIsFinal) /\ ClosingIsFinal

(* Whatever is cancelled, dropped or notified at the wrong moment: every   *)
(* reserved ticket is finished, every mutation is served or refused (slots *)
(* and turns cannot deadlock), and each of the waits that shutdown makes   *)
(* on the four primitives returns.  Reservations and phases only advance,  *)
(* so "again and again nobody waits" says that every wait ends.  And there *)
(* is no lock cycle in the pipeline: if hooks terminate, a mutation that   *)
(* asked for capacity is answered, although the hook that empties the      *)
(* outbox may itself wait for a post-commit turn.                          *)
EveryWaitEnds ==
    /\ []<>(ShutdownPassed /\ NothingWaits /\ PostCommitDrainsReturned /\ ProducerDrainsReturned)
    /\ \A t \in Tasks : []<>(s_pc[t] = "free")
    /\ WF_pipelineVars(part = "pipeline" /\ EndHook) => []<>NoMutationWaits

(* Once the admitted requests have been answered, a hook that never ends     *)
(* cannot hold the shutdown: when the timer of the deadline fires, aborting  *)
(* the consumer frees the blocked senders and the endpoint is released.      *)
StuckHookIsForced ==
    WF_pipelineVars(part = "pipeline" /\ Deadline) => []<>(l_phase \in {"open", "quiesce", "stopped"})
=============================================================================
