-------------------------- MODULE RequestAdmission --------------------------
(***************************************************************************)
(* The gate between requests and shutdown (rmux-server handler_shutdown.rs *)
(* NormalRequestAdmission, listener.rs).  A request looks at the gate,     *)
(* counts itself and looks again; the listener closes the gate and polls   *)
(* the counters.  Every step is one atomic operation, so requests of other *)
(* threads come between any two of them.                                   *)
(*                                                                         *)
(* Requests of DrainRequests mutate state and must not be cut; the others  *)
(* may be cancelled once the grace period is over.                         *)
(***************************************************************************)
EXTENDS Naturals, FiniteSets

CONSTANTS Requests, DrainRequests

ASSUME RequestsAssumption == IsFiniteSet(Requests) /\ DrainRequests \subseteq Requests

VARIABLES open, active, active_drain,
          pc,         \* where each request is
          listener    \* the listener's progress through shutdown

admissionVars == <<open, active, active_drain, pc, listener>>

AdmissionInit == /\ open = TRUE /\ active = 0 /\ active_drain = 0
                 /\ pc = [r \in Requests |-> "idle"]
                 /\ listener = "serving"

Move(r, from, to) == pc[r] = from /\ pc' = [pc EXCEPT ![r] = to]

(***************************************************************************)
(* try_begin                                                               *)
(***************************************************************************)
PreCheck(r) ==
    /\ open
    /\ Move(r, "idle", "checked")
    /\ UNCHANGED <<open, active, active_drain, listener>>

Count(r) ==
    /\ Move(r, "checked", "counted")
    /\ active' = active + 1
    /\ UNCHANGED <<open, active_drain, listener>>

CountDrain(r) ==
    /\ Move(r, "counted", "guarded")
    /\ active_drain' = IF r \in DrainRequests THEN active_drain + 1 ELSE active_drain
    /\ UNCHANGED <<open, active, listener>>

\* Mutant: the gate is not looked at again after counting.
NoPostCheck(r) ==
    /\ Move(r, "guarded", "running")
    /\ UNCHANGED <<open, active, active_drain, listener>>

PostCheck(r) ==
    /\ IF open THEN Move(r, "guarded", "running") ELSE Move(r, "guarded", "leaving")
    /\ UNCHANGED <<open, active, active_drain, listener>>

(***************************************************************************)
(* The request ends and its NormalRequestGuard is dropped.  While shutting *)
(* down, the connection of a cancellable request may be aborted.           *)
(***************************************************************************)
Finish(r) ==
    /\ Move(r, "running", "leaving")
    /\ UNCHANGED <<open, active, active_drain, listener>>

DropDrain(r) ==
    /\ Move(r, "leaving", "left")
    /\ active_drain' = IF r \in DrainRequests THEN active_drain - 1 ELSE active_drain
    /\ UNCHANGED <<open, active, listener>>

DropCount(r) ==
    /\ Move(r, "left", "idle")
    /\ active' = active - 1
    /\ UNCHANGED <<open, active_drain, listener>>

(***************************************************************************)
(* The listener: close_normal_request_admission, then the quiesce wait     *)
(* with its grace period, then abort_all for what is left.                 *)
(***************************************************************************)
close_normal_request_admission ==
    /\ listener = "serving" /\ listener' = "quiescing"
    /\ open' = FALSE
    /\ UNCHANGED <<active, active_drain, pc>>

normal_requests_quiesced ==
    /\ listener = "quiescing" /\ active = 0
    /\ listener' = "quiesced"
    /\ UNCHANGED <<open, active, active_drain, pc>>

QuiesceGraceExpires ==
    /\ listener = "quiescing" /\ active # 0
    /\ listener' = "grace_expired"
    /\ UNCHANGED <<open, active, active_drain, pc>>

normal_drain_requests_quiesced ==
    /\ listener = "grace_expired" /\ active_drain = 0
    /\ listener' = "drained"
    /\ UNCHANGED <<open, active, active_drain, pc>>

abort_all(r) ==
    /\ listener = "drained"
    /\ Move(r, "running", "leaving")
    /\ UNCHANGED <<open, active, active_drain, listener>>

RequestStep(r) == PreCheck(r) \/ Count(r) \/ CountDrain(r) \/ PostCheck(r) \/ DropDrain(r) \/ DropCount(r)
ListenerStep == normal_requests_quiesced \/ QuiesceGraceExpires \/ normal_drain_requests_quiesced

AdmissionNext == \/ \E r \in Requests : RequestStep(r) \/ Finish(r) \/ abort_all(r)
                 \/ close_normal_request_admission \/ ListenerStep

AdmissionSpec == AdmissionInit /\ [][AdmissionNext]_admissionVars

(***************************************************************************)
(* Properties.                                                             *)
(***************************************************************************)
(* The counters are naturals: no guard is dropped without having counted. *)
AdmissionTypeOK == /\ open \in BOOLEAN /\ active \in Nat /\ active_drain \in Nat
                   /\ pc \in [Requests -> {"idle", "checked", "counted", "guarded", "running", "leaving", "left"}]
                   /\ listener \in {"serving", "quiescing", "grace_expired", "quiesced", "drained"}

(* Closing is the linearization point the listener's comment claims: once *)
(* the counter was seen at zero, no request runs or will ever run.        *)
QuiesceIsFinal == listener = "quiesced" => \A r \in Requests : pc[r] # "running"

(* Once the drain counter was seen at zero, no mutating request runs or   *)
(* ever will, so what is aborted afterwards is safe to cut.               *)
DrainBarrierIsFinal == listener \in {"quiesced", "drained"} => \A r \in DrainRequests : pc[r] # "running"

(* Both barriers, as the shutdown relies on them. *)
BarriersAreFinal == QuiesceIsFinal /\ DrainBarrierIsFinal

(* The counters say exactly which guards exist (Counted and Guarded). *)
Counted == {r \in Requests : pc[r] \in {"counted", "guarded", "running", "leaving", "left"}}
Guarded == {r \in DrainRequests : pc[r] \in {"guarded", "running", "leaving"}}
CountersAreExact == active = Cardinality(Counted) /\ active_drain = Cardinality(Guarded)

(* Shutdown is not waiting for requests. *)
ShutdownPassed == listener \notin {"quiescing", "grace_expired"}
=============================================================================
