-------------------------- MODULE ShutdownProofs ---------------------------
(***************************************************************************)
(* The gates of the shutdown are correct for any number of requests,       *)
(* producers, nested guards, threads and connections.                      *)
(*                                                                         *)
(* The gate of request admission: the counters being exact makes the       *)
(* invariant inductive.  A counter seen at zero means that no guard        *)
(* exists, and with the gate closed the second look of try_begin never     *)
(* admits anyone again.  The registry of producer tasks rests on where a   *)
(* guard can exist.  No exit of the daemon ignores a connection that       *)
(* someone asked to count, because the scheduled retry is as tight as      *)
(* everything asked since it was scheduled.                                *)
(***************************************************************************)
EXTENDS RequestAdmission, LifecycleProducers, ShutdownRequest, Integers, FiniteSetTheorems, TLAPS

(* What makes the two barriers inductive. *)
GateInv == /\ AdmissionTypeOK /\ CountersAreExact
           /\ listener # "serving" => ~open
           /\ QuiesceIsFinal /\ DrainBarrierIsFinal

(* Adding one element to, or taking one out of, a set of requests. *)
LEMMA CardinalityStep ==
    ASSUME NEW A, NEW B, A \subseteq Requests, B \subseteq Requests
    PROVE  /\ Cardinality(A) \in Nat
           /\ Cardinality(A) = 0 => A = {}
           /\ \A r : r \notin A /\ B = A \cup {r} => Cardinality(B) = Cardinality(A) + 1
           /\ \A r : r \in A /\ B = A \ {r} => Cardinality(B) = Cardinality(A) - 1
<1>1. IsFiniteSet(A)
  BY FS_Subset, RequestsAssumption, Zenon
<1>2. Cardinality(A) \in Nat
  BY <1>1, FS_CardinalityType, Zenon
<1>3. Cardinality(A) = 0 => A = {}
  BY <1>1, FS_EmptySet, Zenon
<1>4. ASSUME NEW r, r \notin A, B = A \cup {r} PROVE Cardinality(B) = Cardinality(A) + 1
  BY <1>1, <1>4, FS_AddElement, Zenon
<1>5. ASSUME NEW r, r \in A, B = A \ {r} PROVE Cardinality(B) = Cardinality(A) - 1
  BY <1>1, <1>5, FS_RemoveElement, Zenon
<1> QED
  BY <1>2, <1>3, <1>4, <1>5, Zenon

(* Nothing is counted before the first request. *)
LEMMA InitInv == AdmissionInit => GateInv
<1> SUFFICES ASSUME AdmissionInit PROVE GateInv
  BY Zenon
<1>1. AdmissionTypeOK
  BY Zenon DEF AdmissionInit, AdmissionTypeOK
<1>2. Counted = {} /\ Guarded = {}
  BY RequestsAssumption, Zenon DEF AdmissionInit, Counted, Guarded
<1>3. CountersAreExact
  BY <1>2, FS_EmptySet, Zenon DEF AdmissionInit, CountersAreExact
<1> QED
  BY <1>1, <1>3, Zenon DEF AdmissionInit, GateInv, QuiesceIsFinal, DrainBarrierIsFinal

(* Every step of a request or of the listener preserves the invariant. *)
LEMMA NextInv == GateInv /\ [AdmissionNext]_admissionVars => GateInv'
<1> SUFFICES ASSUME GateInv, [AdmissionNext]_admissionVars PROVE GateInv'
  BY Zenon
<1> USE RequestsAssumption DEF GateInv, AdmissionTypeOK
<1>s. Counted \subseteq Requests /\ Guarded \subseteq Requests /\ Counted' \subseteq Requests /\ Guarded' \subseteq Requests
  BY Zenon DEF Counted, Guarded
<1>z. /\ active = 0 => \A r \in Requests : pc[r] # "running"
      /\ active_drain = 0 => \A r \in DrainRequests : pc[r] # "running"
      /\ \A r \in Requests : pc[r] = "left" => active # 0
      /\ \A r \in DrainRequests : pc[r] = "leaving" => active_drain # 0
  <2>1. Counted = {} \/ Cardinality(Counted) # 0
    BY <1>s, CardinalityStep, Zenon
  <2>2. Guarded = {} \/ Cardinality(Guarded) # 0
    BY <1>s, CardinalityStep, Zenon
  <2>3. (Counted = {} => Cardinality(Counted) = 0) /\ (Guarded = {} => Cardinality(Guarded) = 0)
    BY FS_EmptySet, Zenon
  <2>4. \A r \in Requests : pc[r] \in {"running", "left"} => Counted # {}
    BY Zenon DEF Counted
  <2>5. \A r \in DrainRequests : pc[r] \in {"running", "leaving"} => Guarded # {}
    BY Zenon DEF Guarded
  <2> QED
    BY <2>1, <2>2, <2>3, <2>4, <2>5, Zenon DEF CountersAreExact
<1>1. ASSUME NEW r \in Requests, RequestStep(r) \/ Finish(r) \/ abort_all(r) PROVE GateInv'
  <2>1. CASE PreCheck(r)
    <3>1. Counted' = Counted /\ Guarded' = Guarded
      BY <2>1, Zenon DEF PreCheck, Move, Counted, Guarded
    <3> QED
      BY <2>1, <3>1, Zenon DEF PreCheck, Move, CountersAreExact, QuiesceIsFinal, DrainBarrierIsFinal
  <2>2. CASE Count(r)
    <3>1. r \notin Counted /\ Counted' = Counted \cup {r} /\ Guarded' = Guarded
      BY <2>2, Zenon DEF Count, Move, Counted, Guarded
    <3>2. Cardinality(Counted') = Cardinality(Counted) + 1
      BY <3>1, <1>s, CardinalityStep, Zenon
    <3> QED
      BY <2>2, <3>1, <3>2 DEF Count, Move, CountersAreExact, QuiesceIsFinal, DrainBarrierIsFinal
  <2>3. CASE CountDrain(r)
    <3>1. Counted' = Counted
      BY <2>3, Zenon DEF CountDrain, Move, Counted
    <3>2. CASE r \in DrainRequests
      <4>1. r \notin Guarded /\ Guarded' = Guarded \cup {r}
        BY <2>3, <3>2, Zenon DEF CountDrain, Move, Guarded
      <4>2. Cardinality(Guarded') = Cardinality(Guarded) + 1
        BY <4>1, <1>s, CardinalityStep, Zenon
      <4> QED
        BY <2>3, <3>1, <3>2, <4>2 DEF CountDrain, Move, CountersAreExact, QuiesceIsFinal, DrainBarrierIsFinal
    <3>3. CASE r \notin DrainRequests
      <4>1. Guarded' = Guarded
        BY <2>3, <3>3, Zenon DEF CountDrain, Move, Guarded
      <4> QED
        BY <2>3, <3>1, <3>3, <4>1, Zenon DEF CountDrain, Move, CountersAreExact, QuiesceIsFinal, DrainBarrierIsFinal
    <3> QED
      BY <3>2, <3>3, Zenon
  <2>4. CASE PostCheck(r)
    <3>1. Counted' = Counted /\ Guarded' = Guarded
      BY <2>4, Zenon DEF PostCheck, Move, Counted, Guarded
    <3> QED
      BY <2>4, <3>1, Zenon DEF PostCheck, Move, CountersAreExact, QuiesceIsFinal, DrainBarrierIsFinal
  <2>5. CASE Finish(r) \/ abort_all(r)
    <3>1. Counted' = Counted /\ Guarded' = Guarded
      BY <2>5, Zenon DEF Finish, abort_all, Move, Counted, Guarded
    <3> QED
      BY <2>5, <3>1 DEF Finish, abort_all, Move, CountersAreExact, QuiesceIsFinal, DrainBarrierIsFinal
  <2>6. CASE DropDrain(r)
    <3>1. Counted' = Counted
      BY <2>6, Zenon DEF DropDrain, Move, Counted
    <3>2. CASE r \in DrainRequests
      <4>1. r \in Guarded /\ Guarded' = Guarded \ {r}
        BY <2>6, <3>2, Zenon DEF DropDrain, Move, Guarded
      <4>2. Cardinality(Guarded') = Cardinality(Guarded) - 1
        BY <4>1, <1>s, CardinalityStep, Zenon
      <4>3. active_drain # 0
        BY <2>6, <3>2, <1>z, Zenon DEF DropDrain, Move
      <4> QED
        BY <2>6, <3>1, <3>2, <4>2, <4>3 DEF DropDrain, Move, CountersAreExact, QuiesceIsFinal, DrainBarrierIsFinal
    <3>3. CASE r \notin DrainRequests
      <4>1. Guarded' = Guarded
        BY <2>6, <3>3, Zenon DEF DropDrain, Move, Guarded
      <4> QED
        BY <2>6, <3>1, <3>3, <4>1, Zenon DEF DropDrain, Move, CountersAreExact, QuiesceIsFinal, DrainBarrierIsFinal
    <3> QED
      BY <3>2, <3>3, Zenon
  <2>7. CASE DropCount(r)
    <3>1. r \in Counted /\ Counted' = Counted \ {r} /\ Guarded' = Guarded
      BY <2>7, Zenon DEF DropCount, Move, Counted, Guarded
    <3>2. Cardinality(Counted') = Cardinality(Counted) - 1
      BY <3>1, <1>s, CardinalityStep, Zenon
    <3>3. active # 0
      BY <2>7, <1>z, Zenon DEF DropCount, Move
    <3> QED
      BY <2>7, <3>1, <3>2, <3>3 DEF DropCount, Move, CountersAreExact, QuiesceIsFinal, DrainBarrierIsFinal
  <2> QED
    BY <1>1, <2>1, <2>2, <2>3, <2>4, <2>5, <2>6, <2>7, Zenon DEF RequestStep
<1>2. CASE close_normal_request_admission \/ ListenerStep \/ UNCHANGED admissionVars
  <2>1. pc' = pc /\ active' = active /\ active_drain' = active_drain
    BY <1>2, Zenon DEF close_normal_request_admission, ListenerStep, normal_requests_quiesced, QuiesceGraceExpires,
                normal_drain_requests_quiesced, admissionVars
  <2>2. CountersAreExact'
    BY <2>1, Zenon DEF CountersAreExact, Counted, Guarded
  <2>3. QuiesceIsFinal' /\ DrainBarrierIsFinal'
    BY <1>2, <1>z, <2>1, Zenon DEF close_normal_request_admission, ListenerStep, normal_requests_quiesced,
                QuiesceGraceExpires, normal_drain_requests_quiesced, admissionVars, QuiesceIsFinal, DrainBarrierIsFinal
  <2>4. open' \in BOOLEAN /\ listener' \in {"serving", "quiescing", "grace_expired", "quiesced", "drained"}
    BY <1>2, Zenon DEF close_normal_request_admission, ListenerStep, normal_requests_quiesced,
                QuiesceGraceExpires, normal_drain_requests_quiesced, admissionVars
  <2>5. (listener # "serving" => ~open)'
    BY <1>2, Zenon DEF close_normal_request_admission, ListenerStep, normal_requests_quiesced,
                QuiesceGraceExpires, normal_drain_requests_quiesced, admissionVars
  <2> QED
    BY <2>1, <2>2, <2>3, <2>4, <2>5, Zenon
<1> QED
  BY <1>1, <1>2, Zenon DEF AdmissionNext

(* Any number of requests: the counters never go below zero and every      *)
(* variable keeps its type (NormalRequestAdmission and its guard's drop).  *)
THEOREM AdmissionTypeCorrect == AdmissionSpec => []AdmissionTypeOK
<1>1. GateInv => AdmissionTypeOK
  BY Zenon DEF GateInv
<1> QED
  BY <1>1, InitInv, NextInv, PTL DEF AdmissionSpec

(* Any number of requests: a counter seen at zero after the gate closed    *)
(* stays a promise, nobody the listener did not wait for ever runs.        *)
THEOREM AdmissionClosingIsFinal == AdmissionSpec => []BarriersAreFinal
<1>1. GateInv => BarriersAreFinal
  BY Zenon DEF GateInv, BarriersAreFinal
<1> QED
  BY <1>1, InitInv, NextInv, PTL DEF AdmissionSpec

-----------------------------------------------------------------------------
ScheduledIsTight == scheduled # Unscheduled => \A x \in demanded : tighten(scheduled, x) = scheduled

Exclusions == Connections \cup {None}

LEMMA InitTight == Init => TypeOK /\ ScheduledIsTight
  BY ThreadsAssumption, Zenon DEF Init, TypeOK, ScheduledIsTight

(* The operators on the retry.                                             *)
LEMMA Tightens ==
    ASSUME TypeOK, ScheduledIsTight, NEW x \in Exclusions
    PROVE  /\ effective_exclusion(x) \in Exclusions
           /\ TightenScheduled(x) \/ schedule_shutdown_retry(x) =>
                 scheduled' \in Exclusions \cup {Unscheduled} /\ ScheduledIsTight'
  BY ThreadsAssumption, Zenon DEF TypeOK, ScheduledIsTight, Exclusions, effective_exclusion, TightenScheduled,
     schedule_shutdown_retry, tighten

(* What clients and other tasks do leaves evaluations and retry alone.     *)
LEMMA ServerKeeps == ServerStep /\ TypeOK => TypeOK' /\ UNCHANGED <<evalVars, scheduled, demanded, exiting>>
<1> SUFFICES ASSUME ServerStep, TypeOK PROVE TypeOK' /\ UNCHANGED <<evalVars, scheduled, demanded, exiting>>
  BY Zenon
<1> DEFINE Keeps == UNCHANGED <<evalVars, scheduled, demanded, exiting>>
           Requests_ == requested' \in BOOLEAN /\ reason' \in Reasons \cup {None}
           Clients == /\ client' \in {"none", "attached", "leaving"} /\ control' \in {"none", "free", "bound"}
                      /\ conn' \in [Connections -> {"closed", "open", "request", "answering", "upgraded", "attach", "control",
                                                    "requests", "connections", "queue"}]
           Rest == /\ emptied' \in [Enders -> {"no", "clients", "check", "queue"}]
                   /\ subscribed' \subseteq Connections /\ due' \subseteq Connections \cup {None}
<1> USE DEF worldVars, clientVars, requestVars, historyVars, Connection, AskFor
<1>1. ASSUME NEW c \in Connections, ConnectionStep(c) PROVE Keeps /\ Requests_ /\ Clients /\ Rest
  <2>1. Keeps
    BY <1>1, Zenon DEF ConnectionStep, OpenConnection, BeginRequest, EndRequest, Upgrade, LeaveDetached, CloseConnection,
       Operate, daemon_activity_counts, handle_shutdown_if_idle
  <2>2. Requests_
    BY <1>1, Zenon DEF ConnectionStep, OpenConnection, BeginRequest, EndRequest, Upgrade, LeaveDetached, CloseConnection,
       Operate, daemon_activity_counts, handle_shutdown_if_idle, queue_shutdown_request, TypeOK, Reasons
  <2>3. Clients
    <3>1. \/ conn' = conn
          \/ \E to \in {"closed", "open", "request", "answering", "upgraded", "attach", "control",
                        "requests", "connections", "queue"} : conn' = [conn EXCEPT ![c] = to]
      BY <1>1, Zenon DEF ConnectionStep, OpenConnection, BeginRequest, EndRequest, Upgrade, LeaveDetached, CloseConnection,
         Operate, daemon_activity_counts, CountNone, handle_shutdown_if_idle
    <3>2. client' \in {"none", "attached", "leaving"} /\ control' \in {"none", "free", "bound"}
      BY <1>1, Zenon DEF ConnectionStep, OpenConnection, BeginRequest, EndRequest, Upgrade, LeaveDetached, CloseConnection,
         Operate, daemon_activity_counts, handle_shutdown_if_idle, TypeOK
    <3> QED
      BY <3>1, <3>2 DEF TypeOK
  <2>4. emptied' = emptied
    BY <1>1, Zenon DEF ConnectionStep, OpenConnection, BeginRequest, EndRequest, Upgrade, LeaveDetached, CloseConnection,
       Operate, daemon_activity_counts, handle_shutdown_if_idle
  <2>5. subscribed' \subseteq subscribed \cup {c} /\ due' \subseteq due \cup {c, None}
    BY <1>1, Zenon DEF ConnectionStep, OpenConnection, BeginRequest, EndRequest, Upgrade, LeaveDetached, CloseConnection,
       Operate, handle_new_session, handle_set_option, subscribe_pane_output, daemon_activity_counts, CountNone,
       handle_shutdown_if_idle
  <2> QED
    BY <2>1, <2>2, <2>3, <2>4, <2>5, Zenon DEF TypeOK
<1>2. ASSUME NEW e \in Enders, EndSessions(e) \/ EmptyStep(e) \/ handle_kill_server(e)
      PROVE Keeps /\ Requests_ /\ Clients /\ Rest
  <2>1. Keeps
    BY <1>2, Zenon DEF EndSessions, EmptyStep, ExitClients, CheckEmpty, QueueExitEmpty, handle_kill_server
  <2>2. Requests_
    BY <1>2, Zenon DEF EndSessions, EmptyStep, ExitClients, CheckEmpty, QueueExitEmpty, handle_kill_server,
       queue_shutdown_request, TypeOK, Reasons
  <2>3. Clients
    <3>1. conn' = conn \/ conn' = [conn EXCEPT ![e] = "answering"]
      BY <1>2, Zenon DEF EndSessions, EmptyStep, ExitClients, CheckEmpty, QueueExitEmpty, handle_kill_server, Answers
    <3>2. client' \in {client, "leaving"} /\ control' = control
      BY <1>2, Zenon DEF EndSessions, EmptyStep, ExitClients, CheckEmpty, QueueExitEmpty, handle_kill_server
    <3> QED
      BY <3>1, <3>2 DEF TypeOK
  <2>4. Rest
    <3>1. \/ emptied' = emptied
          \/ \E to \in {"no", "clients", "check", "queue"} : emptied' = [emptied EXCEPT ![e] = to]
      BY <1>2, Zenon DEF EndSessions, EmptyStep, ExitClients, CheckEmpty, QueueExitEmpty, handle_kill_server
    <3>2. subscribed' \subseteq subscribed /\ due' \subseteq due \cup {None}
      BY <1>2, Zenon DEF EndSessions, EmptyStep, ExitClients, CheckEmpty, QueueExitEmpty, handle_kill_server
    <3> QED
      BY <3>1, <3>2 DEF TypeOK
  <2> QED
    BY <2>1, <2>2, <2>3, <2>4, Zenon
<1>3. ASSUME finish_attach \/ EndForwarder \/ BindControl \/ finish_control \/ ExpireRetained \/ ExpireDrain
      PROVE Keeps /\ Requests_ /\ Clients /\ Rest
  <2>1. Keeps /\ Requests_ /\ Clients /\ subscribed' \subseteq Connections /\ due' \subseteq Connections \cup {None}
    BY <1>3, Zenon DEF finish_attach, EndForwarder, BindControl, finish_control, ExpireRetained, ExpireDrain, TypeOK
  <2>2. emptied' = emptied \/ emptied' = [emptied EXCEPT ![None] = "check"]
    BY <1>3, Zenon DEF finish_attach, EndForwarder, BindControl, finish_control, ExpireRetained, ExpireDrain
  <2> QED
    BY <2>1, <2>2 DEF TypeOK
<1>4. Keeps /\ Requests_ /\ Clients /\ Rest
  BY <1>1, <1>2, <1>3, Zenon DEF ServerStep
<1> QED
  BY <1>4, Zenon DEF TypeOK, evalVars

(* Where a look of pending_idle_shutdown_state leads.                      *)
Looks == {"state", "attach", "forwarders", "requests", "connections", "control", "unknown", "stale", "subscriptions"}

LEMMA IdleLooks ==
    ASSUME NEW t \in Threads, pending_idle_shutdown_state(t)
    PROVE  \E from, to \in Looks : At(t, from, to)
<1>1. ASSUME NEW from \in Looks, NEW to \in Looks, TryLock(t, from, to) PROVE \E f, g \in Looks : At(t, f, g)
  BY <1>1, Zenon DEF TryLock, Looks
<1>2. CASE CheckState(t)
  BY <1>1, <1>2, Zenon DEF CheckState, Looks
<1>3. CASE CheckAttached(t)
  BY <1>1, <1>3, Zenon DEF CheckAttached, Looks
<1>4. CASE CheckForwarders(t)
  BY <1>4, Zenon DEF CheckForwarders, Looks
<1>5. CASE CheckRequests(t)
  BY <1>5, Zenon DEF CheckRequests, Looks
<1>6. CASE CheckConnections(t)
  BY <1>1, <1>6, Zenon DEF CheckConnections, Looks
<1>7. CASE CheckControl(t)
  BY <1>1, <1>7, Zenon DEF CheckControl, Looks
<1> QED
  BY <1>2, <1>3, <1>4, <1>5, <1>6, <1>7, Zenon DEF pending_idle_shutdown_state

(* One step of one thread's evaluation.                                    *)
LEMMA EvaluationKeeps ==
    ASSUME TypeOK, ScheduledIsTight, NEW t \in Threads,
           (\E x \in due : BeginEvaluation(t, x)) \/ RunRetry(t) \/ EvaluationStep(t)
    PROVE  /\ TypeOK' /\ ScheduledIsTight'
           /\ eval' = [eval EXCEPT ![t] = eval'[t]] \/ eval' = eval
           /\ exiting' /\ ~exiting => CommitShutdown(t)
<1> USE DEF TypeOK, evalVars, serverVars, worldVars, clientVars, historyVars, requestVars, At, Return
<1>1. ASSUME NEW x \in due, BeginEvaluation(t, x)
      PROVE  /\ TypeOK' /\ ScheduledIsTight' /\ exiting' = exiting
             /\ eval' = [eval EXCEPT ![t] = eval'[t]] \/ eval' = eval
  BY <1>1, Zenon DEF BeginEvaluation, Evaluate, ScheduledIsTight
<1>2. CASE RunRetry(t)
  BY <1>2, ThreadsAssumption DEF RunRetry, Evaluate, ScheduledIsTight
<1>3. CASE ReadReason(t)
  BY <1>3, Zenon DEF ReadReason, ScheduledIsTight
<1>4. CASE ReadExclusion(t)
  <2>1. /\ asked[t] \in Exclusions /\ TightenScheduled(asked[t])
    BY <1>4, Zenon DEF ReadExclusion, Exclusions
  <2>2. effective_exclusion(asked[t]) \in Exclusions /\ scheduled' \in Exclusions \cup {Unscheduled} /\ ScheduledIsTight'
    BY <2>1, Tightens, Zenon
  <2> QED
    BY <1>4, <2>2, Zenon DEF ReadExclusion, Exclusions
<1>5. CASE pending_idle_shutdown_state(t)
  <2>1. PICK from, to \in Looks : At(t, from, to)
    BY <1>5, IdleLooks, Zenon
  <2>2. UNCHANGED <<requestVars, scheduled, exiting, due, worldVars, clientVars, emptied, demanded>>
    BY <1>5, Zenon DEF pending_idle_shutdown_state
  <2>3. eval' \in [Threads -> {"idle", "reason", "exclusion", "state", "attach", "forwarders", "requests", "connections",
                              "control", "stale", "cancel", "unknown", "subscriptions", "retained", "commit"}]
    BY <2>1, SMTT(30) DEF Looks
  <2>4. UNCHANGED <<asked, rsn, eff>> /\ eval' = [eval EXCEPT ![t] = eval'[t]]
    BY <2>1, SMTT(30) DEF Looks
  <2> QED
    BY <2>2, <2>3, <2>4, Zenon DEF ScheduledIsTight
<1>7. CASE CancelFlag(t) \/ CancelReason(t)
  <2>1. CASE CancelFlag(t)
    BY <2>1, Zenon DEF CancelFlag, ScheduledIsTight
  <2>2. CASE CancelReason(t)
    BY <2>2, Zenon DEF CancelReason, ScheduledIsTight
  <2> QED
    BY <1>7, <2>1, <2>2, Zenon
<1>8. CASE Retry(t)
  <2>1. eff[t] \in Exclusions /\ schedule_shutdown_retry(eff[t])
    BY <1>8, Zenon DEF Retry, Exclusions
  <2>2. scheduled' \in Exclusions \cup {Unscheduled} /\ ScheduledIsTight'
    BY <2>1, Tightens, Zenon
  <2> QED
    BY <1>8, <2>2, Zenon DEF Retry, Exclusions
<1>6. CASE CheckSubscriptions(t)
  BY <1>6, Zenon DEF CheckSubscriptions, ScheduledIsTight
<1>9. CASE CheckRetained(t)
  BY <1>9, ZenonT(30) DEF CheckRetained, ScheduledIsTight
<1>10. CASE CommitShutdown(t)
  <2>1. asked[t] \in Exclusions /\ eff[t] \in Exclusions
    BY Zenon DEF Exclusions
  <2>2. tighten(effective_exclusion(asked[t]), eff[t]) \in Exclusions
    BY <2>1, Tightens, Zenon DEF tighten, Exclusions
  <2>3. scheduled' \in Exclusions \cup {Unscheduled} /\ ScheduledIsTight'
    <3>1. CASE schedule_shutdown_retry(tighten(effective_exclusion(asked[t]), eff[t])) \/ TightenScheduled(asked[t])
      BY <2>1, <2>2, <3>1, Tightens, Zenon
    <3>2. CASE UNCHANGED <<scheduled, demanded>>
      BY <3>2, Zenon DEF ScheduledIsTight, Exclusions
    <3> QED
      BY <1>10, <3>1, <3>2, Zenon DEF CommitShutdown
  <2>4. requested' \in BOOLEAN /\ exiting' \in BOOLEAN /\ reason' \in Reasons \cup {None}
    BY <1>10, Zenon DEF CommitShutdown, TakeRequest
  <2> QED
    BY <1>10, <2>3, <2>4, Zenon DEF CommitShutdown, Exclusions
<1> QED
  BY <1>1, <1>2, <1>3, <1>4, <1>5, <1>6, <1>7, <1>8, <1>9, <1>10, Zenon DEF EvaluationStep

(* For any threads, connections and operations: an idle shutdown is taken  *)
(* only on an exclusion as tight as everything that was asked for since    *)
(* the retry was scheduled, although the evaluation read it in an earlier  *)
(* step (the comparison under the retry lock in                            *)
(* request_shutdown_if_pending_excluding_detached_connection).             *)
THEOREM NoExitIgnoresAClient == Spec => ExitScopeIsTight
<1> DEFINE Inv == TypeOK /\ ScheduledIsTight
           Tight == \A t \in Threads : eval[t] = "commit" /\ exiting' /\ ~exiting /\ Idle(rsn[t]) /\ eval'[t] = "idle"
                       => scheduled = Unscheduled \/ \A x \in demanded : tighten(eff[t], x) = eff[t]
<1>1. Inv /\ [Next]_vars => Inv' /\ [Tight]_vars
  <2> SUFFICES ASSUME Inv, [Next]_vars PROVE Inv' /\ [Tight]_vars
    BY Zenon
  <2>1. CASE UNCHANGED vars
    BY <2>1, Zenon DEF vars, requestVars, evalVars, serverVars, worldVars, clientVars, historyVars, TypeOK, ScheduledIsTight
  <2>2. CASE ServerStep
    BY <2>2, ServerKeeps DEF ScheduledIsTight
  <2>3. ASSUME NEW t \in Threads, (\E x \in due : BeginEvaluation(t, x)) \/ RunRetry(t) \/ EvaluationStep(t)
        PROVE  Inv' /\ Tight
    <3>1. /\ Inv' /\ (eval' = [eval EXCEPT ![t] = eval'[t]] \/ eval' = eval)
          /\ exiting' /\ ~exiting => CommitShutdown(t)
      BY <2>3, EvaluationKeeps, Zenon
    <3>2. ASSUME NEW u \in Threads, eval[u] = "commit", exiting', ~exiting, Idle(rsn[u]), eval'[u] = "idle",
                 scheduled # Unscheduled, NEW x \in demanded
          PROVE  tighten(eff[u], x) = eff[u]
      <4>1. u = t /\ CommitShutdown(t)
        BY <3>1, <3>2, Zenon DEF TypeOK
      <4>2. effective_exclusion(asked[t]) = eff[t]
        BY <3>2, <4>1, Zenon DEF CommitShutdown
      <4>3. eff[t] = scheduled \/ eff[t] = None
        BY <3>2, <4>2, Zenon DEF effective_exclusion, tighten
      <4> QED
        BY <3>2, <4>1, <4>3, Zenon DEF ScheduledIsTight, tighten
    <3> QED
      BY <3>1, <3>2, Zenon
  <2> QED
    BY <2>1, <2>2, <2>3, Zenon DEF Next
<1>2. Init => Inv
  BY InitTight, Zenon
<1>3. Inv => TypeOK
  BY Zenon
<1> QED
  BY <1>1, <1>2, <1>3, PTL DEF Spec, ExitScopeIsTight

-----------------------------------------------------------------------------
HandingOff == {"admitted", "handoff", "handoff_closing"}

(* Where a guard can exist: the parent's only during the hand-off, the     *)
(* future's only while it runs, and the cleanup's one during the cleanup.  *)
Scope(p) == /\ handoff[p] => p_pc[p] \in HandingOff
            /\ p_pc[p] \in HandingOff => depth[p] = IF handoff[p] THEN 1 ELSE 0
            /\ p_pc[p] = "free" => depth[p] = 0
            /\ p_pc[p] = "cleanup" => depth[p] = 1

ProducerTypes == /\ p_accepting \in [ProducerLanes -> BOOLEAN] /\ closing \in [ProducerLanes -> BOOLEAN]
                 /\ registrations \in [ProducerLanes -> Int]
                 /\ p_pc \in [Producers -> ProducerStates] /\ p_lane \in [Producers -> ProducerLanes]
                 /\ cleanup \in [Producers -> BOOLEAN] /\ depth \in [Producers -> Nat]
                 /\ rejected \in [Producers -> BOOLEAN] /\ handoff \in [Producers -> BOOLEAN]
                 /\ p_phase \in {"open", "signal_normal", "wait_normal", "normal_drained",
                                 "signal_all", "wait_all", "drained"}

ScopeInv == ProducerTypes /\ \A p \in Producers : Scope(p)

LEMMA InitScope == ProducerInit => ScopeInv
  BY DEF ProducerInit, ScopeInv, ProducerTypes, Scope, HandingOff, ProducerStates, Running, ProducerLanes

(* The steps of one producer, and what they leave alone.                   *)
ProducerStep(p) == \/ \E l \in ProducerLanes, c \in BOOLEAN : try_register(p, l, c)
                   \/ DropRegistration(p) \/ BeginHandoff(p) \/ Spawn(p) \/ EndHandoff(p)
                   \/ RunnerStep(p) \/ try_begin_mutation(p) \/ DropMutationGuard(p) \/ Abort(p)

LEMMA StepScope == ScopeInv /\ [ProducerNext]_producerVars => ScopeInv'
<1> SUFFICES ASSUME ScopeInv, [ProducerNext]_producerVars PROVE ScopeInv'
  BY SMTT(30)
<1> USE DEF ScopeInv, ProducerTypes, Scope, HandingOff, ProducerStates, Running, GotoProducer
<1>1. ASSUME NEW p \in Producers, ProducerStep(p) PROVE ScopeInv'
  <2>1. CASE \E l \in ProducerLanes, c \in BOOLEAN : try_register(p, l, c)
    BY <2>1 DEF try_register
  <2>2. CASE DropRegistration(p)
    BY <2>2 DEF DropRegistration, Unregister
  <2>3. CASE BeginHandoff(p)
    BY <2>3 DEF BeginHandoff, laneVars
  <2>4. CASE Spawn(p)
    BY <2>4, Zenon DEF Spawn, laneVars
  <2>5. CASE EndHandoff(p)
    BY <2>5 DEF EndHandoff, laneVars
  <2>6. ASSUME Cancelled(p), depth[p] = 0, ~handoff[p],
               UNCHANGED <<p_accepting, closing, p_lane, cleanup, handoff, p_phase>>,
               rejected' = rejected
        PROVE  ScopeInv'
    <3>1. Owned(p) \in Int
      BY DEF Owned
    <3> QED
      BY <2>6, <3>1 DEF Cancelled, Unregister
  <2>7. CASE wait_until_handoff_complete(p)
    BY <2>7 DEF wait_until_handoff_complete, Register
  <2>8. CASE HandoffCancelled(p)
    BY <2>6, <2>8 DEF HandoffCancelled
  <2>9. CASE Poll(p)
    <3>1. CASE closing[p_lane[p]] /\ depth[p] = 0
      BY <2>6, <2>9, <3>1, Zenon DEF Poll
    <3>2. CASE ~(closing[p_lane[p]] /\ depth[p] = 0)
      BY <2>9, <3>2, Zenon DEF Poll
    <3> QED
      BY <3>1, <3>2, Zenon
  <2>10. CASE PollDraining(p)
    <3>1. CASE depth[p] = 0
      BY <2>6, <2>10, <3>1, Zenon DEF PollDraining
    <3>2. CASE depth[p] # 0
      BY <2>10, <3>2, Zenon DEF PollDraining
    <3> QED
      BY <3>1, <3>2, Zenon
  <2>11. CASE Yield(p)
    BY <2>11, Zenon DEF Yield, InFuture, laneVars
  <2>12. CASE Complete(p)
    <3>1. CASE rejected[p]
      BY <2>6, <2>12, <3>1, Zenon DEF Complete, InFuture
    <3>2. CASE ~rejected[p]
      <4>1. Owned(p) \in Int
        BY DEF Owned
      <4> QED
        BY <2>12, <3>2, <4>1 DEF Complete, InFuture, Unregister
    <3> QED
      BY <3>1, <3>2, Zenon
  <2>13. CASE EndCleanup(p)
    BY <2>13 DEF EndCleanup, Unregister
  <2>14. CASE try_begin_mutation(p)
    <3>1. CASE depth[p] = 0 /\ ~p_accepting[p_lane[p]]
      <4>1. UNCHANGED <<laneVars, p_pc, p_lane, cleanup, depth, handoff, p_phase>> /\ rejected' = [rejected EXCEPT ![p] = TRUE]
        BY <2>14, <3>1, Zenon DEF try_begin_mutation
      <4> QED
        BY <4>1, Zenon DEF laneVars
    <3>2. CASE ~(depth[p] = 0 /\ ~p_accepting[p_lane[p]])
      <4>1. /\ InFuture(p) /\ UNCHANGED <<laneVars, p_pc, p_lane, cleanup, rejected, handoff, p_phase>>
            /\ depth' = [depth EXCEPT ![p] = @ + 1]
        BY <2>14, <3>2, Zenon DEF try_begin_mutation
      <4> QED
        BY <4>1 DEF InFuture, laneVars
    <3> QED
      BY <3>1, <3>2, Zenon
  <2>15. CASE DropMutationGuard(p)
    BY <2>15 DEF DropMutationGuard, InFuture, laneVars
  <2>16. CASE Abort(p)
    <3>1. Owned(p) \in Int
      BY DEF Owned
    <3> QED
      BY <2>16, <3>1 DEF Abort, Unregister
  <2> QED
    BY <1>1, <2>1, <2>2, <2>3, <2>4, <2>5, <2>7, <2>8, <2>9, <2>10, <2>11, <2>12, <2>13, <2>14, <2>15, <2>16, Zenon
       DEF ProducerStep, RunnerStep
<1>2. CASE StopAccepting
  BY <1>2, Zenon DEF StopAccepting, runnerVars
<1>3. CASE SignalClosing
  BY <1>3, Zenon DEF SignalClosing, runnerVars
<1>4. CASE wait_until_producers_idle
  BY <1>4, Zenon DEF wait_until_producers_idle, laneVars, runnerVars
<1>5. CASE UNCHANGED producerVars
  BY <1>5, Zenon DEF producerVars, laneVars, runnerVars
<1> QED
  BY <1>1, <1>2, <1>3, <1>4, <1>5, Zenon DEF ProducerNext, ProducerStep

(* Any number of producers: closing a lane drops no future and no          *)
(* registration in the middle of a mutation (only the task's owner may, by *)
(* aborting it), and no task runs before it was handed over                *)
(* (run_lifecycle_producer and LifecycleProducerRegistration::drop).       *)
THEOREM MutationsComplete == ProducerSpec => []MutationIsNeverCut
<1>1. ScopeInv => MutationIsNeverCut
  BY Zenon DEF ScopeInv, Scope, HandingOff, MutationIsNeverCut, Running
<1> QED
  BY <1>1, InitScope, StepScope, PTL DEF ProducerSpec

---------------------------------------------------------------------------
(* The registrations of a lane, counted: a producer with lane ln[p] that   *)
(* owns own[p] of them holds the tokens <<p, 1>> .. <<p, own[p]>>.         *)
Tokens(ln, own, l) == {x \in Producers \X {1, 2} : ln[x[1]] = l /\ x[2] <= own[x[1]]}
Others(ln, own, l, p) == {x \in Tokens(ln, own, l) : x[1] # p}

OwnedBy == [p \in Producers |-> Owned(p)]
RegistrationsAreExact == \A l \in ProducerLanes : registrations[l] = Cardinality(Tokens(p_lane, OwnedBy, l))

LEMMA ProducersAreFinite == IsFiniteSet(Producers)
  BY ProducersAssumption, Zenon

USE ProducersAreFinite

(* There are finitely many tokens.                                         *)
LEMMA PairsAreFinite == IsFiniteSet(Producers \X {1, 2})
<1>1. IsFiniteSet({1}) /\ {1, 2} = {1} \cup {2}
  BY FS_Singleton, Zenon
<1>2. IsFiniteSet({1, 2})
  BY <1>1, FS_AddElement, Zenon
<1> QED
  BY <1>2, FS_Product, Zenon

(* The tokens of one producer are counted apart from those of the others.  *)
LEMMA CountApart ==
    ASSUME NEW p \in Producers, NEW l \in ProducerLanes,
           NEW ln \in [Producers -> ProducerLanes], NEW own \in [Producers -> 0 .. 2]
    PROVE  /\ IsFiniteSet(Others(ln, own, l, p)) /\ Cardinality(Others(ln, own, l, p)) \in Nat
           /\ Cardinality(Tokens(ln, own, l)) =
                Cardinality(Others(ln, own, l, p)) + (IF ln[p] = l THEN own[p] ELSE 0)
<1> DEFINE T == Tokens(ln, own, l)
           O == Others(ln, own, l, p)
<1>1. IsFiniteSet(Producers \X {1, 2})
  BY PairsAreFinite, Zenon
<1>2. IsFiniteSet(O) /\ Cardinality(O) \in Nat
  <2>1. O \subseteq Producers \X {1, 2}
    BY Zenon DEF Others, Tokens
  <2> QED
    BY <1>1, <2>1, FS_Subset, FS_CardinalityType, Zenon
<1>3. CASE ln[p] # l \/ own[p] = 0
  <2>1. T = O
    BY <1>3 DEF Tokens, Others
  <2> QED
    BY <1>2, <1>3, <2>1
<1>4. CASE ln[p] = l /\ own[p] = 1
  <2>1. T = O \cup {<<p, 1>>} /\ <<p, 1>> \notin O
    BY <1>4 DEF Tokens, Others
  <2> QED
    BY <1>2, <1>4, <2>1, FS_AddElement, Zenon
<1>5. CASE ln[p] = l /\ own[p] = 2
  <2> DEFINE A == O \cup {<<p, 1>>}
  <2>1. T = A \cup {<<p, 2>>} /\ <<p, 1>> \notin O /\ <<p, 2>> \notin A
    BY <1>5 DEF Tokens, Others
  <2>2. IsFiniteSet(A) /\ Cardinality(A) = Cardinality(O) + 1
    BY <1>2, <2>1, FS_AddElement, Zenon
  <2>3. Cardinality(T) = Cardinality(A) + 1
    <3> HIDE DEF A, T
    <3> QED
      BY <2>1, <2>2, FS_AddElement, Zenon
  <2> QED
    BY <1>2, <1>5, <2>2, <2>3
<1> QED
  BY <1>2, <1>3, <1>4, <1>5

(* A step of one producer that changes its own registrations keeps the     *)
(* count.                                                                  *)
LEMMA CountStep ==
    ASSUME ScopeInv, ScopeInv', RegistrationsAreExact, NEW p \in Producers,
           \A q \in Producers \ {p} : p_pc'[q] = p_pc[q] /\ p_lane'[q] = p_lane[q] /\ cleanup'[q] = cleanup[q],
           p_lane'[p] = p_lane[p] \/ Owned(p) = 0,
           \A l \in ProducerLanes : registrations'[l] = registrations[l] + (IF l = p_lane'[p] THEN Owned(p)' - Owned(p) ELSE 0)
    PROVE  RegistrationsAreExact'
<1>1. /\ OwnedBy \in [Producers -> 0 .. 2] /\ OwnedBy' \in [Producers -> 0 .. 2]
      /\ OwnedBy[p] = Owned(p) /\ OwnedBy'[p] = Owned(p)'
  BY DEF OwnedBy, Owned
<1>2. \A q \in Producers \ {p} : OwnedBy'[q] = OwnedBy[q] /\ p_lane'[q] = p_lane[q]
  BY Zenon DEF OwnedBy, Owned
<1>3. p_lane \in [Producers -> ProducerLanes] /\ p_lane' \in [Producers -> ProducerLanes] /\ registrations \in [ProducerLanes -> Int]
  BY Zenon DEF ScopeInv, ProducerTypes
<1> SUFFICES ASSUME NEW l \in ProducerLanes
             PROVE  registrations'[l] = Cardinality(Tokens(p_lane', OwnedBy', l))
  BY Zenon DEF RegistrationsAreExact
<1>4. Others(p_lane', OwnedBy', l, p) = Others(p_lane, OwnedBy, l, p)
  BY <1>2 DEF Others, Tokens
<1> DEFINE n == Cardinality(Others(p_lane, OwnedBy, l, p))
<1>5. n \in Nat /\ registrations[l] = n + (IF p_lane[p] = l THEN Owned(p) ELSE 0)
  BY <1>1, <1>3, CountApart DEF RegistrationsAreExact
<1>6. Cardinality(Tokens(p_lane', OwnedBy', l)) = n + (IF p_lane'[p] = l THEN Owned(p)' ELSE 0)
  BY <1>1, <1>3, <1>4, CountApart
<1>7. Owned(p) \in Int /\ Owned(p)' \in Int
  BY <1>1
<1> HIDE DEF n
<1> QED
  BY <1>3, <1>5, <1>6, <1>7

(* A lane that stopped accepting does not accept again, and one that was   *)
(* drained has no producer left.                                           *)
LanesInv == /\ p_phase # "open" => ~p_accepting["Normal"]
            /\ p_phase \in {"signal_all", "wait_all", "drained"} => ~p_accepting["LifecycleHook"]
            /\ Drained

ClosingInv == ScopeInv /\ RegistrationsAreExact /\ LanesInv

LEMMA InitClosing == ProducerInit => ClosingInv
<1> SUFFICES ASSUME ProducerInit PROVE ClosingInv
  BY Zenon
<1>1. \A l \in ProducerLanes : Tokens(p_lane, OwnedBy, l) = {}
  BY DEF ProducerInit, Tokens, OwnedBy, Owned
<1>2. RegistrationsAreExact
  BY <1>1, FS_EmptySet, Zenon DEF ProducerInit, RegistrationsAreExact
<1>3. LanesInv
  BY SMTT(30) DEF ProducerInit, LanesInv, Drained
<1> QED
  BY <1>2, <1>3, InitScope, Zenon DEF ClosingInv

(* What a step of one producer does to its registrations.                  *)
LEMMA ProducerRegistrations ==
    ASSUME ScopeInv, NEW p \in Producers, ProducerStep(p)
    PROVE  /\ \A q \in Producers \ {p} : p_pc'[q] = p_pc[q] /\ p_lane'[q] = p_lane[q] /\ cleanup'[q] = cleanup[q]
           /\ p_lane'[p] = p_lane[p] \/ Owned(p) = 0
           /\ \A l \in ProducerLanes : registrations'[l] = registrations[l] + (IF l = p_lane'[p] THEN Owned(p)' - Owned(p) ELSE 0)
           /\ UNCHANGED <<p_accepting, closing, p_phase>>
           /\ p_pc[p] = "free" /\ p_pc'[p] # "free" => p_accepting[p_lane'[p]]
           /\ p_pc[p] # "free" => p_lane'[p] = p_lane[p]
<1> USE DEF ScopeInv, ProducerTypes, GotoProducer, Owned, ProducerStates, Running
<1>1. CASE \E l \in ProducerLanes, c \in BOOLEAN : try_register(p, l, c)
  BY <1>1 DEF try_register
<1>2. CASE DropRegistration(p)
  BY <1>2 DEF DropRegistration, Unregister
<1>3. CASE BeginHandoff(p)
  BY <1>3 DEF BeginHandoff, laneVars
<1>4. CASE Spawn(p)
  BY <1>4 DEF Spawn, laneVars
<1>5. CASE EndHandoff(p)
  BY <1>5 DEF EndHandoff, laneVars
<1>6. CASE wait_until_handoff_complete(p)
  BY <1>6 DEF wait_until_handoff_complete, Register
<1>7. CASE HandoffCancelled(p)
  BY <1>7, SMTT(30) DEF HandoffCancelled, Cancelled, Unregister
<1>8. CASE Poll(p)
  BY <1>8 DEF Poll, Cancelled, Unregister
<1>9. CASE PollDraining(p)
  BY <1>9 DEF PollDraining, Cancelled, Unregister
<1>10. CASE Yield(p)
  BY <1>10, SMTT(30) DEF Yield, InFuture, laneVars
<1>11. CASE Complete(p)
  BY <1>11 DEF Complete, Cancelled, InFuture, Unregister
<1>12. CASE EndCleanup(p)
  BY <1>12 DEF EndCleanup, Unregister
<1>13. CASE try_begin_mutation(p)
  BY <1>13 DEF try_begin_mutation, laneVars
<1>14. CASE DropMutationGuard(p)
  BY <1>14 DEF DropMutationGuard, laneVars
<1>15. CASE Abort(p)
  BY <1>15, SMTT(30) DEF Abort, Unregister
<1> QED
  BY ZenonT(30), <1>1, <1>2, <1>3, <1>4, <1>5, <1>6, <1>7, <1>8, <1>9, <1>10, <1>11, <1>12, <1>13, <1>14, <1>15
     DEF ProducerStep, RunnerStep

LEMMA StepClosing == ClosingInv /\ [ProducerNext]_producerVars => ClosingInv'
<1> SUFFICES ASSUME ClosingInv, [ProducerNext]_producerVars PROVE ClosingInv'
  BY Zenon
<1>0. ScopeInv /\ ScopeInv'
  BY StepScope, Zenon DEF ClosingInv
<1>t. /\ p_lane \in [Producers -> ProducerLanes] /\ OwnedBy \in [Producers -> 0 .. 2]
      /\ p_accepting \in [ProducerLanes -> BOOLEAN] /\ p_pc \in [Producers -> ProducerStates]
  BY <1>0 DEF ScopeInv, ProducerTypes, OwnedBy, Owned
<1>1. ASSUME NEW p \in Producers, ProducerStep(p) PROVE ClosingInv'
  <2>1. RegistrationsAreExact'
    BY <1>0, <1>1, ProducerRegistrations, CountStep, SMTT(30) DEF ClosingInv
  <2>2. /\ \A q \in Producers \ {p} : p_pc'[q] = p_pc[q] /\ p_lane'[q] = p_lane[q]
        /\ UNCHANGED <<p_accepting, p_phase>>
        /\ p_pc[p] = "free" /\ p_pc'[p] # "free" => p_accepting[p_lane'[p]]
        /\ p_pc[p] # "free" => p_lane'[p] = p_lane[p]
    BY <1>0, <1>1, ProducerRegistrations, Zenon
  <2>3. p_lane'[p] \in ProducerLanes
    BY <1>0, Zenon DEF ScopeInv, ProducerTypes
  <2>4. LanesInv'
    BY <2>2, <2>3, Zenon DEF ClosingInv, LanesInv, Drained, ProducerLanes
  <2> QED
    BY <1>0, <2>1, <2>4, SMTT(30) DEF ClosingInv
<1>2. CASE StopAccepting \/ SignalClosing \/ UNCHANGED producerVars
  <2>1. UNCHANGED <<registrations, p_pc, p_lane, cleanup>>
    BY <1>2, Zenon DEF StopAccepting, SignalClosing, producerVars, laneVars, runnerVars
  <2>2. RegistrationsAreExact'
    BY <2>1, Zenon DEF ClosingInv, RegistrationsAreExact, OwnedBy, Owned
  <2>3. LanesInv'
    BY <1>2, <1>t, <2>1, Zenon DEF ClosingInv, LanesInv, Drained, StopAccepting, SignalClosing, Closed, ProducerLanes, producerVars, laneVars
  <2> QED
    BY <1>0, <2>2, <2>3, Zenon DEF ClosingInv
<1>3. CASE wait_until_producers_idle
  <2>1. UNCHANGED <<laneVars, runnerVars>>
    BY <1>3, Zenon DEF wait_until_producers_idle
  <2>2. RegistrationsAreExact'
    BY <2>1, Zenon DEF ClosingInv, RegistrationsAreExact, OwnedBy, Owned, laneVars, runnerVars
  <2>3. \A p \in Producers : p_lane[p] \in Closed => p_pc[p] = "free"
    <3> SUFFICES ASSUME NEW p \in Producers, p_lane[p] \in Closed, p_pc[p] # "free" PROVE FALSE
      BY Zenon
    <3>1. registrations[p_lane[p]] = 0 /\ p_lane[p] \in ProducerLanes
      BY <1>3, <1>t, Zenon DEF wait_until_producers_idle
    <3>2. OwnedBy[p] \in {1, 2}
      BY Zenon DEF OwnedBy, Owned
    <3>3. /\ Cardinality(Others(p_lane, OwnedBy, p_lane[p], p)) \in Nat
          /\ registrations[p_lane[p]] = Cardinality(Others(p_lane, OwnedBy, p_lane[p], p)) + OwnedBy[p]
      BY <1>t, <3>1, CountApart, ZenonT(30) DEF ClosingInv, RegistrationsAreExact
    <3> QED
      BY <3>1, <3>2, <3>3
  <2>4. LanesInv'
    BY <1>3, <1>t, <2>1, <2>3, Zenon DEF ClosingInv, LanesInv, Drained, wait_until_producers_idle, Closed, ProducerLanes, laneVars, runnerVars
  <2> QED
    BY <1>0, <2>2, <2>4, Zenon DEF ClosingInv
<1> QED
  BY <1>1, <1>2, <1>3, Zenon DEF ProducerNext, ProducerStep

(* After a lane stopped accepting, only a cleanup starts to mutate.        *)
LEMMA OnlyCleanupStarts ==
    ScopeInv /\ [ProducerNext]_producerVars =>
      [\A p \in Producers : depth[p] = 0 /\ depth'[p] > 0 /\ ~p_accepting[p_lane[p]] => p_pc'[p] = "cleanup"]_producerVars
<1> SUFFICES ASSUME ScopeInv, [ProducerNext]_producerVars, NEW p \in Producers,
                    depth[p] = 0, depth'[p] > 0, ~p_accepting[p_lane[p]], producerVars' # producerVars
             PROVE  p_pc'[p] = "cleanup"
  BY Zenon
<1> USE DEF ScopeInv, ProducerTypes, GotoProducer
<1>1. ASSUME NEW q \in Producers, ProducerStep(q) PROVE p_pc'[p] = "cleanup"
  <2>1. CASE \E l \in ProducerLanes, c \in BOOLEAN : try_register(q, l, c)
    BY <2>1 DEF try_register
  <2>2. CASE DropRegistration(q)
    BY <2>2 DEF DropRegistration
  <2>3. CASE BeginHandoff(q)
    BY <2>3 DEF BeginHandoff
  <2>4. CASE Spawn(q) \/ Yield(q) \/ wait_until_handoff_complete(q)
    BY <2>4 DEF Spawn, Yield, wait_until_handoff_complete
  <2>5. CASE EndHandoff(q)
    <3>1. depth[q] = 1
      BY <2>5, Zenon DEF EndHandoff, Scope, HandingOff
    <3> QED
      BY <2>5, <3>1 DEF EndHandoff
  <2>6. CASE Cancelled(q)
    BY <2>6 DEF Cancelled
  <2>7. CASE HandoffCancelled(q) \/ Poll(q) \/ PollDraining(q) \/ Complete(q)
    BY <2>6, <2>7 DEF HandoffCancelled, Poll, PollDraining, Complete
  <2>8. CASE EndCleanup(q)
    <3>1. depth[q] = 1
      BY <2>8, Zenon DEF EndCleanup, Scope
    <3> QED
      BY <2>8, <3>1 DEF EndCleanup
  <2>9. CASE try_begin_mutation(q)
    BY <2>9 DEF try_begin_mutation
  <2>10. CASE DropMutationGuard(q)
    BY <2>10 DEF DropMutationGuard
  <2>11. CASE Abort(q)
    BY <2>11 DEF Abort
  <2> QED
    BY <1>1, <2>1, <2>2, <2>3, <2>4, <2>5, <2>7, <2>8, <2>9, <2>10, <2>11, Zenon DEF ProducerStep, RunnerStep
<1>2. CASE StopAccepting \/ SignalClosing \/ wait_until_producers_idle
  BY <1>2 DEF StopAccepting, SignalClosing, wait_until_producers_idle, runnerVars
<1> QED
  BY <1>1, <1>2, Zenon DEF ProducerNext, ProducerStep

(* Any number of producers, in any finite set: the registrations of a lane *)
(* are counted exactly (never below zero), so a drained lane has nothing   *)
(* left, and nothing but a cleanup mutates in a closed one                 *)
(* (LifecycleProducerTasks::close_and_wait).                               *)
THEOREM LanesStayClosed ==
    ProducerSpec => []ProducerTypeOK /\ ClosingIsFinal
<1>1. ClosingInv => ProducerTypeOK
  <2> SUFFICES ASSUME ClosingInv PROVE ProducerTypeOK
    BY Zenon
  <2>1. ASSUME NEW l \in ProducerLanes PROVE Cardinality(Tokens(p_lane, OwnedBy, l)) \in Nat
    <3>2. IsFiniteSet(Producers \X {1, 2})
      BY PairsAreFinite, Zenon
    <3>3. Tokens(p_lane, OwnedBy, l) \subseteq Producers \X {1, 2}
      BY Zenon DEF Tokens
    <3> QED
      BY <3>2, <3>3, FS_Subset, FS_CardinalityType, Zenon
  <2>2. registrations \in [ProducerLanes -> Nat]
    BY <2>1 DEF ClosingInv, ScopeInv, ProducerTypes, RegistrationsAreExact
  <2> QED
    BY <2>2, Zenon DEF ClosingInv, ScopeInv, ProducerTypes, ProducerTypeOK
<1>2. ClosingInv => Drained
  BY Zenon DEF ClosingInv, LanesInv
<1>3. ClosingInv => ScopeInv
  BY Zenon DEF ClosingInv
<1> QED
  BY <1>1, <1>2, <1>3, InitClosing, StepClosing, OnlyCleanupStarts, PTL DEF ProducerSpec, ClosingIsFinal
=============================================================================
