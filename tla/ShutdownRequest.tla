--------------------------- MODULE ShutdownRequest ---------------------------
(***************************************************************************)
(* How a pending shutdown is queued, evaluated, cancelled and retried      *)
(* (rmux-server handler_shutdown.rs, handler_shutdown/retry.rs,            *)
(* handler_daemon.rs, handler_session.rs).                                 *)
(*                                                                         *)
(* request_shutdown_if_pending is synchronous, but the daemon runs handler *)
(* code on its worker thread and on the threads of background tasks        *)
(* (run-shell, if-shell and prompt commands), so two evaluations, or an    *)
(* evaluation and a queued request, interleave at every lock and atomic.   *)
(***************************************************************************)
EXTENDS Naturals, FiniteSets

CONSTANTS Threads,       \* threads that run handler code
          Connections,   \* detached client connections
          MaxOperations, \* bound: what clients and other tasks begin
          None,          \* no reason; as an exclusion: count every connection
          Reaper,        \* the task that kills sessions whose lease expired
          Unscheduled    \* no retry is scheduled

ASSUME ThreadsAssumption == /\ MaxOperations \in Nat /\ Threads # {}
                            /\ {None, Reaper, Unscheduled} \cap Connections = {}
                            /\ None # Reaper /\ Unscheduled # None

VARIABLES requested, reason,   \* shutdown_requested, shutdown_reason
          scheduled,           \* ShutdownRetryState: the exclusion of the scheduled retry
          exiting,             \* ShutdownHandle::request_shutdown was called
          eval, asked, rsn, eff,  \* each thread's evaluation: exclusion asked, reason read, exclusion used
          due,                 \* evaluations that code about to run is going to ask for
          sessions, exit_empty, subscribed, retained,  \* the server: subscribed connections, retained output
          client, control, conn,  \* an attached client, a control client, the detached connections
          emptied,             \* how far each task that ended the last session has come
          operations,          \* how much clients and tasks have begun
          killed, demanded, unseen  \* history: kill-server was queued; exclusions asked since the schedule;
                                    \* the reaper's request, and no evaluation began since

requestVars == <<requested, reason, unseen>>
evalVars == <<eval, asked, rsn, eff>>
worldVars == <<sessions, exit_empty, subscribed, retained>>
clientVars == <<client, control, conn>>
serverVars == <<worldVars, clientVars, emptied, operations>>
historyVars == <<killed, demanded>>
vars == <<requestVars, scheduled, exiting, evalVars, due, serverVars, historyVars>>

Reasons == {"ExitEmpty", "KillServer", "SeamlessUpgradeIdle"}
Idle(r) == r \in {"ExitEmpty", "SeamlessUpgradeIdle"}

(* Who ends the last session: the request of a connection; a task that     *)
(* evaluates afterwards (a pane's exit, a control or background command);  *)
(* the lease reaper.                                                       *)
Enders == Connections \cup {None, Reaper}

Init == /\ requested = FALSE /\ reason = None /\ scheduled = Unscheduled /\ exiting = FALSE
        /\ eval = [t \in Threads |-> "idle"] /\ asked = [t \in Threads |-> None]
        /\ rsn = [t \in Threads |-> None] /\ eff = [t \in Threads |-> None]
        /\ due = {}
        /\ sessions = TRUE /\ exit_empty = TRUE /\ subscribed = {} /\ retained = FALSE
        /\ client = "none" /\ control = "none" /\ conn = [c \in Connections |-> "closed"]
        /\ emptied = [e \in Enders |-> "no"]
        /\ operations = 0
        /\ killed = FALSE /\ demanded = {} /\ unseen = FALSE

(***************************************************************************)
(* The server around it.  Handler code needs a thread.                     *)
(***************************************************************************)
HandlerRuns == ~exiting /\ \E t \in Threads : eval[t] = "idle"
Begin == operations < MaxOperations /\ operations' = operations + 1
Requesting == \E c \in Connections : conn[c] \in {"request", "answering", "upgraded"}

Connection(c, from, to) == HandlerRuns /\ conn[c] = from /\ conn' = [conn EXCEPT ![c] = to]
AskFor(x) == due' = due \cup {x}

OpenConnection(c) ==
    /\ Begin
    /\ Connection(c, "closed", "open")
    /\ UNCHANGED <<requestVars, scheduled, exiting, evalVars, due, worldVars, client, control, emptied, historyVars>>

BeginRequest(c) ==
    /\ Begin
    /\ Connection(c, "open", "request")
    /\ UNCHANGED <<requestVars, scheduled, exiting, evalVars, due, worldVars, client, control, emptied, historyVars>>

(* The response is written, the request's guard dropped, the rest re-evaluated. *)
EndRequest(c) ==
    /\ emptied[c] = "no"
    /\ Connection(c, "request", "open") \/ Connection(c, "answering", "open")
    /\ AskFor(c)
    /\ UNCHANGED <<requestVars, scheduled, exiting, evalVars, worldVars, client, control, emptied, operations, historyVars>>

(* The request registers its client for attaching or for control mode; the *)
(* connection's guards are dropped afterwards and nobody evaluates.        *)
Upgrade(c) ==
    /\ Begin
    /\ Connection(c, "request", "upgraded")
    /\ \/ sessions /\ client = "none" /\ client' = "attached" /\ UNCHANGED control
       \/ control = "none" /\ control' = "free" /\ UNCHANGED client
    /\ UNCHANGED <<requestVars, scheduled, exiting, evalVars, due, worldVars, emptied, historyVars>>

LeaveDetached(c) ==
    /\ Connection(c, "upgraded", "closed")
    /\ UNCHANGED <<requestVars, scheduled, exiting, evalVars, due, worldVars, client, control, emptied, operations, historyVars>>

(* cleanup_connection_subscriptions_sync *)
CloseConnection(c) ==
    /\ Connection(c, "open", "closed")
    /\ subscribed' = subscribed \ {c}
    /\ AskFor(None)
    /\ UNCHANGED <<requestVars, scheduled, exiting, evalVars, sessions, exit_empty, retained, client, control,
                   emptied, operations, historyVars>>

(* What a request may do to the server, as far as an evaluation can see it. *)
handle_new_session == sessions' = TRUE /\ UNCHANGED <<exit_empty, subscribed>>
handle_set_option == exit_empty' = ~exit_empty /\ UNCHANGED <<sessions, subscribed>>
subscribe_pane_output(c) == (sessions \/ retained) /\ subscribed' = subscribed \cup {c} /\ UNCHANGED <<sessions, exit_empty>>

Operate(c) ==
    /\ Begin
    /\ HandlerRuns /\ conn[c] = "request"
    /\ handle_new_session \/ handle_set_option \/ subscribe_pane_output(c)
    /\ UNCHANGED <<requestVars, scheduled, exiting, evalVars, due, retained, clientVars, emptied, historyVars>>

(* The attached client leaves; its forwarder drains its exit frame. *)
finish_attach ==
    /\ HandlerRuns /\ client = "attached"
    /\ client' = "leaving"
    /\ UNCHANGED <<requestVars, scheduled, exiting, evalVars, due, worldVars, control, conn, emptied, operations, historyVars>>

EndForwarder ==
    /\ HandlerRuns /\ client = "leaving"
    /\ client' = "none"
    /\ AskFor(None)
    /\ UNCHANGED <<requestVars, scheduled, exiting, evalVars, worldVars, control, conn, emptied, operations, historyVars>>

(* The control client is bound to a session, or is told to leave. *)
BindControl ==
    /\ HandlerRuns /\ control = "free"
    /\ control' = "bound"
    /\ AskFor(None)
    /\ UNCHANGED <<requestVars, scheduled, exiting, evalVars, worldVars, client, conn, emptied, operations, historyVars>>

(* It is removed, which is evaluated; its task then looks whether the server is empty. *)
finish_control ==
    /\ HandlerRuns /\ control # "none" /\ emptied[None] = "no"
    /\ control' = "none"
    /\ AskFor(None)
    /\ emptied' = [emptied EXCEPT ![None] = "check"]
    /\ UNCHANGED <<requestVars, scheduled, exiting, evalVars, worldVars, client, conn, operations, historyVars>>

(* watch_retained_exited_pane_output *)
ExpireRetained ==
    /\ HandlerRuns /\ retained
    /\ retained' = FALSE
    /\ AskFor(None)
    /\ UNCHANGED <<requestVars, scheduled, exiting, evalVars, sessions, exit_empty, subscribed, clientVars,
                   emptied, operations, historyVars>>

(* cleanup_drained_pane_output_subscriptions_if_idle: the pane of the subscriptions is gone. *)
ExpireDrain ==
    /\ HandlerRuns /\ ~sessions /\ subscribed # {}
    /\ subscribed' = {}
    /\ AskFor(None)
    /\ UNCHANGED <<requestVars, scheduled, exiting, evalVars, sessions, exit_empty, retained, clientVars,
                   emptied, operations, historyVars>>

(* A request that kills the session or the server has then only to answer. *)
Answers(e) == IF e \in Connections THEN Connection(e, "request", "answering") ELSE HandlerRuns /\ UNCHANGED conn

(***************************************************************************)
(* The last session ends: its pane exits (the output may be retained, and  *)
(* subscriptions drain), or it is killed (they go with it, and somebody    *)
(* evaluates).  Its clients are told to leave, and the task that removed   *)
(* it looks whether the server is empty and queues exit-empty.             *)
(***************************************************************************)
EndSessions(e) ==
    /\ Answers(e) /\ sessions /\ emptied[e] = "no"
    /\ sessions' = FALSE
    /\ \/ e = None /\ retained' \in {retained, TRUE} /\ UNCHANGED <<subscribed, due>>
       \/ /\ subscribed' = {} /\ due' = IF subscribed = {} THEN due ELSE due \cup {None}
          /\ UNCHANGED retained
    /\ emptied' = [emptied EXCEPT ![e] = "clients"]
    /\ UNCHANGED <<requestVars, scheduled, exiting, evalVars, exit_empty, client, control, operations, historyVars>>

ExitClients(e) ==
    /\ HandlerRuns /\ emptied[e] = "clients"
    /\ emptied' = [emptied EXCEPT ![e] = "check"]
    /\ client' = IF client = "attached" THEN "leaving" ELSE client
    /\ UNCHANGED <<requestVars, scheduled, exiting, evalVars, due, worldVars, control, conn, operations, historyVars>>

queue_shutdown_request(r) ==
    IF reason = "KillServer" /\ r = "ExitEmpty" THEN UNCHANGED <<requested, reason>>
    ELSE requested' = TRUE /\ reason' = r

(* queue_shutdown_if_server_empty looks under the state lock, then queues. *)
CheckEmpty(e) ==
    /\ HandlerRuns /\ emptied[e] = "check"
    /\ emptied' = [emptied EXCEPT ![e] = IF ~sessions /\ exit_empty THEN "queue" ELSE "no"]
    /\ UNCHANGED <<requestVars, scheduled, exiting, evalVars, due, worldVars, clientVars, operations, historyVars>>

(* The request's connection evaluates when it has answered, the tasks of   *)
(* request_shutdown_if_server_empty at once, the reaper never.             *)
QueueExitEmpty(e) ==
    /\ HandlerRuns /\ emptied[e] = "queue"
    /\ emptied' = [emptied EXCEPT ![e] = "no"]
    /\ queue_shutdown_request("ExitEmpty")
    /\ unseen' = IF reason = "KillServer" THEN unseen ELSE e = Reaper
    /\ due' = IF e = None THEN due \cup {None} ELSE due
    /\ UNCHANGED <<scheduled, exiting, evalVars, worldVars, clientVars, operations, historyVars>>

EmptyStep(e) == ExitClients(e) \/ CheckEmpty(e) \/ QueueExitEmpty(e)

(* A kill-server request, evaluated when it is answered, or one of a control or background command. *)
handle_kill_server(e) ==
    /\ Begin
    /\ Answers(e)
    /\ retained' = FALSE
    /\ queue_shutdown_request("KillServer")
    /\ unseen' = FALSE
    /\ due' = IF e = None THEN due \cup {None} ELSE due
    /\ killed' = TRUE
    /\ UNCHANGED <<scheduled, exiting, evalVars, sessions, exit_empty, subscribed, client, control, emptied,
                   demanded>>

(***************************************************************************)
(* shutdown-if-idle counts sessions, attached clients, control clients,    *)
(* requests (it is not one of them) and connections except its own, each   *)
(* under its own lock.  Then it queues, unless there is a web listener     *)
(* (has_persistent_web_listener; either may be so).                        *)
(***************************************************************************)
CountNone(c, from, none, to) ==
    /\ Connection(c, from, IF none THEN to ELSE "open")
    /\ due' = IF none THEN due ELSE due \cup {c}

daemon_activity_counts(c) ==
    /\ \/ Begin /\ CountNone(c, "open", ~sessions, "attach")
       \/ CountNone(c, "attach", client # "attached", "control") /\ UNCHANGED operations
       \/ CountNone(c, "control", control = "none", "requests") /\ UNCHANGED operations
       \/ CountNone(c, "requests", ~Requesting, "connections") /\ UNCHANGED operations
       \/ CountNone(c, "connections", \A d \in Connections \ {c} : conn[d] = "closed", "queue") /\ UNCHANGED operations
    /\ UNCHANGED <<requestVars, scheduled, exiting, evalVars, worldVars, client, control, emptied, historyVars>>

handle_shutdown_if_idle(c) ==
    /\ Connection(c, "queue", "open")
    /\ \/ UNCHANGED <<requestVars, retained>>
       \/ retained' = FALSE /\ queue_shutdown_request("SeamlessUpgradeIdle") /\ unseen' = FALSE
    /\ AskFor(c)
    /\ UNCHANGED <<scheduled, exiting, evalVars, sessions, exit_empty, subscribed, client, control, emptied,
                   operations, historyVars>>

ConnectionStep(c) == \/ OpenConnection(c) \/ BeginRequest(c) \/ EndRequest(c) \/ Upgrade(c) \/ LeaveDetached(c)
                     \/ CloseConnection(c) \/ Operate(c) \/ daemon_activity_counts(c) \/ handle_shutdown_if_idle(c)

ServerStep == \/ \E c \in Connections : ConnectionStep(c)
              \/ \E e \in Enders : EndSessions(e) \/ EmptyStep(e)
              \/ \E e \in Enders \ {Reaper} : handle_kill_server(e)
              \/ finish_attach \/ EndForwarder \/ BindControl \/ finish_control \/ ExpireRetained \/ ExpireDrain

(***************************************************************************)
(* ShutdownRetryState.  A retry's token is its identity here: only the     *)
(* task that was given the token takes it.                                 *)
(***************************************************************************)

tighten(current, x) == IF current = x THEN current ELSE None

(* The exclusion in effect when x is asked for. *)
effective_exclusion(x) == IF scheduled = Unscheduled THEN x ELSE tighten(scheduled, x)

(* effective_exclusion also tightens the scheduled retry. *)
TightenScheduled(x) ==
    IF scheduled = Unscheduled THEN UNCHANGED <<scheduled, demanded>>
    ELSE scheduled' = tighten(scheduled, x) /\ demanded' = demanded \cup {x}

\* Mutant: an evaluation that could not tell does not schedule a retry.
ScheduleNothing(x) == UNCHANGED <<scheduled, demanded>>

(* schedule_shutdown_retry *)
schedule_shutdown_retry(x) ==
    IF scheduled = Unscheduled THEN scheduled' = x /\ demanded' = {x} ELSE TightenScheduled(x)

(***************************************************************************)
(* request_shutdown_if_pending_excluding_detached_connection.              *)
(***************************************************************************)
At(t, from, to) == eval[t] = from /\ eval' = [eval EXCEPT ![t] = to] /\ UNCHANGED <<asked, rsn, eff>>
Return(t, from) == /\ eval[t] = from /\ eval' = [eval EXCEPT ![t] = "idle"]
                   /\ asked' = [asked EXCEPT ![t] = None]
                   /\ rsn' = [rsn EXCEPT ![t] = None]
                   /\ eff' = [eff EXCEPT ![t] = None]

(* shutdown_requested is loaded first; without a request there is nothing to do. *)
Evaluate(t, x) ==
    /\ ~exiting /\ eval[t] = "idle"
    /\ IF requested
       THEN /\ eval' = [eval EXCEPT ![t] = "reason"]
            /\ asked' = [asked EXCEPT ![t] = x]
            /\ unseen' = FALSE
            /\ UNCHANGED <<rsn, eff>>
       ELSE UNCHANGED <<evalVars, unseen>>

BeginEvaluation(t, x) ==
    /\ x \in due /\ due' = due \ {x}
    /\ Evaluate(t, x)
    /\ UNCHANGED <<requested, reason, scheduled, exiting, serverVars, historyVars>>

(* The retry wakes up, takes its token and evaluates with its exclusion. *)
RunRetry(t) ==
    /\ scheduled # Unscheduled /\ scheduled' = Unscheduled /\ demanded' = {}
    /\ Evaluate(t, scheduled)
    /\ UNCHANGED <<requested, reason, exiting, due, serverVars, killed>>

ReadReason(t) ==
    /\ eval[t] = "reason" /\ eval' = [eval EXCEPT ![t] = IF Idle(reason) THEN "exclusion" ELSE "subscriptions"]
    /\ rsn' = [rsn EXCEPT ![t] = reason]
    /\ UNCHANGED <<requestVars, scheduled, exiting, asked, eff, due, serverVars, historyVars>>

ReadExclusion(t) ==
    /\ eval[t] = "exclusion" /\ eval' = [eval EXCEPT ![t] = "state"]
    /\ TightenScheduled(asked[t])
    /\ eff' = [eff EXCEPT ![t] = effective_exclusion(asked[t])]
    /\ UNCHANGED <<requestVars, exiting, asked, rsn, due, serverVars, killed>>

(***************************************************************************)
(* pending_idle_shutdown_state: one lock or atomic after the other.  A     *)
(* try_lock fails when a request or some other task holds the lock.        *)
(***************************************************************************)
TryLock(t, from, to) ==
    \/ Requesting /\ At(t, from, "unknown") /\ UNCHANGED operations
    \/ Begin /\ At(t, from, "unknown")
    \/ At(t, from, to) /\ UNCHANGED operations

CheckState(t) == TryLock(t, "state", IF sessions \/ (rsn[t] = "ExitEmpty" /\ ~exit_empty) THEN "stale" ELSE "attach")
CheckAttached(t) == TryLock(t, "attach", IF client = "attached" THEN "stale" ELSE "forwarders")
CheckForwarders(t) == At(t, "forwarders", IF client = "none" THEN "requests" ELSE "unknown") /\ UNCHANGED operations
CheckRequests(t) == At(t, "requests", IF Requesting THEN "unknown" ELSE "connections") /\ UNCHANGED operations

CountedConnections(x) == {c \in Connections : conn[c] # "closed"} \ {x}
CheckConnections(t) ==
    TryLock(t, "connections", IF CountedConnections(eff[t]) = {} THEN "control"
                              ELSE IF rsn[t] = "ExitEmpty" THEN "unknown" ELSE "stale")

(* A control client of no session that stays makes the request stale, one that leaves is waited for. *)
CheckControl(t) ==
    TryLock(t, "control", CASE control = "none" -> "subscriptions" [] control = "free" -> "stale" [] OTHER -> "unknown")

pending_idle_shutdown_state(t) ==
    /\ \/ CheckState(t) \/ CheckAttached(t) \/ CheckForwarders(t)
       \/ CheckRequests(t) \/ CheckConnections(t) \/ CheckControl(t)
    /\ UNCHANGED <<requestVars, scheduled, exiting, due, worldVars, clientVars, emptied, historyVars>>

(* IdleShutdownState::Stale clears the flag and then the reason. *)
CancelFlag(t) ==
    /\ At(t, "stale", "cancel")
    /\ requested' = FALSE
    /\ UNCHANGED <<reason, unseen, scheduled, exiting, due, serverVars, historyVars>>

CancelReason(t) ==
    /\ Return(t, "cancel")
    /\ reason' = None
    /\ UNCHANGED <<requested, unseen, scheduled, exiting, due, serverVars, historyVars>>

(* IdleShutdownState::Unknown *)
Retry(t) ==
    /\ Return(t, "unknown")
    /\ schedule_shutdown_retry(eff[t])
    /\ UNCHANGED <<requestVars, exiting, due, serverVars, killed>>

(* Subscriptions hold the shutdown; retained output does, unless it is idle. *)
CheckSubscriptions(t) ==
    /\ IF rsn[t] = "KillServer" \/ subscribed = {} THEN At(t, "subscriptions", "retained") ELSE Return(t, "subscriptions")
    /\ UNCHANGED <<requestVars, scheduled, exiting, due, serverVars, historyVars>>

CheckRetained(t) ==
    /\ IF retained /\ rsn[t] = None THEN Return(t, "retained") ELSE At(t, "retained", "commit")
    /\ retained' = (retained /\ ~Idle(rsn[t]))
    /\ UNCHANGED <<requestVars, scheduled, exiting, due, sessions, exit_empty, subscribed, clientVars,
                   emptied, operations, historyVars>>

(* The swap of the flag: whoever still finds it set takes the reason and exits. *)
TakeRequest == /\ exiting' = (exiting \/ requested)
               /\ requested' = FALSE
               /\ reason' = IF requested THEN None ELSE reason
               /\ UNCHANGED unseen

\* Mutant: the exclusion is not compared again before the request is taken.
CommitUnchecked(t) ==
    /\ Return(t, "commit")
    /\ TakeRequest
    /\ UNCHANGED <<scheduled, due, serverVars, historyVars>>

(* Under the retry lock, for an idle reason: the exclusion used must still be the one in effect. *)
CommitShutdown(t) ==
    /\ Return(t, "commit")
    /\ IF Idle(rsn[t]) /\ effective_exclusion(asked[t]) # eff[t]
       THEN /\ schedule_shutdown_retry(tighten(effective_exclusion(asked[t]), eff[t]))
            /\ UNCHANGED <<requestVars, exiting>>
       ELSE /\ IF Idle(rsn[t]) THEN TightenScheduled(asked[t]) ELSE UNCHANGED <<scheduled, demanded>>
            /\ TakeRequest
    /\ UNCHANGED <<due, serverVars, killed>>

EvaluationStep(t) == \/ ReadReason(t) \/ ReadExclusion(t) \/ pending_idle_shutdown_state(t)
                     \/ CancelFlag(t) \/ CancelReason(t) \/ Retry(t)
                     \/ CheckSubscriptions(t) \/ CheckRetained(t) \/ CommitShutdown(t)

Next == ServerStep \/ \E t \in Threads : (\E x \in due : BeginEvaluation(t, x)) \/ RunRetry(t) \/ EvaluationStep(t)

Spec == Init /\ [][Next]_vars

(***************************************************************************)
(* Evaluations run to their end, those that are due begin, the retry's     *)
(* timer fires, retained output expires, and a task that has ended the     *)
(* last session goes on, and a request that has killed something answers.  *)
(* Clients may do nothing for ever.                                        *)
(***************************************************************************)
FairSpec == /\ Spec
            /\ \A t \in Threads : WF_vars(EvaluationStep(t))
            /\ WF_vars(\E t \in Threads : RunRetry(t)) /\ WF_vars(ExpireRetained \/ ExpireDrain)
            /\ WF_vars(\E e \in Enders : EmptyStep(e))
            /\ WF_vars(\E c \in Connections : conn[c] = "answering" /\ EndRequest(c))
            /\ \A x \in Connections \cup {None} : SF_vars(\E t \in Threads : BeginEvaluation(t, x))

(***************************************************************************)
(* Properties.                                                             *)
(***************************************************************************)
(* Every variable keeps its type. *)
TypeOK == /\ requested \in BOOLEAN /\ reason \in Reasons \cup {None}
          /\ scheduled \in Connections \cup {None, Unscheduled} /\ exiting \in BOOLEAN
          /\ eval \in [Threads -> {"idle", "reason", "exclusion", "state", "attach", "forwarders", "requests", "connections",
                                 "control", "stale", "cancel", "unknown", "subscriptions", "retained", "commit"}]
          /\ asked \in [Threads -> Connections \cup {None}] /\ eff \in [Threads -> Connections \cup {None}]
          /\ rsn \in [Threads -> Reasons \cup {None}]
          /\ client \in {"none", "attached", "leaving"} /\ control \in {"none", "free", "bound"}
          /\ conn \in [Connections -> {"closed", "open", "request", "answering", "upgraded", "attach", "control",
                                       "requests", "connections", "queue"}]
          /\ emptied \in [Enders -> {"no", "clients", "check", "queue"}]
          /\ subscribed \subseteq Connections
          /\ due \subseteq Connections \cup {None}

(* An idle shutdown is never taken on an evaluation that excluded a        *)
(* connection while someone else has asked, since the retry was scheduled, *)
(* for that connection to be counted.  Every variable keeps its type.      *)
ExitScopeIsTight ==
    []TypeOK /\ [][\A t \in Threads : eval[t] = "commit" /\ exiting' /\ ~exiting /\ Idle(rsn[t]) /\ eval'[t] = "idle"
           => scheduled = Unscheduled \/ \A x \in demanded : tighten(eff[t], x) = eff[t]]_vars

(* Sessions and clients are gone. *)
Quiet == ~sessions /\ client = "none" /\ control = "none" /\ \A c \in Connections : conn[c] = "closed"

(* No pending shutdown waits for ever: a kill-server that stays the        *)
(* pending request is taken, and an idle shutdown is taken or cancelled    *)
(* when the server stays quiet.  The one exception is exit-empty queued by *)
(* the lease reaper, which evaluates nothing afterwards: it waits for the  *)
(* next evaluation somebody else makes.                                    *)
PendingIsServed == []<>(exiting \/ ~requested \/ unseen \/ (reason # "KillServer" /\ ~Quiet))

(* "explicit kill-server must not become a cancellable exit-empty          *)
(* shutdown": once queued it is pending until the server exits.            *)
KillServerIsKept == killed => exiting \/ requested
=============================================================================
