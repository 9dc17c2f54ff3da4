---------------------------- MODULE SdkTransport ----------------------------
(***************************************************************************)
(* The SDK's transport (rmux-sdk, transport/): many callers share one      *)
(* connection through an actor that writes their requests in turn and      *)
(* matches the daemon's answers to them by order alone.  A caller may drop *)
(* its future at any point; a deadline, a dropped wait or a dropped        *)
(* shutdown aborts the actor, which other callers must learn of.           *)
(*                                                                         *)
(* Every call is one operation of one caller.  A caller is told an answer, *)
(* or an error; which error it is told is left out.  The forwarder of the  *)
(* commands holds no message of its own: it moves one when there is room.  *)
(* The daemon answers one request at a time, a wait twice.                 *)
(***************************************************************************)
EXTENDS Naturals, Sequences

CONSTANTS Calls,
          Scenarios,        \* the kind of every call, those with a deadline, those that are made
                            \* one after the other was sent, and the faults
          CommandCap,       \* ACTOR_QUEUE_CAPACITY; the event queue has twice that
          SocketCap         \* what the connection holds in each direction

Kinds == {"request", "subscribe", "wait", "guard", "large", "shutdown"}

ASSUME CallsAssumption ==
    /\ "none" \notin Calls /\ CommandCap \in Nat /\ SocketCap \in Nat
    /\ \A s \in Scenarios : /\ DOMAIN s.kind \subseteq Calls
                           /\ \A c \in DOMAIN s.kind : s.kind[c] \in Kinds

VARIABLES
    scenario,
    call,                   \* where every caller is, and what it was told
    reply, armed,           \* the oneshot channels of every call
    handle,                 \* the user still has a client
    commands, events,       \* the two queues of the actor
    actor,                  \* "running" or "gone"
    aborted,                \* its abort handle was used
    pending, frame,         \* calls that wait for an answer, the frame that is being written
    commands_closed, shutdown_reply,
    terminal_failure,
    write_open, to_server, to_client, eof_read,
    server,                 \* the daemon's end: open, the wait it works on, live subscriptions
    sent                    \* history: the calls in the order the channel took them

channels == <<reply, armed>>
queues == <<commands, events>>
actorVars == <<actor, pending, frame, commands_closed, shutdown_reply>>
wire == <<write_open, to_server, to_client, eof_read>>
vars == <<scenario, call, channels, handle, queues, actorVars, aborted, terminal_failure, wire, server, sent>>

None == "none"
Open == [is |-> "open", of |-> None]
Closed == [is |-> "closed", of |-> None]

Kind(c) == scenario.kind[c]
Callers == DOMAIN scenario.kind
May(fault) == fault \in scenario.faults

Init ==
    /\ scenario \in Scenarios
    /\ call = [c \in Calls |-> [pc |-> "idle", told |-> None, of |-> None]]
    /\ reply = [c \in Calls |-> Open] /\ armed = [c \in Calls |-> "open"]
    /\ handle = TRUE
    /\ commands = <<>> /\ events = <<>>
    /\ actor = "running" /\ aborted = FALSE
    /\ pending = <<>> /\ frame = <<>> /\ commands_closed = FALSE /\ shutdown_reply = None
    /\ terminal_failure = None
    /\ write_open = TRUE /\ to_server = <<>> /\ to_client = <<>> /\ eof_read = FALSE
    /\ server = [open |-> TRUE, wait |-> None, subscriptions |-> {}, began |-> {}]
    /\ sent = <<>>

---------------------------------------------------------------------------
(* The callers.                                                            *)
Told(c, told) == call' = [call EXCEPT ![c] = [pc |-> "done", told |-> told, of |-> None]]
Goto(c, pc) == call' = [call EXCEPT ![c].pc = pc]

set_terminal_failure(failure) == terminal_failure' = IF terminal_failure = None THEN failure ELSE terminal_failure

abort_with(failure) == set_terminal_failure(failure) /\ aborted' = TRUE

IsSent(c) == \E i \in DOMAIN sent : sent[i] = c
InOrder(c) == \A i, j \in DOMAIN scenario.order : i < j /\ scenario.order[j] = c => IsSent(scenario.order[i])

(* A transport that failed takes no call; shutting down one whose peer     *)
(* left is no error.                                                       *)
Start(c) ==
    /\ c \in Callers /\ call[c].pc = "idle" /\ handle /\ InOrder(c)
    /\ IF terminal_failure = None THEN Goto(c, "sending")
       ELSE Told(c, IF Kind(c) = "shutdown" /\ terminal_failure = "eof" THEN "ok" ELSE "failed")
    /\ UNCHANGED <<scenario, channels, handle, queues, actorVars, aborted, terminal_failure, wire, server, sent>>

(* A bounded channel whose receiver lives as long as the actor; a drop     *)
(* guard does not wait for room.                                           *)
Send(c) ==
    /\ call[c].pc = "sending"
    /\ \/ /\ actor = "running" /\ Len(commands) < CommandCap
          /\ commands' = Append(commands, c) /\ sent' = Append(sent, c)
          /\ IF Kind(c) = "guard" THEN Told(c, "ok") ELSE Goto(c, "waiting")
       \/ /\ actor = "gone" \/ (Kind(c) = "guard" /\ Len(commands) = CommandCap)
          /\ Told(c, "failed")
          /\ UNCHANGED <<commands, sent>>
    /\ UNCHANGED <<scenario, channels, handle, events, actorVars, aborted, terminal_failure, wire, server>>

\* Mutant: armed_request returns as soon as the request is queued.
Armed_MutQueued(c) ==
    /\ call[c].pc = "waiting" /\ Kind(c) = "wait"
    /\ Goto(c, "holding")
    /\ UNCHANGED <<scenario, channels, handle, queues, actorVars, aborted, terminal_failure, wire, server, sent>>

(* armed_request returns when the daemon has armed the wait.               *)
Armed(c) ==
    /\ call[c].pc = "waiting" /\ Kind(c) = "wait" /\ armed[c] # "open"
    /\ IF armed[c] = "ok" THEN Goto(c, "holding") ELSE Told(c, "failed")
    /\ UNCHANGED <<scenario, channels, handle, queues, actorVars, aborted, terminal_failure, wire, server, sent>>

Finish(c) ==
    /\ reply[c] # Open /\ c \in Callers
    /\ call[c].pc = IF Kind(c) = "wait" THEN "holding" ELSE "waiting"
    /\ call' = [call EXCEPT ![c] = [pc |-> "done", of |-> reply[c].of,
                  told |-> CASE reply[c].is \in {"closed", "failed"} -> "failed"
                             [] reply[c].is = "error" -> "refused"
                             [] OTHER -> "ok"]]
    /\ UNCHANGED <<scenario, channels, handle, queues, actorVars, aborted, terminal_failure, wire, server, sent>>

(* The deadline covers a request to its answer and a wait to its arming.   *)
Timeout(c) ==
    /\ c \in scenario.deadline /\ call[c].pc \in {"sending", "waiting"}
    /\ Told(c, "failed") /\ abort_with("timed_out")
    /\ UNCHANGED <<scenario, channels, handle, queues, actorVars, wire, server, sent>>

(* OrderedResponseGuard: a wait or a shutdown that was sent takes the      *)
(* transport with it; any other request leaves its answer to the actor.    *)
Drop(c) ==
    /\ May("drop") /\ call[c].pc \in {"sending", "waiting", "holding"}
    /\ Goto(c, "dropped")
    /\ IF call[c].pc # "sending" /\ Kind(c) \in {"wait", "shutdown"}
       THEN abort_with("cancelled") ELSE UNCHANGED <<aborted, terminal_failure>>
    /\ UNCHANGED <<scenario, channels, handle, queues, actorVars, wire, server, sent>>

(* abort(): a dedicated transport is torn down.                            *)
Abort ==
    /\ May("abort") /\ handle /\ terminal_failure = None
    /\ abort_with("actor_closed")
    /\ UNCHANGED <<scenario, call, channels, handle, queues, actorVars, wire, server, sent>>

DropHandle ==
    /\ handle /\ handle' = FALSE
    /\ UNCHANGED <<scenario, call, channels, queues, actorVars, aborted, terminal_failure, wire, server, sent>>

---------------------------------------------------------------------------
(* The two forwarding tasks.                                               *)
EventRoom == Len(events) < 2 * CommandCap
Running == actor = "running"

forward_commands ==
    /\ Running /\ EventRoom /\ commands # <<>>
    /\ events' = Append(events, [is |-> "command", of |-> Head(commands)])
    /\ commands' = Tail(commands)
    /\ UNCHANGED <<scenario, call, channels, handle, actorVars, aborted, terminal_failure, wire, server, sent>>

ClientsAreGone == ~handle /\ \A c \in Calls : call[c].pc \in {"idle", "done", "dropped"}

ForwardClosed ==
    /\ Running /\ EventRoom /\ commands = <<>> /\ ClientsAreGone
    /\ ~commands_closed /\ \A i \in DOMAIN events : events[i].is # "closed"
    /\ events' = Append(events, [is |-> "closed", of |-> None])
    /\ UNCHANGED <<scenario, call, channels, handle, commands, actorVars, aborted, terminal_failure, wire, server, sent>>

\* Mutant: the reader stops at the end of the stream and tells nobody.
forward_responses_MutSilent ==
    /\ Running /\ EventRoom /\ ~eof_read
    /\ \/ /\ to_client # <<>>
          /\ events' = Append(events, Head(to_client))
          /\ to_client' = Tail(to_client) /\ UNCHANGED eof_read
       \/ /\ to_client = <<>> /\ ~server.open
          /\ eof_read' = TRUE /\ UNCHANGED <<to_client, events>>
    /\ UNCHANGED <<scenario, call, channels, handle, commands, actorVars, aborted, terminal_failure, write_open, to_server, server, sent>>

forward_responses ==
    /\ Running /\ EventRoom /\ ~eof_read
    /\ \/ /\ to_client # <<>>
          /\ events' = Append(events, Head(to_client))
          /\ to_client' = Tail(to_client) /\ UNCHANGED eof_read
       \/ /\ to_client = <<>> /\ ~server.open
          /\ events' = Append(events, [is |-> "eof", of |-> None])
          /\ eof_read' = TRUE /\ UNCHANGED to_client
    /\ UNCHANGED <<scenario, call, channels, handle, commands, actorVars, aborted, terminal_failure, write_open, to_server, server, sent>>

---------------------------------------------------------------------------
(* The actor.                                                              *)
Take(is) == Running /\ frame = <<>> /\ events # <<>> /\ Head(events).is = is

(* The actor ends: what it held is dropped, and every caller that waits    *)
(* for a channel of its own is told so, as are those fail_all answers.     *)
End(answered) ==
    /\ actor' = "gone" /\ pending' = <<>> /\ frame' = <<>> /\ shutdown_reply' = None
    /\ commands' = <<>> /\ events' = <<>>
    /\ reply' = [c \in Calls |-> IF answered[c] = Open THEN Closed ELSE answered[c]]
    /\ armed' = [c \in Calls |-> IF armed[c] = "open" THEN "failed" ELSE armed[c]]
    /\ write_open' = FALSE /\ to_client' = <<>>
    /\ UNCHANGED <<commands_closed, to_server, eof_read>>

fail_transport(failure) == set_terminal_failure(failure) /\ End(reply)

PendingCall(c) == [of |-> c, name |-> Kind(c), reply |-> Kind(c) # "guard", armed |-> Kind(c) = "wait"]
discard(c) == [of |-> c, name |-> "unsubscribe", reply |-> FALSE, armed |-> FALSE]

Encodes(c) == Kind(c) # "large"

(* The call is pending before its frame is written.  A shutdown half-closes *)
(* the connection, which some systems refuse when the peer has left.        *)
HandleCommand ==
    LET c == Head(events).of IN
    /\ Take("command")
    /\ \/ /\ shutdown_reply # None \/ ~Encodes(c)
          /\ reply' = [reply EXCEPT ![c] = [is |-> "failed", of |-> c]]
          /\ armed' = [armed EXCEPT ![c] = "failed"]
          /\ events' = Tail(events)
          /\ UNCHANGED <<actorVars, wire, commands, terminal_failure>>
       \/ /\ shutdown_reply = None /\ Encodes(c) /\ Kind(c) # "shutdown"
          /\ pending' = Append(pending, PendingCall(c)) /\ frame' = <<[of |-> c, name |-> Kind(c)]>>
          /\ events' = Tail(events)
          /\ UNCHANGED <<channels, actor, commands_closed, shutdown_reply, wire, commands, terminal_failure>>
       \/ /\ shutdown_reply = None /\ Kind(c) = "shutdown"
          /\ \/ /\ shutdown_reply' = c /\ write_open' = FALSE /\ events' = Tail(events)
                /\ UNCHANGED <<channels, actor, pending, frame, commands_closed, to_server, to_client, eof_read,
                               commands, terminal_failure>>
             \/ ~server.open /\ fail_transport("io")
    /\ UNCHANGED <<scenario, call, handle, aborted, server, sent>>

(* A full connection blocks the actor, and with it all events.             *)
write_frame ==
    /\ Running /\ frame # <<>>
    /\ \/ /\ server.open /\ write_open /\ Len(to_server) < SocketCap
          /\ to_server' = Append(to_server, Head(frame)) /\ frame' = <<>>
          /\ UNCHANGED <<channels, queues, actor, pending, commands_closed, shutdown_reply,
                         terminal_failure, write_open, to_client, eof_read>>
       \/ /\ ~(server.open /\ write_open)
          /\ fail_transport("io")
    /\ UNCHANGED <<scenario, call, handle, aborted, server, sent>>

validate_response(p, r) == r.name \in {"error", p.name}

AcceptArmed(p, r) == p.armed /\ r.name = "ack"

(* The last client is gone and nothing is pending: the actor stops.        *)
Idle(rest) == commands_closed /\ rest = <<>> /\ shutdown_reply = None

\* Mutant: the answer of a caller that is gone is dropped with what it opened.
orphaned_subscription_cleanup_MutNone(p, r) == FALSE

orphaned_subscription_cleanup(p, r) ==
    p.reply /\ call[p.of].pc \in {"dropped", "done"} /\ r.name = "subscribe"

Answered(p, r) == IF p.reply THEN [reply EXCEPT ![p.of] = [is |-> r.name, of |-> r.of]] ELSE reply

\* Mutant: the armed acknowledgement takes the wait off the queue.
KeepPending_MutGone(p) == Tail(pending)

KeepPending(p) == <<[p EXCEPT !.armed = FALSE]>> \o Tail(pending)

HandleResponse ==
    LET r == Head(events)
        p == Head(pending)
    IN
    /\ Take("response")
    /\ \/ /\ pending = <<>>
          /\ fail_transport("unsolicited")
       \/ /\ pending # <<>> /\ AcceptArmed(p, r)
          /\ IF r.of # p.of THEN fail_transport("mismatched")
             ELSE /\ pending' = KeepPending(p)
                  /\ armed' = [armed EXCEPT ![p.of] = "ok"]
                  /\ events' = Tail(events)
                  /\ UNCHANGED <<reply, commands, actor, frame, commands_closed, shutdown_reply, terminal_failure, wire>>
       \/ /\ pending # <<>> /\ ~AcceptArmed(p, r) /\ ~validate_response(p, r)
          /\ fail_transport("mismatched")
       \/ /\ pending # <<>> /\ ~AcceptArmed(p, r) /\ validate_response(p, r)
          /\ IF Idle(Tail(pending)) /\ ~orphaned_subscription_cleanup(p, r)
             THEN End(Answered(p, r)) /\ UNCHANGED terminal_failure
             ELSE /\ reply' = Answered(p, r)
                  /\ armed' = IF p.armed THEN [armed EXCEPT ![p.of] = "ok"] ELSE armed
                  /\ IF orphaned_subscription_cleanup(p, r)
                     THEN /\ pending' = Append(Tail(pending), discard(p.of))
                          /\ frame' = <<[of |-> r.of, name |-> "unsubscribe"]>>
                     ELSE pending' = Tail(pending) /\ UNCHANGED frame
                  /\ events' = Tail(events)
                  /\ UNCHANGED <<commands, actor, commands_closed, shutdown_reply, terminal_failure, wire>>
    /\ UNCHANGED <<scenario, call, handle, aborted, server, sent>>

\* Mutant: the end of the stream completes a shutdown whatever is still pending.
ShutdownIsComplete_MutPending == shutdown_reply # None

ShutdownIsComplete == shutdown_reply # None /\ pending = <<>>

HandleEof ==
    /\ Take("eof")
    /\ IF ShutdownIsComplete
       THEN End([reply EXCEPT ![shutdown_reply] = [is |-> "shutdown", of |-> shutdown_reply]]) /\ UNCHANGED terminal_failure
       ELSE fail_transport("eof")
    /\ UNCHANGED <<scenario, call, handle, aborted, server, sent>>

HandleClosed ==
    /\ Take("closed")
    /\ IF pending = <<>> /\ shutdown_reply = None
       THEN End(reply) /\ UNCHANGED terminal_failure
       ELSE /\ commands_closed' = TRUE /\ events' = Tail(events)
            /\ UNCHANGED <<channels, commands, actor, pending, frame, shutdown_reply, terminal_failure, wire>>
    /\ UNCHANGED <<scenario, call, handle, aborted, server, sent>>

(* The abort takes effect when the actor next awaits.                      *)
AbortActor ==
    /\ Running /\ aborted
    /\ End(reply)
    /\ UNCHANGED <<scenario, call, handle, aborted, terminal_failure, server, sent>>

---------------------------------------------------------------------------
(* The daemon's end of the connection (serve_connection).                  *)
Respond(name, c) ==
    to_client' = IF Running THEN Append(to_client, [is |-> "response", of |-> c, name |-> name]) ELSE <<>>

Serve ==
    LET m == Head(to_server) IN
    /\ server.open /\ server.wait = None /\ to_server # <<>> /\ Len(to_client) < SocketCap
    /\ to_server' = Tail(to_server)
    /\ \/ /\ May("refuse") /\ m.name # "unsubscribe" /\ Respond("error", m.of)
          /\ server' = [server EXCEPT !.began = @ \cup {m.of}]
       \/ /\ Respond(IF m.name = "wait" THEN "ack" ELSE m.name, m.of)
          /\ server' = [server EXCEPT
               !.wait = IF m.name = "wait" THEN m.of ELSE @,
               !.began = @ \cup {m.of},
               !.subscriptions = CASE m.name = "subscribe" -> @ \cup {m.of}
                                   [] m.name = "unsubscribe" -> @ \ {m.of}
                                   [] OTHER -> @]
    /\ UNCHANGED <<scenario, call, channels, handle, queues, actorVars, aborted, terminal_failure, write_open, eof_read, sent>>

(* An armed wait ends when its pattern comes; nothing bounds how long that takes. *)
FinishWait ==
    /\ server.open /\ server.wait # None /\ Len(to_client) < SocketCap
    /\ Respond("wait", server.wait) /\ server' = [server EXCEPT !.wait = None]
    /\ UNCHANGED <<scenario, call, channels, handle, queues, actorVars, aborted, terminal_failure, write_open, to_server, eof_read, sent>>

(* The connection ends, and what it had subscribed goes with it.           *)
ServerEnds ==
    /\ server.open
    /\ server' = [server EXCEPT !.open = FALSE, !.wait = None, !.subscriptions = {}]
    /\ to_server' = <<>>
    /\ UNCHANGED <<scenario, call, channels, handle, queues, actorVars, aborted, terminal_failure, write_open, to_client, eof_read, sent>>

(* The daemon reads the end of the stream; or, while a wait is armed, finds *)
(* the peer at least half closed, and leaves without answering.             *)
CloseConnection ==
    /\ ~Running \/ (~write_open /\ (to_server = <<>> \/ server.wait # None))
    /\ ServerEnds

(* An answer that the client does not read in time ends the connection.     *)
ResponseTimesOut ==
    /\ Len(to_client) = SocketCap /\ (to_server # <<>> \/ server.wait # None)
    /\ ServerEnds

Crash == May("crash") /\ ServerEnds

(* An answer nobody asked for, once.                                       *)
Stray ==
    /\ May("stray") /\ server.open /\ Running /\ Len(to_client) < SocketCap
    /\ None \notin server.began /\ server' = [server EXCEPT !.began = @ \cup {None}]
    /\ Respond("stray", None)
    /\ UNCHANGED <<scenario, call, channels, handle, queues, actorVars, aborted, terminal_failure, write_open, to_server, eof_read, sent>>

---------------------------------------------------------------------------
CallStep(c) == Send(c) \/ Armed(c) \/ Finish(c)
ActorStep ==
    HandleCommand \/ write_frame \/ HandleResponse \/ HandleEof \/ HandleClosed \/ AbortActor
ForwarderStep == forward_commands \/ ForwardClosed
ServerStep == Serve \/ FinishWait \/ CloseConnection \/ ResponseTimesOut

Next ==
    \/ \E c \in Calls : Start(c) \/ CallStep(c) \/ Timeout(c) \/ Drop(c)
    \/ Abort \/ DropHandle
    \/ ForwarderStep \/ forward_responses
    \/ ActorStep
    \/ ServerStep \/ Crash \/ Stray

Spec == Init /\ [][Next]_vars

(* The tasks are polled, and the daemon serves what it reads, gives up an   *)
(* answer nobody takes and notices that its peer is gone.  A wait need not  *)
(* find its match, and a fault never has to happen.                         *)
Fairness ==
    /\ \A c \in Calls : WF_vars(CallStep(c))
    /\ WF_vars(ForwarderStep) /\ WF_vars(forward_responses)
    /\ WF_vars(ActorStep)
    /\ WF_vars(Serve \/ CloseConnection \/ (server.wait = None /\ ResponseTimesOut))

FairSpec == Spec /\ Fairness

---------------------------------------------------------------------------
TypeOK ==
    /\ \A c \in Calls : /\ call[c].pc \in {"idle", "sending", "waiting", "holding", "done", "dropped"}
                        /\ call[c].told \in {None, "ok", "failed", "refused"}
                        /\ armed[c] \in {"open", "ok", "failed"}
    /\ Len(commands) <= CommandCap /\ Len(events) <= 2 * CommandCap
    /\ Len(to_server) <= SocketCap /\ Len(to_client) <= SocketCap /\ Len(frame) <= 1
    /\ server.subscriptions \subseteq Calls

(* What is on its way to the actor: answers the daemon owes a request, and *)
(* those that complete it; how many do, before an item and in all.         *)
Stream == events \o to_client
IsAnswer(e) == e.is = "response" /\ e.name # "stray"
Completes(e) == IsAnswer(e) /\ e.name # "ack"
Before(q, i) ==
    LET count[n \in Nat] == IF n = 0 THEN 0 ELSE count[n - 1] + (IF Completes(q[n]) THEN 1 ELSE 0)
    IN  count[i - 1]
Completed(q) == Before(q, Len(q) + 1)

(* Requests without their answer: the one the daemon works on, then those  *)
(* on their way to it.                                                     *)
Unanswered ==
    (IF server.wait = None THEN <<>> ELSE <<[of |-> server.wait, name |-> "wait"]>>) \o to_server \o frame

IsFor(r, n) == n \in DOMAIN pending /\ r.of = pending[n].of

(* Answers are matched by order, so the calls that are pending are exactly *)
(* those with an answer on its way, in that order, whoever dropped what    *)
(* ("so later requests remain aligned", transport/mod.rs): a daemon that   *)
(* answers in order is never found to be out of order, and a caller is     *)
(* told its own answer.  Queues and channels stay within their capacities. *)
AnswersStayAligned ==
    /\ TypeOK
    /\ \A i \in DOMAIN Stream : IsAnswer(Stream[i]) => IsFor(Stream[i], Before(Stream, i) + 1)
    /\ Running /\ server.open =>
         /\ Len(pending) = Completed(Stream) + Len(Unanswered)
         /\ \A i \in DOMAIN Unanswered : IsFor(Unanswered[i], Completed(Stream) + i)
    /\ ~May("stray") => terminal_failure \notin {"unsolicited", "mismatched"}
    /\ \A c \in Callers : call[c].told \in {"ok", "refused"} /\ Kind(c) \notin {"guard", "shutdown"} => call[c].of = c

(* A wait that armed_request returned was seen by the daemon.              *)
ArmedIsArmed == \A c \in Calls : call[c].pc = "holding" => c \in server.began

Position(c) == CHOOSE i \in DOMAIN sent : sent[i] = c

(* A shutdown that succeeds has lost nothing: every call sent before it    *)
(* was answered by the daemon, or could not be encoded (complete_shutdown  *)
(* needs an empty queue).                                                  *)
ShutdownLosesNothing ==
    \A c \in Callers : Kind(c) = "shutdown" /\ call[c].told = "ok" /\ IsSent(c) =>
        \A d \in Callers : IsSent(d) /\ Position(d) < Position(c) /\ Kind(d) # "guard" /\ Encodes(d)
                           => reply[d].is \notin {"open", "closed", "failed"}

(* A wait has no timeout at the daemon, which serves one request of a      *)
(* connection at a time: all calls behind it wait for its match too.       *)
WaitsEnd == []<>(server.wait = None)

(* Unless a wait stays armed for ever, every caller comes back, whatever   *)
(* fails or is aborted by another, and also when all queues between the    *)
(* callers and the daemon are full: the daemon gives up its answer then    *)
(* (DETACHED_RESPONSE_WRITE_TIMEOUT), and the blocked write fails.  (As a  *)
(* call is made once, this is to say that again and again nobody waits.)   *)
CallersAreAnswered == WaitsEnd => []<>(\A c \in Calls : call[c].pc \in {"idle", "done", "dropped"})

(* Unless a wait stays armed for ever, a subscription whose caller was     *)
(* gone before its answer does not stay open                               *)
(* (orphaned_subscription_cleanup).                                        *)
OrphansAreReleased ==
    WaitsEnd => \A c \in Calls : call[c].pc = "dropped" /\ reply[c] = Open ~> [](c \notin server.subscriptions)
=============================================================================
