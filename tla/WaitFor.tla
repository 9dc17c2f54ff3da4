------------------------------ MODULE WaitFor ------------------------------
(***************************************************************************)
(* The daemon's `wait-for` channels (rmux-server wait_for.rs) and the      *)
(* request tasks that block on them (handler_scripting/wait_for_runtime.rs)*)
(*                                                                         *)
(* The store is a mutex-protected map of named channels.  A channel is an  *)
(* event with memory (`woken`, `signal_waiters`) and a lock with a FIFO of *)
(* waiters.  Every store method is one atomic step, because it runs under  *)
(* the store's mutex; a request task takes several: it registers, sleeps   *)
(* on a oneshot channel, accepts a lock grant, and runs its cleanup guard. *)
(* A oneshot is its receiver (`rx_open`) and the value sent (`wake`).      *)
(***************************************************************************)
EXTENDS Naturals, Sequences

CONSTANTS Requests,   \* the wait-for -w / -L requests; each one doubles as its waiter id
          Channels,   \* channel names
          NoWaiter    \* None of Option<u64>

ASSUME NoWaiterAssumption == NoWaiter \notin Requests

VARIABLES channels,       \* WaitForStore.channels: a function on the names present
          shutting_down,  \* WaitForStore.shutting_down
          kind,           \* WaitForWaiterKind of each request
          chan,           \* channel named by each request
          status,         \* where the request's task is
          result,         \* what it answers
          wake,           \* value sent into its oneshot
          rx_open,        \* its oneshot receiver has not been dropped
          holder          \* history: who was handed each lock and not unlocked since

vars == <<channels, shutting_down, kind, chan, status, result, wake, rx_open, holder>>
requestVars == <<kind, chan, status, result, rx_open>>

Kinds == {"Signal", "Lock"}
Statuses == {"start", "waiting", "accepting", "cleanup", "done"}
Results == {"none", "ok", "shutdown", "cancelled", "grant_cancelled"}

WaitForChannel == [signal_waiters : Seq(Requests), locked : BOOLEAN, woken : BOOLEAN,
                   lock_waiters : Seq(Requests), granted : Requests \cup {NoWaiter}]

DefaultChannel == [signal_waiters |-> <<>>, locked |-> FALSE, woken |-> FALSE,
                   lock_waiters |-> <<>>, granted |-> NoWaiter]

Elements(q) == {q[i] : i \in DOMAIN q}

(***************************************************************************)
(* Channel map helpers.  `State` is `entry(channel).or_default()`; every   *)
(* method that can leave a channel idle ends in `remove_idle_channel`.     *)
(***************************************************************************)
State(c) == IF c \in DOMAIN channels THEN channels[c] ELSE DefaultChannel

Put(c, s) == [d \in DOMAIN channels \cup {c} |-> IF d = c THEN s ELSE channels[d]]

\* Mutant: the idle entry stays in the map.
KeepIdleChannel(c, s) == Put(c, s)

remove_idle_channel(c, s) ==
    IF s = DefaultChannel
    THEN [d \in DOMAIN channels \ {c} |-> channels[d]]
    ELSE Put(c, s)

\* oneshot::Sender::send fails, and changes nothing, once the receiver is gone.
Send(targets, value) ==
    [r \in Requests |-> IF r \in targets /\ rx_open[r] THEN value ELSE wake[r]]

\* Mutant: removes the neighbour of the waiter it found.
RemoveNeighbour(q, i) == [j \in 1 .. (Len(q) - 1) |-> IF j <= i THEN q[j] ELSE q[j + 1]]

remove_waiter(q, i) == [j \in 1 .. (Len(q) - 1) |-> IF j < i THEN q[j] ELSE q[j + 1]]

After(q, i) == [j \in 1 .. (Len(q) - i) |-> q[j + i]]

\* Mutant: the most recent waiter with a live receiver is granted.
GrantLast(c, s) ==
    LET q == s.lock_waiters
    IN  \/ \E i \in 1 .. Len(q) :
            /\ rx_open[q[i]]
            /\ \A j \in (i + 1) .. Len(q) : ~rx_open[q[j]]
            /\ channels' = Put(c, [s EXCEPT !.lock_waiters = SubSeq(q, 1, i - 1),
                                            !.locked = TRUE, !.granted = q[i]])
            /\ wake' = Send({q[i]}, "Ready")
        \/ /\ \A i \in 1 .. Len(q) : ~rx_open[q[i]]
           /\ channels' = remove_idle_channel(c, [s EXCEPT !.lock_waiters = <<>>,
                                                  !.locked = FALSE, !.granted = NoWaiter])
           /\ wake' = wake

\* grant_next_lock_waiter: pop the FIFO until a send succeeds.  When none does,
\* both callers leave the channel unlocked with no outstanding grant.
GrantNextOrUnlock(c, s) ==
    LET q == s.lock_waiters
    IN  \/ \E i \in 1 .. Len(q) :
            /\ rx_open[q[i]]
            /\ \A j \in 1 .. (i - 1) : ~rx_open[q[j]]
            /\ channels' = Put(c, [s EXCEPT !.lock_waiters = After(q, i),
                                            !.locked = TRUE, !.granted = q[i]])
            /\ wake' = Send({q[i]}, "Ready")
        \/ /\ \A i \in 1 .. Len(q) : ~rx_open[q[i]]
           /\ channels' = remove_idle_channel(c, [s EXCEPT !.lock_waiters = <<>>,
                                                  !.locked = FALSE, !.granted = NoWaiter])
           /\ wake' = wake

-----------------------------------------------------------------------------
Init ==
    /\ channels = [c \in {} |-> DefaultChannel]
    /\ shutting_down = FALSE
    /\ kind \in [Requests -> Kinds]
    /\ chan \in [Requests -> Channels]
    /\ status = [r \in Requests |-> "start"]
    /\ result = [r \in Requests |-> "none"]
    /\ wake = [r \in Requests |-> "none"]
    /\ rx_open = [r \in Requests |-> FALSE]
    /\ holder = [c \in Channels |-> {}]

\* Mutant: answers with the raw wake value.
FinishWithWake(r, answer) ==
    /\ status' = [status EXCEPT ![r] = "done"]
    /\ result' = [result EXCEPT ![r] = wake[r]]

Finish(r, answer) ==
    /\ status' = [status EXCEPT ![r] = "done"]
    /\ result' = [result EXCEPT ![r] = answer]

\* A Waiting registration.  `eof` is the EOF snapshot the handler takes before it
\* registers: a cancelled control queue goes straight to the cleanup guard, with
\* the receiver still alive.
Enqueue(r, eof) ==
    /\ rx_open' = [rx_open EXCEPT ![r] = TRUE]
    /\ status' = [status EXCEPT ![r] = IF eof THEN "cleanup" ELSE "waiting"]
    /\ result' = [result EXCEPT ![r] = IF eof THEN "cancelled" ELSE "none"]

RegisterAfterShutdown(r) ==
    /\ status[r] = "start"
    /\ shutting_down
    /\ Finish(r, "shutdown")
    /\ UNCHANGED <<channels, shutting_down, kind, chan, wake, rx_open, holder>>

register_wait(r) ==
    LET c == chan[r]  s == State(c)
    IN  /\ status[r] = "start" /\ kind[r] = "Signal"
        /\ ~shutting_down
        /\ \/ /\ s.woken
              /\ channels' = remove_idle_channel(c, [s EXCEPT !.woken = FALSE])
              /\ Finish(r, "ok")
              /\ UNCHANGED rx_open
           \/ /\ ~s.woken
              /\ channels' = Put(c, [s EXCEPT !.signal_waiters = Append(@, r)])
              /\ \E eof \in BOOLEAN : Enqueue(r, eof)
        /\ UNCHANGED <<shutting_down, kind, chan, wake, holder>>

register_lock(r) ==
    LET c == chan[r]  s == State(c)
    IN  /\ status[r] = "start" /\ kind[r] = "Lock"
        /\ ~shutting_down
        /\ \/ /\ ~s.locked
              /\ channels' = Put(c, [s EXCEPT !.locked = TRUE])
              /\ Finish(r, "ok")
              /\ holder' = [holder EXCEPT ![c] = @ \cup {r}]
              /\ UNCHANGED rx_open
           \/ /\ s.locked
              /\ channels' = Put(c, [s EXCEPT !.lock_waiters = Append(@, r)])
              /\ \E eof \in BOOLEAN : Enqueue(r, eof)
              /\ UNCHANGED holder
        /\ UNCHANGED <<shutting_down, kind, chan, wake>>

\* wait-for -S.  The error after shutdown changes nothing and is not a step.
signal(c) ==
    LET s == State(c)
    IN  /\ ~shutting_down
        /\ \/ /\ s.signal_waiters = <<>> /\ ~s.woken
              /\ channels' = Put(c, [s EXCEPT !.woken = TRUE])
              /\ wake' = wake
           \/ /\ s.signal_waiters # <<>> \/ s.woken
              /\ channels' = remove_idle_channel(c, [s EXCEPT !.signal_waiters = <<>>])
              /\ wake' = Send(Elements(s.signal_waiters), "Ready")
        /\ UNCHANGED <<shutting_down, holder, requestVars>>

\* wait-for -U, by any client: the store does not record who locked.
unlock(c) ==
    /\ ~shutting_down
    /\ State(c).locked
    /\ GrantNextOrUnlock(c, State(c))
    /\ holder' = [holder EXCEPT ![c] = {}]
    /\ UNCHANGED <<shutting_down, requestVars>>

\* The oneshot resolves.  A lock grant still has to be accepted under the mutex;
\* an error answer leaves the cleanup guard armed.
ReceiveWake(r) ==
    /\ status[r] = "waiting"
    /\ wake[r] # "none"
    /\ rx_open' = [rx_open EXCEPT ![r] = FALSE]
    /\ \/ /\ wake[r] = "Ready" /\ kind[r] = "Signal"
          /\ Finish(r, "ok")
       \/ /\ wake[r] = "Ready" /\ kind[r] = "Lock"
          /\ status' = [status EXCEPT ![r] = "accepting"]
          /\ UNCHANGED result
       \/ /\ wake[r] = "Shutdown"
          /\ status' = [status EXCEPT ![r] = "cleanup"]
          /\ result' = [result EXCEPT ![r] = "shutdown"]
    /\ UNCHANGED <<channels, shutting_down, kind, chan, wake, holder>>

accept_lock(r) ==
    LET c == chan[r]  s == State(c)
    IN  /\ status[r] = "accepting"
        /\ \/ /\ s.granted = r
              /\ channels' = Put(c, [s EXCEPT !.granted = NoWaiter])
              /\ holder' = [holder EXCEPT ![c] = @ \cup {r}]
              /\ Finish(r, "ok")
           \/ /\ s.granted # r
              /\ status' = [status EXCEPT ![r] = "cleanup"]
              /\ result' = [result EXCEPT ![r] = "grant_cancelled"]
              /\ UNCHANGED <<channels, holder>>
        /\ UNCHANGED <<shutting_down, kind, chan, wake, rx_open>>

\* The control queue reached EOF, or the task was dropped at its await.  The
\* receiver goes first and the guard runs afterwards, in a step of its own.
Abandon(r) ==
    /\ status[r] = "waiting"
    /\ rx_open' = [rx_open EXCEPT ![r] = FALSE]
    /\ status' = [status EXCEPT ![r] = "cleanup"]
    /\ result' = [result EXCEPT ![r] = "cancelled"]
    /\ UNCHANGED <<channels, shutting_down, kind, chan, wake, holder>>

\* cancel_signal_waiter
CancelSignalWaiter(c, s, r) ==
    LET q == s.signal_waiters
    IN  /\ \/ \E i \in 1 .. Len(q) :
                /\ q[i] = r
                /\ channels' = remove_idle_channel(c, [s EXCEPT !.signal_waiters = remove_waiter(q, i)])
           \/ /\ r \notin Elements(q)
              /\ channels' = channels
        /\ wake' = wake

\* Mutant: an unaccepted grant is forgotten with its task.
CancelKeepsGrant(c, s, r) ==
    LET q == s.lock_waiters
    IN  \/ \E i \in 1 .. Len(q) :
            /\ q[i] = r
            /\ channels' = remove_idle_channel(c, [s EXCEPT !.lock_waiters = remove_waiter(q, i)])
            /\ wake' = wake
        \/ /\ r \notin Elements(q)
           /\ UNCHANGED <<channels, wake>>

\* cancel_lock_waiter: leave the queue, or pass on a grant that was never accepted.
CancelLockWaiter(c, s, r) ==
    LET q == s.lock_waiters
    IN  \/ \E i \in 1 .. Len(q) :
            /\ q[i] = r
            /\ channels' = remove_idle_channel(c, [s EXCEPT !.lock_waiters = remove_waiter(q, i)])
            /\ wake' = wake
        \/ /\ r \notin Elements(q)
           /\ s.granted = r
           /\ GrantNextOrUnlock(c, s)
        \/ /\ r \notin Elements(q)
           /\ s.granted # r
           /\ UNCHANGED <<channels, wake>>

\* Drop of an armed WaitForCleanupGuard; the receiver, if still there, goes with it.
DropCleanupGuard(r) ==
    LET c == chan[r]
    IN  /\ status[r] = "cleanup"
        /\ \/ kind[r] = "Signal" /\ CancelSignalWaiter(c, State(c), r)
           \/ kind[r] = "Lock" /\ CancelLockWaiter(c, State(c), r)
        /\ status' = [status EXCEPT ![r] = "done"]
        /\ rx_open' = [rx_open EXCEPT ![r] = FALSE]
        /\ UNCHANGED <<shutting_down, kind, chan, result, holder>>

Queued == UNION {Elements(channels[c].signal_waiters) \cup Elements(channels[c].lock_waiters)
                    : c \in DOMAIN channels}

\* Mutant: lock waiters are cleared without being woken.
ShutdownForgetsLockWaiters ==
    /\ ~shutting_down
    /\ shutting_down' = TRUE
    /\ wake' = Send(UNION {Elements(channels[c].signal_waiters) : c \in DOMAIN channels}, "Shutdown")
    /\ channels' = [c \in {} |-> DefaultChannel]
    /\ holder' = [c \in Channels |-> {}]
    /\ UNCHANGED requestVars

shutdown ==
    /\ ~shutting_down
    /\ shutting_down' = TRUE
    /\ wake' = Send(Queued, "Shutdown")
    /\ channels' = [c \in {} |-> DefaultChannel]
    /\ holder' = [c \in Channels |-> {}]
    /\ UNCHANGED requestVars

-----------------------------------------------------------------------------
TaskStep(r) == ReceiveWake(r) \/ accept_lock(r) \/ DropCleanupGuard(r)

RequestNext(r) ==
    \/ RegisterAfterShutdown(r) \/ register_wait(r) \/ register_lock(r)
    \/ Abandon(r) \/ TaskStep(r)

Next ==
    \/ \E r \in Requests : RequestNext(r)
    \/ \E c \in Channels : signal(c) \/ unlock(c)
    \/ shutdown

Spec == Init /\ [][Next]_vars

\* Tokio keeps polling a task that was woken, and a dropped future runs its guard.
Fairness == \A r \in Requests : WF_vars(TaskStep(r))
FairSpec == Spec /\ Fairness

-----------------------------------------------------------------------------
\* Every variable keeps the shape its Rust type gives it.
TypeOK ==
    /\ DOMAIN channels \subseteq Channels
    /\ channels \in [DOMAIN channels -> WaitForChannel]
    /\ shutting_down \in BOOLEAN
    /\ kind \in [Requests -> Kinds]
    /\ chan \in [Requests -> Channels]
    /\ status \in [Requests -> Statuses]
    /\ result \in [Requests -> Results]
    /\ wake \in [Requests -> {"none", "Ready", "Shutdown"}]
    /\ rx_open \in [Requests -> BOOLEAN]
    /\ holder \in [Channels -> SUBSET Requests]

QueueOf(r) == IF kind[r] = "Signal" THEN State(chan[r]).signal_waiters
                                    ELSE State(chan[r]).lock_waiters

\* A sleeping task is always reachable: it is still queued on its channel, or its
\* wake value is already in the oneshot.  (The `Err(_)` arm of the handler's match,
\* a sender dropped without a value, is never taken.)
NoLostWaiter ==
    \A r \in Requests : status[r] = "waiting" => r \in Elements(QueueOf(r)) \/ wake[r] # "none"

\* A grant names a task that will still accept it or pass it on: no interleaving of
\* grants, cancellations and second unlocks leaves a lock with a finished task.
GrantIsLive ==
    \A c \in DOMAIN channels :
        LET g == channels[c].granted
        IN  g # NoWaiter => /\ chan[g] = c /\ kind[g] = "Lock" /\ channels[c].locked
                            /\ status[g] \in {"waiting", "accepting", "cleanup"}
                            /\ status[g] = "waiting" => wake[g] = "Ready"

\* A locked channel is held by someone or granted to someone, and a lock nobody
\* holds has no one queueing for it; there is at most one holder.
LockAccountedFor ==
    \A c \in Channels :
        LET s == State(c)
        IN  /\ s.locked <=> holder[c] # {} \/ s.granted # NoWaiter
            /\ holder[c] # {} => s.granted = NoWaiter
            /\ \A r1, r2 \in holder[c] : r1 = r2
            /\ s.lock_waiters # <<>> => s.locked

\* Both halves of what clients are promised about locks.
LocksAreSafe == GrantIsLive /\ LockAccountedFor

\* A remembered signal and a sleeping signal waiter never coexist on one channel.
WokenHasNoWaiters ==
    \A c \in DOMAIN channels : channels[c].woken => channels[c].signal_waiters = <<>>

\* Entries are dropped from the map when they become idle, and a queue only holds
\* requests whose task has still to run its cleanup: the store cannot leak.
NoLeak ==
    \A c \in DOMAIN channels :
        /\ channels[c] # DefaultChannel
        /\ \A r \in Elements(channels[c].signal_waiters) \cup Elements(channels[c].lock_waiters) :
             status[r] \in {"waiting", "cleanup"} /\ chan[r] = c

\* Lock grants follow the FIFO: a task is passed over only if its receiver is gone.
FifoGrant ==
    [][\A c \in DOMAIN channels \cap DOMAIN channels' :
          LET q == channels[c].lock_waiters  g == channels'[c].granted
          IN  g # channels[c].granted /\ g # NoWaiter =>
                \E i \in DOMAIN q : q[i] = g /\ \A j \in 1 .. (i - 1) : ~rx_open[q[j]]]_vars

\* shutdown releases every sleeper: each request that was ever registered ends.
ShutdownReleasesAll ==
    \A r \in Requests : (shutting_down /\ status[r] # "start") ~> status[r] = "done"
=============================================================================
