# Formal models of rmux

TLA+ models of the concurrent core of the rmux daemon (`src/crates/rmux-server`,
with the event structures of `src/crates/rmux-core`) and of the parts of the SDK
(`src/crates/rmux-sdk`) that share state with it, the TLC runs that check them, and
TLAPS proofs about eleven of them. `PROJECT.json` lists the components, the runs, the
source lines each definition stands for, the hazards and the findings.

    tlc -config MCWaitFor.cfg MCWaitFor        # any run of PROJECT.json
    tlapm WaitForProofs.tla                    # any *Proofs module

## The system and its parts

rmux is a terminal multiplexer. A daemon owns sessions, windows, panes and their
child processes; clients (the CLI, an SDK, web viewers) talk to it over a local
socket. The daemon is a multi-threaded tokio program: connections, hooks, delayed
tasks and pane readers run concurrently, share state behind short mutexes and
atomics, and wait for each other with `Notify`, `watch`, `oneshot`, `mpsc` and
`Semaphore`. Any of those waits can be cancelled, because a future may be dropped at
any `await`. The models concentrate there, where a unit test chooses one
interleaving out of many.

| part | source (rmux-server/src unless noted) | module |
|---|---|---|
| `wait-for` channels and the requests that sleep on them | `wait_for.rs`, `handler_scripting/wait_for_runtime.rs` | `WaitFor` |
| a turn dispenser, abstractly | (what the next two promise) | `TurnOrder` |
| commit order of lifecycle events | `lifecycle_commit_order.rs` | `LifecycleCommitOrder` |
| post-commit sequencer of mutations | `handler/post_commit_sequencer.rs` | `PostCommitSequencer` |
| delayed tasks that mutate state | `handler/lifecycle_producer_tasks.rs` | `LifecycleProducers` |
| the lifecycle pipeline and its shutdown | `handler_lifecycle.rs`, `handler/lifecycle_dispatch_queue.rs`, `listener/lifecycle_shutdown.rs`, `listener.rs` | `LifecycleShutdown` |
| pending shutdown: queue, evaluate, cancel, retry | `handler_shutdown.rs`, `handler_shutdown/retry.rs`, `handler_daemon.rs` | `ShutdownRequest` |
| gate between requests and shutdown | `handler_shutdown.rs`, `listener.rs` | `RequestAdmission` |
| the five modules above that make up the lifecycle, in one run | | `Lifecycle` |
| ring of retained output (rmux-core) | `events/ring.rs`, `events/cursor.rs` | `OutputRing` (operators) |
| output channel of a pane, pane streams | `pane_io/types.rs`, `handler/pane_stream_{raw,surface}.rs` | `PaneOutput` |
| daemon-backed SDK waits and their quota | `handler_waits.rs`, `handler/sdk_wait_quota.rs`, rmux-core `events/wait.rs` | `SdkWaits` |
| journal of pane state changes | `pane_state_journal.rs` and its submodules | `PaneStateJournal` (operators) |
| pane state streams and the foreground watcher | `handler_pane_state.rs`, `handler_pane_state/foreground_watch.rs`, `handler_pane/selection.rs` | `PaneState` |
| session leases, their reaper, and owned sessions of the SDK | `handler_session/leases.rs`, `handler_session.rs`; rmux-sdk `handles/owned_session*` | `SessionLeases` |
| transport of the SDK | rmux-sdk `transport/` | `SdkTransport` |

How they interact: a client request passes `RequestAdmission`; what it mutates is
committed in a turn of the `PostCommitSequencer` and published in the order of
`LifecycleCommitOrder`; the published event goes through a bounded outbox to the hook
task, whose commands mutate again; `LifecycleProducers` are mutations nobody waits
for. `LifecycleShutdown` composes these, with the two dispensers replaced by what
`TurnOrder` promises (which each of them is checked to implement). `ShutdownRequest`
decides when that shutdown starts. `PaneOutput` and `SdkWaits` both stand on
`OutputRing`; `PaneState` stands on `PaneStateJournal`. On the other side of the socket
`SdkTransport` carries the requests of many callers over one connection, and
`SessionLeases` follows one of them, an owned session, from the SDK's guard to the
daemon's reaper and back.

Each `MCx` module only names the model values of `MCx.cfg`. `xProofs` extends `x`;
`LifecycleOrderProofs` extends the two turn dispensers, and `ShutdownProofs` extends
`RequestAdmission`, `ShutdownRequest` and `LifecycleProducers`.

## The modules

Conventions. A critical section of a mutex is one step. Atomics, channels and
notifications outside a mutex are steps of their own. A tokio wait is the loop
"create and enable the `Notified`, check under the mutex, await", one step each, so a
notification may fall between any two. A future that can be dropped at an `await`
has a cancellation action there that runs the guards' `Drop` code in order. Histories
(marked in the VARIABLES comments) are read by properties only.

**WaitFor.** A channel is an event with memory and a lock with a FIFO. Store methods
are atomic; a request registers, sleeps on its oneshot, accepts a grant and runs its
cleanup guard in separate steps, and can be abandoned between them. `unlock` may be
called by anybody, as in the code.

**TurnOrder.** Positions are handed out, entered alone and in order, and retired used
or unused. `CommitOrderSpec` of `LifecycleCommitOrder` and `PostCommitOrderSpec` of
`PostCommitSequencer` are the specification of `INSTANCE TurnOrder` with `reserved`,
`outstanding` and `inside` computed from the coordinator's counters and the places of the handles.

**LifecycleCommitOrder.** Tickets with clones, the claim, three ways to finish a
ticket (turn dropped, claim cancelled, last handle dropped), the three steps of
`finish_once`, untracked publications, `close_and_wait` and `seal_and_wait`.

**PostCommitSequencer.** Slots from a FIFO semaphore, lanes with pending counts,
positions, turns, early release, the three-step drop of a turn, and both drains.

**LifecycleProducers.** Registration in a lane, the hand-off guard of the parent, the
two runners (with and without a cancellation cleanup), nested mutation guards,
closing of a lane in two steps, and a task whose owner aborts it (a silence timer).

**LifecycleShutdown.** Every mutation and the publication of its event is a process,
as are the hook consumer and the listener's shutdown with its deadline. A mutation runs
with a post-commit position or without one, as most requests and hook commands do.
Aborting the consumer cuts a command without a position at the `await` it has reached.

**ShutdownRequest.** Two threads run `request_shutdown_if_pending`, which reads the
reason, the exclusion, the sessions, clients, requests, connections and subscriptions at
different moments, one lock after the other, and then cancels, retries or exits. Around
it are connections that make requests, attach or enter control mode and leave; the ends
of the last session (a pane's exit, a kill, the lease reaper), each of which tells its
clients to leave, looks whether the server is empty and queues `exit-empty` in steps of
its own; `kill-server`; and `shutdown-if-idle` with its counts.

**RequestAdmission.** `try_begin` looks at the gate, counts, and looks again; the
listener closes, polls with a grace period, then waits for mutating requests only.

**Lifecycle.** Chooses one of `RequestAdmission`, `LifecycleCommitOrder`,
`PostCommitSequencer`, `LifecycleProducers` and `LifecycleShutdown` (`part`) and lets it
run, so that one run checks the four primitives and the pipeline that is built on them.
It extends all five, which share no variable, so what it checks are the definitions that the
theorems are about; the parts are not interleaved.

**OutputRing.** The ring as a value: retained events within an event and a byte
budget, the recent-bytes buffer with partial trimming at its front, cursors and gaps.

**PaneOutput.** Publishers of two process generations, transcript invalidations, a
respawn, and receivers of every kind: attached clients with a fast queue, ring-only
readers, web viewers, raw and surface streams that rebase. A publication is four
steps (ring, fast queues, load of the count, decision and wakeup), the notification of an
invalidation two. After it has announced itself to the `Notify`, a receiver may find the
ring ahead of a fast queue that was empty when it looked.

**SdkWaits.** A wait subscribes, registers its key and quota, scans events and gap
snapshots for a pattern and answers, around cancels, connection teardown and output.
Payloads are sequences over two letters; the pattern is two letters long.

**PaneStateJournal.** The journal as a value: push with its two eviction budgets, what is
remembered of evicted records per pane and process generation, subscriptions with their
limits, closing and reopening of a pane, and reading after a revision (a batch, nothing,
or a lag).

**PaneState.** Clients subscribe to titles, options or the foreground process of a pane,
get a snapshot and follow the journal with a long poll, while pane output, `select-pane`,
option changes, kills, exits and respawns record changes and a polling watcher compares
the foreground with its cache. `select-pane -T` is two steps, as its two locks are. So is
the end of a pane: the journal has it first, the cache and the sleepers later. An exit
that keeps the pane is marked in one critical section and recorded in another, and comes
twice where both the child watcher and the end of the output report it. A probe of the
foreground may observe anything.

**SessionLeases.** The owner in the SDK with its heartbeat, cleanup, preserve, drop and
crash; the signal handlers; the server's create, renew, release, rename and removal of
leases; the reaper that wakes, makes up for a stall, extracts the expired leases and
claims each of them later, and whose kill may still fail then. A renewal has a time limit
of its own: one that ran out stays on the wire and is served late. Lease requests are answered in order on one connection, kills
travel on another. Time is counted in ticks of the reaper's interval and kept relative,
so that it needs no bound.

**SdkTransport.** Callers of six kinds (a request, one too large to encode, a
subscription, a wait that is answered twice, a guard that sends from its `Drop`, a
shutdown), the two forwarders, the actor with its
queues, its pending list and the frame it is writing, and the daemon's end of the
connection, which answers one request at a time, refuses, holds everything up while a wait
is armed, leaves when its peer is gone, gives up an answer that nobody reads, crashes or
sends what nobody asked for. Every caller's future may be dropped and every deadline may
pass at any moment.

## The runs

Distinct states are in parentheses. All passing runs are exhaustive.

| run | instance | shows |
|---|---|---|
| `waitfor` (19 thousand) | 3 requests, 1 channel | no sleeper is lost, no lock is stranded or held twice, grants are FIFO, idle entries go, shutdown releases everyone |
| `lifecycle` (227 thousand) | 4 requests (2 mutating); 2 handles and 3 positions; 2 tasks and capacity 2; 2 producers, depth 2; a pipeline of 2 requests, 1 delayed and 1 hook mutation, outbox 1 | both dispensers implement `TurnOrder`; every barrier and drain is final and returns; no mutation is cut off; effects and hooks in commit order; nothing is left behind at release; no cycle between outbox, post-commit turn and commit turn; a stuck hook is forced |
| `shutdown_request` (823 thousand) | 2 threads, 2 connections, 3 operations | the exit never ignores a connection somebody asked to count; a pending shutdown is not forgotten, unless the lease reaper queued it |
| `kill_server_cancelled` | 2 threads, 1 connection | **violated**, finding 1 |
| `pane_output` (3.4 million) | a live client and a web viewer, or a ring-only reader, or a raw and a surface stream | no output is repeated, skipped or from a replaced process; every exit is reported once; nobody sleeps on unread output |
| `pane_output_lost_wakeup` | 2 live clients, 1 ring-only reader | **violated**, finding 2 |
| `sdk_waits` (1.1 million up to symmetry) | 2 requests, 2 connections, 2 wait ids, 3 outputs of 1 or 2 letters | no missed match, no misdirected or lost cancellation, exact quota |
| `sdk_wait_false_match` | 1 request | **violated**, finding 3 |
| `pane_state` (2.3 million) | 1 pane, 1 or 2 clients, journal of 2 records and 6 bytes, 6 scenarios | no change is missed, repeated or told against a snapshot it does not follow; Closed comes last; a lag is reported only when something was lost; the watcher covers every foreground stream; nobody sleeps on an unread record |
| `pane_state_titles` | 1 pane, 1 client | **violated**, finding 4 |
| `session_leases` (612 thousand) | 2 sessions, 2 names, TTL of 3 ticks, 8 scenarios | a preserved session is kept, no lease entry leaks, nobody is reaped before their time, the lease of an owner that is gone ends, and its session with it unless the kill fails |
| `sdk_transport` (187 thousand) | 2 to 5 callers, queues of 1, 7 scenarios | answers stay with their requests; a wait is reported armed only after the daemon saw it; a graceful shutdown loses nothing; unless a wait stays armed for ever, every caller comes back and no abandoned subscription stays open |

Bounds. Two or three actors are the smallest number in which one overtakes, cancels or
blocks another; three positions let two finish out of order in front of a third. An
outbox of one event and rings of one event overflow at once, so gaps, evictions and full
queues occur in short behaviours. Two wait ids against one owner and a limit of one
finished key make keys be reused and forgotten; three outputs let a gap swallow one of two
halves of a match and another output follow it. Requests, connections and wait ids of
`sdk_waits` are symmetric: nothing compares them, and the run checks invariants only. In
`sdk_transport` five requests fill both queues, the frame buffer and both directions of
the connection, which is where callers, actor and daemon wait for each other; they are
made in a fixed order there. `MaxReservations`, `MaxOperations`,
`MaxEvents`, `MaxOutputs`, `MaxInvalidations`, `MaxGeneration` and `MaxDepth` bound
counters that are unbounded in the code; they appear as guards of the action that
increments. So do `MaxToken` and, in `SessionLeases`, `MaxStall`, how late the reaper may
wake; it exceeds both the stall threshold and the TTL. The `Scenarios` of `PaneState`,
`SessionLeases` and `SdkTransport` say which calls, subscriptions and faults occur
together in a behaviour; each fault meets every operation it can disturb in one of them,
and all faults at once are beyond TLC. `Populations` in `PaneOutput` says which receivers
exist together: receivers
meet only in the counters, the list of fast senders and the `Notify`, so pairs that
share one of these are enough. The exception is three receivers on the wakeup, which is
the instance of finding 2. `CHECK_DEADLOCK FALSE` is set everywhere because these
systems end: every bounded history runs out, and shutdown is a final state.

Each property has a mutant, an operator `..._Mut...` or one marked `Mutant` next to the
definition it replaces, which breaks it the way a slip in the code would.

### Fairness

Weak fairness of a spawned task's next step: tokio polls a woken task, and a dropped
future runs its `Drop`. Nothing forces a client to act, a cancellation, a hook to run a
command or a shutdown to begin. The stronger assumptions are these.

- `LifecycleCommitOrder`: a ticket is not passed from clone to clone for ever without
  being waited on.
- `LifecycleProducers`: a mutation scope is bounded local work, so a future that keeps
  being polled leaves its outermost scope.
- `ShutdownRequest`: strong fairness of starting an evaluation that is due, the code
  behind it is about to call it, and the threads may be busy with others meanwhile. A
  request that has only to answer ends, and a removal of the last session goes on; other
  requests and connections may stay for ever.
- `RequestAdmission`: mutating requests end; the others may run for ever.
- `LifecycleShutdown`: the last part of `EveryWaitEnds` assumes that hooks end, `StuckHookIsForced`
  that the deadline's timer fires, each inside the property.

- `SessionLeases`: time passes, the reaper and the server's tasks run, the heartbeat runs
  while its owner lives. The owner, signals, renames, suspends and lost kills are free.
- `SdkTransport`: callers, forwarders, actor and daemon keep running, and the daemon gives
  up an answer it cannot write in five seconds (`DETACHED_RESPONSE_WRITE_TIMEOUT`). Nobody
  has to drop a future, abort, crash or let a deadline of a caller pass, and a wait need
  not find its match: the daemon has no timeout for it, so the liveness properties assume
  that none stays armed for ever (`WaitsEnd`).

`PaneOutput`, `SdkWaits` and `PaneState` state safety only. "Is woken in the end" appears there as
the absence of a state in which somebody sleeps and nobody is left to wake them.

## Proofs

The theorems hold for every value of the constants that satisfies the assumptions named
in the modules; TLC evaluates the assumptions in every run. Each theorem rests on an
inductive invariant that is stronger than what it states. Where
an invariant counts (guards, receivers, owners of a key), the sets counted are assumed to
be finite; where a counter has a bound, the bound is any natural number.

**WaitForProofs** (any requests and channels; `NoWaiterAssumption`: `NoWaiter` is not a
request). `TypeCorrect`, `StoreIsSafe` (`LocksAreSafe`), `NoWaiterIsLost`
(`NoLostWaiter`), `NoEntryLeaks` (`NoLeak`), and the action property `GrantsAreFifo`
(`FifoGrant`). None is inductive. `NoLostWaiter`, for one, needs to know that a request
leaves a queue only with a value in its oneshot, hence that queues hold distinct requests
that were sent nothing; the lock properties need to know which states a granted request
can be in. `IInv` says this per channel (`QueueOK`, `GrantOK`, `LockOK`) and per request
(`RequestOK`). Since an absent channel and one in the default state are alike, the
argument goes through `State(c)`: `PutBecomes` and `IdleBecomes` turn every update of the
map into an update of one state, `StoreStep` reduces preservation to that channel and the
requests it wakes, and there is one lemma per store method and task step.

**ShutdownProofs** is about three modules.
`RequestAdmission` (`RequestsAssumption`): `AdmissionTypeCorrect`, the counters never go
below zero; `AdmissionClosingIsFinal` (`BarriersAreFinal`), after the listener saw a
counter at zero behind the closed gate nobody it waited for runs. `GateInv` adds that both
counters equal the number of guards and that the gate is closed once the listener stopped
serving. `ShutdownRequest` (`ThreadsAssumption`): `NoExitIgnoresAClient`
(`ExitScopeIsTight`, an action property), from the scheduled retry being as tight as
everything asked since it was scheduled (`ScheduledIsTight`). `LifecycleProducers`
(`ProducersAssumption`): `MutationsComplete` (`MutationIsNeverCut`), closing a lane cuts
no mutation and no task runs before it was handed over, from where a guard can
exist (`Scope`); `LanesStayClosed`, a closed lane stays closed and a drained one drained,
from `RegistrationsAreExact`. A producer may own two registrations of its lane, so the
count is the number of tokens, pairs of a producer and a number.

**LifecycleOrderProofs** is about the two turn dispensers (`HandlesAssumption`,
`TasksAssumption`). `CommitOrderImplementsTurnOrder` and `SequencerImplementsTurnOrder` are
refinements of `TurnOrder`. Their invariants say who owns a position: a claimed ticket has
one claimer, a ticket that `finish_once` swapped has at most one handle on its way to the
coordinator, and every position from `next_sequence` on is outstanding or was finished out
of order. `BarriersHold` (`BarrierIsFinal`): the count that the barriers poll is
decremented a step after the swap, so `CountIsExact` counts guards, tickets before the swap
and handles after it. `DrainedLanesStayDrained` (`DrainIsFinal`): the pending count of a
lane is the number of tasks registered in it.

**LifecycleShutdownProofs** is about the composed pipeline (`MutationsAssumption`; any
mutations of the three kinds, any capacities). `PipelineTypeCorrect`;
`EventsKeepCommitOrder` (`EventsInCommitOrder`), effects and hooks happen in the order of
the commits; `ReleaseComesLast` (`ReleaseIsLast`), when the listener releases the endpoint
nothing of the pipeline is left and every mutation that committed had its effects
dispatched, except for one hook command that a forced shutdown may have cut. `PipelineInv` says which pairs of places a mutation and its
publication can be in (`Stage`), that the two orders list each outstanding one once
(`Positions`, `Tickets`), what was already delivered and is hence behind everything still
ordered (`Effects`, `Hooks`), that slots are neither lost nor invented (`Slots`), and how far
each phase of the shutdown has emptied the pipeline (`Control`, `Settled`, `AllHooked`), and
that a hook's mutation without a position is the command that the consumer awaits
(`Commands`), so that its abort cuts at most that one.

**SessionLeasesProofs** (`NamesAssumption`, `TimesAssumption`: `Threshold` in `2 .. Ttl`,
`MaxStall >= Threshold`; any scenarios). `PreservedSessionsAreKept` (`PreservedIsKept`);
`NoLeaseIsLeaked` (`LeasesHaveSessions`, its type invariant included). `WireInv` says what
can be on the lease connection (no request twice, one that timed out set apart, and an
answer only for somebody who may wait for it), `ServerInv` that tokens are handed out once and the owner's only for its
session, `KillsInv` which kills can be on their way in each state of the owner, and
`ReleaseInv` that once the release was answered no lease carries the owner's token, so that
the reaper's later claim fails.

**SdkWaitsProofs** (any pattern and output; `ConnectionsAssumption`, `LimitsAssumption`).
`EveryAnswerIsOwn` (`AnswersAreOwn`) and `NoCancelIsLost` (`CancelReachesTask`) follow from
an invariant `IInv` whose core is that a key belongs to one guard at a time, because the
quota refuses a second reservation until the first guard is dropped: whatever a cancel, a
teardown or a drop does to a key reaches one wait. What is read from the ring does not
matter to it. `QuotaIsAlwaysExact` (`QuotaIsExact`) adds that each scope is charged with
exactly the reservations made in it, that the lists of finished and of pending keys hold
distinct keys within their limits, and what cursors and the recent bytes may be.

**SdkTransportProofs** (any calls, capacities and scenarios; `CallsAssumption`).
`TransportIsSafe` proves `TransportInv`; from it follow `AnswersAreAligned`
(`AnswersStayAligned`), `WaitsAreArmed` (`ArmedIsArmed`) and `ShutdownsLoseNothing`
(`ShutdownLosesNothing`). The core is `Alignment`: the frames on their way back, taken in
order, complete the pending calls in order (`Fits`, which follows the stream frame by frame
because a wait is answered by two), and what remains (`Rest`) is what the daemon has still
to answer. Around it: what a queue entry may be and that a call is in one place only
(`Entries`, `Order`), which channels are still open (`Channels`, `Untouched`), what is empty
once a side is gone (`GoneIsEmpty`), and that everything sent before a shutdown is answered,
or still pending, when the shutdown is taken (`Shutdowns`).

**PaneOutputProofs** (any finite set of receivers of every kind, any capacities and
number of outputs, invalidations and respawns; `ReceiversAssumption`,
`CapacityAssumption`). `PaneOutputIsSafe` proves `PaneOutputInv`; from it follow
`OutputIsAccounted` (`OutputAccounted`: an attached client or a ring-only reader gets every
event once or counted in a gap, by whichever of the two paths it comes), `ReplacedProcessIsSilent` (`OldProcessIsSilent`)
and `ExitsAreReportedOnce` (`ExitsReportedOnce`). `RingOK` says that the retained events are
numbered without a hole; `Copies` that a copy in a fast queue of the current epoch is of the
current process; `Fine` ties what a receiver was given to its cursor; for a stream, `Owes`
balances the exits it has still to report against the end-of-file markers in front of its
cursor and the revision it carried over. `Counts` is the exact number of receivers.

Induction over data. The library's induction theorems cannot be instantiated, but what is
recursive here is over natural numbers, and a set of naturals that is not empty has a least
element (`LeastNumber`, `NumbersFrom0`, from the well-foundedness theorems). In `SdkWaits`
`UpTo` and `Recursion` solve with it the recursive functions that maintain the key lists; in
`SdkTransport` the same argument gives the laws of the count `Before`; in `PaneOutput` it
gives what the eviction of the ring keeps.

Only model-checked:

- all liveness, which TLAPS does not prove: `ShutdownReleasesAll`, `EveryWaitEnds`,
  `StuckHookIsForced`, `PendingIsServed`, `NobodyIsForgotten`, `CallersAreAnswered` and
  `OrphansAreReleased`;
- `NoLostWakeup`, which is not a theorem: it fails with three receivers (finding 2) and is
  checked on the instances that avoid that window;
- `NoMissedMatch`, which relates the matcher's automaton to the whole output;
- the properties of `PaneState`, which depend on what the journal keeps of evicted records
  per pane and generation;
- `ReapedInTime`, a bound on elapsed time.

## Findings

1. `kill_server_cancelled`: a queued `kill-server` can be lost. An idle shutdown request
   overwrites it and is then cancelled as stale, or the stale branch of another thread's
   evaluation clears it (`handler_shutdown.rs:285`, `:453`).
2. `pane_output_lost_wakeup`: `notify_receivers_after_fast` (`pane_io/types.rs:1022`)
   compares two counters loaded at different moments. With one attached client and one
   sleeping ring-only reader (an SDK wait, a control client), a second client that
   attaches between the loads makes the counts agree, and the reader is not woken for
   output that is already in the ring. It stays asleep until the next output.
3. `sdk_wait_false_match`: after a gap, `observe_gap` (`handler_waits.rs:546`) scans the
   recent bytes including events that are still retained, and the cursor then reads those
   events again behind the tail it kept. A wait can match a pattern that the pane never
   emitted.

4. `pane_state_titles`: `select-pane -T` changes the title under the transcript's lock
   (`handler_pane/selection.rs:168`) and records the change later (`:241`). Pane output
   that sets another title in between is recorded first, so a stream is told of the two
   changes in reverse order and ends with a title the pane no longer has. The
   properties of `pane_state` except the records made in that window (`disordered`).
   `CaughtUpViewIsTrue` names two similar windows of the foreground, in which a stream is
   wrong until the next change.

Further observations, not findings: behaviour of the code that the properties except by
name, because no document or comment says otherwise.

- The lease reaper that kills the last session queues `exit-empty`, and nobody evaluates it
  afterwards: the daemon stays up until some other event does (`unseen` in
  `PendingIsServed`).
- A forced shutdown that aborts a hook command without a post-commit position between its
  commit and its emission keeps the change and loses its events (`Cut` in `ReleaseIsLast`).
- A wait without a match holds up every later call of its connection (`WaitsEnd`).
- A kill that fails after the reaper's claim leaves a session without a lease, which
  nothing reaps later (`NobodyIsForgotten`).

A web viewer is not told of an exit that falls
between an invalidation and its own reading of it; it only uses the item to reset its
sanitizer, and `ExitsReportedOnce` is stated for pane streams. A retained end-of-file
marker may be reported as the exit of a later process when the earlier one was already
reported out of a gap; the number of exits is exact.

## Not modelled

Inside the modelled parts: target resolution and its errors, message texts, terminal
passthroughs (they only keep an event out of the fast queue), the byte budget and
encoding of one stream answer, the rebase cache, and 64-bit counters that do not wrap in
practice. `SdkWaits` has one pane whose process neither ends nor is replaced. In
`PaneState` a client has one stream, as the SDK opens them, and the watcher polls all
panes in one batch. In `SdkTransport` errors are not told apart. In `SessionLeases`:

- the reaper may wake a little earlier after a long reap than its timer would let it, and
  kills its candidates in any order (the code sorts them by name), so the model has more
  behaviours than the code;
- the bound of one late renewal at a time: a second one would be another renewal of the
  same token;
- `ReapedInTime` does not cover a suspend that falls right after a renewal made while the
  reaper was overdue, or between the extraction of an expired lease and its claim; the code
  does not make up for these either;
- the kill of a `cleanup()` future that the application itself abandoned may arrive after
  a later `preserve`; `PreservedIsKept` excepts it;
- a refused renewal is retried until the deadline, as in the code, where the branch for an
  immediate loss is never reached.

Not modelled at all, with the reason for each, are the components with status
`not_modelled` in `PROJECT.json`. Most are system calls (PTY backend, IPC, OS helpers),
bulk sequential data (terminal emulation, rendering, layouts), text (parsing, formats, the
wire format), user interface or cryptography. The components of status `partly` say what
is missing of them. Of those that have concurrency of their own, attached clients (their
registration, switching and refresh), control-mode clients, Web Share and the background
task registry come closest to what is modelled here and would be next; the first three
reach into most of the session state, which would have to be modelled with them.

The repository has about 450 thousand lines, tests included. The definitions here stand
for about seven thousand of them, between one and two per cent: this is a verification of
the daemon's coordination, and no statement about the rest of the program.
