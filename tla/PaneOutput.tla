----------------------------- MODULE PaneOutput -----------------------------
(***************************************************************************)
(* The output channel of a pane (rmux-server, pane_io/types.rs): reader    *)
(* threads publish output into the shared ring; attached clients ("live")  *)
(* also get it through a bounded fast queue, control clients and SDK waits *)
(* ("plain") only from the ring, and recoverable observers read output,    *)
(* invalidations and process exits.  Web viewers await an observer, pane   *)
(* streams poll one and replace it when they rebase                        *)
(* (handler/pane_stream_raw.rs, handler/pane_stream_surface.rs).           *)
(*                                                                         *)
(* The critical section of the state mutex is one step.  The atomics, the  *)
(* fast queues and the Notify are touched outside it, so a publication is  *)
(* four steps and a recv() up to four.  Output of generation g is <<g>>,   *)
(* the end of file of its process, once, is empty; later output of the     *)
(* generation is a message of the daemon (handler_pane/management.rs).     *)
(* Passthroughs and oversized payloads only make an event unfit for the    *)
(* fast queue.                                                             *)
(***************************************************************************)
EXTENDS OutputRing, Integers, FiniteSets

CONSTANTS Live, Plain, Web, RawStreams, SurfaceStreams,
          Populations,          \* the sets of receivers that may be there together
          FastCapacity,
          MaxGeneration, MaxOutputs, MaxInvalidations    \* bounds on the pane's history

VARIABLES
    ring, generation, fast_epoch,
    invalidation_revision, process_exit_revision, process_exit_revision_at_invalidation,
    receiver_count, fast_receiver_count,
    fast_receivers,             \* the receivers whose fast sender is in the list
    waiters,                    \* Notify: receivers waiting, oldest first
    permit,                     \* Notify: the permit notify_one leaves when nobody waits
    pub,                        \* the publisher of each generation
    unnotified,                 \* how far the notify_receivers of an invalidation has come
    rcv,                        \* the receivers
    accounted,                  \* history: the output returned or reported missing so far
    stale,                      \* history: receivers that were given a replaced process's output
    owed                        \* history: process exits not yet reported to each stream

state == <<ring, generation, fast_epoch, invalidation_revision, process_exit_revision,
           process_exit_revision_at_invalidation>>
counts == <<receiver_count, fast_receiver_count, fast_receivers>>
notify == <<waiters, permit>>
history == <<accounted, stale, owed>>
vars == <<state, counts, notify, pub, unnotified, rcv, history>>

Streams == RawStreams \cup SurfaceStreams
Observers == Web \cup Streams
Receivers == Live \cup Plain \cup Observers
Readers == 0 .. MaxGeneration

ASSUME ReceiversAssumption ==
    /\ IsFiniteSet(Receivers)
    /\ Live \cap Observers = {} /\ Plain \cap Observers = {} /\ Web \cap Streams = {}
    /\ FastCapacity \in Nat /\ MaxGeneration \in Nat /\ MaxOutputs \in Nat

IdleReader == [phase |-> "idle", eof |-> FALSE]

Off == [status |-> "off", woken |-> "no", cursor |-> 0, fast |-> <<>>,
        invalidation |-> 0, exit |-> 0, preserved |-> 0, pending |-> FALSE,
        dirty |-> FALSE, since |-> 0]

Absent == [Off EXCEPT !.status = "absent"]

Init ==
    /\ ring = EmptyRing /\ generation = 0 /\ fast_epoch = 0
    /\ invalidation_revision = 0 /\ process_exit_revision = 0
    /\ process_exit_revision_at_invalidation = 0
    /\ receiver_count = 0 /\ fast_receiver_count = 0 /\ fast_receivers = {}
    /\ waiters = <<>> /\ permit = FALSE
    /\ pub = [g \in Readers |-> IdleReader]
    /\ unnotified = [phase |-> "done"]
    /\ \E population \in Populations :
         rcv = [r \in Receivers |-> IF r \in population THEN Off ELSE Absent]
    /\ accounted = [r \in Receivers |-> 0]
    /\ stale = {}
    /\ owed = [r \in Streams |-> 0]

(* The state mutex is held through a live registration; every other        *)
(* critical section is a single step.                                      *)
Unlocked == \A r \in Live : rcv[r].status # "registering"

---------------------------------------------------------------------------
(* tokio's Notify.  notify_one wakes the oldest waiter or leaves a permit; *)
(* notify_waiters wakes those who wait now.                                 *)
Wake(rs, how) == [r \in Receivers |-> IF r \in rs THEN [rcv[r] EXCEPT !.woken = how] ELSE rcv[r]]

notify_one ==
    IF waiters = <<>>
    THEN permit' = TRUE /\ UNCHANGED <<waiters, rcv>>
    ELSE rcv' = Wake({Head(waiters)}, "one") /\ waiters' = Tail(waiters) /\ UNCHANGED permit

notify_waiters == rcv' = Wake({waiters[i] : i \in DOMAIN waiters}, "all") /\ waiters' = <<>> /\ UNCHANGED permit

NotifyBy(count) ==
    CASE count = 0 -> UNCHANGED <<rcv, notify>>
      [] count = 1 -> notify_one
      [] OTHER     -> notify_waiters

(* Dropping a Notified future: it stops waiting, and a notify_one it did   *)
(* not consume goes to the next waiter.  item is the receiver afterwards.  *)
LeaveNotify(r, item) ==
    LET rest    == SelectSeq(waiters, LAMBDA w : w # r)
        forward == rcv[r].woken = "one"
        after   == [rcv EXCEPT ![r] = [item EXCEPT !.woken = "no"]]
    IN  IF forward /\ rest # <<>>
        THEN /\ rcv' = [after EXCEPT ![Head(rest)].woken = "one"]
             /\ waiters' = Tail(rest) /\ UNCHANGED permit
        ELSE /\ rcv' = after /\ waiters' = rest /\ permit' = (permit \/ forward)

---------------------------------------------------------------------------
(* Publication.  Whether there are fast receivers is read just before the   *)
(* lock: an outdated zero has the effect of an unfit payload, and an        *)
(* outdated count finds nobody in the list.                                 *)
generation_matches(g) == generation = g

(* state.push, the invalidation that may come with the bytes, and the epoch *)
(* the fast copy will carry.                                                *)
PublishPush(g) ==
    /\ pub[g].phase = "idle" /\ g <= generation /\ Unlocked /\ generation_matches(g)
    /\ ring.next < MaxOutputs
    /\ \E bytes \in {<<g>>} \cup (IF pub[g].eof THEN {} ELSE {<<>>}), invalidates, fit \in BOOLEAN :
         /\ invalidates => bytes # <<>> /\ invalidation_revision < MaxInvalidations
         /\ ring' = push(ring, bytes)
         /\ process_exit_revision' = process_exit_revision + (IF bytes = <<>> THEN 1 ELSE 0)
         /\ IF invalidates
            THEN /\ invalidation_revision' = invalidation_revision + 1
                 /\ process_exit_revision_at_invalidation' = process_exit_revision'
                 /\ fast_epoch' = fast_epoch + 1
            ELSE UNCHANGED <<invalidation_revision, process_exit_revision_at_invalidation, fast_epoch>>
         /\ pub' = [pub EXCEPT ![g] = [phase |-> "pushed", eof |-> pub[g].eof \/ bytes = <<>>,
                      sequence |-> ring.next, bytes |-> bytes, epoch |-> fast_epoch',
                      candidate |-> fast_receiver_count > 0 /\ ~invalidates /\ fit]]
         /\ owed' = [r \in Streams |-> owed[r] + (IF bytes = <<>> /\ rcv[r].status \notin {"absent", "off", "dropped"}
                                                  THEN 1 ELSE 0)]
    /\ UNCHANGED <<generation, counts, notify, unnotified, rcv, accounted, stale>>

Full(r) == Len(rcv[r].fast) >= FastCapacity
Closed(r) == rcv[r].status = "closing"

Notifying(g, delivered) ==
    [pub EXCEPT ![g] = [phase |-> "notify", eof |-> @.eof, delivered |-> delivered]]

(* try_send_fast_output: the senders of dropped receivers leave the list. *)
PublishFast(g) ==
    LET open == {r \in fast_receivers : ~Closed(r)}
        item == [epoch |-> pub[g].epoch, sequence |-> pub[g].sequence, bytes |-> pub[g].bytes]
    IN
    /\ pub[g].phase = "pushed"
    /\ IF pub[g].candidate
       THEN /\ fast_receivers' = open
            /\ rcv' = [r \in Receivers |-> IF r \in open /\ ~Full(r)
                                           THEN [rcv[r] EXCEPT !.fast = Append(@, item)]
                                           ELSE rcv[r]]
            /\ pub' = Notifying(g, open # {} /\ \A r \in open : ~Full(r))
       ELSE /\ pub' = Notifying(g, FALSE)
            /\ UNCHANGED <<rcv, fast_receivers>>
    /\ UNCHANGED <<state, receiver_count, fast_receiver_count, notify, unnotified, history>>

Published(g) == pub' = [pub EXCEPT ![g] = [phase |-> "idle", eof |-> @.eof]]

(* notify_receivers_after_fast: two loads of the counts, then the wakeup. *)
NotifyLoad(g) ==
    /\ pub[g].phase = "notify"
    /\ IF receiver_count = 0
       THEN Published(g)
       ELSE pub' = [pub EXCEPT ![g] = [phase |-> "decide", eof |-> @.eof, delivered |-> @.delivered,
                                       receivers |-> receiver_count]]
    /\ UNCHANGED <<state, counts, notify, unnotified, rcv, history>>

\* Mutant: the wakeup is skipped whenever the fast queues took the output.
FastCoversAll_MutDelivered(g) == pub[g].delivered

FastCoversAll(g) == pub[g].delivered /\ pub[g].receivers = fast_receiver_count

NotifyDecide(g) ==
    /\ pub[g].phase = "decide"
    /\ Published(g)
    /\ IF FastCoversAll(g) THEN UNCHANGED <<rcv, notify>> ELSE NotifyBy(pub[g].receivers)
    /\ UNCHANGED <<state, counts, unnotified, history>>

Publish(g) == PublishPush(g) \/ PublishFast(g) \/ NotifyLoad(g) \/ NotifyDecide(g)

(* mutate_transcript (a resize, a cleared history, a reset terminal), and   *)
(* the respawn of the pane's process, which also drops the old output.      *)
Invalidated ==
    /\ Unlocked /\ unnotified.phase = "done"
    /\ invalidation_revision' = invalidation_revision + 1
    /\ process_exit_revision_at_invalidation' = process_exit_revision
    /\ fast_epoch' = fast_epoch + 1
    /\ unnotified' = [phase |-> "notify"]
    /\ UNCHANGED <<process_exit_revision, counts, notify, pub, rcv, history>>

mutate_transcript ==
    /\ invalidation_revision < MaxInvalidations
    /\ Invalidated
    /\ UNCHANGED <<ring, generation>>

reset_generation ==
    /\ generation < MaxGeneration /\ invalidation_revision < MaxInvalidations
    /\ generation' = generation + 1
    /\ ring' = clear_retained(ring)
    /\ Invalidated

(* notify_receivers: the load of the count, then the wakeup. *)
LoadReceivers ==
    /\ unnotified.phase = "notify"
    /\ unnotified' = [phase |-> "decide", receivers |-> receiver_count]
    /\ UNCHANGED <<state, counts, notify, pub, rcv, history>>

WakeReceivers ==
    /\ unnotified.phase = "decide" /\ unnotified' = [phase |-> "done"]
    /\ NotifyBy(unnotified.receivers)
    /\ UNCHANGED <<state, counts, pub, history>>

notify_receivers == LoadReceivers \/ WakeReceivers

---------------------------------------------------------------------------
(* Subscription.  Receivers are made under the state mutex; a live one is   *)
(* listed and counted before receiver_count is.                             *)
At(cursor) == [Off EXCEPT !.status = "ready", !.cursor = cursor,
                          !.invalidation = invalidation_revision,
                          !.exit = process_exit_revision]

subscribe(r) ==
    /\ rcv[r].status = "off" /\ Unlocked /\ r \notin Live
    /\ \E cursor \in {ring.next} \cup (IF r \in Plain THEN {oldest_sequence(ring)} ELSE {}) :
         /\ rcv' = [rcv EXCEPT ![r] = At(cursor)]
         /\ accounted' = [accounted EXCEPT ![r] = cursor]
    /\ receiver_count' = receiver_count + 1
    /\ UNCHANGED <<state, fast_receiver_count, fast_receivers, notify, pub, unnotified, stale, owed>>

register_live_receiver(r) ==
    /\ rcv[r].status = "off" /\ Unlocked /\ r \in Live
    /\ rcv' = [rcv EXCEPT ![r] = [At(ring.next) EXCEPT !.status = "registering"]]
    /\ fast_receivers' = fast_receivers \cup {r}
    /\ fast_receiver_count' = fast_receiver_count + 1
    /\ accounted' = [accounted EXCEPT ![r] = ring.next]
    /\ UNCHANGED <<state, receiver_count, notify, pub, unnotified, stale, owed>>

CountLiveReceiver(r) ==
    /\ rcv[r].status = "registering"
    /\ rcv' = [rcv EXCEPT ![r].status = "ready"]
    /\ receiver_count' = receiver_count + 1
    /\ UNCHANGED <<state, fast_receiver_count, fast_receivers, notify, pub, unnotified, history>>

(* Drop of a receiver, parked or between two recv() calls: the fast queue   *)
(* is closed and uncounted before the list is pruned.                       *)
DropFast(r) ==
    /\ rcv[r].status \in {"ready", "parked"} /\ r \in Live
    /\ LeaveNotify(r, [Off EXCEPT !.status = "closing"])
    /\ fast_receiver_count' = fast_receiver_count - 1
    /\ UNCHANGED <<state, receiver_count, fast_receivers, pub, unnotified, history>>

Drop(r) ==
    /\ rcv[r].status = "closing" \/ (rcv[r].status \in {"ready", "parked"} /\ r \notin Live)
    /\ LeaveNotify(r, [Off EXCEPT !.status = "dropped"])
    /\ receiver_count' = receiver_count - 1
    /\ fast_receivers' = fast_receivers \ {r}
    /\ accounted' = [accounted EXCEPT ![r] = 0]
    /\ owed' = [q \in Streams |-> IF q = r THEN 0 ELSE owed[q]]
    /\ UNCHANGED <<state, fast_receiver_count, pub, unnotified, stale>>

---------------------------------------------------------------------------
(* recv(): the fast queue, then waiting is announced, then both queues are  *)
(* looked at again before the task parks.                                   *)
Deliver(r, bytes) ==
    /\ accounted' = [accounted EXCEPT ![r] = @ + 1]
    /\ stale' = stale \cup (IF bytes \in {<<>>, <<generation>>} THEN {} ELSE {r})
    /\ UNCHANGED owed

ReportGap(r, missed) ==
    /\ accounted' = [accounted EXCEPT ![r] = @ + missed]
    /\ UNCHANGED <<stale, owed>>

\* Mutant: a fast item is taken whatever the cursor expects.
accepts_MutAnySequence(r, item) == item.epoch = fast_epoch

\* Mutant: a fast item is taken whatever epoch it was captured in.
accepts_MutAnyEpoch(r, item) == item.sequence = rcv[r].cursor

accepts(r, item) == item.epoch = fast_epoch /\ item.sequence = rcv[r].cursor

(* accept_fast_item: an outdated or already read item is thrown away. *)
TakenFast(r) ==
    LET item == Head(rcv[r].fast) IN
    IF accepts(r, item)
    THEN [rcv[r] EXCEPT !.fast = Tail(@), !.cursor = item.sequence + 1]
    ELSE [rcv[r] EXCEPT !.fast = Tail(@)]

DeliverFast(r) ==
    LET item == Head(rcv[r].fast) IN
    IF accepts(r, item) THEN Deliver(r, item.bytes) ELSE UNCHANGED history

try_recv_fast(r) ==
    /\ rcv[r].status = "ready" /\ rcv[r].fast # <<>>
    /\ rcv' = [rcv EXCEPT ![r] = TakenFast(r)]
    /\ DeliverFast(r)
    /\ UNCHANGED <<state, counts, notify, pub, unnotified>>

Enable(r) ==
    /\ rcv[r].status = "ready" /\ rcv[r].fast = <<>> /\ r \notin Streams
    /\ permit' = FALSE
    /\ waiters' = IF permit THEN waiters ELSE Append(waiters, r)
    /\ rcv' = [rcv EXCEPT ![r].status = "enabled", ![r].woken = IF permit THEN "all" ELSE "no"]
    /\ UNCHANGED <<state, counts, pub, unnotified, history>>

Ready(x) == [x EXCEPT !.status = "ready"]

(* A fast item seen while waiting was announced, or while parked. *)
RecvFast(r) ==
    /\ rcv[r].status \in {"enabled", "parked"} /\ rcv[r].fast # <<>>
    /\ IF rcv[r].status = "enabled" /\ ~accepts(r, Head(rcv[r].fast))
       THEN rcv' = [rcv EXCEPT ![r] = TakenFast(r)] /\ UNCHANGED notify
       ELSE LeaveNotify(r, Ready(TakenFast(r)))
    /\ DeliverFast(r)
    /\ UNCHANGED <<state, counts, pub, unnotified>>

(* try_recv: the ring, a gap first.  What is in the fast queue by now came  *)
(* after the look at it.                                                    *)
RecvRing(r) ==
    LET x == rcv[r] IN
    /\ x.status = "enabled" /\ Unlocked /\ r \in Live \cup Plain
    /\ \/ /\ Lags(ring, x.cursor)
          /\ LeaveNotify(r, [Ready(x) EXCEPT !.cursor = oldest_sequence(ring)])
          /\ ReportGap(r, oldest_sequence(ring) - x.cursor)
       \/ /\ HasEvent(ring, x.cursor)
          /\ LeaveNotify(r, [Ready(x) EXCEPT !.cursor = @ + 1])
          /\ Deliver(r, EventAt(ring, x.cursor).bytes)
       \/ /\ x.cursor = ring.next
          /\ rcv' = [rcv EXCEPT ![r].status = "parked"]
          /\ UNCHANGED <<notify, history>>
    /\ UNCHANGED <<state, counts, pub, unnotified>>

Awake(r) ==
    /\ rcv[r].status = "parked" /\ rcv[r].woken # "no"
    /\ rcv' = [rcv EXCEPT ![r].status = "ready", ![r].woken = "no"]
    /\ UNCHANGED <<state, counts, notify, pub, unnotified, history>>

---------------------------------------------------------------------------
(* try_recv_observed: preserved exits, then the exits before an            *)
(* invalidation, the invalidation itself, then output, where a gap waits    *)
(* until every exit is reported and an end-of-file marker is an exit or,    *)
(* if all are reported, nothing.  item names what is returned.              *)
ExitItem(x) == [item |-> "exit", x |-> [x EXCEPT !.exit = @ + 1]]

SkipMarkers(x) ==
    CHOOSE c \in x.cursor .. ring.next :
        /\ \A k \in x.cursor .. (c - 1) : EventAt(ring, k).bytes = <<>>
        /\ c = ring.next \/ EventAt(ring, c).bytes # <<>>

GapItem(x) ==
    LET y == [x EXCEPT !.cursor = oldest_sequence(ring)] IN
    IF x.exit < process_exit_revision
    THEN ExitItem([y EXCEPT !.pending = TRUE])
    ELSE [item |-> "gap", x |-> y]

PollItem(x) ==
    LET c == IF x.exit < process_exit_revision THEN x.cursor ELSE SkipMarkers(x) IN
    CASE c = ring.next                  -> [item |-> "none", x |-> [x EXCEPT !.cursor = c]]
      [] c < ring.next /\ EventAt(ring, c).bytes = <<>>
                                        -> ExitItem([x EXCEPT !.cursor = c + 1])
      [] OTHER                          -> [item |-> "event", x |-> [x EXCEPT !.cursor = c + 1]]

Observed(x) ==
    CASE x.preserved > 0 -> [item |-> "exit", x |-> [x EXCEPT !.preserved = @ - 1]]
      [] x.preserved = 0 /\ x.invalidation # invalidation_revision ->
           IF x.exit < process_exit_revision_at_invalidation
           THEN ExitItem(x)
           ELSE [item |-> "invalidated",
                 x |-> [x EXCEPT !.invalidation = invalidation_revision,
                                 !.cursor = ring.next, !.pending = FALSE]]
      [] OTHER ->
           IF x.pending
           THEN IF x.exit < process_exit_revision
                THEN ExitItem(x)
                ELSE [item |-> "gap", x |-> [x EXCEPT !.pending = FALSE]]
           ELSE IF Lags(ring, x.cursor) THEN GapItem(x) ELSE PollItem(x)

Report(r, item) ==
    /\ owed' = IF item = "exit" THEN [owed EXCEPT ![r] = @ - 1] ELSE owed
    /\ UNCHANGED <<accounted, stale>>

(* recv_observed of a web viewer. *)
RecvObserved(r) ==
    LET o == Observed(rcv[r]) IN
    /\ rcv[r].status = "enabled" /\ Unlocked /\ r \in Web
    /\ IF o.item = "none"
       THEN rcv' = [rcv EXCEPT ![r] = [o.x EXCEPT !.status = "parked"]] /\ UNCHANGED notify
       ELSE LeaveNotify(r, Ready(o.x))
    /\ UNCHANGED <<state, counts, pub, unnotified, history>>

(* A client polls its stream.  A raw stream rebases on an invalidation or a *)
(* gap and reads nothing more before; a surface stream refreshes on output  *)
(* too, and goes on reading.                                                *)
PollStream(r) ==
    LET o == Observed(rcv[r])
        dirties == o.item \in {"invalidated", "gap"} \/ (o.item = "event" /\ r \in SurfaceStreams)
    IN
    /\ rcv[r].status = "ready" /\ Unlocked /\ r \in Streams
    /\ r \in RawStreams => ~rcv[r].dirty
    /\ rcv' = [rcv EXCEPT ![r] = [o.x EXCEPT !.dirty = @ \/ dirties]]
    /\ Report(r, o.item)
    /\ UNCHANGED <<state, counts, notify, pub, unnotified>>

BeginRebase(r) ==
    /\ rcv[r].status = "ready" /\ rcv[r].dirty
    /\ rcv' = [rcv EXCEPT ![r].status = "rebasing", ![r].since = rcv[r].exit]
    /\ UNCHANGED <<state, counts, notify, pub, unnotified, history>>

\* Mutant: the replacement receiver does not carry over unreported exits.
preserve_process_exits_since_MutForgets(x, since) == x

preserve_process_exits_since(x, since) == [x EXCEPT !.preserved = x.exit - since]

(* The state is captured and a new receiver made at the same boundary.  A   *)
(* surface stream that was invalidated again keeps its receiver; so does a  *)
(* stream whose capture or frame failed.                                    *)
FinishRebase(r) ==
    /\ rcv[r].status = "rebasing" /\ Unlocked
    /\ r \in SurfaceStreams => invalidation_revision = rcv[r].invalidation
    /\ rcv' = [rcv EXCEPT ![r] = preserve_process_exits_since(At(ring.next), rcv[r].since)]
    /\ UNCHANGED <<state, counts, notify, pub, unnotified, history>>

AbandonRebase(r) ==
    /\ rcv[r].status = "rebasing"
    /\ rcv' = [rcv EXCEPT ![r].status = "ready", ![r].since = 0]
    /\ UNCHANGED <<state, counts, notify, pub, unnotified, history>>

---------------------------------------------------------------------------
ReceiverStep(r) ==
    \/ subscribe(r) \/ register_live_receiver(r) \/ CountLiveReceiver(r) \/ DropFast(r) \/ Drop(r)
    \/ try_recv_fast(r) \/ Enable(r) \/ RecvFast(r) \/ RecvRing(r) \/ RecvObserved(r) \/ Awake(r)
    \/ PollStream(r) \/ BeginRebase(r) \/ FinishRebase(r) \/ AbandonRebase(r)

Next ==
    \/ \E g \in Readers : Publish(g)
    \/ mutate_transcript \/ reset_generation \/ notify_receivers
    \/ \E r \in Receivers : ReceiverStep(r)

Spec == Init /\ [][Next]_vars

(* Every variable keeps its type; queues keep their capacities, and no       *)
(* cursor or exit revision of a receiver is ahead of the channel.             *)
TypeOK ==
    /\ ring.next \in 0 .. MaxOutputs /\ Len(ring.events) <= EventCapacity
    /\ generation \in Readers
    /\ receiver_count \in 0 .. Cardinality(Receivers)
    /\ fast_receiver_count \in 0 .. Cardinality(Live) /\ fast_receivers \subseteq Live
    /\ \A r \in Receivers :
         /\ rcv[r].status \in {"absent", "off", "registering", "ready", "enabled", "parked", "rebasing",
                               "closing", "dropped"}
         /\ rcv[r].cursor \in 0 .. ring.next
         /\ Len(rcv[r].fast) <= FastCapacity
         /\ rcv[r].exit <= process_exit_revision

(* Every published event from a subscription on is either returned once, in *)
(* order, or counted in a gap: the fast queue and the ring carry the same   *)
(* events and neither repeats nor skips one (accept_fast_item, poll_cursor).*)
(* Cursors and queues stay within what TypeOK says.                         *)
OutputAccounted ==
    /\ TypeOK
    /\ \A r \in Live \cup Plain : rcv[r].status \notin {"closing", "dropped"}
                                   => accounted[r] = rcv[r].cursor

(* After a respawn (reset_generation) no receiver is given output of the   *)
(* old process, neither from a late reader nor from a fast queue, where a   *)
(* publisher may put it after the ring was cleared.                         *)
OldProcessIsSilent == stale = {}

(* A pane stream reports every exit of the pane's process exactly once,     *)
(* across gaps that evicted the marker, invalidations and rebases: never    *)
(* more than happened, and all of them once it has caught up.               *)
ExitsReportedOnce ==
    \A r \in Streams :
        /\ owed[r] >= 0
        /\ (rcv[r].status = "ready" /\ ~rcv[r].dirty /\ Observed(rcv[r]).item = "none")
              => owed[r] = 0

(* No receiver sleeps on output or an invalidation it has not seen once     *)
(* every publisher has done its wakeups (notify_receivers_after_fast): an   *)
(* SDK wait "Waits until the pane emits the requested raw byte sequence".   *)
NoLostWakeup ==
    /\ unnotified.phase = "done"
    /\ \A g \in Readers : pub[g].phase = "idle"
    => \A r \in Receivers :
         (rcv[r].status = "parked" /\ rcv[r].woken = "no" /\ rcv[r].fast = <<>>)
           => IF r \in Web THEN Observed(rcv[r]).item = "none" ELSE rcv[r].cursor = ring.next
=============================================================================
