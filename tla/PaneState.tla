------------------------------ MODULE PaneState ------------------------------
(***************************************************************************)
(* Pane state streams (rmux-server, handler_pane_state.rs and              *)
(* foreground_watch.rs): a client subscribes to the title, the options and *)
(* the foreground process of a pane, gets a snapshot, and follows the      *)
(* journal with a long poll.  Titles change by pane output (the transcript *)
(* and the journal record are one step of the reader) and by select-pane   *)
(* (two steps under the state lock); options are one step under the state  *)
(* lock; kills, exits and respawns are two, the journal's and that of the  *)
(* cache and the wakeups; foreground changes are found by a polling        *)
(* watcher and kept in the cache.                                          *)
(*                                                                         *)
(* A client is a connection with one stream, as the SDK opens them         *)
(* (rmux-sdk, handles/pane/state_events.rs), so the limit of subscriptions *)
(* per connection is not reached.  The push of a change and its            *)
(* notify_waiters are one step: a cursor that reads in between has been    *)
(* woken for nothing.                                                      *)
(***************************************************************************)
EXTENDS PaneStateJournal

CONSTANTS Clients, Panes,
          Scenarios,        \* who subscribes to what, what may happen to the panes, and two bounds:
                            \* the number of subscriptions and of revisions
          Titles, Foregrounds,
          Batch,            \* PANE_STATE_CURSOR_BATCH
          OptionLimit,      \* PANE_STATE_SNAPSHOT_OPTION_BYTE_LIMIT
          FrameLimit,       \* what a response frame may hold
          MaxGeneration     \* bound

VARIABLES
    scenario,               \* the one of Scenarios this behaviour follows
    journal,
    pane,                   \* the panes of the server's state
    state_lock,             \* who holds it between two steps
    select,                 \* the title select-pane has set and not yet recorded
    closing,                \* the pane whose close is in the journal and not yet told, and whether it is news
    dying,                  \* the kept exits that are not yet recorded
    foreground_state_cache,
    foreground_watch_started, watcher,
    lane_open,              \* the normal lane of lifecycle producers admits
    client,
    log,                    \* history: every record pushed; revision n is log[n]
    disordered              \* history: the revisions that were not recorded in the order of the changes

handler == <<journal, foreground_state_cache, client, log>>
watch == <<foreground_watch_started, watcher>>
sections == <<select, closing, dying>>
vars == <<scenario, handler, pane, state_lock, sections, watch, lane_open, disordered>>

None == "none"
NoLock == "free"

\* pc: where the stream's request is.  view, base, start, next, got and raced are the
\* client's: what it believes, the revision and the content of its last snapshot, its cursor,
\* the events since that snapshot, and whether its foreground snapshot lost against the cache.
NoStream == [pc |-> "out", id |-> 0, generation |-> 0, lag |-> FALSE, revision |-> 0, closed |-> FALSE,
             seed |-> 0, title |-> None, options |-> None, foreground |-> None, notified |-> FALSE,
             view |-> [title |-> None, options |-> None, foreground |-> None],
             start |-> [title |-> None, options |-> None, foreground |-> None],
             base |-> 0, next |-> 0, got |-> <<>>, raced |-> FALSE]

Asleep == [pc |-> "off", todo |-> {}, pane |-> None, generation |-> 0, next |-> None, old |-> None]

Init ==
    /\ scenario \in Scenarios
    /\ journal = EmptyJournal(scenario.max_per_pane)
    /\ pane = [p \in Panes |-> [here |-> TRUE, dead |-> FALSE, exits |-> {}, generation |-> 1,
                                title |-> None, options |-> None]]
    /\ state_lock = NoLock /\ select = <<>> /\ closing = <<>> /\ dying = {}
    /\ foreground_state_cache = <<>>
    /\ foreground_watch_started = FALSE /\ watcher = Asleep
    /\ lane_open = TRUE
    /\ client = [c \in Clients |-> NoStream]
    /\ log = <<>> /\ disordered = {}

May(op) == op \in scenario.ops
Target(c) == scenario.target[c]
Include(c) == scenario.include[c]
Unlocked == state_lock = NoLock

---------------------------------------------------------------------------
(* Recording.                                                              *)
\* Mutant: the Notified future is not enabled before the read; only cursors that already wait are woken.
notify_waiters_MutParked(cl) ==
    [c \in Clients |-> IF cl[c].pc = "waiting" THEN [cl[c] EXCEPT !.notified = TRUE] ELSE cl[c]]

notify_waiters(cl) ==
    [c \in Clients |-> IF cl[c].pc \in {"reading", "parking", "waiting"} THEN [cl[c] EXCEPT !.notified = TRUE] ELSE cl[c]]

Room == journal.next_revision < scenario.revisions

Record(p, generation, kind, old, new) ==
    /\ journal' = push(journal, p, generation, kind, old, new)
    /\ log' = Append(log, [revision |-> journal'.next_revision, pane |-> p, generation |-> generation,
                           kind |-> kind, old |-> old, new |-> new])
    /\ client' = notify_waiters(client)

Disordered(is) == disordered' = IF is THEN disordered \cup {journal'.next_revision} ELSE disordered

ForgetForeground(p) == foreground_state_cache' = Restrict(foreground_state_cache, DOMAIN foreground_state_cache \ {p})

(* mark, push and remember in one critical section; a pane that is closed  *)
(* already and has no open subscription is not recorded again.             *)
ClosedJournal(j, p, generation, reason) ==
    IF ~ShouldRecordClose(j, p) THEN j
    ELSE LET pushed == push(mark_pane_closed(j, p), p, generation, "closed", None, None)
         IN  remember_pane_closed_event(pushed, p, reason, pushed.next_revision)

(* The journal's part of a close, under the state lock, which the caller   *)
(* keeps until the rest is done.                                           *)
RecordClosed(p, generation, reason, reopen) ==
    LET closed == ClosedJournal(journal, p, generation, reason)
        news   == closed.next_revision > journal.next_revision
    IN  /\ Room
        /\ journal' = IF reopen THEN reopen_pane(closed, p) ELSE closed
        /\ log' = IF news THEN Append(log, [revision |-> closed.next_revision, pane |-> p, generation |-> generation,
                                            kind |-> "closed", old |-> None, new |-> None])
                  ELSE log
        /\ IF news \/ reopen
           THEN closing' = <<p, news>> /\ state_lock' = "close"
           ELSE UNCHANGED <<closing, state_lock>>
        /\ UNCHANGED <<client, foreground_state_cache>>

(* Then the cache forgets the pane, and the cursors are woken.             *)
TellClosed ==
    /\ closing # <<>>
    /\ ForgetForeground(closing[1])
    /\ client' = IF closing[2] THEN notify_waiters(client) ELSE client
    /\ closing' = <<>> /\ state_lock' = NoLock
    /\ UNCHANGED <<scenario, journal, log, pane, select, dying, watch, lane_open, disordered>>

---------------------------------------------------------------------------
(* What happens to a pane.                                                 *)
pane_state_has_title_subscriptions == \E id \in Open(journal) : "title" \in journal.subscriptions[id].include

(* The transcript's lock spans the new title and the alert callback, which *)
(* records it; output may still come after the child was reported dead.    *)
OutputTitle(p) ==
    /\ May("title") /\ Room /\ pane[p].here /\ "eof" \notin pane[p].exits
    /\ \E t \in Titles \ {pane[p].title} :
         /\ pane' = [pane EXCEPT ![p].title = t]
         /\ IF pane_state_has_title_subscriptions
            THEN Record(p, pane[p].generation, "title", pane[p].title, t) /\ Disordered(select # <<>> /\ p = select[1])
            ELSE UNCHANGED <<journal, log, client, disordered>>
    /\ UNCHANGED <<scenario, foreground_state_cache, state_lock, sections, watch, lane_open>>

(* select-pane -T changes the transcript under its lock, and records       *)
(* later, both under the state lock.                                       *)
SelectTitle(p) ==
    /\ May("select") /\ Room /\ Unlocked /\ pane[p].here
    /\ \E t \in Titles \ {pane[p].title} :
         /\ pane' = [pane EXCEPT ![p].title = t]
         /\ select' = <<p, pane[p].generation, pane[p].title, t>>
    /\ state_lock' = "select"
    /\ UNCHANGED <<scenario, handler, closing, dying, watch, lane_open, disordered>>

SelectRecord ==
    /\ select # <<>>
    /\ Record(select[1], select[2], "title", select[3], select[4])
    /\ Disordered(pane[select[1]].title # select[4])
    /\ select' = <<>> /\ state_lock' = NoLock
    /\ UNCHANGED <<scenario, closing, dying, foreground_state_cache, pane, watch, lane_open>>

SetOption(p) ==
    /\ May("options") /\ Room /\ Unlocked /\ pane[p].here
    /\ \E v \in scenario.options \ {pane[p].options} :
         /\ pane' = [pane EXCEPT ![p].options = v]
         /\ Record(p, pane[p].generation, "options", pane[p].options, v)
    /\ UNCHANGED <<scenario, foreground_state_cache, state_lock, sections, watch, lane_open, disordered>>

(* The end of a process is reported by the reader, at the end of the       *)
(* output, and on Windows also by a watcher of the child, in any order.    *)
PaneExitEvents == {"eof", "child"} \cap scenario.ops

(* The pane is killed, or its process ends and the pane goes with it.      *)
RemovePane(p) ==
    /\ Unlocked /\ pane[p].here
    /\ \/ May("kill") /\ RecordClosed(p, NoGeneration, "killed", FALSE)
       \/ May("exit") /\ pane[p].exits # PaneExitEvents /\ RecordClosed(p, pane[p].generation, "exited", FALSE)
    /\ pane' = [pane EXCEPT ![p].here = FALSE]
    /\ UNCHANGED <<scenario, select, dying, watch, lane_open, disordered>>

(* remain-on-exit keeps the pane: the event marks it dead,                 *)
KeepDead(p) ==
    /\ May("keep") /\ Unlocked /\ pane[p].here
    /\ \E e \in PaneExitEvents \ pane[p].exits :
         /\ pane' = [pane EXCEPT ![p].dead = TRUE, ![p].exits = @ \cup {e}]
         /\ dying' = dying \cup {[pane |-> p, generation |-> pane[p].generation, event |-> e]}
    /\ UNCHANGED <<scenario, handler, state_lock, select, closing, watch, lane_open, disordered>>

(* and in a later section, unless the pane is gone or another process then,*)
(* records the close.                                                      *)
commit_kept_dead_pane(d) ==
    /\ Unlocked /\ dying' = dying \ {d}
    /\ IF pane[d.pane].here /\ pane[d.pane].generation = d.generation /\ pane[d.pane].dead
       THEN RecordClosed(d.pane, d.generation, "died_kept", FALSE)
       ELSE UNCHANGED <<handler, closing, state_lock>>
    /\ UNCHANGED <<scenario, pane, select, watch, lane_open, disordered>>

(* A respawn gives the pane a new transcript and generation; its options   *)
(* stay.                                                                   *)
Respawn(p) ==
    /\ May("respawn") /\ Unlocked /\ pane[p].here /\ pane[p].generation < MaxGeneration
    /\ pane' = [pane EXCEPT ![p].dead = FALSE, ![p].exits = {}, ![p].generation = @ + 1,
                            ![p].title = None]
    /\ RecordClosed(p, NoGeneration, "killed", TRUE)
    /\ UNCHANGED <<scenario, select, dying, watch, lane_open, disordered>>

---------------------------------------------------------------------------
(* Subscribing.  The subscription is made first, the snapshot is taken     *)
(* without the journal's lock, and both are made again when anything was   *)
(* recorded in between; the state lock is held throughout.                 *)
Subscribe(c) ==
    LET p == Target(c) IN
    /\ c \in DOMAIN scenario.target
    /\ \/ client[c].pc = "out" /\ Unlocked
       \/ client[c].pc = "retry"
    /\ journal.next_subscription <= scenario.subscriptions
    /\ IF \/ client[c].pc = "out" /\ "foreground" \in Include(c) /\ ~lane_open
          \/ ~pane[p].here
          \/ SubscribeRefused(journal, p)
       THEN /\ client' = [client EXCEPT ![c] = NoStream]
            /\ state_lock' = NoLock /\ UNCHANGED journal
       ELSE /\ journal' = subscribe_at_generation(journal, p, Include(c), pane[p].generation)
            /\ client' = [client EXCEPT ![c] = [NoStream EXCEPT !.pc = "snapshot", !.id = journal.next_subscription,
                            !.generation = pane[p].generation, !.revision = journal.next_revision]]
            /\ state_lock' = c
    /\ UNCHANGED <<scenario, pane, sections, foreground_state_cache, watch, lane_open, log, disordered>>

Oversized(options) == Bytes[options] > OptionLimit

(* A snapshot that fails while subscribing: nobody is woken.               *)
GiveUp(c) ==
    /\ journal' = remove_subscription_entry(journal, client[c].id)
    /\ client' = [client EXCEPT ![c] = NoStream]

(* remove_pane_state_subscription: an error takes the subscription away.   *)
Fail(c) ==
    /\ journal' = remove_subscription_entry(journal, client[c].id)
    /\ client' = notify_waiters([client EXCEPT ![c] = NoStream])

Wants(c, kind, value) == IF kind \in Include(c) THEN value ELSE None

(* pane_state_snapshot_locked.  A closed stream whose pane is gone, or is  *)
(* another process now, gets an empty one, and never a foreground.         *)
Snapshot(c) ==
    LET q == pane[Target(c)]
        empty == client[c].closed /\ (~q.here \/ q.generation # client[c].generation)
    IN  [client[c] EXCEPT !.pc = "check",
           !.title   = IF empty THEN None ELSE Wants(c, "title", q.title),
           !.options = IF empty THEN None ELSE Wants(c, "options", q.options),
           !.seed    = IF "foreground" \in Include(c) /\ ~client[c].closed THEN q.generation ELSE 0]

TakeSnapshot(c) ==
    /\ client[c].pc = "snapshot"
    /\ IF \/ Oversized(Snapshot(c).options)
          \/ ~client[c].closed /\ ~pane[Target(c)].here
       THEN /\ IF client[c].lag THEN Fail(c) ELSE GiveUp(c)
            /\ state_lock' = NoLock
       ELSE client' = [client EXCEPT ![c] = Snapshot(c)] /\ UNCHANGED <<journal, state_lock>>
    /\ UNCHANGED <<scenario, pane, sections, foreground_state_cache, watch, lane_open, log, disordered>>

\* Mutant: the revision is not looked at again.
RevisionIsStable_MutAlways(c) == TRUE

RevisionIsStable(c) ==
    (client[c].lag /\ client[c].closed) \/ journal.next_revision = client[c].revision

CheckRevision(c) ==
    /\ client[c].pc = "check"
    /\ IF RevisionIsStable(c)
       THEN /\ client' = [client EXCEPT ![c].pc = IF @ = "check" /\ client[c].seed # 0 THEN "probe" ELSE "respond"]
            /\ state_lock' = NoLock /\ UNCHANGED journal
       ELSE /\ client' = [client EXCEPT ![c].pc = IF client[c].lag THEN "rebase" ELSE "retry"]
            /\ journal' = IF client[c].lag THEN journal ELSE remove_subscription_entry(journal, client[c].id)
            /\ UNCHANGED state_lock
    /\ UNCHANGED <<scenario, pane, sections, foreground_state_cache, watch, lane_open, log, disordered>>

(* The operating system is asked without a lock, about the process ids of  *)
(* the seed: it may answer for a process that is gone or replaced by now,  *)
(* and what it does not know is taken from the pane's profile.             *)
Probe(c) ==
    /\ client[c].pc = "probe"
    /\ \E f \in Foregrounds : client' = [client EXCEPT ![c].pc = "seed", ![c].foreground = f]
    /\ UNCHANGED <<scenario, journal, log, foreground_state_cache, pane, state_lock, sections, watch, lane_open, disordered>>

seed_foreground_state_cache(p, generation, value) ==
    IF p \in DOMAIN foreground_state_cache /\ foreground_state_cache[p].generation >= generation
    THEN foreground_state_cache
    ELSE (p :> [generation |-> generation, value |-> value]) @@ foreground_state_cache

Seed(c) ==
    /\ client[c].pc = "seed"
    /\ foreground_state_cache' = seed_foreground_state_cache(Target(c), client[c].seed, client[c].foreground)
    /\ client' = [client EXCEPT ![c].pc = "respond",
                    ![c].raced = foreground_state_cache'[Target(c)].value # client[c].foreground]
    /\ UNCHANGED <<scenario, journal, log, pane, state_lock, sections, watch, lane_open, disordered>>

Unframeable(c) == Bytes[client[c].title] + Bytes[client[c].options] > FrameLimit

\* Mutant: the response is built and the watcher is left to the next subscriber.
start_foreground_watch_if_needed_MutNever == UNCHANGED watch

start_foreground_watch_if_needed ==
    IF foreground_watch_started THEN UNCHANGED watch
    ELSE foreground_watch_started' = TRUE /\ watcher' = [Asleep EXCEPT !.pc = "poll"]

Told(snapshot) == [title |-> snapshot.title, options |-> snapshot.options, foreground |-> snapshot.foreground]

(* The response: the client takes the snapshot for its state and its       *)
(* revision for its cursor.                                                *)
Respond(c) ==
    /\ client[c].pc = "respond"
    /\ IF Unframeable(c) THEN Fail(c) /\ UNCHANGED watch
       ELSE /\ client' = [client EXCEPT ![c] = [NoStream EXCEPT !.pc = "idle", !.id = client[c].id,
                 !.generation = client[c].generation, !.raced = client[c].raced,
                 !.view = Told(client[c]), !.start = Told(client[c]),
                 !.base = client[c].revision, !.next = client[c].revision]]
            /\ UNCHANGED journal
            /\ IF "foreground" \in Include(c) /\ ~client[c].lag
               THEN start_foreground_watch_if_needed ELSE UNCHANGED watch
    /\ UNCHANGED <<scenario, pane, state_lock, sections, foreground_state_cache, lane_open, log, disordered>>

---------------------------------------------------------------------------
(* The cursor: arm the Notified future, read, and wait if there is nothing. *)
Cursor(c) ==
    /\ client[c].pc = "idle"
    /\ client' = [client EXCEPT ![c].pc = "reading", ![c].notified = FALSE]
    /\ UNCHANGED <<scenario, journal, log, foreground_state_cache, pane, state_lock, sections, watch, lane_open, disordered>>

Apply(view, event) == IF event.kind = "closed" THEN view ELSE [view EXCEPT ![event.kind] = event.new]

HasKind(events, kind) == \E i \in DOMAIN events : events[i].kind = kind

Deliver(c, read) ==
    [client[c] EXCEPT !.pc = IF HasKind(read.events, "closed") THEN "closing" ELSE "idle",
       !.view = FoldLeft(Apply, @, read.events), !.next = read.next, !.got = @ \o read.events,
       !.raced = @ /\ ~HasKind(read.events, "foreground"), !.notified = FALSE]

Read(c) ==
    /\ client[c].pc = "reading"
    /\ client' = [client EXCEPT ![c] =
         IF client[c].id \notin DOMAIN journal.subscriptions THEN NoStream
         ELSE LET read == read_after(journal, client[c].id, client[c].next, Batch)
              IN  IF read.read = "lag" THEN [@ EXCEPT !.pc = "rebase", !.lag = TRUE, !.notified = FALSE]
                  ELSE IF read.events # <<>> THEN Deliver(c, read)
                  ELSE [@ EXCEPT !.pc = "parking", !.revision = read.next]]
    /\ UNCHANGED <<scenario, journal, log, foreground_state_cache, pane, state_lock, sections, watch, lane_open, disordered>>

Park(c) ==
    /\ client[c].pc = "parking"
    /\ client' = [client EXCEPT ![c].pc = "waiting"]
    /\ UNCHANGED <<scenario, journal, log, foreground_state_cache, pane, state_lock, sections, watch, lane_open, disordered>>

(* The terminal event was read; its subscription goes under a second lock. *)
CloseStream(c) ==
    /\ client[c].pc = "closing"
    /\ journal' = remove_closed_subscription(journal, client[c].id)
    /\ client' = notify_waiters([client EXCEPT ![c] = NoStream])
    /\ UNCHANGED <<scenario, log, foreground_state_cache, pane, state_lock, sections, watch, lane_open, disordered>>

Wake(c) ==
    /\ client[c].pc = "waiting" /\ client[c].notified
    /\ client' = [client EXCEPT ![c].pc = "reading", ![c].notified = FALSE, ![c].revision = 0]
    /\ UNCHANGED <<scenario, journal, log, foreground_state_cache, pane, state_lock, sections, watch, lane_open, disordered>>

(* The wait is over (or the request did not want to wait): an empty answer *)
(* moves the cursor past the records that were not for it.                 *)
Timeout(c) ==
    /\ client[c].pc = "waiting" /\ ~client[c].notified
    /\ client' = [client EXCEPT ![c].pc = "idle", ![c].next = client[c].revision, ![c].revision = 0]
    /\ UNCHANGED <<scenario, journal, log, foreground_state_cache, pane, state_lock, sections, watch, lane_open, disordered>>

(* snapshot_for_subscription: the subscription and the revision are read   *)
(* together, under the state lock.                                         *)
Rebase(c) ==
    /\ client[c].pc = "rebase" /\ state_lock \in {NoLock, c}
    /\ IF client[c].id \notin DOMAIN journal.subscriptions
       THEN Fail(c) /\ state_lock' = NoLock
       ELSE LET s == journal.subscriptions[client[c].id]
            IN  /\ client' = [client EXCEPT ![c].pc = "snapshot", ![c].closed = s.closed, ![c].foreground = None,
                                ![c].revision = IF s.closed THEN s.closed_revision - 1 ELSE journal.next_revision]
                /\ state_lock' = c
                /\ UNCHANGED journal
    /\ UNCHANGED <<scenario, log, foreground_state_cache, pane, sections, watch, lane_open, disordered>>

(* The client unsubscribes, or its connection ends and is cleaned up.      *)
Leave(c) ==
    /\ client[c].pc \in {"idle", "waiting"} \/ (client[c].pc = "rebase" /\ state_lock # c)
    /\ journal' = remove_subscription_entry(journal, client[c].id)
    /\ client' = notify_waiters([client EXCEPT ![c] = NoStream])
    /\ UNCHANGED <<scenario, log, foreground_state_cache, pane, state_lock, sections, watch, lane_open, disordered>>

---------------------------------------------------------------------------
(* The foreground watcher.                                                 *)
WatchedPanes ==
    {journal.subscriptions[id].pane : id \in {i \in Open(journal) : "foreground" \in journal.subscriptions[i].include}}

StopWatch ==
    /\ foreground_watch_started' = FALSE /\ watcher' = Asleep
    /\ foreground_state_cache' = <<>>

(* One look at the journal decides to go on or to retire.                  *)
foreground_panes_or_stop ==
    /\ watcher.pc = "poll"
    /\ IF WatchedPanes # {}
       THEN /\ watcher' = [watcher EXCEPT !.pc = "next", !.todo = WatchedPanes]
            /\ UNCHANGED <<foreground_watch_started, foreground_state_cache>>
       ELSE StopWatch
    /\ UNCHANGED <<scenario, journal, log, client, pane, state_lock, sections, lane_open, disordered>>

collect_foreground_observation ==
    /\ watcher.pc = "next" /\ Unlocked
    /\ \E p \in watcher.todo :
         watcher' = IF pane[p].here
                    THEN [watcher EXCEPT !.pc = "probe", !.pane = p, !.generation = pane[p].generation,
                                         !.todo = @ \ {p}]
                    ELSE [watcher EXCEPT !.todo = @ \ {p}]
    /\ UNCHANGED <<scenario, handler, foreground_watch_started, pane, state_lock, sections, lane_open, disordered>>

probe_foreground ==
    /\ watcher.pc = "probe" /\ Room
    /\ \E f \in Foregrounds : watcher' = [watcher EXCEPT !.pc = "commit", !.next = f]
    /\ UNCHANGED <<scenario, handler, foreground_watch_started, pane, state_lock, sections, lane_open, disordered>>

\* Mutant: an observation of a process that was replaced since is taken.
CacheTakes_MutAnyGeneration(p, generation) == TRUE

CacheTakes(p, generation) ==
    p \in DOMAIN foreground_state_cache => generation >= foreground_state_cache[p].generation

NextPane == [Asleep EXCEPT !.pc = "next", !.todo = watcher.todo]

(* The cache is replaced first; a change of the same process is recorded   *)
(* after that.  A refused mutation ends the task, and its cleanup runs.    *)
commit_foreground_observation ==
    LET p == watcher.pane
        known == p \in DOMAIN foreground_state_cache
        previous == foreground_state_cache[p]
    IN  /\ watcher.pc = "commit"
        /\ IF ~lane_open THEN StopWatch
           ELSE /\ foreground_state_cache' =
                     IF CacheTakes(p, watcher.generation)
                     THEN (p :> [generation |-> watcher.generation, value |-> watcher.next]) @@ foreground_state_cache
                     ELSE foreground_state_cache
                /\ watcher' = IF /\ known /\ CacheTakes(p, watcher.generation)
                                 /\ previous.generation = watcher.generation /\ previous.value # watcher.next
                              THEN [watcher EXCEPT !.pc = "record", !.old = previous.value]
                              ELSE NextPane
                /\ UNCHANGED foreground_watch_started
        /\ UNCHANGED <<scenario, journal, log, client, pane, state_lock, sections, lane_open, disordered>>

RecordForeground ==
    /\ watcher.pc = "record"
    /\ Record(watcher.pane, watcher.generation, "foreground", watcher.old, watcher.next)
    /\ watcher' = NextPane
    /\ Disordered(~(watcher.pane \in DOMAIN foreground_state_cache /\ foreground_state_cache[watcher.pane].value = watcher.next))
    /\ UNCHANGED <<scenario, foreground_state_cache, foreground_watch_started, pane, state_lock, sections, lane_open>>

(* The pass is over; the next one comes a second later.                    *)
WatchSleep ==
    /\ watcher.pc = "next" /\ watcher.todo = {}
    /\ watcher' = [Asleep EXCEPT !.pc = "poll"]
    /\ UNCHANGED <<scenario, handler, foreground_watch_started, pane, state_lock, sections, lane_open, disordered>>

(* A task of a closed lane is cancelled where it awaits, and cleaned up.   *)
CancelWatch ==
    /\ ~lane_open /\ watcher.pc \in {"poll", "next"}
    /\ StopWatch
    /\ UNCHANGED <<scenario, journal, log, client, pane, state_lock, sections, lane_open, disordered>>

CloseLane ==
    /\ May("shutdown") /\ lane_open
    /\ lane_open' = FALSE
    /\ UNCHANGED <<scenario, handler, pane, state_lock, sections, watch, disordered>>

---------------------------------------------------------------------------
PaneStep(p) ==
    \/ OutputTitle(p) \/ SelectTitle(p) \/ SetOption(p)
    \/ RemovePane(p) \/ KeepDead(p) \/ Respawn(p)

ClientStep(c) ==
    \/ Subscribe(c) \/ TakeSnapshot(c) \/ CheckRevision(c) \/ Probe(c) \/ Seed(c) \/ Respond(c)
    \/ Cursor(c) \/ Read(c) \/ Park(c) \/ CloseStream(c) \/ Wake(c) \/ Timeout(c) \/ Rebase(c)
    \/ Leave(c)

WatcherStep ==
    \/ foreground_panes_or_stop \/ collect_foreground_observation \/ probe_foreground
    \/ commit_foreground_observation \/ RecordForeground \/ WatchSleep \/ CancelWatch

Next ==
    \/ \E p \in Panes : PaneStep(p)
    \/ SelectRecord \/ TellClosed
    \/ \E d \in dying : commit_kept_dead_pane(d)
    \/ \E c \in Clients : ClientStep(c)
    \/ WatcherStep
    \/ CloseLane

Spec == Init /\ [][Next]_vars

---------------------------------------------------------------------------
(* Types, and the journal's own bookkeeping: revisions are consecutive,    *)
(* the budgets are kept, and no summary outlives its records and           *)
(* subscriptions.                                                          *)
TypeOK ==
    /\ Fits(journal.records)
    /\ \A i \in DOMAIN journal.records :
         journal.records[i].revision = journal.next_revision - Len(journal.records) + i
    /\ \A key \in DOMAIN journal.evicted_revisions :
         \/ \E i \in DOMAIN journal.records : Key(journal.records[i]) = key
         \/ \E id \in DOMAIN journal.subscriptions : Key(journal.subscriptions[id]) = key
    /\ state_lock \in Clients \cup {NoLock, "select", "close"}
    /\ \A p \in DOMAIN foreground_state_cache :
         foreground_state_cache[p] \in [generation : 1 .. MaxGeneration, value : Foregrounds \cup {None}]
    /\ Len(log) = journal.next_revision

Following == {c \in Clients : client[c].pc \in {"idle", "reading", "parking", "waiting", "closing", "rebase"}}

SubscriptionOf(c) == [pane |-> Target(c), generation |-> client[c].generation, include |-> Include(c)]

(* A stream is given, in order and once, exactly the changes of its pane,  *)
(* its process and its kinds between the revision of its last snapshot and *)
(* its cursor (read_after); what it was not given its snapshot covers.     *)
(* The journal stays within the bounds of TypeOK meanwhile.                *)
NoMissedChange ==
    TypeOK /\ \A c \in Following :
        LET changes == SelectSeq(log, LAMBDA r :
                           /\ client[c].base < r.revision /\ r.revision <= client[c].next
                           /\ r.kind # "closed" /\ record_matches_subscription(r, SubscriptionOf(c)))
            given   == SelectSeq(client[c].got, LAMBDA e : e.kind # "closed")
        IN  [i \in DOMAIN given |-> given[i].revision] = [i \in DOMAIN changes |-> changes[i].revision]

(* Closed is given once, and after it nothing (remove_closed_subscription);*)
(* no event is older than one before it.                                   *)
ClosedIsLast ==
    \A c \in Following :
        LET got == client[c].got
        IN  /\ \A i \in DOMAIN got : client[c].base < got[i].revision
            /\ \A i, j \in DOMAIN got : i < j => got[i].revision < got[j].revision
            /\ \A i \in DOMAIN got : got[i].kind = "closed" => i = Len(got)
            /\ client[c].pc = "closing" <=> got # <<>> /\ Last(got).kind = "closed"

LastRecord(c, kind) ==
    SelectLastInSeq(log, LAMBDA r : r.kind = kind /\ record_matches_subscription(r, SubscriptionOf(c)))

(* A stream that has read everything believes what is true of its pane.    *)
(* Three races only make it wrong until the next change: output that sets  *)
(* the title between the two steps of select-pane, a foreground record of  *)
(* a pane that was closed after the cache was replaced, and a foreground   *)
(* snapshot that lost against the watcher's own first look.                *)
CaughtUpViewIsTrue ==
    \A c \in Following :
        LET p == Target(c)
            v == client[c].view
        IN  /\ client[c].next = journal.next_revision
            /\ client[c].id \in Open(journal)
            => /\ "options" \in Include(c) => v.options = pane[p].options
               /\ "title" \in Include(c) /\ select = <<>> /\ LastRecord(c, "title") \notin disordered
                  => v.title = pane[p].title
               /\ /\ "foreground" \in Include(c) /\ ~client[c].raced /\ lane_open
                  /\ LastRecord(c, "foreground") \notin disordered
                  /\ ~(watcher.pc = "record" /\ watcher.pane = p)
                  => v.foreground = foreground_state_cache[p].value

(* The values a stream was told of one kind follow one another, from its   *)
(* snapshot on: each event starts from the value before it.                *)
Chained(c, kind) ==
    LET told == SelectSeq(client[c].got, LAMBDA e : e.kind = kind)
    IN  \A i \in DOMAIN told : told[i].old = IF i = 1 THEN client[c].start[kind] ELSE told[i - 1].new

(* A snapshot is of its revision, "atomic": the first change after it      *)
(* starts from it, and the next from there, as long as changes were        *)
(* recorded in the order they were made (the retry of                      *)
(* handle_subscribe_pane_state and snapshot_for_subscription).             *)
SnapshotsAreAtomic ==
    \A c \in Following :
        (\A i \in DOMAIN client[c].got : client[c].got[i].revision \notin disordered)
        => \A kind \in Include(c) \ {"foreground"} : Chained(c, kind)

(* Lag is reported only when a change the stream wants was really evicted  *)
(* unread, and for a closed stream one from before the close.              *)
LagIsReal ==
    \A c \in Following :
        LET id == client[c].id IN
        id \in DOMAIN journal.subscriptions /\ read_after(journal, id, client[c].next, Batch).read = "lag"
        => \E n \in 1 .. journal.next_revision - Len(journal.records) :
             /\ client[c].next < n /\ record_matches_subscription(log[n], SubscriptionOf(c))
             /\ journal.subscriptions[id].closed => n < journal.subscriptions[id].closed_revision

(* As long as the lane is open, a stream that asked for the foreground has *)
(* a watcher (foreground_panes_or_stop retires under the journal's lock).  *)
WatcherCovers ==
    lane_open =>
        /\ foreground_watch_started <=> watcher.pc # "off"
        /\ \A c \in Following : "foreground" \in Include(c) /\ client[c].id \in Open(journal)
                                => foreground_watch_started

(* A cursor that sleeps without a wakeup on its way has nothing to read,   *)
(* unless a close is just being recorded that will wake it.                *)
SleepersHaveReadAll ==
    \A c \in Clients :
        client[c].pc = "waiting" /\ ~client[c].notified /\ ~(closing # <<>> /\ closing[2])
        => /\ client[c].id \in DOMAIN journal.subscriptions
           /\ LET read == read_after(journal, client[c].id, client[c].next, Batch)
              IN  read.read = "ready" /\ read.events = <<>>

(* A title event starts from the title the stream was told before:         *)
(* "Previous title." (rmux-sdk, handles/pane/state_events.rs).             *)
TitlesChain == \A c \in Following : "title" \in Include(c) => Chained(c, "title")
=============================================================================
