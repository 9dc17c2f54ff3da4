-------------------------- MODULE PaneStateJournal --------------------------
(***************************************************************************)
(* The revisioned journal of pane state changes (rmux-server,              *)
(* pane_state_journal.rs and its two submodules), as operators on a        *)
(* journal value: the handlers apply them under one mutex.                 *)
(*                                                                         *)
(* A record is evicted when the journal is over its number of records or   *)
(* its bytes, and what was evicted is remembered per pane and process      *)
(* generation by the newest revision of each kind.  A subscription made by *)
(* the server always names a generation; a record without one (a kill) has *)
(* generation 0 and no subscription matches it: its subscribers are closed *)
(* by the flag, and read a Closed event that is made up for them.  The two *)
(* counts the source keeps per (pane, generation) are read off the records *)
(* and the subscriptions.  closed_revision 0 is None.                      *)
(***************************************************************************)
EXTENDS Naturals, Sequences, SequencesExt, FiniteSets

CONSTANTS Capacity, ByteCapacity,
          Bytes                     \* the length of every title, option or foreground value

Kinds == {"title", "options", "foreground"}
NoGeneration == 0

EmptyJournal(max_per_pane) ==
    [next_revision |-> 0, next_subscription |-> 1, records |-> <<>>,
     evicted_revisions |-> <<>>, subscriptions |-> <<>>, closed_panes |-> <<>>,
     max_per_pane |-> max_per_pane]

retained_record_bytes(record) == 1 + Bytes[record.old] + Bytes[record.new]

record_matches_include(record, include) == record.kind = "closed" \/ record.kind \in include

record_matches_subscription(record, s) ==
    /\ record.pane = s.pane
    /\ record.generation = s.generation
    /\ record_matches_include(record, s.include)

Key(x) == <<x.pane, x.generation>>

ForAllSubscriptions(j, F(_)) ==
    [j EXCEPT !.subscriptions = [id \in DOMAIN @ |-> F(@[id])]]

---------------------------------------------------------------------------
(* What the evicted records of one (pane, generation) were.                *)
NothingEvicted == [kind \in Kinds \cup {"closed"} |-> 0]

EvictedOf(j, key) == IF key \in DOMAIN j.evicted_revisions THEN j.evicted_revisions[key] ELSE NothingEvicted

max_matching_state_change(evicted, include) == Max({0} \cup {evicted[kind] : kind \in include})

max_matching(evicted, include) == Max({evicted["closed"], max_matching_state_change(evicted, include)})

\* Mutant: only the summary of the pane's generation is kept up to date, not the
\* subscriptions that were closed before.
record_eviction_MutClosed(j, record) ==
    [j EXCEPT !.evicted_revisions =
        (Key(record) :> [EvictedOf(j, Key(record)) EXCEPT ![record.kind] = record.revision]) @@ @]

record_eviction(j, record) ==
    LET Closed(s) == IF /\ record.kind # "closed" /\ record.revision < s.closed_revision
                        /\ record_matches_subscription(record, s)
                     THEN [s EXCEPT !.evicted_before_close = record.revision] ELSE s
    IN  [ForAllSubscriptions(j, Closed) EXCEPT !.evicted_revisions =
           (Key(record) :> [EvictedOf(j, Key(record)) EXCEPT ![record.kind] = record.revision]) @@ @]

(* A summary is kept as long as a record or a subscription needs its key.  *)
prune_evicted_revision_keys(j, keys) ==
    LET needed == {Key(j.records[i]) : i \in DOMAIN j.records}
                  \cup {Key(j.subscriptions[id]) : id \in DOMAIN j.subscriptions}
    IN  [j EXCEPT !.evicted_revisions = Restrict(@, DOMAIN @ \ (keys \ needed))]

EvictFront(j) ==
    LET record == Head(j.records)
    IN  prune_evicted_revision_keys(record_eviction([j EXCEPT !.records = Tail(@)], record), {Key(record)})

Fits(records) ==
    /\ Len(records) <= Capacity
    /\ FoldLeft(LAMBDA sum, record : sum + retained_record_bytes(record), 0, records) <= ByteCapacity

(* A record that is over the byte budget by itself is evicted at once.     *)
push(j, pane, generation, kind, old, new) ==
    LET record == [revision |-> j.next_revision + 1, pane |-> pane, generation |-> generation,
                   kind |-> kind, old |-> old, new |-> new]
        pushed == [j EXCEPT !.next_revision = @ + 1, !.records = Append(@, record)]
        over   == Min({n \in 0 .. Len(pushed.records) :
                         Fits(SubSeq(pushed.records, n + 1, Len(pushed.records)))})
    IN  FoldLeft(LAMBDA k, n : EvictFront(k), pushed, [n \in 1 .. over |-> n])

---------------------------------------------------------------------------
(* Subscriptions.                                                          *)
SubscriptionsOf(j, pane) == {id \in DOMAIN j.subscriptions : j.subscriptions[id].pane = pane}
Open(j) == {id \in DOMAIN j.subscriptions : ~j.subscriptions[id].closed}

SubscribeRefused(j, pane) ==
    \/ Cardinality(SubscriptionsOf(j, pane)) >= j.max_per_pane
    \/ Cardinality(DOMAIN j.subscriptions) >= Capacity

subscribe_at_generation(j, pane, include, generation) ==
    [j EXCEPT
      !.next_subscription = @ + 1,
      !.subscriptions = (j.next_subscription :>
          [pane |-> pane, include |-> include, generation |-> generation, closed |-> FALSE,
           closed_revision |-> 0, closed_reason |-> "none", evicted_before_close |-> 0]) @@ @]

remove_subscription_entry(j, id) ==
    IF id \notin DOMAIN j.subscriptions THEN j
    ELSE LET pane == j.subscriptions[id].pane
             rest == [j EXCEPT !.subscriptions = Restrict(@, DOMAIN @ \ {id})]
         IN  prune_evicted_revision_keys(rest, {key \in DOMAIN j.evicted_revisions : key[1] = pane})

remove_closed_subscription(j, id) ==
    IF id \in DOMAIN j.subscriptions /\ j.subscriptions[id].closed
    THEN remove_subscription_entry(j, id) ELSE j

ShouldRecordClose(j, pane) ==
    \/ ~Contains(j.closed_panes, pane)
    \/ SubscriptionsOf(j, pane) \cap Open(j) # {}

(* The panes known to be closed are bounded by the capacity, oldest first. *)
mark_pane_closed(j, pane) ==
    LET Mark(s) == IF s.pane = pane THEN [s EXCEPT !.closed = TRUE] ELSE s
        all     == Append(j.closed_panes, pane)
    IN  [ForAllSubscriptions(j, Mark) EXCEPT !.closed_panes =
           IF Contains(@, pane) THEN @ ELSE SubSeq(all, IF Len(all) > Capacity THEN 2 ELSE 1, Len(all))]

remember_pane_closed_event(j, pane, reason, revision) ==
    LET Remember(s) ==
          IF s.pane = pane /\ s.closed /\ s.closed_revision = 0
          THEN [s EXCEPT !.closed_revision = revision, !.closed_reason = reason,
                  !.evicted_before_close = max_matching_state_change(EvictedOf(j, Key(s)), s.include)]
          ELSE s
    IN  ForAllSubscriptions(j, Remember)

reopen_pane(j, pane) == [j EXCEPT !.closed_panes = SelectSeq(@, LAMBDA p : p # pane)]

---------------------------------------------------------------------------
(* Reading after a revision: a batch of events, nothing, or lag.           *)
Matching(j, s, after, upper) ==
    SelectSeq(j.records, LAMBDA r : after < r.revision /\ r.revision <= upper
                                    /\ record_matches_subscription(r, s))

ResumeRevision(j, s, after, upper) ==
    LET retained == Matching(j, s, after, upper)
    IN  IF retained = <<>> THEN Max({upper, after}) ELSE Head(retained).revision

Lag(j, s, after, upper) ==
    [read |-> "lag", missed_from |-> after, resume |-> ResumeRevision(j, s, after, upper)]
Ready(events, next) == [read |-> "ready", events |-> events, next |-> next]

relevant_lag(j, s, after) == after < max_matching(EvictedOf(j, Key(s)), s.include)

\* Mutant: what was evicted after the close counts too.
closed_relevant_lag_MutLater(j, s, after) ==
    /\ after < Max({s.evicted_before_close, max_matching(EvictedOf(j, Key(s)), s.include)})
    /\ after < s.closed_revision

closed_relevant_lag(j, s, after) == after < s.evicted_before_close /\ after < s.closed_revision

\* Mutant: what was recorded after the close is read too.
ReadClosed_MutUpper(j, s, after, limit) ==
    LET events == Matching(j, s, after, j.next_revision)
        batch  == SubSeq(events, 1, Min({limit, Len(events)}))
    IN  IF closed_relevant_lag(j, s, after) THEN Lag(j, s, after, s.closed_revision)
        ELSE IF events # <<>> THEN Ready(batch, Last(batch).revision)
        ELSE Ready(<<[revision |-> s.closed_revision, pane |-> s.pane, kind |-> "closed"]>>,
                   Max({after, s.closed_revision}))

ReadClosed(j, s, after, limit) ==
    LET events == Matching(j, s, after, s.closed_revision)
        batch  == SubSeq(events, 1, Min({limit, Len(events)}))
    IN  IF closed_relevant_lag(j, s, after) THEN Lag(j, s, after, s.closed_revision)
        ELSE IF events # <<>> THEN Ready(batch, Last(batch).revision)
        ELSE Ready(<<[revision |-> s.closed_revision, pane |-> s.pane, kind |-> "closed"]>>,
                   Max({after, s.closed_revision}))

ReadOpen(j, s, after, limit) ==
    LET events == Matching(j, s, after, j.next_revision)
    IN  IF relevant_lag(j, s, after) THEN Lag(j, s, after, j.next_revision)
        ELSE IF Len(events) >= limit THEN Ready(SubSeq(events, 1, limit), events[limit].revision)
        ELSE Ready(events, Max({j.next_revision, after}))

read_after(j, id, after, limit) ==
    LET s == j.subscriptions[id]
    IN  IF s.closed THEN ReadClosed(j, s, after, limit) ELSE ReadOpen(j, s, after, limit)
=============================================================================
