------------------------------ MODULE SdkWaits ------------------------------
(***************************************************************************)
(* Daemon-backed SDK waits (rmux-server, handler_waits.rs and              *)
(* handler/sdk_wait_quota.rs; rmux-core, events/wait.rs): a request        *)
(* subscribes to a pane's output, registers its key and a quota            *)
(* reservation, and scans the output for a byte pattern, while other       *)
(* clients cancel keys, connections go away and output keeps arriving.     *)
(*                                                                         *)
(* An action is one critical section of the sdk_waits mutex, or one poll   *)
(* of the pane's output; between them the other threads of the daemon run. *)
(* The ring is one pane's; its child emits non-empty payloads only, the    *)
(* end-of-file marker and a respawn are not part of this model.            *)
(***************************************************************************)
EXTENDS OutputRing, SequencesExt, FiniteSets, FiniteSetsExt

CONSTANTS Requests, Connections, Owners, WaitIds, Payloads, Needle,
          GlobalLimit, ConnectionLimit, OwnerLimit, PaneLimit,
          FinishedLimit, PendingCancelLimit,
          MaxEvents             \* bound on the payloads the pane emits

VARIABLES
    ring,                       \* the pane's output ring
    emitted,                    \* history: every payload the pane emitted
    registry,                   \* SdkWaitRegistry: key -> connection, or None
    cancel_senders,             \* the keys whose cancellation sender is held
    usage,                      \* quota weight per scope
    reservations,               \* key -> the scopes it is charged to, {} if none
    finished_waits, cancelled_before_register,
    closed,                     \* connections that were torn down
    req,                        \* what each wait request's task is doing
    revoked                     \* history: requests whose registration a cancel or teardown ended

waits == <<registry, cancel_senders, usage, reservations, finished_waits, cancelled_before_register>>
vars == <<ring, emitted, waits, closed, req, revoked>>

None == "none"
ASSUME ConnectionsAssumption == None \notin Connections
ASSUME LimitsAssumption ==
    /\ IsFiniteSet(Requests) /\ IsFiniteSet(Owners) /\ IsFiniteSet(WaitIds)
    /\ {GlobalLimit, ConnectionLimit, OwnerLimit, PaneLimit, FinishedLimit, PendingCancelLimit, MaxEvents}
         \subseteq Nat

Keys == Owners \X WaitIds

(* The pane and the whole daemon are scopes like a connection or an owner. *)
Scopes == {"global", "pane"} \cup Connections \cup Owners
Limit(scope) == CASE scope = "global"       -> GlobalLimit
                  [] scope = "pane"         -> PaneLimit
                  [] scope \in Connections  -> ConnectionLimit
                  [] OTHER                  -> OwnerLimit
Charged(key, connection) == {"global", "pane", connection, key[1]}

Statuses == {"idle", "subscribed", "draining", "select", "matched", "leaving", "done"}
Guarded == {"draining", "select", "matched", "leaving"}   \* a RegisteredSdkWaitGuard is alive

Idle == [status |-> "idle", key |-> <<>>, connection |-> None, start |-> 0,
         cursor |-> 0, tail |-> <<>>, signalled |-> FALSE, response |-> None]

Init ==
    /\ ring = EmptyRing /\ emitted = <<>>
    /\ registry = [k \in Keys |-> None]
    /\ cancel_senders = {}
    /\ usage = [s \in Scopes |-> 0]
    /\ reservations = [k \in Keys |-> {}]
    /\ finished_waits = <<>> /\ cancelled_before_register = <<>>
    /\ closed = {}
    /\ req = [r \in Requests |-> Idle]
    /\ revoked = {}

(* BoundedSdkWaitKeys: insert forgets the oldest keys beyond the limit. *)
BoundedInsert(keys, key, limit) ==
    LET longer == IF Contains(keys, key) THEN keys ELSE Append(keys, key)
    IN  From(longer, 1 + (IF Len(longer) > limit THEN Len(longer) - limit ELSE 0))

(* VecDeque::retain keeps the other keys in their order. *)
BoundedRemove(keys, key) ==
    LET kept[i \in 0 .. Len(keys)] ==
          IF i = 0 THEN <<>>
          ELSE IF keys[i] = key THEN kept[i - 1] ELSE Append(kept[i - 1], keys[i])
    IN  kept[Len(keys)]

(* insert, for one key after the other. *)
BoundedInsertAll(keys, order, limit) ==
    LET inserted[i \in 0 .. Len(order)] ==
          IF i = 0 THEN keys ELSE BoundedInsert(inserted[i - 1], order[i], limit)
    IN  inserted[Len(order)]

(* Sending (or dropping) a key's cancellation sender resolves the receiver  *)
(* of the task that holds the key's guard.                                  *)
Holders(keys) == {r \in Requests : req[r].status \in Guarded /\ req[r].key \in keys}

Signal(keys) == [r \in Requests |-> IF r \in Holders(keys)
                                    THEN [req[r] EXCEPT !.signalled = TRUE] ELSE req[r]]

Emit ==
    /\ Len(emitted) < MaxEvents
    /\ \E bytes \in Payloads :
         /\ ring' = push(ring, bytes)
         /\ emitted' = Append(emitted, bytes)
    /\ UNCHANGED <<waits, closed, req, revoked>>

(* The receiver is subscribed under the state lock, before the registration. *)
Subscribe(r) ==
    /\ req[r].status = "idle"
    /\ \E key \in Keys, connection \in Connections \ closed,
          start \in {ring.next, oldest_sequence(ring)} :
         req' = [req EXCEPT ![r] = [Idle EXCEPT !.status = "subscribed", !.key = key,
                                       !.connection = connection,
                                       !.start = start, !.cursor = start]]
    /\ UNCHANGED <<ring, emitted, waits, closed, revoked>>

(* A request that was answered keeps nothing. *)
Over == [Idle EXCEPT !.status = "done"]

\* Mutant: the reservation is refused only while the key has a registered
\* wait, not while the guard of an earlier one is still alive.
reserve_MutReuse(key, connection) ==
    /\ registry[key] = None
    /\ \A s \in Charged(key, connection) : usage[s] + 1 <= Limit(s)

(* SdkWaitQuota::reserve; the pattern weighs one unit. *)
reserve(key, connection) ==
    /\ reservations[key] = {}
    /\ \A s \in Charged(key, connection) : usage[s] + 1 <= Limit(s)

Charge(key, connection) ==
    /\ reservations' = [reservations EXCEPT ![key] = Charged(key, connection)]
    /\ usage' = [s \in Scopes |-> usage[s] + (IF s \in Charged(key, connection) THEN 1 ELSE 0)]

release(key) ==
    /\ usage' = [s \in Scopes |-> usage[s] - (IF s \in reservations[key] THEN 1 ELSE 0)]
    /\ reservations' = [reservations EXCEPT ![key] = {}]

(* register: consumed by an earlier cancel, refused by the quota or by the  *)
(* registry, or armed.                                                      *)
RegisterCancelled(r) ==
    LET key == req[r].key IN
    /\ req[r].status = "subscribed"
    /\ Contains(cancelled_before_register, key)
    /\ cancelled_before_register' = BoundedRemove(cancelled_before_register, key)
    /\ finished_waits' = BoundedInsert(finished_waits, key, FinishedLimit)
    /\ req' = [req EXCEPT ![r] = Over]            \* answered Cancelled
    /\ UNCHANGED <<ring, emitted, registry, cancel_senders, usage, reservations, closed, revoked>>

RegisterRefused(r) ==
    LET key == req[r].key IN
    /\ req[r].status = "subscribed"
    /\ ~Contains(cancelled_before_register, key)
    /\ ~reserve(key, req[r].connection) \/ registry[key] # None
    /\ req' = [req EXCEPT ![r] = Over]            \* answered with an error
    /\ UNCHANGED <<ring, emitted, waits, closed, revoked>>

RegisterArmed(r) ==
    LET key == req[r].key IN
    /\ req[r].status = "subscribed"
    /\ ~Contains(cancelled_before_register, key)
    /\ reserve(key, req[r].connection) /\ registry[key] = None
    /\ Charge(key, req[r].connection)
    /\ registry' = [registry EXCEPT ![key] = req[r].connection]
    /\ finished_waits' = BoundedRemove(finished_waits, key)
    /\ cancel_senders' = cancel_senders \cup {key}
    /\ req' = [req EXCEPT ![r].status = "draining"]
    /\ UNCHANGED <<ring, emitted, cancelled_before_register, closed, revoked>>

register(r) == RegisterCancelled(r) \/ RegisterRefused(r) \/ RegisterArmed(r)

(* observe_bytes: scan what was carried over and the new bytes together,   *)
(* and carry over one byte less than the pattern.                          *)
Occurs(bytes) == \E i \in 0 .. (Len(bytes) - Len(Needle)) :
                    SubSeq(bytes, i + 1, i + Len(Needle)) = Needle

CarriedTail(combined) ==
    LET keep == Len(Needle) - 1
    IN  IF Len(combined) <= keep THEN combined ELSE From(combined, Len(combined) - keep + 1)

\* Mutant: the carried tail is never joined to the bytes recovered after a gap.
CombinedForgetful(r) ==
    LET cursor == req[r].cursor
    IN  IF Lags(ring, cursor) THEN bytes_from_sequence(ring.recent, cursor)
                              ELSE req[r].tail \o EventAt(ring, cursor).bytes

(* observe_cursor_item: the bytes of the next event, or after a gap every   *)
(* recent byte from the expected sequence on, joined to the carried tail    *)
(* only when those bytes start at that event's start.                       *)
Combined(r) ==
    LET cursor == req[r].cursor
        joined == ~Lags(ring, cursor) \/ StartsAt(ring.recent, cursor)
        bytes  == IF Lags(ring, cursor) THEN bytes_from_sequence(ring.recent, cursor)
                                        ELSE EventAt(ring, cursor).bytes
    IN  (IF joined THEN req[r].tail ELSE <<>>) \o bytes

observe_cursor_item(r) ==
    /\ req[r].status \in {"draining", "select"}
    /\ Lags(ring, req[r].cursor) \/ HasEvent(ring, req[r].cursor)
    /\ req' = [req EXCEPT
         ![r].cursor = IF Lags(ring, @) THEN oldest_sequence(ring) ELSE @ + 1,
         ![r].tail   = CarriedTail(Combined(r)),
         ![r].status = IF Occurs(Combined(r)) THEN "matched" ELSE "draining"]
    /\ UNCHANGED <<ring, emitted, waits, closed, revoked>>

(* wait_for_bytes looks at the cancellation only once the output is drained. *)
Drained(r) ==
    /\ req[r].status = "draining"
    /\ req[r].cursor = ring.next
    /\ req' = [req EXCEPT ![r].status = "select"]
    /\ UNCHANGED <<ring, emitted, waits, closed, revoked>>

ObserveCancel(r) ==
    /\ req[r].status = "select" /\ req[r].signalled
    /\ req' = [req EXCEPT ![r].status = "leaving", ![r].response = "Cancelled"]
    /\ UNCHANGED <<ring, emitted, waits, closed, revoked>>

(* The caller drops the wait while it is parked: a timeout, a lost client. *)
Abandon(r) ==
    /\ req[r].status = "select"
    /\ req' = [req EXCEPT ![r].status = "leaving"]
    /\ UNCHANGED <<ring, emitted, waits, closed, revoked>>

\* Mutant: the match is answered without looking whether the record was
\* still registered.
complete_MutIgnoresCancel(r) ==
    LET key == req[r].key IN
    /\ req[r].status = "matched"
    /\ cancel_senders' = cancel_senders \ {key}
    /\ registry' = [registry EXCEPT ![key] = None]
    /\ finished_waits' = IF registry[key] = None THEN finished_waits
                         ELSE BoundedInsert(finished_waits, key, FinishedLimit)
    /\ req' = [req EXCEPT ![r].status = "leaving", ![r].response = "Matched"]
    /\ UNCHANGED <<ring, emitted, usage, reservations, cancelled_before_register,
                   closed, revoked>>

complete(r) ==
    LET key == req[r].key IN
    /\ req[r].status = "matched"
    /\ cancel_senders' = cancel_senders \ {key}
    /\ registry' = [registry EXCEPT ![key] = None]
    /\ finished_waits' = IF registry[key] = None THEN finished_waits
                         ELSE BoundedInsert(finished_waits, key, FinishedLimit)
    /\ req' = [req EXCEPT ![r].status = "leaving",
                          ![r].response = IF registry[key] # None THEN "Matched" ELSE "Cancelled"]
    /\ UNCHANGED <<ring, emitted, usage, reservations, cancelled_before_register,
                   closed, revoked>>

(* The guard's drop, the last thing of a wait that was armed. *)
finish_registration(r) ==
    LET key == req[r].key IN
    /\ req[r].status = "leaving"
    /\ registry' = [registry EXCEPT ![key] = None]
    /\ cancel_senders' = cancel_senders \ {key}
    /\ finished_waits' = IF registry[key] = None THEN finished_waits
                         ELSE BoundedInsert(finished_waits, key, FinishedLimit)
    /\ release(key)
    /\ req' = [(IF key \in cancel_senders THEN Signal({key}) ELSE req) EXCEPT ![r] = Over]
    /\ UNCHANGED <<ring, emitted, cancelled_before_register, closed, revoked>>

\* Mutant: the cancel forgets to send on the key's sender.
handle_cancel_sdk_wait_MutSilent(key) ==
    /\ registry' = [registry EXCEPT ![key] = None]
    /\ finished_waits' = IF registry[key] = None THEN finished_waits
                         ELSE BoundedInsert(finished_waits, key, FinishedLimit)
    /\ cancelled_before_register' =
         IF registry[key] = None /\ ~Contains(finished_waits, key)
         THEN BoundedInsert(cancelled_before_register, key, PendingCancelLimit)
         ELSE cancelled_before_register
    /\ revoked' = IF registry[key] = None THEN revoked ELSE revoked \cup Holders({key})
    /\ UNCHANGED <<ring, emitted, cancel_senders, usage, reservations, closed, req>>

handle_cancel_sdk_wait(key) ==
    /\ registry' = [registry EXCEPT ![key] = None]
    /\ cancel_senders' = cancel_senders \ {key}
    /\ req' = IF key \in cancel_senders THEN Signal({key}) ELSE req
    /\ finished_waits' = IF registry[key] = None THEN finished_waits
                         ELSE BoundedInsert(finished_waits, key, FinishedLimit)
    /\ cancelled_before_register' =
         IF registry[key] = None /\ ~Contains(finished_waits, key)
         THEN BoundedInsert(cancelled_before_register, key, PendingCancelLimit)
         ELSE cancelled_before_register
    /\ revoked' = IF registry[key] = None THEN revoked ELSE revoked \cup Holders({key})
    /\ UNCHANGED <<ring, emitted, usage, reservations, closed>>

(* remove_connection, when the connection's task ends. *)
cleanup_connection_sdk_waits(connection) ==
    LET keys == {k \in Keys : registry[k] = connection} IN
    /\ connection \notin closed
    /\ closed' = closed \cup {connection}
    /\ registry' = [k \in Keys |-> IF k \in keys THEN None ELSE registry[k]]
    /\ cancel_senders' = cancel_senders \ keys
    /\ req' = Signal(keys \cap cancel_senders)
    /\ \E order \in SetToSeqs(keys) :
         finished_waits' = BoundedInsertAll(finished_waits, order, FinishedLimit)
    /\ revoked' = revoked \cup Holders(keys)
    /\ UNCHANGED <<ring, emitted, usage, reservations, cancelled_before_register>>

TaskStep(r) ==
    \/ Subscribe(r) \/ register(r)
    \/ observe_cursor_item(r) \/ Drained(r) \/ ObserveCancel(r) \/ Abandon(r)
    \/ complete(r) \/ finish_registration(r)

Next ==
    \/ Emit
    \/ \E r \in Requests : TaskStep(r)
    \/ \E key \in Keys : handle_cancel_sdk_wait(key)
    \/ \E connection \in Connections : cleanup_connection_sdk_waits(connection)

Spec == Init /\ [][Next]_vars

(* Every variable keeps its type, and the two bounded key sets their limits. *)
TypeOK ==
    /\ Len(emitted) <= MaxEvents /\ ring.next = Len(emitted)
    /\ registry \in [Keys -> Connections \cup {None}]
    /\ cancel_senders \subseteq Keys
    /\ usage \in [Scopes -> Nat]
    /\ reservations \in [Keys -> SUBSET Scopes]
    /\ Len(finished_waits) <= FinishedLimit /\ Len(cancelled_before_register) <= PendingCancelLimit
    /\ \A r \in Requests : req[r].status \in Statuses /\ req[r].cursor <= ring.next

OutputSince(r) == FlattenSeq(From(emitted, req[r].start + 1))

(* A wait that has read everything and still waits has missed nothing: as  *)
(* long as the output since it subscribed fits the recent-bytes budget,    *)
(* the pattern did not occur in it, however events were split, evicted and *)
(* recovered from the gap's snapshot (wait_for_bytes, observe_gap).        *)
NoMissedMatch ==
    \A r \in Requests :
        /\ req[r].status \in {"draining", "select"}
        /\ req[r].cursor = ring.next
        /\ Len(OutputSince(r)) <= RecentCapacity
        => ~Occurs(OutputSince(r))

(* An armed wait answers Cancelled only when its own registration was       *)
(* cancelled or torn down, and once that happened it never answers Matched, *)
(* even when the match was found first.                                     *)
(* The cleanup of an earlier wait with the same key (finish_registration)   *)
(* cannot touch it.                                                         *)
AnswersAreOwn ==
    \A r \in Requests :
        /\ req[r].response = "Matched" => r \notin revoked
        /\ req[r].response = "Cancelled" => r \in revoked
        /\ req[r].status \in {"draining", "select", "matched"}
             => (registry[req[r].key] # None /\ ~req[r].signalled) \/ r \in revoked

(* Quota is charged exactly while a guard is alive, once per key, in every *)
(* scope, and no scope exceeds its limit: a release never underflows, and  *)
(* the debug_assert of finish_registration holds.  The registry keeps its  *)
(* type and its bound on remembered cancellations.                         *)
QuotaIsExact ==
    LET guards(s) == {r \in Requests : req[r].status \in Guarded
                                       /\ s \in Charged(req[r].key, req[r].connection)}
    IN  /\ TypeOK
        /\ \A s \in Scopes : usage[s] = Cardinality(guards(s)) /\ usage[s] <= Limit(s)
        /\ \A r \in Requests : req[r].status \in Guarded => reservations[req[r].key] # {}

(* No cancellation is lost: a wait whose registration was removed and that  *)
(* still reads output has been signalled, so it ends at its next select     *)
(* (cancel, remove_connection); and no sender outlives its registration.    *)
CancelReachesTask ==
    /\ \A r \in revoked : req[r].status \in {"draining", "select"} => req[r].signalled
    /\ cancel_senders = {k \in Keys : registry[k] # None}

(* A wait answers Matched only if the pane really emitted the pattern after *)
(* the wait subscribed ("Waits until the pane emits the requested raw byte  *)
(* sequence", rmux-sdk handles/pane/waits.rs).                              *)
NoFalseMatch ==
    \A r \in Requests : req[r].response = "Matched" => Occurs(OutputSince(r))
=============================================================================
