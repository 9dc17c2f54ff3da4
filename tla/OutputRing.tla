----------------------------- MODULE OutputRing -----------------------------
(***************************************************************************)
(* The bounded output storage of one pane (rmux-core, events/ring.rs and   *)
(* events/cursor.rs): numbered events, of which the newest are retained,   *)
(* the most recent bytes kept for readers that fell behind, and the poll   *)
(* of an independent cursor.  Everything here runs under the mutex of the  *)
(* pane's output state, so the operations are functions of a ring value    *)
(* [next, events, recent]; a cursor is the next sequence it will read.     *)
(***************************************************************************)
EXTENDS Naturals, Sequences

CONSTANTS EventCapacity, RecentCapacity

ASSUME CapacityAssumption == EventCapacity \in Nat \ {0} /\ RecentCapacity \in Nat \ {0}

EmptyRing == [next |-> 0, events |-> <<>>, recent |-> <<>>]

AllBytes(chunks) ==
    LET upto[n \in Nat] == IF n = 0 THEN <<>> ELSE upto[n - 1] \o chunks[n].bytes
    IN  upto[Len(chunks)]
ByteCount(chunks) == Len(AllBytes(chunks))
From(s, k) == SubSeq(s, k, Len(s))

(* Both eviction loops of the push: the longest tail within both budgets. *)
Fits(events) == /\ Len(events) <= EventCapacity
                /\ ByteCount(events) <= RecentCapacity \/ Len(events) = 1

Evict(events) ==
    LET k == CHOOSE k \in DOMAIN events :
                Fits(From(events, k)) /\ \A j \in 1 .. (k - 1) : ~Fits(From(events, j))
    IN  From(events, k)

(* trim_front: the last RecentCapacity bytes; a chunk that is cut no longer *)
(* starts where its event did.                                              *)
TrimFront(chunks) ==
    IF ByteCount(chunks) <= RecentCapacity
    THEN chunks
    ELSE LET k == CHOOSE k \in DOMAIN chunks :
                    /\ ByteCount(From(chunks, k + 1)) < RecentCapacity
                    /\ ByteCount(From(chunks, k)) >= RecentCapacity
             front == chunks[k].bytes
             keep  == RecentCapacity - ByteCount(From(chunks, k + 1))
             cut   == [chunks[k] EXCEPT !.bytes = From(front, Len(front) - keep + 1),
                                        !.whole = @ /\ keep = Len(front)]
         IN  <<cut>> \o From(chunks, k + 1)

(* RecentLiveBuffer::push; the branch for an event of RecentCapacity bytes *)
(* or more comes to the same bytes.                                        *)
PushRecent(chunks, sequence, bytes) ==
    IF bytes = <<>>
    THEN chunks
    ELSE TrimFront(Append(chunks, [sequence |-> sequence, bytes |-> bytes, whole |-> TRUE]))

push(ring, bytes) ==
    [next   |-> ring.next + 1,
     events |-> Evict(Append(ring.events, [sequence |-> ring.next, bytes |-> bytes])),
     recent |-> PushRecent(ring.recent, ring.next, bytes)]

clear_retained(ring) == [ring EXCEPT !.events = <<>>, !.recent = <<>>]

oldest_sequence(ring) == IF ring.events = <<>> THEN ring.next ELSE Head(ring.events).sequence

(* poll_cursor: a gap up to the oldest retained event, that event, or None. *)
Lags(ring, cursor) == cursor < oldest_sequence(ring)
HasEvent(ring, cursor) == ~Lags(ring, cursor) /\ cursor < ring.next
EventAt(ring, cursor) == ring.events[cursor - oldest_sequence(ring) + 1]

(* What a gap's snapshot says of the bytes from a sequence on. *)
ChunksFrom(chunks, sequence) == SelectSeq(chunks, LAMBDA c : c.sequence >= sequence)
bytes_from_sequence(chunks, sequence) == AllBytes(ChunksFrom(chunks, sequence))
StartsAt(chunks, sequence) ==
    LET cs == ChunksFrom(chunks, sequence)
    IN  cs # <<>> /\ cs[1].sequence = sequence /\ cs[1].whole
=============================================================================
