-------------------------- MODULE PaneOutputProofs --------------------------
(***************************************************************************)
(* The output channel is correct for any receivers, capacities and history *)
(* of the pane: every event is returned once or counted in a gap, a        *)
(* replaced process is silent, and a stream reports every exit once.  All  *)
(* three follow from one inductive invariant about the ring, the copies in *)
(* the fast queues and what each receiver has been told.                   *)
(***************************************************************************)
EXTENDS PaneOutput, FiniteSetTheorems, TLAPS

---------------------------------------------------------------------------
(* The shapes of the state.                                                *)
Bytes == {<<>>} \cup {<<g>> : g \in Readers}
Event == [sequence : Nat, bytes : Bytes]
FastItem == [epoch : Nat, sequence : Nat, bytes : Bytes]
FastQueue == Seq(FastItem)
Statuses == {"absent", "off", "registering", "ready", "enabled", "parked", "rebasing", "closing", "dropped"}
Receiver == [status : Statuses, woken : {"no", "one", "all"}, cursor : Nat, fast : FastQueue,
             invalidation : Nat, exit : Nat, preserved : Nat, pending : BOOLEAN, dirty : BOOLEAN, since : Nat]
Idle == [phase : {"idle"}, eof : BOOLEAN]
Pushed == [phase : {"pushed"}, eof : BOOLEAN, sequence : Nat, bytes : Bytes, epoch : Nat, candidate : BOOLEAN]
Notify == [phase : {"notify"}, eof : BOOLEAN, delivered : BOOLEAN]
Deciding == [phase : {"decide"}, eof : BOOLEAN, delivered : BOOLEAN, receivers : Nat]

Types ==
    /\ generation \in Readers /\ fast_epoch \in Nat /\ invalidation_revision \in Nat
    /\ process_exit_revision \in Nat
    /\ process_exit_revision_at_invalidation \in 0 .. process_exit_revision
    /\ pub \in [Readers -> Idle \cup Pushed \cup Notify \cup Deciding]
    /\ rcv \in [Receivers -> Receiver]
    /\ accounted \in [Receivers -> Nat] /\ owed \in [Streams -> Int]

(* The ring keeps the newest events, numbered without a hole up to next.   *)
Numbered(x) ==
    /\ x = [next |-> x.next, events |-> x.events, recent |-> x.recent]
    /\ x.next \in Nat /\ x.events \in Seq(Event)
    /\ Len(x.events) <= EventCapacity /\ Len(x.events) <= x.next
    /\ \A i \in DOMAIN x.events : x.events[i].sequence = (x.next - Len(x.events)) + (i - 1)

RingOK == Numbered(ring) /\ ring.next <= MaxOutputs

(* A copy of an event in a fast queue, or about to be put there: captured  *)
(* in the current epoch it is of the current process.                      *)
Current(bytes) == bytes \in {<<>>, <<generation>>}
CopyOK(item) ==
    /\ item.sequence < ring.next /\ item.epoch <= fast_epoch
    /\ item.epoch = fast_epoch => Current(item.bytes)

Copies ==
    /\ \A i \in DOMAIN ring.events : Current(ring.events[i].bytes)
    /\ \A g \in Readers : pub[g].phase = "pushed" => CopyOK(pub[g])
    /\ stale = {}

(* A receiver: what it was given so far is what its cursor passed.  Only a *)
(* stream is ever dirty, and then it has reported what it carried over.    *)
Fine(r, x, a) ==
    /\ \A i \in DOMAIN x.fast : CopyOK(x.fast[i])
    /\ Len(x.fast) <= FastCapacity /\ x.cursor <= ring.next /\ x.exit <= process_exit_revision
    /\ x.invalidation <= invalidation_revision
    /\ r \in Live \cup Plain /\ x.status \notin {"closing", "dropped"} => a = x.cursor
    /\ x.status \in {"registering", "closing"} \/ x.fast # <<>> => r \in Live
    /\ x.status \in {"enabled", "parked"} => r \notin Streams
    /\ x.dirty => r \in Streams /\ x.preserved = 0
    /\ x.status = "rebasing" => x.dirty /\ x.since = x.exit

(* The exits a stream still owes its client: those carried over a rebase   *)
(* and those since its revision.  A stream with nothing to rebase for has  *)
(* their markers ahead of its cursor, unless it is told of a gap first.    *)
Markers(x, c) == {k \in c .. (x.next - 1) :
                    \E i \in DOMAIN x.events : x.events[i].sequence = k /\ x.events[i].bytes = <<>>}
Steady(x) ==
    /\ ~x.dirty /\ ~x.pending /\ x.invalidation = invalidation_revision
    /\ ~Lags(ring, x.cursor)
Owes(x, o) ==
    IF x.status \in {"ready", "rebasing"}
    THEN /\ o = x.preserved + (process_exit_revision - x.exit)
         /\ Steady(x) => process_exit_revision - x.exit <= Cardinality(Markers(ring, x.cursor))
    ELSE o = 0

AllFine ==
    /\ \A r \in Receivers : Fine(r, rcv[r], accounted[r])
    /\ \A r \in Streams : Owes(rcv[r], owed[r])

(* The counters are exact.                                                 *)
Counted(x) == x.status \in {"ready", "enabled", "parked", "rebasing", "closing"}
FastCounted(x) == x.status \in {"registering", "ready", "enabled", "parked"}
Counts ==
    /\ receiver_count = Cardinality({r \in Receivers : Counted(rcv[r])})
    /\ fast_receiver_count = Cardinality({r \in Live : FastCounted(rcv[r])})
    /\ fast_receivers \subseteq Live

PaneOutputInv == Types /\ RingOK /\ Copies /\ AllFine /\ Counts

---------------------------------------------------------------------------
(* What the eviction of the ring keeps.                                    *)

LEMMA LeastNumber ==
    ASSUME NEW T \in SUBSET Nat, T # {}
    PROVE  \E x \in T : \A y \in T : x <= y
<1> DEFINE R == {ss \in Nat \X Nat : ss[1] < ss[2]}
<1>1. IsWellFoundedOn(R, Nat)
  BY NatLessThanWellFounded DEF OpToRel
<1>2. PICK x \in T : \A y \in T : ~(<<y, x>> \in R)
  <2> HIDE DEF R
  <2> QED BY <1>1, WFMin, Zenon
<1>3. ASSUME NEW y \in T, y < x PROVE FALSE
  <2>1. <<y, x>> \in Nat \X Nat /\ <<y, x>>[1] < <<y, x>>[2]
    BY <1>3
  <2>2. <<y, x>> \in R
    BY <2>1
  <2> QED BY <1>2, <2>2
<1>4. \A y \in T : x <= y
  BY <1>3
<1> QED BY <1>4

LEMMA Appended ==
    ASSUME NEW S, NEW s \in Seq(S), NEW e \in S
    PROVE  /\ Append(s, e) \in Seq(S) /\ Append(s, e) # <<>> /\ Len(Append(s, e)) = Len(s) + 1
           /\ Append(s, e)[Len(s) + 1] = e /\ \A i \in 1 .. Len(s) : Append(s, e)[i] = s[i]
OBVIOUS

LEMMA Suffix ==
    ASSUME NEW S, NEW s \in Seq(S), NEW k \in 1 .. Len(s)
    PROVE  /\ From(s, k) \in Seq(S) /\ Len(From(s, k)) = (Len(s) - k) + 1
           /\ \A i \in 1 .. ((Len(s) - k) + 1) : From(s, k)[i] = s[(k - 1) + i]
BY DEF From

LEMMA Evicted ==
    ASSUME NEW S, NEW events \in Seq(S), events # <<>>
    PROVE  \E k \in 1 .. Len(events) : Evict(events) = From(events, k) /\ (Len(events) - k) + 1 <= EventCapacity
<1> DEFINE n == Len(events)
           T == {k \in 1 .. n : Fits(From(events, k))}
<1>1. n \in Nat /\ n >= 1 /\ DOMAIN events = 1 .. n
  OBVIOUS
<1>2. n \in T
  <2>1. n \in 1 .. n /\ (n - n) + 1 = 1
    BY <1>1
  <2>2. Len(From(events, n)) = 1
    BY <2>1, Suffix, Zenon
  <2>3. Fits(From(events, n))
    BY <2>2, CapacityAssumption DEF Fits
  <2> QED
    BY <2>1, <2>3, Zenon
<1>3. PICK k \in T : \A j \in T : k <= j
  <2>1. T \in SUBSET Nat /\ T # {}
    BY <1>2
  <2> QED
    BY <2>1, LeastNumber, Zenon
<1> DEFINE Least(x) == Fits(From(events, x)) /\ \A j \in 1 .. (x - 1) : ~Fits(From(events, j))
<1>4. k \in DOMAIN events /\ Least(k)
  <2>1. \A j \in 1 .. (k - 1) : j \in 1 .. n /\ ~(k <= j)
    BY <1>1, <1>3
  <2>2. \A j \in 1 .. (k - 1) : ~Fits(From(events, j))
    BY <1>3, <2>1, Zenon
  <2> QED
    BY <1>1, <1>3, <2>2, Zenon
<1> DEFINE c == CHOOSE x \in DOMAIN events : Least(x)
<1>5. c \in 1 .. n /\ Fits(From(events, c))
  BY <1>1, <1>4, Zenon
<1>6. Evict(events) = From(events, c)
  BY Zenon DEF Evict
<1>7. Len(From(events, c)) = (n - c) + 1
  <2> HIDE DEF c
  <2> QED
    BY <1>5, Suffix
<1>8. (n - c) + 1 <= EventCapacity
  BY <1>5, <1>7, Zenon DEF Fits
<1> QED
  BY <1>5, <1>6, <1>8, Zenon

LEMMA Oldest ==
    ASSUME NEW x, Numbered(x)
    PROVE  /\ oldest_sequence(x) = x.next - Len(x.events) /\ oldest_sequence(x) \in 0 .. x.next
           /\ \A k \in Nat : HasEvent(x, k) =>
                /\ (k - oldest_sequence(x)) + 1 \in DOMAIN x.events
                /\ EventAt(x, k) \in Event /\ EventAt(x, k).sequence = k
<1>1. x.next \in Nat /\ x.events \in Seq(Event) /\ Len(x.events) \in Nat /\ Len(x.events) <= x.next /\ DOMAIN x.events = 1 .. Len(x.events)
  BY DEF Numbered
<1>2. \A i \in DOMAIN x.events : x.events[i].sequence = (x.next - Len(x.events)) + (i - 1)
  BY Zenon DEF Numbered
<1>3. oldest_sequence(x) = x.next - Len(x.events)
  <2>1. CASE x.events = <<>>
    BY <1>1, <2>1 DEF oldest_sequence
  <2>2. CASE x.events # <<>>
    <3>1. 1 \in DOMAIN x.events /\ Head(x.events) = x.events[1]
      BY <1>1, <2>2
    <3>2. x.events[1].sequence = (x.next - Len(x.events)) + (1 - 1)
      BY <1>2, <3>1, Zenon
    <3>3. oldest_sequence(x) = x.events[1].sequence
      BY <2>2, <3>1, Zenon DEF oldest_sequence
    <3> QED
      BY <1>1, <3>2, <3>3
  <2> QED
    BY <2>1, <2>2, Zenon
<1>4. ASSUME NEW k \in Nat, HasEvent(x, k)
      PROVE  /\ (k - oldest_sequence(x)) + 1 \in DOMAIN x.events
             /\ EventAt(x, k) \in Event /\ EventAt(x, k).sequence = k
  <2> DEFINE i == (k - oldest_sequence(x)) + 1
  <2>1. k < x.next /\ k >= x.next - Len(x.events)
    BY <1>1, <1>3, <1>4 DEF HasEvent, Lags
  <2>2. i \in DOMAIN x.events /\ (x.next - Len(x.events)) + (i - 1) = k
    BY <1>1, <1>3, <2>1
  <2>3. EventAt(x, k) = x.events[i]
    BY Zenon DEF EventAt
  <2>4. x.events[i] \in Event
    <3> HIDE DEF i, Event
    <3> QED
      BY <1>1, <2>2
  <2>5. x.events[i].sequence = (x.next - Len(x.events)) + (i - 1)
    BY <1>2, <2>2, Zenon
  <2> QED
    BY <2>2, <2>3, <2>4, <2>5, Zenon
<1>5. oldest_sequence(x) \in 0 .. x.next
  BY <1>1, <1>3
<1> QED
  BY <1>3, <1>4, <1>5, Zenon

(* A push: the new event is numbered next, the others keep their numbers.  *)
LEMMA PushNumbers ==
    ASSUME NEW x, Numbered(x), NEW bytes \in Bytes
    PROVE  LET y == push(x, bytes)
               e == [sequence |-> x.next, bytes |-> bytes]
           IN  /\ Numbered(y) /\ y.next = x.next + 1 /\ oldest_sequence(y) >= oldest_sequence(x) /\ oldest_sequence(y) <= x.next
               /\ \A i \in DOMAIN y.events : y.events[i] = e \/ \E j \in DOMAIN x.events : y.events[i] = x.events[j]
               /\ \E i \in DOMAIN y.events : y.events[i] = e
               /\ \A j \in DOMAIN x.events : x.events[j].sequence >= oldest_sequence(y) =>
                      \E i \in DOMAIN y.events : y.events[i] = x.events[j]
<1> DEFINE y == push(x, bytes)
           e == [sequence |-> x.next, bytes |-> bytes]
           s == Append(x.events, e)
           n == Len(x.events)
<1>1. x.next \in Nat /\ x.events \in Seq(Event) /\ n \in Nat /\ n <= x.next /\ DOMAIN x.events = 1 .. n
  BY DEF Numbered
<1>2. \A i \in 1 .. n : x.events[i].sequence = (x.next - n) + (i - 1)
  BY <1>1, Zenon DEF Numbered
<1>3. e \in Event
  BY <1>1 DEF Event
<1>4. s \in Seq(Event) /\ s # <<>> /\ Len(s) = n + 1 /\ s[n + 1] = e /\ \A i \in 1 .. n : s[i] = x.events[i]
  <2>1. x.events \in Seq(Event)
    BY <1>1
  <2> HIDE DEF e, Event
  <2> QED
    BY <1>3, <2>1, Appended
<1>5. PICK k \in 1 .. (n + 1) : Evict(s) = From(s, k) /\ ((n + 1) - k) + 1 <= EventCapacity
  <2> HIDE DEF s
  <2> QED
    BY <1>4, Evicted
<1> DEFINE t == From(s, k)
           l == ((n + 1) - k) + 1
<1>6. t \in Seq(Event) /\ Len(t) = l /\ \A i \in 1 .. l : t[i] = s[(k - 1) + i]
  <2> HIDE DEF s
  <2> QED
    BY <1>4, <1>5, Suffix
<1>7. y = [next |-> x.next + 1, events |-> t, recent |-> PushRecent(x.recent, x.next, bytes)]
  BY <1>5, Zenon DEF push
<1>8. y.next = x.next + 1 /\ y.events = t /\ y = [next |-> y.next, events |-> y.events, recent |-> y.recent]
  <2> HIDE DEF t, y
  <2> QED
    BY <1>7
<1> HIDE DEF y, t, s
<1>9. l \in Nat /\ l >= 1 /\ l <= n + 1 /\ DOMAIN t = 1 .. l /\ l = ((n + 1) - k) + 1
  BY <1>1, <1>5, <1>6
<1>n. n \in Nat /\ n <= x.next /\ x.next \in Nat /\ k \in 1 .. (n + 1)
  BY <1>1, <1>5, Zenon
<1> HIDE DEF n, l
<1>10. \A j \in 1 .. n : s[j].sequence = (x.next - n) + (j - 1)
  BY <1>2, <1>4, Zenon
<1>11. s[n + 1].sequence = x.next
  BY <1>4
<1>12. \A j \in 1 .. (n + 1) : s[j].sequence = (x.next - n) + (j - 1)
  <2> SUFFICES ASSUME NEW j \in 1 .. (n + 1) PROVE s[j].sequence = (x.next - n) + (j - 1)
    BY Zenon
  <2>1. CASE j = n + 1
    <3>1. (x.next - n) + (j - 1) = x.next
      BY <1>n, <2>1
    <3> QED
      BY <1>11, <2>1, <3>1, Zenon
  <2>2. CASE j # n + 1
    <3>1. j \in 1 .. n
      BY <1>n, <2>2
    <3> QED
      BY <1>10, <3>1, Zenon
  <2> QED
    BY <2>1, <2>2, Zenon
<1>13. \A i \in 1 .. l : (k - 1) + i \in 1 .. (n + 1) /\ t[i].sequence = (y.next - l) + (i - 1)
  <2> SUFFICES ASSUME NEW i \in 1 .. l PROVE (k - 1) + i \in 1 .. (n + 1) /\ t[i].sequence = (y.next - l) + (i - 1)
    BY Zenon
  <2>0. y.next = x.next + 1 /\ l \in Nat /\ l = ((n + 1) - k) + 1
    BY <1>8, <1>9, Zenon
  <2>1. (k - 1) + i \in 1 .. (n + 1) /\ (x.next - n) + (((k - 1) + i) - 1) = (y.next - l) + (i - 1)
    BY <1>n, <2>0
  <2>2. t[i].sequence = s[(k - 1) + i].sequence
    BY <1>6, Zenon
  <2> QED
    BY <1>12, <2>1, <2>2, Zenon
<1>14. Numbered(y)
  <2>1. y.next \in Nat /\ y.events \in Seq(Event) /\ Len(y.events) = l /\ l <= y.next /\ l <= EventCapacity
    BY <1>1, <1>5, <1>6, <1>8, <1>9
  <2>2. \A i \in DOMAIN y.events : y.events[i].sequence = (y.next - Len(y.events)) + (i - 1)
    BY <1>6, <1>8, <1>9, <1>13, Zenon
  <2> QED
    BY <1>8, <2>1, <2>2, Zenon DEF Numbered
<1>15. oldest_sequence(y) = (x.next + 1) - l /\ oldest_sequence(x) = x.next - n
  <2>1. oldest_sequence(y) = y.next - Len(y.events)
    BY <1>14, Oldest, Zenon
  <2>2. oldest_sequence(x) = x.next - Len(x.events)
    BY Oldest, Zenon
  <2>3. Len(y.events) = l
    BY <1>6, <1>8, Zenon
  <2> QED
    BY <1>8, <2>1, <2>2, <2>3, Zenon DEF n
<1>16. oldest_sequence(y) >= oldest_sequence(x) /\ oldest_sequence(y) <= x.next
  BY <1>1, <1>9, <1>15
<1>17. ASSUME NEW i \in DOMAIN y.events PROVE y.events[i] = e \/ \E j \in DOMAIN x.events : y.events[i] = x.events[j]
  <2>1. i \in 1 .. l /\ (k - 1) + i \in 1 .. (n + 1) /\ y.events[i] = s[(k - 1) + i]
    BY <1>6, <1>8, <1>9, <1>13, Zenon
  <2>2. CASE (k - 1) + i = n + 1
    BY <1>4, <2>1, <2>2, Zenon
  <2>3. CASE (k - 1) + i # n + 1
    <3>1. (k - 1) + i \in 1 .. n
      BY <1>1, <2>1, <2>3
    <3> QED
      BY <1>1, <1>4, <2>1, <3>1, Zenon
  <2> QED
    BY <2>2, <2>3, Zenon
<1>18. \E i \in DOMAIN y.events : y.events[i] = e
  <2>1. l \in 1 .. l /\ (k - 1) + l = n + 1
    BY <1>n, <1>5, <1>9
  <2>2. t[l] = s[(k - 1) + l] /\ s[n + 1] = e
    BY <1>4, <1>6, <2>1, Zenon
  <2> HIDE DEF e
  <2> QED
    BY <1>8, <1>9, <2>1, <2>2, Zenon
<1>19. ASSUME NEW j \in DOMAIN x.events, x.events[j].sequence >= oldest_sequence(y) PROVE \E i \in DOMAIN y.events : y.events[i] = x.events[j]
  <2>1. j \in 1 .. n /\ (x.next - n) + (j - 1) >= (x.next + 1) - l
    BY <1>1, <1>2, <1>15, <1>19, Zenon
  <2>2. (j - k) + 1 \in 1 .. l /\ (k - 1) + ((j - k) + 1) = j
    BY SMTT(30), <1>n, <1>5, <1>9, <2>1
  <2>3. t[(j - k) + 1] = s[(k - 1) + ((j - k) + 1)] /\ s[j] = x.events[j]
    BY <1>4, <1>6, <2>1, <2>2, Zenon
  <2> QED
    BY <1>8, <1>9, <2>2, <2>3, Zenon
<1> HIDE DEF e
<1> QED
  BY <1>8, <1>14, <1>16, <1>17, <1>18, <1>19, Zenon DEF y, e

---------------------------------------------------------------------------
(* Counting the end-of-file markers from a cursor on.                      *)

LEMMA MarkersAreFinite ==
    ASSUME NEW x, Numbered(x), NEW c \in Nat
    PROVE  IsFiniteSet(Markers(x, c)) /\ Cardinality(Markers(x, c)) \in Nat
<1>1. x.next \in Nat
  BY Zenon DEF Numbered
<1>2. IsFiniteSet(c .. (x.next - 1))
  BY <1>1, FS_Interval
<1>3. Markers(x, c) \subseteq c .. (x.next - 1)
  BY Zenon DEF Markers
<1> QED
  BY <1>2, <1>3, FS_Subset, FS_CardinalityType, Zenon

LEMMA MarkersPush ==
    ASSUME NEW x, Numbered(x), NEW bytes \in Bytes, NEW c \in Nat, c <= x.next, ~Lags(push(x, bytes), c)
    PROVE  /\ ~Lags(x, c)
           /\ Cardinality(Markers(push(x, bytes), c)) = Cardinality(Markers(x, c)) + (IF bytes = <<>> THEN 1 ELSE 0)
<1> DEFINE y == push(x, bytes)
           e == [sequence |-> x.next, bytes |-> bytes]
           M == Markers(x, c)
<1>1. /\ Numbered(y) /\ y.next = x.next + 1 /\ oldest_sequence(y) >= oldest_sequence(x)
      /\ \A i \in DOMAIN y.events : y.events[i] = e \/ \E j \in DOMAIN x.events : y.events[i] = x.events[j]
      /\ \E i \in DOMAIN y.events : y.events[i] = e
      /\ \A j \in DOMAIN x.events : x.events[j].sequence >= oldest_sequence(y) =>
             \E i \in DOMAIN y.events : y.events[i] = x.events[j]
  BY PushNumbers, Zenon
<1>2. x.next \in Nat /\ oldest_sequence(x) \in Nat /\ oldest_sequence(y) \in Nat
  <2>1. oldest_sequence(x) \in 0 .. x.next /\ oldest_sequence(y) \in 0 .. y.next /\ x.next \in Nat /\ y.next \in Nat
    BY <1>1, Oldest, Zenon DEF Numbered
  <2> QED
    BY <2>1
<1>3. ~(c < oldest_sequence(y))
  BY Zenon DEF Lags
<1> HIDE DEF y
<1>4. ~Lags(x, c)
  BY <1>1, <1>2, <1>3 DEF Lags
<1>5. e.sequence = x.next /\ e.bytes = bytes
  OBVIOUS
<1> HIDE DEF e
<1>6. \A k \in c .. (x.next - 1) : k \in Markers(y, c) <=> k \in M
  <2> SUFFICES ASSUME NEW k \in c .. (x.next - 1) PROVE k \in Markers(y, c) <=> k \in M
    BY Zenon
  <2>1. k \in c .. (y.next - 1) /\ k # x.next /\ k >= oldest_sequence(y)
    BY <1>1, <1>2, <1>3
  <2>2. ASSUME NEW i \in DOMAIN y.events, y.events[i].sequence = k, y.events[i].bytes = <<>> PROVE k \in M
    <3>1. PICK j \in DOMAIN x.events : y.events[i] = x.events[j]
      BY <1>1, <1>5, <2>1, <2>2, Zenon
    <3> QED
      BY <2>2, <3>1, Zenon DEF Markers
  <2>3. ASSUME NEW j \in DOMAIN x.events, x.events[j].sequence = k, x.events[j].bytes = <<>> PROVE k \in Markers(y, c)
    <3>1. PICK i \in DOMAIN y.events : y.events[i] = x.events[j]
      BY <1>1, <2>1, <2>3, Zenon
    <3> QED
      BY <2>1, <2>3, <3>1, Zenon DEF Markers
  <2> QED
    BY <2>2, <2>3, Zenon DEF Markers
<1>7. x.next \in Markers(y, c) <=> bytes = <<>>
  <2>1. x.next \in c .. (y.next - 1)
    BY <1>1, <1>2
  <2>2. ASSUME bytes = <<>> PROVE x.next \in Markers(y, c)
    BY <1>1, <1>5, <2>1, <2>2, Zenon DEF Markers
  <2>3. ASSUME NEW i \in DOMAIN y.events, y.events[i].sequence = x.next, y.events[i].bytes = <<>> PROVE bytes = <<>>
    <3>1. ASSUME NEW j \in DOMAIN x.events, y.events[i] = x.events[j] PROVE FALSE
      <4>1. x.events[j].sequence = (x.next - Len(x.events)) + (j - 1)
        BY Zenon DEF Numbered
      <4>2. Len(x.events) \in Nat /\ j \in 1 .. Len(x.events)
        BY DEF Numbered
      <4>3. x.events[j].sequence = x.next
        BY <2>3, <3>1, Zenon
      <4> QED
        BY <1>2, <4>1, <4>2, <4>3
    <3> QED
      BY <1>1, <1>5, <2>3, <3>1, Zenon
  <2> QED
    BY <2>2, <2>3, Zenon DEF Markers
<1>8. Markers(y, c) \subseteq c .. x.next /\ M \subseteq c .. (x.next - 1)
  <2>1. c .. (y.next - 1) = c .. x.next
    BY <1>1, <1>2
  <2> QED
    BY <2>1, Zenon DEF Markers
<1>9. (bytes = <<>> => Markers(y, c) = M \cup {x.next}) /\ (bytes # <<>> => Markers(y, c) = M)
  <2>1. \A k \in c .. x.next : k = x.next \/ k \in c .. (x.next - 1)
    BY <1>2
  <2> HIDE DEF M
  <2> QED
    BY <1>6, <1>7, <1>8, <2>1, Zenon
<1>10. x.next \notin M
  <2> HIDE DEF M
  <2> QED
    BY <1>2, <1>8
<1>11. IsFiniteSet(M) /\ Cardinality(M) \in Nat
  BY MarkersAreFinite, Zenon
<1>12. Cardinality(M \cup {x.next}) = Cardinality(M) + 1
  BY <1>10, <1>11, FS_AddElement, Zenon
<1>13. Cardinality(Markers(y, c)) = Cardinality(M) + (IF bytes = <<>> THEN 1 ELSE 0)
  <2> HIDE DEF M
  <2>1. Cardinality(M) + 0 = Cardinality(M)
    BY <1>11
  <2> QED
    BY <1>9, <1>12, <2>1, Zenon
<1> QED
  BY <1>4, <1>13, Zenon DEF y

LEMMA MarkersRead ==
    ASSUME NEW x, Numbered(x), NEW c \in Nat, HasEvent(x, c)
    PROVE  Cardinality(Markers(x, c)) =
              Cardinality(Markers(x, c + 1)) + (IF EventAt(x, c).bytes = <<>> THEN 1 ELSE 0)
<1> DEFINE M == Markers(x, c + 1)
           i == (c - oldest_sequence(x)) + 1
<1>1. x.next \in Nat /\ c < x.next
  BY Zenon DEF Numbered, HasEvent
<1>2. i \in DOMAIN x.events /\ x.events[i].sequence = c /\ EventAt(x, c) = x.events[i]
  BY Oldest, Zenon DEF EventAt
<1>3. ASSUME NEW j \in DOMAIN x.events, x.events[j].sequence = c PROVE j = i
  <2>1. x.events[j].sequence = (x.next - Len(x.events)) + (j - 1) /\ x.events[i].sequence = (x.next - Len(x.events)) + (i - 1)
    BY <1>2, Zenon DEF Numbered
  <2>2. Len(x.events) \in Nat /\ j \in 1 .. Len(x.events) /\ i \in 1 .. Len(x.events)
    BY <1>2 DEF Numbered
  <2> HIDE DEF i
  <2> QED
    BY SMTT(30), <1>1, <1>2, <1>3, <2>1, <2>2
<1> HIDE DEF i
<1>4. c \in Markers(x, c) <=> EventAt(x, c).bytes = <<>>
  <2>1. c \in c .. (x.next - 1)
    BY <1>1
  <2> QED
    BY <1>2, <1>3, <2>1, Zenon DEF Markers
<1>5. c .. (x.next - 1) = {c} \cup ((c + 1) .. (x.next - 1)) /\ c \notin (c + 1) .. (x.next - 1)
  BY <1>1
<1>6. c \notin M /\ \A k : k # c => (k \in Markers(x, c) <=> k \in M)
  BY <1>5, Zenon DEF Markers
<1> HIDE DEF M
<1>7. /\ EventAt(x, c).bytes = <<>> => Markers(x, c) = M \cup {c}
      /\ EventAt(x, c).bytes # <<>> => Markers(x, c) = M
  <2>1. \A k : k \in Markers(x, c) <=> k \in M \/ (k = c /\ EventAt(x, c).bytes = <<>>)
    BY <1>4, <1>6, Zenon
  <2> QED
    BY <2>1, Zenon
<1>8. IsFiniteSet(M) /\ Cardinality(M) \in Nat
  <2>1. c + 1 \in Nat
    OBVIOUS
  <2> QED
    BY <2>1, MarkersAreFinite, Zenon DEF M
<1>9. Cardinality(M \cup {c}) = Cardinality(M) + 1
  BY <1>6, <1>8, FS_AddElement, Zenon
<1>10. Cardinality(Markers(x, c)) = Cardinality(M) + (IF EventAt(x, c).bytes = <<>> THEN 1 ELSE 0)
  <2>1. Cardinality(M) + 0 = Cardinality(M)
    BY <1>8
  <2> QED
    BY <1>7, <1>9, <2>1, Zenon
<1> QED
  BY <1>10, Zenon DEF M

LEMMA MarkersAtEnd == ASSUME NEW x, Numbered(x) PROVE Cardinality(Markers(x, x.next)) = 0
<1>1. x.next .. (x.next - 1) = {}
  BY DEF Numbered
<1>2. Markers(x, x.next) = {}
  BY <1>1, Zenon DEF Markers
<1> QED
  BY <1>2, FS_EmptySet, Zenon

---------------------------------------------------------------------------
(* Receivers that differ only in how they were woken.                      *)

Alike(x, y) ==
    /\ y \in Receiver
    /\ y.status = x.status /\ y.cursor = x.cursor /\ y.fast = x.fast
    /\ y.invalidation = x.invalidation /\ y.exit = x.exit /\ y.preserved = x.preserved
    /\ y.pending = x.pending /\ y.dirty = x.dirty /\ y.since = x.since

LEMMA Rewoken ==
    ASSUME NEW x \in Receiver, NEW w \in {"no", "one", "all"}
    PROVE  Alike(x, x) /\ Alike(x, [x EXCEPT !.woken = w])
BY DEF Receiver, Alike

LEMMA AlikeTrans == ASSUME NEW x, NEW y, NEW z, Alike(x, y), Alike(y, z) PROVE Alike(x, z)
BY Zenon DEF Alike

(* A receiver's own step, while others may be woken.                       *)
Becomes(r, x) ==
    /\ rcv' \in [Receivers -> Receiver]
    /\ Alike(x, rcv'[r]) /\ \A q \in Receivers \ {r} : Alike(rcv[q], rcv'[q])
AllAlike ==
    /\ rcv' \in [Receivers -> Receiver]
    /\ \A q \in Receivers : Alike(rcv[q], rcv'[q])

LEMMA Wakes ==
    ASSUME rcv \in [Receivers -> Receiver], NEW rs, NEW how \in {"no", "one", "all"}, rcv' = Wake(rs, how)
    PROVE  AllAlike
<1>1. ASSUME NEW q \in Receivers PROVE rcv'[q] \in Receiver /\ Alike(rcv[q], rcv'[q])
  <2>1. rcv'[q] = IF q \in rs THEN [rcv[q] EXCEPT !.woken = how] ELSE rcv[q]
    BY Zenon DEF Wake
  <2>2. rcv[q] \in Receiver
    BY Zenon
  <2>3. Alike(rcv[q], rcv[q]) /\ Alike(rcv[q], [rcv[q] EXCEPT !.woken = how])
    BY <2>2, Rewoken, Zenon
  <2>4. Alike(rcv[q], rcv'[q])
    BY <2>1, <2>3, Zenon
  <2> QED
    BY <2>4, Zenon DEF Alike
<1>2. rcv' = [q \in Receivers |-> IF q \in rs THEN [rcv[q] EXCEPT !.woken = how] ELSE rcv[q]]
  BY Zenon DEF Wake
<1>3. rcv' \in [Receivers -> Receiver]
  <2> HIDE DEF Receiver
  <2> QED
    BY <1>1, <1>2, Zenon
<1> QED
  BY <1>1, <1>3, Zenon DEF AllAlike

LEMMA StayAlike == ASSUME rcv \in [Receivers -> Receiver], UNCHANGED rcv PROVE AllAlike
<1>1. \A q \in Receivers : Alike(rcv[q], rcv'[q])
  BY Rewoken, Zenon
<1> QED
  BY <1>1, Zenon DEF AllAlike

LEMMA NotifiesAlike == ASSUME rcv \in [Receivers -> Receiver], NEW n, NotifyBy(n) PROVE AllAlike
<1>1. CASE n = 0
  <2>1. UNCHANGED <<rcv, notify>>
    BY <1>1 DEF NotifyBy
  <2> QED
    BY <2>1, StayAlike, Zenon
<1>2. CASE n # 0 /\ n = 1
  <2>1. notify_one
    BY <1>2 DEF NotifyBy
  <2>2. CASE waiters = <<>>
    BY <2>1, <2>2, StayAlike, Zenon DEF notify_one
  <2>3. CASE waiters # <<>>
    BY <2>1, <2>3, Wakes, Zenon DEF notify_one
  <2> QED
    BY <2>2, <2>3, Zenon
<1>3. CASE n # 0 /\ n # 1
  <2>1. notify_waiters
    BY <1>3 DEF NotifyBy
  <2> QED
    BY <2>1, Wakes, Zenon DEF notify_waiters
<1> QED
  BY <1>1, <1>2, <1>3, Zenon

LEMMA BecomesBy ==
    ASSUME rcv \in [Receivers -> Receiver], NEW r \in Receivers, NEW x \in Receiver, rcv' = [rcv EXCEPT ![r] = x]
    PROVE  Becomes(r, x)
<1>1. rcv' \in [Receivers -> Receiver] /\ rcv'[r] = x /\ \A q \in Receivers \ {r} : rcv'[q] = rcv[q]
  <2> HIDE DEF Receiver
  <2> QED
    BY Zenon
<1>2. \A q \in Receivers \ {r} : rcv[q] \in Receiver
  BY Zenon
<1> QED
  BY <1>1, <1>2, Rewoken, Zenon DEF Becomes

LEMMA Leaves ==
    ASSUME rcv \in [Receivers -> Receiver], NEW r \in Receivers, NEW item \in Receiver, LeaveNotify(r, item)
    PROVE  Becomes(r, item)
<1> DEFINE x == [item EXCEPT !.woken = "no"]
           after == [rcv EXCEPT ![r] = x]
           h == Head(SelectSeq(waiters, LAMBDA w : w # r))
           woken == [after EXCEPT ![h].woken = "one"]
<1>1. rcv' = after \/ rcv' = woken
  BY Zenon DEF LeaveNotify
<1>2. Alike(item, x)
  BY Rewoken, Zenon
<1>3. x \in Receiver
  BY <1>2, Zenon DEF Alike
<1> HIDE DEF x, h
<1>4. after \in [Receivers -> Receiver] /\ after[r] = x /\ \A q \in Receivers \ {r} : after[q] = rcv[q]
  <2> HIDE DEF Receiver
  <2> QED
    BY <1>3, Zenon
<1> HIDE DEF after
<1>5. \A q \in Receivers : after[q] \in Receiver
  <2> HIDE DEF Receiver
  <2> QED
    BY <1>4, Zenon
<1>6. \A q \in Receivers : woken[q] = IF q = h THEN [after[q] EXCEPT !.woken = "one"] ELSE after[q]
  BY <1>4, Zenon
<1>7. ASSUME NEW q \in Receivers PROVE Alike(after[q], rcv'[q]) /\ rcv'[q] \in Receiver
  <2>1. Alike(after[q], after[q]) /\ Alike(after[q], [after[q] EXCEPT !.woken = "one"])
    BY <1>5, Rewoken, Zenon
  <2>2. rcv'[q] = after[q] \/ rcv'[q] = [after[q] EXCEPT !.woken = "one"]
    BY <1>1, <1>6, Zenon
  <2>3. Alike(after[q], rcv'[q])
    BY <2>1, <2>2, Zenon
  <2> QED
    BY <2>3, Zenon DEF Alike
<1>8. rcv' \in [Receivers -> Receiver]
  <2>1. DOMAIN after = Receivers
    <3> HIDE DEF Receiver
    <3> QED
      BY <1>4, Zenon
  <2>2. woken = [q \in Receivers |-> IF q = h THEN [after[q] EXCEPT !.woken = "one"] ELSE after[q]]
    BY <2>1, Zenon
  <2>3. \A q \in Receivers : [after[q] EXCEPT !.woken = "one"] \in Receiver
    BY <1>5, Rewoken, Zenon DEF Alike
  <2> HIDE DEF Receiver, woken
  <2>4. woken \in [Receivers -> Receiver]
    BY <1>5, <2>2, <2>3, Zenon
  <2> QED
    BY <1>1, <1>4, <2>4, Zenon
<1>9. Alike(item, rcv'[r])
  BY <1>2, <1>4, <1>7, AlikeTrans, Zenon
<1> QED
  BY <1>4, <1>7, <1>8, <1>9, Zenon DEF Becomes

---------------------------------------------------------------------------
(* One receiver moves and the channel does not: the others are as before.  *)

LEMMA FineKept == ASSUME UNCHANGED state PROVE \A r, x, a : Fine(r, x, a) => Fine(r, x, a)'
<1>1. UNCHANGED ring /\ UNCHANGED generation /\ UNCHANGED fast_epoch /\ UNCHANGED process_exit_revision /\ UNCHANGED invalidation_revision
  BY Zenon DEF state
<1>2. \A item : CopyOK(item) => CopyOK(item)'
  BY <1>1, Zenon DEF CopyOK, Current
<1> QED
  BY <1>1, <1>2, ZenonT(30) DEF Fine

LEMMA OwesKept == ASSUME UNCHANGED state PROVE \A x, o : Owes(x, o) => Owes(x, o)'
<1>1. UNCHANGED ring /\ UNCHANGED invalidation_revision /\ UNCHANGED process_exit_revision
  BY Zenon DEF state
<1> QED
  BY <1>1, Zenon DEF Owes, Steady

LEMMA FineAlike == ASSUME NEW r, NEW x, NEW y, NEW a, Alike(x, y), Fine(r, x, a) PROVE Fine(r, y, a)
BY Zenon DEF Alike, Fine

LEMMA OwesAlike == ASSUME NEW x, NEW y, NEW o, Alike(x, y), Owes(x, o) PROVE Owes(y, o)
BY Zenon DEF Alike, Owes, Steady

LEMMA StreamsReceive == Streams \subseteq Receivers
BY Zenon DEF Receivers, Observers

LEMMA AllFineMoved ==
    ASSUME AllFine, UNCHANGED state, NEW r \in Receivers, NEW x, Becomes(r, x),
           \A q \in Receivers \ {r} : accounted'[q] = accounted[q],
           \A q \in Streams \ {r} : owed'[q] = owed[q],
           Fine(r, x, accounted'[r]), r \in Streams => Owes(x, owed'[r])
    PROVE  AllFine'
<1>1. \A q \in Receivers : Fine(q, rcv'[q], accounted'[q])
  BY FineAlike, Zenon DEF Becomes, AllFine
<1>2. \A q \in Streams : Owes(rcv'[q], owed'[q])
  BY OwesAlike, StreamsReceive, Zenon DEF Becomes, AllFine
<1>3. \A q \in Receivers : Fine(q, rcv[q], accounted[q])'
  BY <1>1, FineKept, Zenon
<1>4. \A q \in Streams : Owes(rcv[q], owed[q])'
  BY <1>2, OwesKept, Zenon
<1> QED
  BY <1>3, <1>4, Zenon DEF AllFine

LEMMA AllFineAlike == ASSUME AllFine, UNCHANGED <<state, history>>, AllAlike PROVE AllFine'
<1>1. accounted' = accounted /\ owed' = owed /\ UNCHANGED state
  BY Zenon DEF history
<1>2. \A q \in Receivers : Fine(q, rcv'[q], accounted'[q])
  BY <1>1, FineAlike, Zenon DEF AllAlike, AllFine
<1>3. \A q \in Streams : Owes(rcv'[q], owed'[q])
  BY <1>1, OwesAlike, StreamsReceive, Zenon DEF AllAlike, AllFine
<1>4. \A q \in Receivers : Fine(q, rcv[q], accounted[q])'
  BY <1>1, <1>2, FineKept, Zenon
<1>5. \A q \in Streams : Owes(rcv[q], owed[q])'
  BY <1>1, <1>3, OwesKept, Zenon
<1> QED
  BY <1>4, <1>5, Zenon DEF AllFine

(* The events and the copies that are on their way are not touched.        *)
LEMMA ChannelKept ==
    ASSUME RingOK, Copies, UNCHANGED <<state, pub>>, stale' = {} PROVE RingOK' /\ Copies'
<1>1. UNCHANGED ring /\ UNCHANGED generation /\ UNCHANGED fast_epoch /\ UNCHANGED pub
  BY Zenon DEF state
<1> QED
  BY <1>1, Zenon DEF RingOK, Numbered, Copies, CopyOK, Current

---------------------------------------------------------------------------
(* The counters follow the receivers.                                      *)

CountedSet == {q \in Receivers : Counted(rcv[q])}
FastSet == {q \in Live : FastCounted(rcv[q])}

LEMMA CountsFinite ==
    /\ IsFiniteSet(CountedSet) /\ Cardinality(CountedSet) \in Nat
    /\ Cardinality(CountedSet) <= Cardinality(Receivers)
    /\ IsFiniteSet(FastSet) /\ Cardinality(FastSet) \in Nat
    /\ Cardinality(FastSet) <= Cardinality(Live)
<1>1. IsFiniteSet(Receivers) /\ Live \subseteq Receivers
  BY ReceiversAssumption, Zenon DEF Receivers
<1>2. IsFiniteSet(Live)
  BY <1>1, FS_Subset, Zenon
<1>3. CountedSet \subseteq Receivers /\ FastSet \subseteq Live
  BY Zenon DEF CountedSet, FastSet
<1> QED
  BY <1>1, <1>2, <1>3, FS_Subset, FS_CardinalityType, Zenon

LEMMA CountsMoved ==
    ASSUME NEW r \in Receivers, NEW x, Becomes(r, x)
    PROVE  /\ CountedSet' = IF Counted(x) THEN CountedSet \cup {r} ELSE CountedSet \ {r}
           /\ FastSet' = IF r \in Live /\ FastCounted(x) THEN FastSet \cup {r} ELSE FastSet \ {r}
<1>1. \A q \in Receivers : Counted(rcv'[q]) <=> IF q = r THEN Counted(x) ELSE Counted(rcv[q])
  BY Zenon DEF Becomes, Alike, Counted
<1>2. \A q \in Receivers : FastCounted(rcv'[q]) <=> IF q = r THEN FastCounted(x) ELSE FastCounted(rcv[q])
  BY Zenon DEF Becomes, Alike, FastCounted
<1>3. Live \subseteq Receivers
  BY Zenon DEF Receivers
<1>4. CountedSet' = {q \in Receivers : Counted(rcv'[q])} /\ FastSet' = {q \in Live : FastCounted(rcv'[q])}
  BY Zenon DEF CountedSet, FastSet, Counted, FastCounted
<1>5. \A q : q \in CountedSet' <=> q \in Receivers /\ (IF q = r THEN Counted(x) ELSE Counted(rcv[q]))
  BY <1>1, <1>4, Zenon
<1>6. \A q : q \in FastSet' <=> q \in Live /\ (IF q = r THEN FastCounted(x) ELSE FastCounted(rcv[q]))
  BY <1>2, <1>3, <1>4, Zenon
<1> QED
  BY <1>5, <1>6 DEF CountedSet, FastSet

(* What a set gains or loses with one element.                             *)
Delta(before, after) == IF after /\ ~before THEN 1 ELSE IF before /\ ~after THEN -1 ELSE 0

LEMMA CountOne ==
    ASSUME NEW S, IsFiniteSet(S), NEW r, NEW in \in BOOLEAN,
           NEW T, T = IF in THEN S \cup {r} ELSE S \ {r}
    PROVE  Cardinality(T) = Cardinality(S) + Delta(r \in S, in)
<1>1. Cardinality(S) \in Nat
  BY FS_CardinalityType, Zenon
<1>2. CASE in /\ r \notin S
  <2>1. T = S \cup {r} /\ Delta(r \in S, in) = 1
    BY <1>2, Zenon DEF Delta
  <2>2. Cardinality(S \cup {r}) = Cardinality(S) + 1
    BY <1>2, FS_AddElement, Zenon
  <2> QED
    BY <2>1, <2>2, Zenon
<1>3. CASE ~in /\ r \in S
  <2>1. T = S \ {r} /\ Delta(r \in S, in) = -1
    BY <1>3, Zenon DEF Delta
  <2>2. Cardinality(S \ {r}) = Cardinality(S) - 1
    BY <1>3, FS_RemoveElement, Zenon
  <2> QED
    BY <1>1, <2>1, <2>2
<1>4. CASE in <=> r \in S
  <2>1. T = S
    BY <1>4, Zenon
  <2>2. Delta(r \in S, in) = 0
    BY <1>4, Zenon DEF Delta
  <2>3. Cardinality(S) + 0 = Cardinality(S)
    BY <1>1
  <2> QED
    BY <2>1, <2>2, <2>3, Zenon
<1> QED
  BY <1>2, <1>3, <1>4, Zenon

LEMMA CountsStep ==
    ASSUME Counts, NEW r \in Receivers, NEW x, Becomes(r, x), fast_receivers' \subseteq Live,
           receiver_count' = receiver_count + Delta(Counted(rcv[r]), Counted(x)),
           fast_receiver_count' = fast_receiver_count + Delta(r \in Live /\ FastCounted(rcv[r]), r \in Live /\ FastCounted(x))
    PROVE  Counts'
<1>1. IsFiniteSet(CountedSet) /\ IsFiniteSet(FastSet)
  BY CountsFinite, Zenon
<1>2. Cardinality(CountedSet') = Cardinality(CountedSet) + Delta(r \in CountedSet, Counted(x))
  <2>1. Counted(x) \in BOOLEAN
    BY DEF Counted
  <2>2. CountedSet' = IF Counted(x) THEN CountedSet \cup {r} ELSE CountedSet \ {r}
    BY CountsMoved, Zenon
  <2> QED
    BY <1>1, <2>1, <2>2, CountOne, Zenon
<1>3. Cardinality(FastSet') = Cardinality(FastSet) + Delta(r \in FastSet, r \in Live /\ FastCounted(x))
  <2>1. (r \in Live /\ FastCounted(x)) \in BOOLEAN
    OBVIOUS
  <2>2. FastSet' = IF r \in Live /\ FastCounted(x) THEN FastSet \cup {r} ELSE FastSet \ {r}
    BY CountsMoved, Zenon
  <2> QED
    BY <1>1, <2>1, <2>2, CountOne, Zenon
<1>4. /\ Delta(r \in CountedSet, Counted(x)) = Delta(Counted(rcv[r]), Counted(x))
      /\ Delta(r \in FastSet, r \in Live /\ FastCounted(x)) = Delta(r \in Live /\ FastCounted(rcv[r]), r \in Live /\ FastCounted(x))
  <2>1. (r \in CountedSet <=> Counted(rcv[r])) /\ (r \in FastSet <=> r \in Live /\ FastCounted(rcv[r]))
    BY Zenon DEF CountedSet, FastSet
  <2> QED
    BY <2>1, Zenon DEF Delta
<1>5. receiver_count = Cardinality(CountedSet) /\ fast_receiver_count = Cardinality(FastSet)
  BY Zenon DEF Counts, CountedSet, FastSet
<1>6. receiver_count' = Cardinality(CountedSet') /\ fast_receiver_count' = Cardinality(FastSet')
  BY <1>2, <1>3, <1>4, <1>5, Zenon
<1> QED
  BY <1>6, Zenon DEF Counts, CountedSet, FastSet

LEMMA CountsAlike ==
    ASSUME Counts, AllAlike, UNCHANGED <<receiver_count, fast_receiver_count>>, fast_receivers' \subseteq Live
    PROVE  Counts'
<1>1. \A q \in Receivers : Counted(rcv'[q]) <=> Counted(rcv[q])
  BY Zenon DEF AllAlike, Alike, Counted
<1>2. \A q \in Receivers : FastCounted(rcv'[q]) <=> FastCounted(rcv[q])
  BY Zenon DEF AllAlike, Alike, FastCounted
<1>3. Live \subseteq Receivers
  BY Zenon DEF Receivers
<1>4. {q \in Receivers : Counted(rcv'[q])} = {q \in Receivers : Counted(rcv[q])}
  BY <1>1, Zenon
<1>5. {q \in Live : FastCounted(rcv'[q])} = {q \in Live : FastCounted(rcv[q])}
  BY <1>2, <1>3, Zenon
<1> QED
  BY <1>4, <1>5, Zenon DEF Counts, Counted, FastCounted

---------------------------------------------------------------------------
(* The steps of a receiver.                                                *)

LEMMA TypesKept ==
    ASSUME Types, UNCHANGED <<state, pub>>, rcv' \in [Receivers -> Receiver],
           accounted' \in [Receivers -> Nat], owed' \in [Streams -> Int]
    PROVE  Types'
<1>1. /\ UNCHANGED generation /\ UNCHANGED fast_epoch /\ UNCHANGED invalidation_revision /\ UNCHANGED process_exit_revision
      /\ UNCHANGED process_exit_revision_at_invalidation /\ UNCHANGED pub
  BY Zenon DEF state
<1> QED
  BY <1>1, Zenon DEF Types

LEMMA MovedInv ==
    ASSUME PaneOutputInv, UNCHANGED <<state, pub>>, NEW r \in Receivers, NEW x, Becomes(r, x), stale' = {},
           accounted' \in [Receivers -> Nat], \A q \in Receivers \ {r} : accounted'[q] = accounted[q],
           owed' \in [Streams -> Int], \A q \in Streams \ {r} : owed'[q] = owed[q],
           Fine(r, x, accounted'[r]), r \in Streams => Owes(x, owed'[r]), fast_receivers' \subseteq Live,
           receiver_count' = receiver_count + Delta(Counted(rcv[r]), Counted(x)),
           fast_receiver_count' = fast_receiver_count + Delta(r \in Live /\ FastCounted(rcv[r]), r \in Live /\ FastCounted(x))
    PROVE  PaneOutputInv'
<1>1. Types /\ RingOK /\ Copies /\ AllFine /\ Counts
  BY Zenon DEF PaneOutputInv
<1>2. Types'
  BY <1>1, TypesKept, Zenon DEF Becomes
<1>3. RingOK' /\ Copies'
  BY <1>1, ChannelKept, Zenon
<1>4. AllFine'
  BY <1>1, AllFineMoved, Zenon
<1>5. Counts'
  BY <1>1, CountsStep, Zenon
<1> QED
  BY <1>2, <1>3, <1>4, <1>5, Zenon DEF PaneOutputInv

(* A step that only the receiver itself sees.                              *)
LEMMA QuietInv ==
    ASSUME PaneOutputInv, UNCHANGED <<state, counts, pub, history>>, NEW r \in Receivers, NEW x, Becomes(r, x),
           Fine(r, x, accounted[r]), r \in Streams => Owes(x, owed[r]),
           Counted(rcv[r]) <=> Counted(x), r \in Live => (FastCounted(rcv[r]) <=> FastCounted(x))
    PROVE  PaneOutputInv'
<1>1. /\ stale = {} /\ accounted \in [Receivers -> Nat] /\ owed \in [Streams -> Int] /\ fast_receivers \subseteq Live
      /\ receiver_count = Cardinality(CountedSet) /\ fast_receiver_count = Cardinality(FastSet)
  BY Zenon DEF PaneOutputInv, Types, Copies, Counts, CountedSet, FastSet
<1>2. /\ stale' = stale /\ accounted' = accounted /\ owed' = owed /\ fast_receivers' = fast_receivers
      /\ receiver_count' = receiver_count /\ fast_receiver_count' = fast_receiver_count /\ UNCHANGED <<state, pub>>
  BY Zenon DEF history, counts
<1>3. Delta(Counted(rcv[r]), Counted(x)) = 0 /\ Delta(r \in Live /\ FastCounted(rcv[r]), r \in Live /\ FastCounted(x)) = 0
  BY Zenon DEF Delta
<1>4. receiver_count + 0 = receiver_count /\ fast_receiver_count + 0 = fast_receiver_count
  <2>1. receiver_count \in Nat /\ fast_receiver_count \in Nat
    BY <1>1, CountsFinite, Zenon
  <2> QED
    BY <2>1
<1> QED
  BY <1>1, <1>2, <1>3, <1>4, MovedInv, Zenon

LEMMA ReceiverFields ==
    ASSUME NEW x \in Receiver
    PROVE  /\ x.status \in Statuses /\ x.woken \in {"no", "one", "all"} /\ x.cursor \in Nat /\ x.fast \in FastQueue
           /\ x.invalidation \in Nat /\ x.exit \in Nat /\ x.preserved \in Nat /\ x.pending \in BOOLEAN
           /\ x.dirty \in BOOLEAN /\ x.since \in Nat
BY DEF Receiver

LEMMA OffIsReceiver == Off \in Receiver
<1>1. <<>> \in FastQueue
  BY DEF FastQueue
<1> QED
  BY <1>1 DEF Off, Receiver, Statuses

LEMMA InvFacts ==
    ASSUME PaneOutputInv, NEW r \in Receivers
    PROVE  /\ rcv \in [Receivers -> Receiver] /\ rcv[r] \in Receiver
           /\ Fine(r, rcv[r], accounted[r]) /\ (r \in Streams => Owes(rcv[r], owed[r]))
BY Zenon DEF PaneOutputInv, Types, AllFine

LEMMA AwakeInv == ASSUME PaneOutputInv, NEW r \in Receivers, Awake(r) PROVE PaneOutputInv'
<1> DEFINE y == rcv[r]
           x == [y EXCEPT !.status = "ready", !.woken = "no"]
<1>1. rcv \in [Receivers -> Receiver] /\ y \in Receiver /\ Fine(r, y, accounted[r])
  BY InvFacts, Zenon
<1>2. rcv[r].status = "parked" /\ rcv' = [rcv EXCEPT ![r] = x] /\ UNCHANGED <<state, counts, pub, history>>
  BY Zenon DEF Awake
<1> HIDE DEF y
<1>3. /\ x \in Receiver /\ x.status = "ready" /\ x.cursor = y.cursor /\ x.fast = y.fast /\ x.exit = y.exit
      /\ x.preserved = y.preserved /\ x.dirty = y.dirty /\ x.invalidation = y.invalidation
  BY <1>1, Zenon DEF Receiver, Statuses
<1> HIDE DEF x
<1>4. Becomes(r, x)
  BY <1>1, <1>2, <1>3, BecomesBy, Zenon
<1>5. Fine(r, x, accounted[r])
  BY <1>1, <1>2, <1>3, Zenon DEF Fine, y
<1>6. r \notin Streams
  BY <1>1, <1>2, Zenon DEF Fine, y
<1> QED
  BY <1>2, <1>3, <1>4, <1>5, <1>6, QuietInv, Zenon DEF Counted, FastCounted

LEMMA EnableInv == ASSUME PaneOutputInv, NEW r \in Receivers, Enable(r) PROVE PaneOutputInv'
<1> DEFINE y == rcv[r]
           x == [y EXCEPT !.status = "enabled", !.woken = IF permit THEN "all" ELSE "no"]
<1>1. rcv \in [Receivers -> Receiver] /\ y \in Receiver /\ Fine(r, y, accounted[r])
  BY InvFacts, Zenon
<1>2. /\ rcv[r].status = "ready" /\ r \notin Streams /\ rcv' = [rcv EXCEPT ![r] = x]
      /\ UNCHANGED <<state, counts, pub, history>>
  BY Zenon DEF Enable
<1> HIDE DEF y
<1>3. /\ x \in Receiver /\ x.status = "enabled" /\ x.cursor = y.cursor /\ x.fast = y.fast /\ x.exit = y.exit
      /\ x.preserved = y.preserved /\ x.dirty = y.dirty /\ x.invalidation = y.invalidation
  BY <1>1, Zenon DEF Receiver, Statuses
<1> HIDE DEF x
<1>4. Becomes(r, x)
  BY <1>1, <1>2, <1>3, BecomesBy, Zenon
<1>5. Fine(r, x, accounted[r])
  BY <1>1, <1>2, <1>3, Zenon DEF Fine, y
<1> QED
  BY <1>2, <1>3, <1>4, <1>5, QuietInv, Zenon DEF Counted, FastCounted

LEMMA BeginRebaseInv == ASSUME PaneOutputInv, NEW r \in Receivers, BeginRebase(r) PROVE PaneOutputInv'
<1> DEFINE y == rcv[r]
           x == [y EXCEPT !.status = "rebasing", !.since = y.exit]
<1>1. rcv \in [Receivers -> Receiver] /\ y \in Receiver /\ Fine(r, y, accounted[r]) /\ (r \in Streams => Owes(y, owed[r]))
  BY InvFacts, Zenon
<1>2. /\ rcv[r].status = "ready" /\ rcv[r].dirty /\ rcv' = [rcv EXCEPT ![r] = x]
      /\ UNCHANGED <<state, counts, pub, history>>
  BY Zenon DEF BeginRebase
<1> HIDE DEF y
<1>3. /\ x \in Receiver /\ x.status = "rebasing" /\ x.cursor = y.cursor /\ x.fast = y.fast /\ x.exit = y.exit
      /\ x.preserved = y.preserved /\ x.dirty = y.dirty /\ x.since = y.exit /\ x.pending = y.pending
      /\ x.invalidation = y.invalidation
  BY <1>1, Zenon DEF Receiver, Statuses
<1> HIDE DEF x
<1>4. Becomes(r, x)
  BY <1>1, <1>2, <1>3, BecomesBy, Zenon
<1>5. r \in Streams /\ r \notin Live
  <2>1. r \in Streams
    BY <1>1, <1>2, Zenon DEF Fine, y
  <2> QED
    BY <2>1, ReceiversAssumption, Zenon DEF Observers
<1>6. Fine(r, x, accounted[r])
  BY <1>1, <1>2, <1>3, <1>5, Zenon DEF Fine, y
<1>7. Owes(x, owed[r])
  BY <1>1, <1>2, <1>3, <1>5, Zenon DEF Owes, Steady, y
<1> QED
  BY <1>2, <1>3, <1>4, <1>5, <1>6, <1>7, QuietInv, Zenon DEF Counted

LEMMA AbandonRebaseInv == ASSUME PaneOutputInv, NEW r \in Receivers, AbandonRebase(r) PROVE PaneOutputInv'
<1> DEFINE y == rcv[r]
           x == [y EXCEPT !.status = "ready", !.since = 0]
<1>1. rcv \in [Receivers -> Receiver] /\ y \in Receiver /\ Fine(r, y, accounted[r]) /\ (r \in Streams => Owes(y, owed[r]))
  BY InvFacts, Zenon
<1>2. /\ rcv[r].status = "rebasing" /\ rcv' = [rcv EXCEPT ![r] = x]
      /\ UNCHANGED <<state, counts, pub, history>>
  BY Zenon DEF AbandonRebase
<1> HIDE DEF y
<1>3. /\ x \in Receiver /\ x.status = "ready" /\ x.cursor = y.cursor /\ x.fast = y.fast /\ x.exit = y.exit
      /\ x.preserved = y.preserved /\ x.dirty = y.dirty /\ x.pending = y.pending
      /\ x.invalidation = y.invalidation
  BY <1>1, Zenon DEF Receiver, Statuses
<1> HIDE DEF x
<1>4. Becomes(r, x)
  BY <1>1, <1>2, <1>3, BecomesBy, Zenon
<1>5. r \in Streams /\ r \notin Live
  <2>1. r \in Streams
    BY <1>1, <1>2, Zenon DEF Fine, y
  <2> QED
    BY <2>1, ReceiversAssumption, Zenon DEF Observers
<1>6. Fine(r, x, accounted[r])
  BY <1>1, <1>2, <1>3, <1>5, Zenon DEF Fine, y
<1>7. Owes(x, owed[r])
  BY <1>1, <1>2, <1>3, <1>5, Zenon DEF Owes, Steady, y
<1> QED
  BY <1>2, <1>3, <1>4, <1>5, <1>6, <1>7, QuietInv, Zenon DEF Counted

(* A new receiver starts where the channel is.                             *)
LEMMA NewReceiver ==
    ASSUME PaneOutputInv, NEW c \in Nat
    PROVE  LET x == At(c) IN
           /\ x \in Receiver /\ x.status = "ready" /\ x.cursor = c /\ x.fast = <<>> /\ x.exit = process_exit_revision
           /\ x.preserved = 0 /\ x.dirty = FALSE /\ x.invalidation = invalidation_revision
<1>1. process_exit_revision \in Nat /\ invalidation_revision \in Nat
  BY Zenon DEF PaneOutputInv, Types
<1>2. <<>> \in FastQueue
  BY DEF FastQueue
<1> QED
  BY <1>1, <1>2, Zenon DEF At, Off, Receiver, Statuses

LEMMA NewIsFine ==
    ASSUME PaneOutputInv, NEW r, NEW x, NEW a, x.fast = <<>>, x.exit = process_exit_revision, x.cursor <= ring.next,
           a = x.cursor \/ r \notin Live \cup Plain, x.dirty = FALSE, x.invalidation = invalidation_revision,
           x.status \in {"ready", "registering"}, x.status = "registering" => r \in Live
    PROVE  Fine(r, x, a)
<1>1. process_exit_revision \in Nat /\ invalidation_revision \in Nat /\ FastCapacity \in Nat
  BY ReceiversAssumption, Zenon DEF PaneOutputInv, Types
<1>2. Len(x.fast) <= FastCapacity /\ x.exit <= process_exit_revision /\ x.invalidation <= invalidation_revision /\ \A i \in DOMAIN x.fast : CopyOK(x.fast[i])
  BY <1>1
<1> QED
  BY <1>2, Zenon DEF Fine

(* It has nothing to report, but for what was carried over.                *)
LEMMA NewOwes ==
    ASSUME PaneOutputInv, NEW x, x.exit = process_exit_revision, x.cursor = ring.next, x.preserved \in Nat, x.status = "ready"
    PROVE  Owes(x, x.preserved)
<1>1. process_exit_revision \in Nat /\ Numbered(ring)
  BY Zenon DEF PaneOutputInv, Types, RingOK
<1>2. Cardinality(Markers(ring, x.cursor)) = 0
  BY <1>1, MarkersAtEnd, Zenon
<1>3. x.preserved = x.preserved + (process_exit_revision - x.exit) /\ process_exit_revision - x.exit <= 0
  BY <1>1
<1> QED
  BY <1>2, <1>3, Zenon DEF Owes

LEMMA FinishRebaseInv == ASSUME PaneOutputInv, NEW r \in Receivers, FinishRebase(r) PROVE PaneOutputInv'
<1> DEFINE y == rcv[r]
           n == process_exit_revision - y.since
           z == At(ring.next)
           x == [z EXCEPT !.preserved = z.exit - y.since]
<1>1. rcv \in [Receivers -> Receiver] /\ y \in Receiver /\ Fine(r, y, accounted[r]) /\ (r \in Streams => Owes(y, owed[r]))
  BY InvFacts, Zenon
<1>2. /\ y.status = "rebasing" /\ rcv' = [rcv EXCEPT ![r] = x]
      /\ UNCHANGED <<state, counts, pub, history>>
  BY Zenon DEF FinishRebase, preserve_process_exits_since
<1>3. /\ y.since = y.exit /\ y.exit \in Nat /\ y.exit <= process_exit_revision /\ y.dirty
      /\ process_exit_revision \in Nat /\ ring.next \in Nat
  BY <1>1, <1>2, ReceiverFields, Zenon DEF Fine, PaneOutputInv, Types, RingOK, Numbered
<1>4. n \in Nat
  <2> HIDE DEF y
  <2> QED
    BY <1>3
<1>5. /\ z \in Receiver /\ z.status = "ready" /\ z.cursor = ring.next /\ z.fast = <<>> /\ z.exit = process_exit_revision
      /\ z.dirty = FALSE /\ z.invalidation = invalidation_revision
  BY <1>3, NewReceiver, Zenon
<1> HIDE DEF y, n, z
<1>6. /\ x \in Receiver /\ x.status = "ready" /\ x.cursor = ring.next /\ x.fast = <<>> /\ x.exit = process_exit_revision
      /\ x.preserved = n /\ x.dirty = FALSE /\ x.invalidation = invalidation_revision
  <2>1. z.exit - y.since = n
    BY <1>5, Zenon DEF n
  <2> QED
    BY <1>4, <1>5, <2>1 DEF Receiver
<1> HIDE DEF x
<1>7. Becomes(r, x)
  BY <1>1, <1>2, <1>6, BecomesBy, Zenon
<1>8. r \in Streams /\ r \notin Live /\ r \notin Plain
  <2>1. r \in Streams
    BY <1>1, <1>3, Zenon DEF Fine
  <2> QED
    BY <2>1, ReceiversAssumption, Zenon DEF Observers
<1>9. Fine(r, x, accounted[r])
  <2>1. ring.next <= ring.next
    BY <1>3
  <2> QED
    BY <1>6, <1>8, <2>1, NewIsFine, Zenon
<1>10. owed[r] = n
  <2>1. owed[r] = y.preserved + (process_exit_revision - y.exit) /\ y.preserved = 0
    BY <1>1, <1>2, <1>3, <1>8, Zenon DEF Owes, Fine
  <2> QED
    BY <1>3, <2>1 DEF n
<1>11. Owes(x, owed[r])
  BY <1>4, <1>6, <1>10, NewOwes, Zenon
<1> QED
  BY <1>2, <1>6, <1>7, <1>8, <1>9, <1>11, QuietInv, Zenon DEF Counted, y

LEMMA NumbersOfInv ==
    ASSUME PaneOutputInv
    PROVE  /\ ring.next \in Nat /\ Numbered(ring) /\ oldest_sequence(ring) \in 0 .. ring.next
           /\ process_exit_revision \in Nat /\ invalidation_revision \in Nat
           /\ receiver_count \in Nat /\ fast_receiver_count \in Nat
           /\ stale = {} /\ accounted \in [Receivers -> Nat] /\ owed \in [Streams -> Int] /\ fast_receivers \subseteq Live
<1>1. Numbered(ring)
  BY Zenon DEF PaneOutputInv, RingOK
<1>2. oldest_sequence(ring) \in 0 .. ring.next
  BY <1>1, Oldest, Zenon
<1>3. receiver_count = Cardinality(CountedSet) /\ fast_receiver_count = Cardinality(FastSet)
  BY Zenon DEF PaneOutputInv, Counts, CountedSet, FastSet
<1> QED
  BY <1>1, <1>2, <1>3, CountsFinite, Zenon DEF PaneOutputInv, Types, Numbered, Copies, Counts

LEMMA Deltas ==
    /\ Delta(FALSE, TRUE) = 1 /\ Delta(TRUE, FALSE) = -1 /\ Delta(TRUE, TRUE) = 0 /\ Delta(FALSE, FALSE) = 0
    /\ \A n \in Nat : n + 0 = n /\ n + (-1) = n - 1
BY DEF Delta

LEMMA SubscribeInv == ASSUME PaneOutputInv, NEW r \in Receivers, subscribe(r) PROVE PaneOutputInv'
<1>1. rcv \in [Receivers -> Receiver] /\ rcv[r] \in Receiver /\ (r \in Streams => Owes(rcv[r], owed[r]))
  BY InvFacts, Zenon
<1>2. /\ rcv[r].status = "off" /\ r \notin Live /\ receiver_count' = receiver_count + 1
      /\ UNCHANGED <<state, pub>> /\ UNCHANGED <<fast_receiver_count, fast_receivers>>
      /\ stale' = stale /\ owed' = owed
  BY Zenon DEF subscribe
<1>3. PICK c \in {ring.next} \cup (IF r \in Plain THEN {oldest_sequence(ring)} ELSE {}) :
        rcv' = [rcv EXCEPT ![r] = At(c)] /\ accounted' = [accounted EXCEPT ![r] = c]
  BY Zenon DEF subscribe
<1>4. /\ ring.next \in Nat /\ oldest_sequence(ring) \in 0 .. ring.next /\ receiver_count \in Nat /\ fast_receiver_count \in Nat
      /\ stale = {} /\ accounted \in [Receivers -> Nat] /\ owed \in [Streams -> Int] /\ fast_receivers \subseteq Live
  BY NumbersOfInv, Zenon
<1>5. c \in Nat /\ c <= ring.next /\ (r \in Streams => c = ring.next)
  <2>1. r \in Streams => r \notin Plain
    BY ReceiversAssumption, Zenon DEF Observers
  <2>2. c = ring.next \/ (c = oldest_sequence(ring) /\ r \notin Streams)
    BY <1>3, <2>1, Zenon
  <2> QED
    BY <1>4, <2>2
<1> DEFINE x == At(c)
<1>6. /\ x \in Receiver /\ x.status = "ready" /\ x.cursor = c /\ x.fast = <<>> /\ x.exit = process_exit_revision
      /\ x.preserved = 0 /\ x.dirty = FALSE /\ x.invalidation = invalidation_revision
  BY <1>5, NewReceiver, Zenon
<1>7. rcv' = [rcv EXCEPT ![r] = x]
  BY <1>3, Zenon
<1> HIDE DEF x
<1>8. Becomes(r, x)
  BY <1>1, <1>6, <1>7, BecomesBy, Zenon
<1>9. accounted' \in [Receivers -> Nat] /\ accounted'[r] = c /\ \A q \in Receivers \ {r} : accounted'[q] = accounted[q]
  BY <1>3, <1>4, <1>5, Zenon
<1>10. Fine(r, x, accounted'[r])
  BY <1>5, <1>6, <1>9, NewIsFine, Zenon
<1>11. ASSUME r \in Streams PROVE Owes(x, owed'[r])
  <2>1. owed'[r] = 0
    BY <1>1, <1>2, <1>11, Zenon DEF Owes
  <2>2. 0 \in Nat
    OBVIOUS
  <2> QED
    BY <1>5, <1>6, <1>11, <2>1, <2>2, NewOwes, Zenon
<1>12. ~Counted(rcv[r]) /\ Counted(x)
  BY <1>2, <1>6, Zenon DEF Counted
<1>13. receiver_count' = receiver_count + Delta(Counted(rcv[r]), Counted(x))
  BY <1>2, <1>12, Zenon DEF Delta
<1>14. fast_receiver_count' = fast_receiver_count + Delta(r \in Live /\ FastCounted(rcv[r]), r \in Live /\ FastCounted(x))
  <2>1. Delta(r \in Live /\ FastCounted(rcv[r]), r \in Live /\ FastCounted(x)) = 0
    BY <1>2, Zenon DEF Delta
  <2> QED
    BY <1>2, <1>4, <2>1, Deltas, Zenon
<1> QED
  BY <1>2, <1>4, <1>8, <1>9, <1>10, <1>11, <1>13, <1>14, MovedInv, Zenon

LEMMA RegisterInv == ASSUME PaneOutputInv, NEW r \in Receivers, register_live_receiver(r) PROVE PaneOutputInv'
<1> DEFINE z == At(ring.next)
           x == [z EXCEPT !.status = "registering"]
<1>1. rcv \in [Receivers -> Receiver] /\ rcv[r] \in Receiver
  BY InvFacts, Zenon
<1>2. /\ rcv[r].status = "off" /\ r \in Live /\ fast_receiver_count' = fast_receiver_count + 1
      /\ fast_receivers' = fast_receivers \cup {r} /\ rcv' = [rcv EXCEPT ![r] = x]
      /\ accounted' = [accounted EXCEPT ![r] = ring.next]
      /\ UNCHANGED <<state, pub>> /\ receiver_count' = receiver_count /\ stale' = stale /\ owed' = owed
  BY Zenon DEF register_live_receiver
<1>3. /\ ring.next \in Nat /\ receiver_count \in Nat /\ fast_receiver_count \in Nat
      /\ stale = {} /\ accounted \in [Receivers -> Nat] /\ owed \in [Streams -> Int] /\ fast_receivers \subseteq Live
  BY NumbersOfInv, Zenon
<1>4. /\ z \in Receiver /\ z.status = "ready" /\ z.cursor = ring.next /\ z.fast = <<>> /\ z.exit = process_exit_revision
      /\ z.preserved = 0 /\ z.dirty = FALSE /\ z.invalidation = invalidation_revision
  BY <1>3, NewReceiver, Zenon
<1> HIDE DEF z
<1>5. /\ x \in Receiver /\ x.status = "registering" /\ x.cursor = ring.next /\ x.fast = <<>> /\ x.exit = process_exit_revision
      /\ x.preserved = 0 /\ x.dirty = FALSE /\ x.invalidation = invalidation_revision
  BY <1>4 DEF Receiver, Statuses
<1> HIDE DEF x
<1>6. Becomes(r, x)
  BY <1>1, <1>2, <1>5, BecomesBy, Zenon
<1>7. accounted' \in [Receivers -> Nat] /\ accounted'[r] = ring.next /\ \A q \in Receivers \ {r} : accounted'[q] = accounted[q]
  BY <1>2, <1>3, Zenon
<1>8. Fine(r, x, accounted'[r])
  <2>1. ring.next <= ring.next
    BY <1>3
  <2> QED
    BY <1>2, <1>5, <1>7, <2>1, NewIsFine, Zenon
<1>9. r \notin Streams
  BY <1>2, ReceiversAssumption, Zenon DEF Observers
<1>10. ~Counted(rcv[r]) /\ ~Counted(x) /\ ~FastCounted(rcv[r]) /\ FastCounted(x)
  BY <1>2, <1>5, Zenon DEF Counted, FastCounted
<1>11. fast_receiver_count' = fast_receiver_count + Delta(r \in Live /\ FastCounted(rcv[r]), r \in Live /\ FastCounted(x))
  BY <1>2, <1>10, Zenon DEF Delta
<1>12. receiver_count' = receiver_count + Delta(Counted(rcv[r]), Counted(x))
  <2>1. Delta(Counted(rcv[r]), Counted(x)) = 0
    BY <1>10, Zenon DEF Delta
  <2> QED
    BY <1>2, <1>3, <2>1, Deltas, Zenon
<1>13. fast_receivers' \subseteq Live
  BY <1>2, <1>3, Zenon
<1> QED
  BY <1>2, <1>3, <1>6, <1>7, <1>8, <1>9, <1>11, <1>12, <1>13, MovedInv, Zenon

LEMMA CountLiveInv == ASSUME PaneOutputInv, NEW r \in Receivers, CountLiveReceiver(r) PROVE PaneOutputInv'
<1> DEFINE y == rcv[r]
           x == [y EXCEPT !.status = "ready"]
<1>1. rcv \in [Receivers -> Receiver] /\ y \in Receiver /\ Fine(r, y, accounted[r])
  BY InvFacts, Zenon
<1>2. /\ y.status = "registering" /\ receiver_count' = receiver_count + 1 /\ rcv' = [rcv EXCEPT ![r] = x]
      /\ UNCHANGED <<state, pub>> /\ fast_receiver_count' = fast_receiver_count /\ fast_receivers' = fast_receivers
      /\ stale' = stale /\ owed' = owed /\ accounted' = accounted
  BY Zenon DEF CountLiveReceiver, history
<1>3. /\ receiver_count \in Nat /\ fast_receiver_count \in Nat
      /\ stale = {} /\ accounted \in [Receivers -> Nat] /\ owed \in [Streams -> Int] /\ fast_receivers \subseteq Live
  BY NumbersOfInv, Zenon
<1> HIDE DEF y
<1>4. /\ x \in Receiver /\ x.status = "ready" /\ x.cursor = y.cursor /\ x.fast = y.fast /\ x.exit = y.exit
      /\ x.preserved = y.preserved /\ x.dirty = y.dirty /\ x.invalidation = y.invalidation
  BY <1>1 DEF Receiver, Statuses
<1> HIDE DEF x
<1>5. Becomes(r, x)
  BY <1>1, <1>2, <1>4, BecomesBy, Zenon
<1>6. r \in Live /\ r \notin Streams
  <2>1. r \in Live
    BY <1>1, <1>2, Zenon DEF Fine
  <2> QED
    BY <2>1, ReceiversAssumption, Zenon DEF Observers
<1>7. Fine(r, x, accounted'[r])
  BY <1>1, <1>2, <1>4, Zenon DEF Fine
<1>8. ~Counted(y) /\ Counted(x) /\ FastCounted(y) /\ FastCounted(x)
  BY <1>2, <1>4, Zenon DEF Counted, FastCounted
<1>9. receiver_count' = receiver_count + Delta(Counted(y), Counted(x))
  BY <1>2, <1>8, Zenon DEF Delta
<1>10. fast_receiver_count' = fast_receiver_count + Delta(r \in Live /\ FastCounted(y), r \in Live /\ FastCounted(x))
  <2>1. Delta(r \in Live /\ FastCounted(y), r \in Live /\ FastCounted(x)) = 0
    BY <1>6, <1>8, Zenon DEF Delta
  <2> QED
    BY <1>2, <1>3, <2>1, Deltas, Zenon
<1> QED
  BY <1>2, <1>3, <1>5, <1>6, <1>7, <1>9, <1>10, MovedInv, Zenon DEF y

LEMMA GoneReceiver ==
    ASSUME PaneOutputInv, NEW r, NEW s \in {"closing", "dropped"}, s = "closing" => r \in Live, NEW a
    PROVE  LET x == [Off EXCEPT !.status = s] IN x \in Receiver /\ x.status = s /\ Fine(r, x, a)
<1> DEFINE x == [Off EXCEPT !.status = s]
<1>1. /\ x \in Receiver /\ x.status = s /\ x.fast = <<>> /\ x.cursor = 0 /\ x.exit = 0 /\ x.invalidation = 0 /\ x.dirty = FALSE
  BY OffIsReceiver, Zenon DEF Off, Receiver, Statuses
<1> HIDE DEF x
<1>2. process_exit_revision \in Nat /\ invalidation_revision \in Nat /\ FastCapacity \in Nat /\ ring.next \in Nat
  BY NumbersOfInv, ReceiversAssumption, Zenon
<1>3. Len(x.fast) <= FastCapacity /\ x.cursor <= ring.next /\ x.exit <= process_exit_revision
      /\ x.invalidation <= invalidation_revision /\ DOMAIN x.fast = {}
  BY <1>1, <1>2
<1>4. Fine(r, x, a)
  BY <1>1, <1>3, Zenon DEF Fine
<1> QED
  BY <1>1, <1>4, Zenon DEF x

LEMMA DropFastInv == ASSUME PaneOutputInv, NEW r \in Receivers, DropFast(r) PROVE PaneOutputInv'
<1> DEFINE x == [Off EXCEPT !.status = "closing"]
<1>1. rcv \in [Receivers -> Receiver] /\ rcv[r] \in Receiver
  BY InvFacts, Zenon
<1>2. /\ rcv[r].status \in {"ready", "parked"} /\ r \in Live /\ LeaveNotify(r, x)
      /\ fast_receiver_count' = fast_receiver_count - 1 /\ receiver_count' = receiver_count /\ fast_receivers' = fast_receivers
      /\ UNCHANGED <<state, pub>> /\ accounted' = accounted /\ stale' = stale /\ owed' = owed
  BY Zenon DEF DropFast, history
<1>3. /\ receiver_count \in Nat /\ fast_receiver_count \in Nat
      /\ stale = {} /\ accounted \in [Receivers -> Nat] /\ owed \in [Streams -> Int] /\ fast_receivers \subseteq Live
  BY NumbersOfInv, Zenon
<1>4. x \in Receiver /\ x.status = "closing" /\ Fine(r, x, accounted'[r])
  BY <1>2, GoneReceiver, Zenon
<1> HIDE DEF x
<1>5. Becomes(r, x)
  BY <1>1, <1>2, <1>4, Leaves, Zenon
<1>6. r \notin Streams
  BY <1>2, ReceiversAssumption, Zenon DEF Observers
<1>7. Counted(rcv[r]) /\ Counted(x) /\ FastCounted(rcv[r]) /\ ~FastCounted(x)
  BY <1>2, <1>4, Zenon DEF Counted, FastCounted
<1>8. receiver_count' = receiver_count + Delta(Counted(rcv[r]), Counted(x))
  <2>1. Delta(Counted(rcv[r]), Counted(x)) = 0
    BY <1>7, Zenon DEF Delta
  <2> QED
    BY <1>2, <1>3, <2>1, Deltas, Zenon
<1>9. fast_receiver_count' = fast_receiver_count + Delta(r \in Live /\ FastCounted(rcv[r]), r \in Live /\ FastCounted(x))
  <2>1. Delta(r \in Live /\ FastCounted(rcv[r]), r \in Live /\ FastCounted(x)) = -1
    BY <1>2, <1>7, Zenon DEF Delta
  <2> QED
    BY <1>2, <1>3, <2>1, Deltas, Zenon
<1> QED
  BY <1>2, <1>3, <1>4, <1>5, <1>6, <1>8, <1>9, MovedInv, Zenon

LEMMA DropInv == ASSUME PaneOutputInv, NEW r \in Receivers, Drop(r) PROVE PaneOutputInv'
<1> DEFINE x == [Off EXCEPT !.status = "dropped"]
<1>1. rcv \in [Receivers -> Receiver] /\ rcv[r] \in Receiver /\ Fine(r, rcv[r], accounted[r])
  BY InvFacts, Zenon
<1>2. /\ rcv[r].status = "closing" \/ (rcv[r].status \in {"ready", "parked"} /\ r \notin Live)
      /\ LeaveNotify(r, x) /\ receiver_count' = receiver_count - 1 /\ fast_receivers' = fast_receivers \ {r}
      /\ fast_receiver_count' = fast_receiver_count
      /\ accounted' = [accounted EXCEPT ![r] = 0] /\ owed' = [q \in Streams |-> IF q = r THEN 0 ELSE owed[q]]
      /\ UNCHANGED <<state, pub>> /\ stale' = stale
  BY Zenon DEF Drop
<1>3. /\ receiver_count \in Nat /\ fast_receiver_count \in Nat
      /\ stale = {} /\ accounted \in [Receivers -> Nat] /\ owed \in [Streams -> Int] /\ fast_receivers \subseteq Live
  BY NumbersOfInv, Zenon
<1>4. x \in Receiver /\ x.status = "dropped" /\ Fine(r, x, accounted'[r])
  BY GoneReceiver, Zenon
<1> HIDE DEF x
<1>5. Becomes(r, x)
  BY <1>1, <1>2, <1>4, Leaves, Zenon
<1>6. /\ accounted' \in [Receivers -> Nat] /\ \A q \in Receivers \ {r} : accounted'[q] = accounted[q]
  BY <1>2, <1>3, 0 \in Nat, Zenon
<1>7. /\ owed' \in [Streams -> Int] /\ (\A q \in Streams \ {r} : owed'[q] = owed[q]) /\ (r \in Streams => owed'[r] = 0)
  BY <1>2, <1>3, 0 \in Int, Zenon
<1>8. r \in Streams => Owes(x, owed'[r])
  BY <1>4, <1>7, Zenon DEF Owes
<1>9. Counted(rcv[r]) /\ ~Counted(x) /\ ~(r \in Live /\ FastCounted(rcv[r])) /\ ~FastCounted(x)
  BY <1>2, <1>4, Zenon DEF Counted, FastCounted
<1>10. receiver_count' = receiver_count + Delta(Counted(rcv[r]), Counted(x))
  <2>1. Delta(Counted(rcv[r]), Counted(x)) = -1
    BY <1>9, Zenon DEF Delta
  <2> QED
    BY <1>2, <1>3, <2>1, Deltas, Zenon
<1>11. fast_receiver_count' = fast_receiver_count + Delta(r \in Live /\ FastCounted(rcv[r]), r \in Live /\ FastCounted(x))
  <2>1. Delta(r \in Live /\ FastCounted(rcv[r]), r \in Live /\ FastCounted(x)) = 0
    BY <1>9, Zenon DEF Delta
  <2> QED
    BY <1>2, <1>3, <2>1, Deltas, Zenon
<1>12. fast_receivers' \subseteq Live
  BY <1>2, <1>3, Zenon
<1> QED
  BY <1>2, <1>3, <1>4, <1>5, <1>6, <1>7, <1>8, <1>10, <1>11, <1>12, MovedInv, Zenon

(* An item taken from the fast queue is what the cursor expects, or is     *)
(* thrown away.                                                            *)
LEMMA FastIsTaken ==
    ASSUME PaneOutputInv, NEW r \in Receivers, rcv[r].fast # <<>>, rcv[r].status \in {"ready", "enabled", "parked"}, DeliverFast(r)
    PROVE  /\ TakenFast(r) \in Receiver /\ TakenFast(r).status = rcv[r].status /\ r \in Live
           /\ Fine(r, TakenFast(r), accounted'[r])
           /\ stale' = {} /\ owed' = owed
           /\ accounted' \in [Receivers -> Nat] /\ \A q \in Receivers \ {r} : accounted'[q] = accounted[q]
<1> DEFINE y == rcv[r]
           item == Head(y.fast)
           x == TakenFast(r)
<1>1. y \in Receiver /\ Fine(r, y, accounted[r]) /\ y.fast # <<>>
  BY InvFacts, Zenon
<1>2. /\ y.cursor \in Nat /\ y.fast \in Seq(FastItem) /\ ring.next \in Nat /\ stale = {}
      /\ accounted \in [Receivers -> Nat] /\ FastCapacity \in Nat
  BY <1>1, ReceiverFields, NumbersOfInv, ReceiversAssumption, Zenon DEF FastQueue
<1>3. /\ Tail(y.fast) \in FastQueue /\ Len(Tail(y.fast)) <= FastCapacity
      /\ item \in FastItem /\ CopyOK(item) /\ \A i \in DOMAIN Tail(y.fast) : CopyOK(Tail(y.fast)[i])
  <2>1. Len(y.fast) <= FastCapacity /\ \A i \in DOMAIN y.fast : CopyOK(y.fast[i])
    BY <1>1, Zenon DEF Fine
  <2> HIDE DEF y, FastItem
  <2>2. /\ Tail(y.fast) \in Seq(FastItem) /\ Len(Tail(y.fast)) <= FastCapacity /\ item = y.fast[1] /\ 1 \in DOMAIN y.fast
        /\ item \in FastItem
        /\ \A i \in DOMAIN Tail(y.fast) : Tail(y.fast)[i] = y.fast[i + 1] /\ i + 1 \in DOMAIN y.fast
    BY <1>1, <1>2, <2>1
  <2> QED
    BY <2>1, <2>2, Zenon DEF FastQueue
<1>4. item.sequence \in Nat /\ item.sequence + 1 \in Nat /\ item.sequence + 1 <= ring.next
  <2>1. item.sequence \in Nat /\ item.sequence < ring.next
    BY <1>3, Zenon DEF CopyOK, FastItem
  <2> QED
    BY <1>2, <2>1
<1>5. r \in Live
  BY <1>1, Zenon DEF Fine
<1> DEFINE u == [y EXCEPT !.fast = Tail(@), !.cursor = item.sequence + 1]
           v == [y EXCEPT !.fast = Tail(@)]
<1>6. x = IF accepts(r, item) THEN u ELSE v
  BY Zenon DEF TakenFast
<1> HIDE DEF x, y, item
<1>7. /\ u \in Receiver /\ u.status = y.status /\ u.fast = Tail(y.fast) /\ u.cursor = item.sequence + 1 /\ u.exit = y.exit
      /\ u.preserved = y.preserved /\ u.dirty = y.dirty /\ u.since = y.since /\ u.invalidation = y.invalidation
  BY <1>1, <1>3, <1>4, Zenon DEF Receiver
<1>8. /\ v \in Receiver /\ v.status = y.status /\ v.fast = Tail(y.fast) /\ v.cursor = y.cursor /\ v.exit = y.exit
      /\ v.preserved = y.preserved /\ v.dirty = y.dirty /\ v.since = y.since /\ v.invalidation = y.invalidation
  BY <1>1, <1>3, Zenon DEF Receiver
<1> HIDE DEF u, v
<1>9. CASE accepts(r, item)
  <2>1. accounted' = [accounted EXCEPT ![r] = @ + 1] /\ owed' = owed /\ stale' = stale \cup (IF Current(item.bytes) THEN {} ELSE {r})
    BY <1>9, Zenon DEF DeliverFast, Deliver, Current, item, y
  <2>2. item.epoch = fast_epoch /\ item.sequence = y.cursor
    BY <1>9, Zenon DEF accepts, y
  <2>3. stale' = {}
    BY <1>2, <1>3, <2>1, <2>2, Zenon DEF CopyOK
  <2>4. accounted[r] = y.cursor
    BY <1>1, <1>5, Zenon DEF Fine, y
  <2>5. accounted'[r] = u.cursor /\ accounted' \in [Receivers -> Nat] /\ \A q \in Receivers \ {r} : accounted'[q] = accounted[q]
    <3>1. accounted[r] + 1 = item.sequence + 1 /\ accounted[r] + 1 \in Nat
      BY <1>4, <2>2, <2>4, Zenon
    <3> QED
      BY <1>2, <1>7, <2>1, <3>1, Zenon
  <2>6. Fine(r, u, accounted'[r])
    BY <1>1, <1>3, <1>4, <1>5, <1>7, <2>5, Zenon DEF Fine
  <2> QED
    BY <1>5, <1>6, <1>7, <1>9, <2>1, <2>3, <2>5, <2>6, Zenon DEF x, y
<1>10. CASE ~accepts(r, item)
  <2>1. accounted' = accounted /\ owed' = owed /\ stale' = stale
    BY <1>10, Zenon DEF DeliverFast, history, item, y
  <2>2. Fine(r, v, accounted'[r])
    BY <1>1, <1>3, <1>5, <1>8, <2>1, Zenon DEF Fine
  <2> QED
    BY <1>2, <1>5, <1>6, <1>8, <1>10, <2>1, <2>2, Zenon DEF x, y
<1> QED
  BY <1>9, <1>10, Zenon

(* A receiver that is no stream may begin or end to wait.                  *)
LEMMA FineReady ==
    ASSUME NEW r, NEW y \in Receiver, NEW a, NEW s \in {"ready", "enabled", "parked"}, Fine(r, y, a), r \notin Streams,
           y.status \in {"ready", "enabled", "parked"}
    PROVE  LET x == [y EXCEPT !.status = s] IN
           x \in Receiver /\ Fine(r, x, a) /\ Counted(x) /\ Counted(y) /\ FastCounted(x) /\ FastCounted(y)
<1> DEFINE x == [y EXCEPT !.status = s]
<1>1. /\ x \in Receiver /\ x.status = s /\ x.cursor = y.cursor /\ x.fast = y.fast /\ x.exit = y.exit
      /\ x.preserved = y.preserved /\ x.dirty = y.dirty /\ x.invalidation = y.invalidation
  BY DEF Receiver, Statuses
<1> HIDE DEF x
<1>2. Fine(r, x, a)
  BY <1>1, Zenon DEF Fine
<1>3. Counted(x) /\ Counted(y) /\ FastCounted(x) /\ FastCounted(y)
  BY <1>1, Zenon DEF Counted, FastCounted
<1> QED
  BY <1>1, <1>2, <1>3, Zenon DEF x

(* A step that hands something to a receiver that is no stream.            *)
LEMMA GivenInv ==
    ASSUME PaneOutputInv, UNCHANGED <<state, counts, pub>>, NEW r \in Receivers, NEW x, Becomes(r, x), r \notin Streams,
           stale' = {}, owed' = owed, accounted' \in [Receivers -> Nat], \A q \in Receivers \ {r} : accounted'[q] = accounted[q],
           Fine(r, x, accounted'[r]), Counted(x), FastCounted(x), rcv[r].status \in {"ready", "enabled", "parked"}
    PROVE  PaneOutputInv'
<1>1. /\ receiver_count \in Nat /\ fast_receiver_count \in Nat
      /\ owed \in [Streams -> Int] /\ fast_receivers \subseteq Live
  BY NumbersOfInv, Zenon
<1>2. receiver_count' = receiver_count /\ fast_receiver_count' = fast_receiver_count /\ fast_receivers' = fast_receivers /\ UNCHANGED <<state, pub>>
  BY Zenon DEF counts
<1>3. Counted(rcv[r]) /\ FastCounted(rcv[r])
  BY Zenon DEF Counted, FastCounted
<1>4. Delta(Counted(rcv[r]), Counted(x)) = 0 /\ Delta(r \in Live /\ FastCounted(rcv[r]), r \in Live /\ FastCounted(x)) = 0
  BY <1>3, Zenon DEF Delta
<1>5. receiver_count + 0 = receiver_count /\ fast_receiver_count + 0 = fast_receiver_count
  BY <1>1, Deltas, Zenon
<1> QED
  BY <1>1, <1>2, <1>4, <1>5, MovedInv, Zenon

LEMMA TryRecvFastInv == ASSUME PaneOutputInv, NEW r \in Receivers, try_recv_fast(r) PROVE PaneOutputInv'
<1> DEFINE x == TakenFast(r)
<1>1. /\ rcv[r].status = "ready" /\ rcv[r].fast # <<>> /\ rcv' = [rcv EXCEPT ![r] = x]
      /\ DeliverFast(r) /\ UNCHANGED <<state, counts, pub>>
  BY Zenon DEF try_recv_fast
<1>2. /\ x \in Receiver /\ x.status = rcv[r].status /\ r \in Live /\ Fine(r, x, accounted'[r]) /\ stale' = {} /\ owed' = owed
      /\ accounted' \in [Receivers -> Nat] /\ \A q \in Receivers \ {r} : accounted'[q] = accounted[q]
  BY <1>1, FastIsTaken, Zenon
<1> HIDE DEF x
<1>3. Becomes(r, x)
  BY <1>1, <1>2, InvFacts, BecomesBy, Zenon
<1>4. r \notin Streams
  BY <1>2, ReceiversAssumption, Zenon DEF Observers
<1>5. Counted(x) /\ FastCounted(x)
  BY <1>1, <1>2, Zenon DEF Counted, FastCounted
<1> QED
  BY <1>1, <1>2, <1>3, <1>4, <1>5, GivenInv, Zenon

LEMMA RecvFastInv == ASSUME PaneOutputInv, NEW r \in Receivers, RecvFast(r) PROVE PaneOutputInv'
<1> DEFINE y == TakenFast(r)
           x == [y EXCEPT !.status = "ready"]
<1>1. /\ rcv[r].status \in {"enabled", "parked"} /\ rcv[r].fast # <<>>
      /\ DeliverFast(r) /\ UNCHANGED <<state, counts, pub>>
      /\ rcv' = [rcv EXCEPT ![r] = y] \/ LeaveNotify(r, x)
  BY Zenon DEF RecvFast, Ready
<1>2. /\ y \in Receiver /\ y.status = rcv[r].status /\ r \in Live /\ Fine(r, y, accounted'[r]) /\ stale' = {} /\ owed' = owed
      /\ accounted' \in [Receivers -> Nat] /\ \A q \in Receivers \ {r} : accounted'[q] = accounted[q]
  BY <1>1, FastIsTaken, Zenon
<1>3. r \notin Streams
  BY <1>2, ReceiversAssumption, Zenon DEF Observers
<1> HIDE DEF y
<1>4. x \in Receiver /\ Fine(r, x, accounted'[r]) /\ Counted(x) /\ Counted(y) /\ FastCounted(x) /\ FastCounted(y)
  BY <1>1, <1>2, <1>3, FineReady, Zenon
<1> HIDE DEF x
<1>5. Becomes(r, y) \/ Becomes(r, x)
  BY <1>1, <1>2, <1>4, InvFacts, BecomesBy, Leaves, Zenon
<1>6. CASE Becomes(r, y)
  BY <1>1, <1>2, <1>3, <1>4, <1>6, GivenInv, Zenon
<1>7. CASE Becomes(r, x)
  BY <1>1, <1>2, <1>3, <1>4, <1>7, GivenInv, Zenon
<1> QED
  BY <1>5, <1>6, <1>7, Zenon


(* What the ring holds is of the current process.                          *)
LEMMA RingIsCurrent ==
    ASSUME PaneOutputInv, NEW c \in Nat, HasEvent(ring, c)
    PROVE  Current(EventAt(ring, c).bytes)
<1>1. (c - oldest_sequence(ring)) + 1 \in DOMAIN ring.events
  BY NumbersOfInv, Oldest, Zenon
<1> QED
  BY <1>1, Zenon DEF PaneOutputInv, Copies, EventAt

LEMMA RecvRingInv == ASSUME PaneOutputInv, NEW r \in Receivers, RecvRing(r) PROVE PaneOutputInv'
<1> DEFINE y == rcv[r]
           z == [y EXCEPT !.status = "ready"]
<1>1. rcv \in [Receivers -> Receiver] /\ y \in Receiver /\ Fine(r, y, accounted[r])
  BY InvFacts, Zenon
<1>2. y.status = "enabled" /\ r \in Live \cup Plain /\ UNCHANGED <<state, counts, pub>>
  BY Zenon DEF RecvRing
<1>3. r \notin Streams
  BY <1>2, ReceiversAssumption, Zenon DEF Observers
<1>4. /\ y.cursor \in Nat /\ y.cursor <= ring.next /\ ring.next \in Nat /\ oldest_sequence(ring) \in 0 .. ring.next /\ stale = {}
      /\ accounted \in [Receivers -> Nat] /\ accounted[r] = y.cursor
  BY <1>1, <1>2, ReceiverFields, NumbersOfInv, Zenon DEF Fine
<1>5. \/ /\ Lags(ring, y.cursor) /\ LeaveNotify(r, [z EXCEPT !.cursor = oldest_sequence(ring)])
         /\ ReportGap(r, oldest_sequence(ring) - y.cursor)
      \/ /\ HasEvent(ring, y.cursor) /\ LeaveNotify(r, [z EXCEPT !.cursor = @ + 1])
         /\ Deliver(r, EventAt(ring, y.cursor).bytes)
      \/ /\ rcv' = [rcv EXCEPT ![r].status = "parked"] /\ UNCHANGED history
  BY Zenon DEF RecvRing, Ready
<1>6. z \in Receiver /\ Fine(r, z, accounted[r]) /\ Counted(z) /\ FastCounted(z)
  BY <1>1, <1>2, <1>3, FineReady, Zenon
<1>7. z.cursor = y.cursor /\ z.status = "ready"
  BY <1>1 DEF Receiver
<1> HIDE DEF y, z
<1>8. ASSUME NEW c \in Nat, c <= ring.next, LeaveNotify(r, [z EXCEPT !.cursor = c]),
             accounted' = [accounted EXCEPT ![r] = c], stale' = {}, owed' = owed
      PROVE  PaneOutputInv'
  <2> DEFINE x == [z EXCEPT !.cursor = c]
  <2>1. /\ x \in Receiver /\ x.cursor = c /\ x.status = z.status /\ x.fast = z.fast /\ x.exit = z.exit
        /\ x.preserved = z.preserved /\ x.dirty = z.dirty /\ x.since = z.since /\ x.invalidation = z.invalidation
    BY <1>6 DEF Receiver
  <2>2. Becomes(r, x)
    <3> HIDE DEF x
    <3> QED
      BY <1>1, <1>8, <2>1, Leaves, Zenon DEF x
  <2>3. accounted' \in [Receivers -> Nat] /\ accounted'[r] = c /\ \A q \in Receivers \ {r} : accounted'[q] = accounted[q]
    BY <1>4, <1>8, Zenon
  <2> HIDE DEF x
  <2>4. Fine(r, x, accounted'[r])
    BY <1>6, <1>8, <2>1, <2>3, Zenon DEF Fine
  <2>5. Counted(x) /\ FastCounted(x)
    BY <1>6, <2>1, Zenon DEF Counted, FastCounted
  <2> QED
    BY <1>2, <1>3, <1>8, <2>2, <2>3, <2>4, <2>5, GivenInv, Zenon DEF y
<1>9. CASE Lags(ring, y.cursor) /\ LeaveNotify(r, [z EXCEPT !.cursor = oldest_sequence(ring)]) /\ ReportGap(r, oldest_sequence(ring) - y.cursor)
  <2>1. oldest_sequence(ring) \in Nat /\ oldest_sequence(ring) <= ring.next /\ accounted[r] + (oldest_sequence(ring) - y.cursor) = oldest_sequence(ring)
    BY <1>4
  <2>2. accounted' = [accounted EXCEPT ![r] = oldest_sequence(ring)] /\ stale' = {} /\ owed' = owed
    BY <1>4, <1>9, <2>1, Zenon DEF ReportGap
  <2> QED
    BY <1>8, <1>9, <2>1, <2>2, Zenon
<1>10. CASE HasEvent(ring, y.cursor) /\ LeaveNotify(r, [z EXCEPT !.cursor = @ + 1]) /\ Deliver(r, EventAt(ring, y.cursor).bytes)
  <2>1. y.cursor + 1 \in Nat /\ y.cursor + 1 <= ring.next
    BY <1>4, <1>10 DEF HasEvent
  <2>2. Current(EventAt(ring, y.cursor).bytes)
    BY <1>4, <1>10, RingIsCurrent, Zenon
  <2>3. accounted' = [accounted EXCEPT ![r] = y.cursor + 1] /\ stale' = {} /\ owed' = owed
    BY <1>4, <1>10, <2>2, Zenon DEF Deliver, Current
  <2>4. LeaveNotify(r, [z EXCEPT !.cursor = y.cursor + 1])
    <3>1. [z EXCEPT !.cursor = @ + 1] = [z EXCEPT !.cursor = y.cursor + 1]
      BY <1>7, Zenon
    <3> QED
      BY <1>10, <3>1, Zenon
  <2> QED
    BY <1>8, <2>1, <2>3, <2>4, Zenon
<1>11. CASE rcv' = [rcv EXCEPT ![r].status = "parked"] /\ UNCHANGED history
  <2> DEFINE x == [y EXCEPT !.status = "parked"]
  <2>1. x \in Receiver /\ Fine(r, x, accounted[r]) /\ Counted(x) /\ FastCounted(x)
    BY <1>1, <1>2, <1>3, FineReady, Zenon
  <2>2. rcv' = [rcv EXCEPT ![r] = x]
    BY <1>11, Zenon DEF y
  <2> HIDE DEF x
  <2>3. Becomes(r, x)
    BY <1>1, <2>1, <2>2, BecomesBy, Zenon
  <2>4. accounted' = accounted /\ stale' = {} /\ owed' = owed
    BY <1>4, <1>11, Zenon DEF history
  <2> QED
    BY <1>2, <1>3, <1>4, <2>1, <2>3, <2>4, GivenInv, Zenon DEF y
<1> QED
  BY <1>5, <1>9, <1>10, <1>11, Zenon


---------------------------------------------------------------------------
(* What an observer is told.                                               *)

(* The end-of-file markers of reported exits are skipped up to the end or  *)
(* to the first output.                                                    *)
LEMMA Skips ==
    ASSUME PaneOutputInv, NEW x, x.cursor \in Nat, x.cursor <= ring.next
    PROVE  /\ SkipMarkers(x) \in x.cursor .. ring.next
           /\ SkipMarkers(x) = ring.next \/ EventAt(ring, SkipMarkers(x)).bytes # <<>>
<1> DEFINE Stop(c) == c = ring.next \/ EventAt(ring, c).bytes # <<>>
           T == {c \in x.cursor .. ring.next : Stop(c)}
           P(c) == (\A k \in x.cursor .. (c - 1) : EventAt(ring, k).bytes = <<>>) /\ Stop(c)
<1>1. ring.next \in Nat
  BY NumbersOfInv, Zenon
<1>2. PICK c \in T : \A k \in T : c <= k
  <2>1. ring.next \in x.cursor .. ring.next
    BY <1>1
  <2>2. T # {}
    BY <2>1, Zenon
  <2>3. x.cursor .. ring.next \subseteq Nat
    BY <1>1
  <2>4. T \in SUBSET Nat
    BY <2>3, Zenon
  <2> QED
    BY <2>2, <2>4, LeastNumber, Zenon
<1>3. \A k \in x.cursor .. (c - 1) : EventAt(ring, k).bytes = <<>>
  <2>1. c \in x.cursor .. ring.next
    BY <1>2, Zenon
  <2>2. \A k \in x.cursor .. (c - 1) : k \in x.cursor .. ring.next /\ ~(c <= k)
    BY <1>1, <2>1
  <2> QED
    BY <1>2, <2>2, Zenon
<1>4. c \in x.cursor .. ring.next /\ P(c)
  BY <1>2, <1>3, Zenon
<1>5. SkipMarkers(x) = CHOOSE k \in x.cursor .. ring.next : P(k)
  BY Zenon DEF SkipMarkers
<1>6. SkipMarkers(x) \in x.cursor .. ring.next /\ P(SkipMarkers(x))
  <2> HIDE DEF P
  <2> QED
    BY <1>4, <1>5, Zenon
<1> QED
  BY <1>6, Zenon

(* What is told: nothing but the cursor, the revisions and the gap that is *)
(* pending changes; an exit is told exactly when there is one less to tell.*)
Outstanding(x) == x.preserved + (process_exit_revision - x.exit)
Covered(x) == process_exit_revision - x.exit <= Cardinality(Markers(ring, x.cursor))
Keeps(x, z) == (Steady(x) => Covered(x)) => (Steady(z) => Covered(z))
Told(x, item, z) ==
    /\ z \in Receiver /\ z.status = x.status /\ z.fast = x.fast /\ z.dirty = x.dirty /\ z.since = x.since
    /\ z.cursor <= ring.next /\ z.exit <= process_exit_revision /\ z.preserved <= x.preserved
    /\ z.invalidation \in {x.invalidation, invalidation_revision}
    /\ Outstanding(z) = IF item = "exit" THEN Outstanding(x) - 1 ELSE Outstanding(x)
    /\ item # "exit" => z.preserved = 0
    /\ item \notin {"invalidated", "gap"} => Keeps(x, z)


Items == {"exit", "gap", "invalidated", "event", "none"}

(* Reporting an exit, from a receiver y that may have been moved before.   *)
LEMMA ExitTold ==
    ASSUME PaneOutputInv, NEW x \in Receiver, NEW y \in Receiver, y.status = x.status, y.fast = x.fast, y.dirty = x.dirty, y.since = x.since, y.invalidation = x.invalidation,
           y.preserved = x.preserved, y.exit = x.exit, y.cursor <= ring.next, x.exit < process_exit_revision,
           LET z == [y EXCEPT !.exit = @ + 1] IN Keeps(x, z)
    PROVE  Told(x, ExitItem(y).item, ExitItem(y).x) /\ ExitItem(y).item \in Items
<1> DEFINE z == [y EXCEPT !.exit = @ + 1]
<1>1. x.exit \in Nat /\ x.preserved \in Nat /\ process_exit_revision \in Nat
  BY ReceiverFields, NumbersOfInv, Zenon
<1>2. ExitItem(y).item = "exit" /\ ExitItem(y).x = z
  BY DEF ExitItem
<1>3. x.exit + 1 \in Nat /\ x.exit + 1 <= process_exit_revision /\ x.preserved <= x.preserved
      /\ x.preserved + (process_exit_revision - (x.exit + 1)) = (x.preserved + (process_exit_revision - x.exit)) - 1
  BY <1>1
<1>4. /\ z \in Receiver /\ z.status = y.status /\ z.fast = y.fast /\ z.dirty = y.dirty /\ z.since = y.since /\ z.invalidation = y.invalidation
      /\ z.cursor = y.cursor /\ z.exit = x.exit + 1 /\ z.preserved = y.preserved
  BY <1>3 DEF Receiver
<1> HIDE DEF z
<1>5. Keeps(x, z)
  BY Zenon DEF z
<1> QED
  BY <1>2, <1>3, <1>4, <1>5, Zenon DEF Told, Outstanding, Items

LEMMA PollTold ==
    ASSUME PaneOutputInv, NEW x \in Receiver, x.cursor <= ring.next, x.exit <= process_exit_revision, x.preserved = 0,
           ~Lags(ring, x.cursor), ~x.pending, x.invalidation = invalidation_revision
    PROVE  Told(x, PollItem(x).item, PollItem(x).x) /\ PollItem(x).item \in Items
<1> DEFINE c == IF x.exit < process_exit_revision THEN x.cursor ELSE SkipMarkers(x)
           o == PollItem(x)
<1>1. x.exit \in Nat /\ x.cursor \in Nat /\ process_exit_revision \in Nat /\ ring.next \in Nat /\ Numbered(ring) /\ oldest_sequence(ring) \in 0 .. ring.next
  BY ReceiverFields, NumbersOfInv, Zenon
<1>2. c \in x.cursor .. ring.next
  <2>1. x.cursor \in x.cursor .. ring.next
    BY <1>1
  <2> QED
    BY <1>1, <2>1, Skips, Zenon
<1>3. c \in Nat /\ x.cursor <= c /\ c <= ring.next /\ c + 1 \in Nat /\ (c # ring.next => c + 1 <= ring.next /\ HasEvent(ring, c))
  <2> HIDE DEF c
  <2> QED
    BY <1>1, <1>2 DEF HasEvent, Lags
<1>4. /\ c = ring.next => o = [item |-> "none", x |-> [x EXCEPT !.cursor = c]]
      /\ c # ring.next /\ EventAt(ring, c).bytes = <<>> => o = ExitItem([x EXCEPT !.cursor = c + 1])
      /\ c # ring.next /\ EventAt(ring, c).bytes # <<>> => o = [item |-> "event", x |-> [x EXCEPT !.cursor = c + 1]]
  <2>1. o = CASE c = ring.next                  -> [item |-> "none", x |-> [x EXCEPT !.cursor = c]]
              [] c < ring.next /\ EventAt(ring, c).bytes = <<>> -> ExitItem([x EXCEPT !.cursor = c + 1])
              [] OTHER                          -> [item |-> "event", x |-> [x EXCEPT !.cursor = c + 1]]
    BY Zenon DEF PollItem
  <2> DEFINE e1 == [item |-> "none", x |-> [x EXCEPT !.cursor = c]]
             e2 == ExitItem([x EXCEPT !.cursor = c + 1])
             e3 == [item |-> "event", x |-> [x EXCEPT !.cursor = c + 1]]
             b == EventAt(ring, c).bytes
  <2>2. o = CASE c = ring.next -> e1 [] c < ring.next /\ b = <<>> -> e2 [] OTHER -> e3
    BY <2>1, Zenon
  <2> HIDE DEF c, e1, e2, e3, b, o
  <2>3. /\ c = ring.next => o = e1
        /\ c # ring.next /\ b = <<>> => o = e2
        /\ c # ring.next /\ b # <<>> => o = e3
    BY <1>1, <1>3, <2>2
  <2> QED
    BY <2>3, Zenon DEF e1, e2, e3, b
<1>5. ASSUME x.exit = process_exit_revision, c # ring.next PROVE EventAt(ring, c).bytes # <<>>
  <2>1. ~(x.exit < process_exit_revision)
    BY <1>1, <1>5
  <2> QED
    BY <1>1, <1>5, <2>1, Skips, Zenon
<1>6. ASSUME NEW k \in Nat PROVE
        LET z == [x EXCEPT !.cursor = k] IN
        /\ z \in Receiver /\ z.status = x.status /\ z.fast = x.fast /\ z.dirty = x.dirty /\ z.since = x.since /\ z.invalidation = x.invalidation
        /\ z.cursor = k /\ z.exit = x.exit /\ z.preserved = x.preserved
  BY <1>6 DEF Receiver
<1>7. x.exit < process_exit_revision => c = x.cursor
  BY Zenon
<1>8. ~(x.exit < process_exit_revision) => x.exit = process_exit_revision /\ process_exit_revision - x.exit = 0
  BY <1>1
<1>9. \A k \in Nat : Cardinality(Markers(ring, k)) \in Nat
  BY <1>1, MarkersAreFinite, Zenon
<1>10. \A n \in Nat : 0 <= n
  OBVIOUS
<1>11. \A z : Steady(z) /\ z.dirty = x.dirty => Steady(x)
  BY Zenon DEF Steady
<1>12. c # ring.next => Cardinality(Markers(ring, c)) = Cardinality(Markers(ring, c + 1)) + (IF EventAt(ring, c).bytes = <<>> THEN 1 ELSE 0)
  BY <1>1, <1>3, MarkersRead, Zenon
<1> HIDE DEF c, o
<1>13. ASSUME NEW k \in Nat, k <= ring.next, NEW item \in {"none", "event"}, o.item = item, o.x = [x EXCEPT !.cursor = k],
              x.exit < process_exit_revision => Cardinality(Markers(ring, k)) = Cardinality(Markers(ring, x.cursor))
       PROVE  Told(x, o.item, o.x) /\ o.item \in Items
  <2> DEFINE z == [x EXCEPT !.cursor = k]
  <2>1. o.item = item /\ o.x = z
    BY <1>13, Zenon
  <2>2. /\ z \in Receiver /\ z.status = x.status /\ z.fast = x.fast /\ z.dirty = x.dirty /\ z.since = x.since /\ z.invalidation = x.invalidation
        /\ z.cursor = k /\ z.exit = x.exit /\ z.preserved = x.preserved
    BY <1>6, Zenon
  <2> HIDE DEF z
  <2>3. ASSUME Steady(x) => Covered(x), Steady(z) PROVE Covered(z)
    <3>1. process_exit_revision - x.exit <= Cardinality(Markers(ring, x.cursor))
      BY <1>11, <2>2, <2>3, Zenon DEF Covered
    <3>2. process_exit_revision - x.exit <= Cardinality(Markers(ring, k))
      BY <1>8, <1>9, <1>10, <1>13, <3>1, Zenon
    <3> QED
      BY <2>2, <3>2, Zenon DEF Covered
  <2>4. item # "exit" /\ item \in Items /\ item \notin {"invalidated", "gap"} /\ x.preserved <= x.preserved
    BY <1>13 DEF Items
  <2>5. Told(x, item, z)
    BY <1>13, <2>2, <2>3, <2>4, Zenon DEF Told, Outstanding, Keeps
  <2> QED
    BY <2>1, <2>4, <2>5, Zenon
<1>14. CASE c = ring.next
  <2>1. x.exit < process_exit_revision => Cardinality(Markers(ring, c)) = Cardinality(Markers(ring, x.cursor))
    BY <1>7, Zenon
  <2>2. o.item = "none" /\ o.x = [x EXCEPT !.cursor = c]
    <3> DEFINE z == [x EXCEPT !.cursor = c]
    <3>1. o = [item |-> "none", x |-> z]
      BY <1>4, <1>14, Zenon
    <3> HIDE DEF z
    <3>2. o.item = "none" /\ o.x = z
      BY <3>1
    <3> QED
      BY <3>2, Zenon DEF z
  <2> QED
    BY <1>3, <1>13, <2>1, <2>2, Zenon DEF o
<1>15. CASE c # ring.next /\ EventAt(ring, c).bytes # <<>>
  <2>1. Cardinality(Markers(ring, c)) = Cardinality(Markers(ring, c + 1)) + 0
    BY <1>12, <1>15, Zenon
  <2>2. Cardinality(Markers(ring, c + 1)) = Cardinality(Markers(ring, c))
    BY <1>3, <1>9, <2>1
  <2>3. x.exit < process_exit_revision => Cardinality(Markers(ring, c + 1)) = Cardinality(Markers(ring, x.cursor))
    BY <1>7, <2>2, Zenon
  <2>5. o.item = "event" /\ o.x = [x EXCEPT !.cursor = c + 1]
    <3> DEFINE z == [x EXCEPT !.cursor = c + 1]
    <3>1. o = [item |-> "event", x |-> z]
      BY <1>4, <1>15, Zenon
    <3> HIDE DEF z
    <3>2. o.item = "event" /\ o.x = z
      BY <3>1
    <3> QED
      BY <3>2, Zenon DEF z
  <2>4. c + 1 \in Nat /\ c + 1 <= ring.next
    BY <1>3, <1>15, Zenon
  <2> QED
    BY <1>13, <2>3, <2>4, <2>5, Zenon DEF o
<1>16. CASE c # ring.next /\ EventAt(ring, c).bytes = <<>>
  <2> DEFINE y == [x EXCEPT !.cursor = c + 1]
             z == [y EXCEPT !.exit = @ + 1]
  <2>1. x.exit < process_exit_revision
    BY <1>5, <1>8, <1>16, Zenon
  <2>2. /\ y \in Receiver /\ y.status = x.status /\ y.fast = x.fast /\ y.dirty = x.dirty /\ y.since = x.since /\ y.invalidation = x.invalidation
        /\ y.cursor = c + 1 /\ y.exit = x.exit /\ y.preserved = x.preserved
    BY <1>3, <1>6, Zenon
  <2> HIDE DEF y
  <2>3. z.dirty = y.dirty /\ z.exit = x.exit + 1 /\ z.cursor = c + 1
    BY <2>2 DEF Receiver
  <2>4. ASSUME Steady(x) => Covered(x), Steady(z) PROVE Covered(z)
    <3>1. process_exit_revision - x.exit <= Cardinality(Markers(ring, c))
      BY <1>7, <1>11, <2>1, <2>2, <2>3, <2>4, Zenon DEF Covered
    <3>2. Cardinality(Markers(ring, c)) = Cardinality(Markers(ring, c + 1)) + 1 /\ Cardinality(Markers(ring, c + 1)) \in Nat
      BY <1>3, <1>9, <1>12, <1>16, Zenon
    <3>3. process_exit_revision - (x.exit + 1) <= Cardinality(Markers(ring, c + 1))
      BY <1>1, <3>1, <3>2
    <3> QED
      BY <2>3, <3>3, Zenon DEF Covered
  <2>5. o = ExitItem(y)
    BY <1>4, <1>16, Zenon DEF y
  <2>6. y.cursor <= ring.next
    BY <1>3, <1>16, <2>2, Zenon
  <2>7. Told(x, ExitItem(y).item, ExitItem(y).x) /\ ExitItem(y).item \in Items
    <3> HIDE DEF z
    <3>1. LET w == [y EXCEPT !.exit = @ + 1] IN Keeps(x, w)
      BY <2>4, Zenon DEF z, Keeps
    <3> QED
      BY <2>1, <2>2, <2>6, <3>1, ExitTold, Zenon
  <2> QED
    BY <2>5, <2>7, Zenon DEF o
<1> QED
  BY <1>14, <1>15, <1>16, Zenon DEF o


LEMMA ObservedTold ==
    ASSUME PaneOutputInv, NEW x \in Receiver, x.cursor <= ring.next, x.exit <= process_exit_revision
    PROVE  Told(x, Observed(x).item, Observed(x).x) /\ Observed(x).item \in Items
<1> DEFINE e1 == [item |-> "exit", x |-> [x EXCEPT !.preserved = @ - 1]]
           z3 == [x EXCEPT !.invalidation = invalidation_revision, !.cursor = ring.next, !.pending = FALSE]
           e3 == [item |-> "invalidated", x |-> z3]
           z5 == [x EXCEPT !.pending = FALSE]
           e5 == [item |-> "gap", x |-> z5]
           o == Observed(x)
<1>1. /\ x.exit \in Nat /\ x.preserved \in Nat /\ x.cursor \in Nat /\ x.pending \in BOOLEAN /\ process_exit_revision \in Nat
      /\ ring.next \in Nat /\ invalidation_revision \in Nat /\ oldest_sequence(ring) \in 0 .. ring.next
      /\ process_exit_revision_at_invalidation \in 0 .. process_exit_revision
  BY ReceiverFields, NumbersOfInv, Zenon DEF PaneOutputInv, Types
<1>2. /\ x.preserved > 0 => o = e1
      /\ ~(x.preserved > 0) /\ x.invalidation # invalidation_revision =>
            o = IF x.exit < process_exit_revision_at_invalidation THEN ExitItem(x) ELSE e3
      /\ ~(x.preserved > 0) /\ x.invalidation = invalidation_revision =>
            o = IF x.pending THEN IF x.exit < process_exit_revision THEN ExitItem(x) ELSE e5
                             ELSE IF Lags(ring, x.cursor) THEN GapItem(x) ELSE PollItem(x)
  <2> DEFINE f2 == IF x.exit < process_exit_revision_at_invalidation THEN ExitItem(x) ELSE e3
             f3 == IF x.pending THEN IF x.exit < process_exit_revision THEN ExitItem(x) ELSE e5
                                ELSE IF Lags(ring, x.cursor) THEN GapItem(x) ELSE PollItem(x)
  <2>1. o = CASE x.preserved > 0 -> e1
              [] x.preserved = 0 /\ x.invalidation # invalidation_revision -> f2
              [] OTHER -> f3
    BY Zenon DEF Observed
  <2> HIDE DEF e1, f2, f3, o
  <2>2. /\ x.preserved > 0 => o = e1
        /\ ~(x.preserved > 0) /\ x.invalidation # invalidation_revision => o = f2
        /\ ~(x.preserved > 0) /\ x.invalidation = invalidation_revision => o = f3
    BY <1>1, <2>1
  <2> QED
    BY <2>2, Zenon DEF f2, f3
<1> HIDE DEF o
<1>3. CASE x.preserved > 0
  <2> DEFINE z == [x EXCEPT !.preserved = @ - 1]
  <2>1. /\ x.preserved - 1 \in Nat /\ x.preserved - 1 <= x.preserved
        /\ (x.preserved - 1) + (process_exit_revision - x.exit) = (x.preserved + (process_exit_revision - x.exit)) - 1
    BY <1>1, <1>3
  <2>2. /\ z \in Receiver /\ z.status = x.status /\ z.fast = x.fast /\ z.dirty = x.dirty /\ z.since = x.since
        /\ z.cursor = x.cursor /\ z.exit = x.exit /\ z.preserved = x.preserved - 1 /\ z.pending = x.pending /\ z.invalidation = x.invalidation
    BY <2>1 DEF Receiver
  <2>3. o = [item |-> "exit", x |-> z]
    BY <1>2, <1>3, Zenon
  <2> HIDE DEF z
  <2>4. o.item = "exit" /\ o.x = z
    BY <2>3
  <2>5. Keeps(x, z)
    BY <2>2, Zenon DEF Steady, Covered, Keeps
  <2>6. Told(x, "exit", z) /\ "exit" \in Items
    BY <2>1, <2>2, <2>5, Zenon DEF Told, Outstanding, Items
  <2> QED
    BY <2>4, <2>6, Zenon DEF o
<1>4. ~(x.preserved > 0) => x.preserved = 0 /\ x.preserved <= x.preserved
  BY <1>1
<1>5. ASSUME o = ExitItem(x), x.exit < process_exit_revision, x.pending \/ x.invalidation # invalidation_revision
      PROVE  Told(x, o.item, o.x) /\ o.item \in Items
  <2> DEFINE z == [x EXCEPT !.exit = @ + 1]
  <2>1. z.pending = x.pending /\ z.invalidation = x.invalidation
    BY DEF Receiver
  <2> HIDE DEF z
  <2>2. Keeps(x, z)
    BY <1>5, <2>1, Zenon DEF Steady, Keeps
  <2>3. LET w == [x EXCEPT !.exit = @ + 1] IN Keeps(x, w)
    BY <2>2, Zenon DEF z
  <2>4. Told(x, ExitItem(x).item, ExitItem(x).x) /\ ExitItem(x).item \in Items
    BY <1>5, <2>3, ExitTold, Zenon
  <2> QED
    BY <1>5, <2>4, Zenon
<1>6. ASSUME NEW z \in Receiver, NEW item \in {"invalidated", "gap"}, o = [item |-> item, x |-> z], x.preserved = 0, x.preserved <= x.preserved,
             z.status = x.status, z.fast = x.fast, z.dirty = x.dirty, z.since = x.since, z.invalidation \in {x.invalidation, invalidation_revision}, z.cursor <= ring.next, z.exit = x.exit, z.preserved = x.preserved
      PROVE  Told(x, o.item, o.x) /\ o.item \in Items
  <2>1. o.item = item /\ o.x = z /\ item # "exit" /\ item \in Items
    BY <1>6 DEF Items
  <2>2. Told(x, item, z)
    BY <1>6, <2>1, Zenon DEF Told, Outstanding
  <2> QED
    BY <2>1, <2>2, Zenon
<1>7. CASE ~(x.preserved > 0) /\ x.invalidation # invalidation_revision
  <2>1. CASE x.exit < process_exit_revision_at_invalidation
    <3>1. x.exit < process_exit_revision
      BY <1>1, <2>1
    <3> QED
      BY <1>2, <1>5, <1>7, <2>1, <3>1, Zenon DEF o
  <2>2. CASE ~(x.exit < process_exit_revision_at_invalidation)
    <3>1. /\ z3 \in Receiver /\ z3.status = x.status /\ z3.fast = x.fast /\ z3.dirty = x.dirty /\ z3.since = x.since /\ z3.invalidation = invalidation_revision
          /\ z3.cursor = ring.next /\ z3.exit = x.exit /\ z3.preserved = x.preserved
      BY <1>1, Zenon DEF Receiver
    <3>2. o = [item |-> "invalidated", x |-> z3]
      BY <1>2, <1>7, <2>2, Zenon
    <3> HIDE DEF z3
    <3>3. ring.next <= ring.next
      BY <1>1
    <3>4. z3.cursor <= ring.next /\ "invalidated" \in {"invalidated", "gap"}
      BY <3>1, <3>3, Zenon
    <3> QED
      BY <1>4, <1>6, <1>7, <3>1, <3>2, <3>4, Zenon DEF o
  <2> QED
    BY <2>1, <2>2, Zenon
<1>8. CASE ~(x.preserved > 0) /\ x.invalidation = invalidation_revision /\ x.pending
  <2>1. CASE x.exit < process_exit_revision
    BY <1>2, <1>5, <1>8, <2>1, Zenon DEF o
  <2>2. CASE ~(x.exit < process_exit_revision)
    <3>1. /\ z5 \in Receiver /\ z5.status = x.status /\ z5.fast = x.fast /\ z5.dirty = x.dirty /\ z5.since = x.since /\ z5.invalidation = x.invalidation
          /\ z5.cursor = x.cursor /\ z5.exit = x.exit /\ z5.preserved = x.preserved
      BY <1>1, Zenon DEF Receiver
    <3>2. o = [item |-> "gap", x |-> z5]
      BY <1>2, <1>8, <2>2, Zenon
    <3> HIDE DEF z5
    <3>4. z5.cursor <= ring.next /\ "gap" \in {"invalidated", "gap"}
      BY <3>1, Zenon
    <3> QED
      BY <1>4, <1>6, <1>8, <3>1, <3>2, <3>4, Zenon DEF o
  <2> QED
    BY <2>1, <2>2, Zenon
<1>9. CASE ~(x.preserved > 0) /\ x.invalidation = invalidation_revision /\ ~x.pending /\ Lags(ring, x.cursor)
  <2> DEFINE y == [x EXCEPT !.cursor = oldest_sequence(ring)]
             w == [y EXCEPT !.pending = TRUE]
  <2>0. oldest_sequence(ring) \in Nat /\ oldest_sequence(ring) <= ring.next
    BY <1>1
  <2>1. /\ y \in Receiver /\ y.status = x.status /\ y.fast = x.fast /\ y.dirty = x.dirty /\ y.since = x.since /\ y.invalidation = x.invalidation
        /\ y.cursor = oldest_sequence(ring) /\ y.exit = x.exit /\ y.preserved = x.preserved
    BY <2>0 DEF Receiver
  <2>2. o = IF x.exit < process_exit_revision THEN ExitItem(w) ELSE [item |-> "gap", x |-> y]
    BY <1>2, <1>9, Zenon DEF GapItem
  <2> HIDE DEF y
  <2>3. /\ w \in Receiver /\ w.status = y.status /\ w.fast = y.fast /\ w.dirty = y.dirty /\ w.since = y.since /\ w.invalidation = y.invalidation
        /\ w.cursor = y.cursor /\ w.exit = y.exit /\ w.preserved = y.preserved /\ w.pending = TRUE
    BY <2>1, Zenon DEF Receiver
  <2> HIDE DEF w
  <2>4. y.cursor <= ring.next /\ w.cursor <= ring.next
    BY <2>0, <2>1, <2>3, Zenon
  <2>5. CASE x.exit < process_exit_revision
    <3> DEFINE v == [w EXCEPT !.exit = @ + 1]
    <3>1. v.pending = TRUE
      BY <2>3 DEF Receiver
    <3> HIDE DEF v
    <3>2. Keeps(x, v)
      BY <3>1, Zenon DEF Steady, Keeps
    <3>3. LET u == [w EXCEPT !.exit = @ + 1] IN Keeps(x, u)
      BY <3>2, Zenon DEF v
    <3>4. /\ w.status = x.status /\ w.fast = x.fast /\ w.dirty = x.dirty /\ w.since = x.since /\ w.invalidation = x.invalidation
          /\ w.exit = x.exit /\ w.preserved = x.preserved
      BY <2>1, <2>3, Zenon
    <3>5. Told(x, ExitItem(w).item, ExitItem(w).x) /\ ExitItem(w).item \in Items
      BY <2>3, <2>4, <2>5, <3>3, <3>4, ExitTold, Zenon
    <3> QED
      BY <2>2, <2>5, <3>5, Zenon DEF o
  <2>6. CASE ~(x.exit < process_exit_revision)
    <3>1. o = [item |-> "gap", x |-> y] /\ "gap" \in {"invalidated", "gap"}
      BY <2>2, <2>6, Zenon
    <3> QED
      BY <1>4, <1>6, <1>9, <2>1, <2>4, <3>1, Zenon DEF o
  <2> QED
    BY <2>5, <2>6, Zenon
<1>10. CASE ~(x.preserved > 0) /\ x.invalidation = invalidation_revision /\ ~x.pending /\ ~Lags(ring, x.cursor)
  <2>1. o = PollItem(x)
    BY <1>2, <1>10, Zenon
  <2>2. Told(x, PollItem(x).item, PollItem(x).x) /\ PollItem(x).item \in Items
    BY <1>4, <1>10, PollTold, Zenon
  <2> QED
    BY <2>1, <2>2, Zenon DEF o
<1> QED
  BY <1>3, <1>7, <1>8, <1>9, <1>10, Zenon


LEMMA RecvObservedInv == ASSUME PaneOutputInv, NEW r \in Receivers, RecvObserved(r) PROVE PaneOutputInv'
<1> DEFINE y == rcv[r]
           z == Observed(y).x
<1>1. rcv \in [Receivers -> Receiver] /\ y \in Receiver /\ Fine(r, y, accounted[r])
  BY InvFacts, Zenon
<1>2. /\ y.status = "enabled" /\ r \in Web /\ UNCHANGED <<state, counts, pub, history>>
      /\ rcv' = [rcv EXCEPT ![r] = [z EXCEPT !.status = "parked"]] \/ LeaveNotify(r, [z EXCEPT !.status = "ready"])
  BY Zenon DEF RecvObserved, Ready
<1>3. r \notin Streams /\ r \notin Live /\ r \notin Plain
  BY <1>2, ReceiversAssumption, Zenon DEF Observers
<1>4. Told(y, Observed(y).item, z)
  BY <1>1, ObservedTold, Zenon DEF Fine
<1> HIDE DEF y, z
<1>5. z \in Receiver /\ z.status = "enabled"
  BY <1>2, <1>4, Zenon DEF Told
<1>6. Fine(r, z, accounted[r])
  <2>1. invalidation_revision <= invalidation_revision
    BY NumbersOfInv
  <2> QED
    BY <1>1, <1>2, <1>3, <1>4, <1>5, <2>1, Zenon DEF Fine, Told
<1>7. PICK s \in {"ready", "parked"} : Becomes(r, [z EXCEPT !.status = s])
  <2>1. [z EXCEPT !.status = "ready"] \in Receiver /\ [z EXCEPT !.status = "parked"] \in Receiver
    BY <1>3, <1>5, <1>6, FineReady, Zenon
  <2>2. CASE rcv' = [rcv EXCEPT ![r] = [z EXCEPT !.status = "parked"]]
    BY <1>1, <2>1, <2>2, BecomesBy, Zenon
  <2>3. CASE LeaveNotify(r, [z EXCEPT !.status = "ready"])
    BY <1>1, <2>1, <2>3, Leaves, Zenon
  <2> QED
    BY <1>2, <2>2, <2>3, Zenon
<1> DEFINE x == [z EXCEPT !.status = s]
<1>8. Fine(r, x, accounted[r]) /\ Counted(x)
  BY <1>3, <1>5, <1>6, FineReady, Zenon
<1> HIDE DEF x
<1>9. Becomes(r, x) /\ Counted(y)
  BY <1>2, <1>7, Zenon DEF x, Counted
<1> QED
  BY <1>2, <1>3, <1>8, <1>9, QuietInv, Zenon DEF y

LEMMA PollStreamInv == ASSUME PaneOutputInv, NEW r \in Receivers, PollStream(r) PROVE PaneOutputInv'
<1> DEFINE y == rcv[r]
           o == Observed(y)
           z == o.x
           item == o.item
           d == item \in {"invalidated", "gap"} \/ (item = "event" /\ r \in SurfaceStreams)
           x == [z EXCEPT !.dirty = @ \/ d]
<1>1. rcv \in [Receivers -> Receiver] /\ y \in Receiver /\ Fine(r, y, accounted[r])
  BY InvFacts, Zenon
<1>2. /\ y.status = "ready" /\ r \in Streams /\ UNCHANGED <<state, counts, pub>>
      /\ rcv' = [rcv EXCEPT ![r] = x] /\ Report(r, item)
  BY Zenon DEF PollStream
<1>3. r \notin Live /\ r \notin Plain
  BY <1>2, ReceiversAssumption, Zenon DEF Observers
<1>4. Told(y, item, z) /\ item \in Items
  BY <1>1, ObservedTold, Zenon DEF Fine
<1>5. Owes(y, owed[r])
  BY <1>2, InvFacts, Zenon
<1>6. d \in BOOLEAN /\ (d => item # "exit") /\ (~d => item \notin {"invalidated", "gap"})
  <2> HIDE DEF item
  <2> QED
    BY SMT
<1> HIDE DEF y, o, z, item, d
<1>7. /\ z \in Receiver /\ z.status = y.status /\ z.fast = y.fast /\ z.dirty = y.dirty /\ z.since = y.since /\ z.invalidation \in {y.invalidation, invalidation_revision}
      /\ z.cursor <= ring.next /\ z.exit <= process_exit_revision /\ z.preserved <= y.preserved
      /\ Outstanding(z) = (IF item = "exit" THEN Outstanding(y) - 1 ELSE Outstanding(y))
      /\ (item # "exit" => z.preserved = 0)
      /\ (item \notin {"invalidated", "gap"} => Keeps(y, z))
  BY <1>4, Zenon DEF Told
<1>8. z.dirty \in BOOLEAN /\ z.preserved \in Nat
  BY <1>7, ReceiverFields, Zenon
<1>9. /\ x \in Receiver /\ x.status = z.status /\ x.fast = z.fast /\ x.since = z.since /\ x.pending = z.pending /\ x.invalidation = z.invalidation
      /\ x.cursor = z.cursor /\ x.exit = z.exit /\ x.preserved = z.preserved /\ x.dirty = (z.dirty \/ d)
  <2>1. (z.dirty \/ d) \in BOOLEAN
    BY <1>6, <1>8
  <2> DEFINE b == z.dirty \/ d
  <2> HIDE DEF b
  <2>2. x = [z EXCEPT !.dirty = b]
    BY Zenon DEF b
  <2>3. b \in BOOLEAN
    BY <2>1, Zenon DEF b
  <2> HIDE DEF x
  <2>4. /\ x \in Receiver /\ x.status = z.status /\ x.fast = z.fast /\ x.since = z.since /\ x.pending = z.pending /\ x.invalidation = z.invalidation
        /\ x.cursor = z.cursor /\ x.exit = z.exit /\ x.preserved = z.preserved /\ x.dirty = b
    BY <1>7, <2>2, <2>3 DEF Receiver
  <2> QED
    BY <2>4, Zenon DEF b
<1> HIDE DEF x
<1>10. Becomes(r, x)
  BY <1>1, <1>2, <1>9, BecomesBy, Zenon
<1>11. z.dirty => z.preserved = 0
  <2>1. z.dirty => y.preserved = 0
    BY <1>1, <1>7, Zenon DEF Fine
  <2>2. \A n \in Nat : n <= 0 => n = 0
    OBVIOUS
  <2> QED
    BY <1>7, <1>8, <2>1, <2>2, Zenon
<1>12. Fine(r, x, accounted[r])
  <2>1. x.dirty => r \in Streams /\ x.preserved = 0
    BY <1>2, <1>6, <1>7, <1>9, <1>11, Zenon
  <2>2. x.status = "ready"
    BY <1>2, <1>7, <1>9, Zenon
  <2>3. invalidation_revision <= invalidation_revision
    BY NumbersOfInv
  <2> QED
    BY <1>1, <1>2, <1>3, <1>7, <1>9, <2>1, <2>2, <2>3, Zenon DEF Fine
<1>13. /\ accounted' = accounted /\ stale' = stale /\ owed' = IF item = "exit" THEN [owed EXCEPT ![r] = @ - 1] ELSE owed
  BY <1>2, Zenon DEF Report
<1>14. /\ stale = {} /\ accounted \in [Receivers -> Nat] /\ owed \in [Streams -> Int] /\ receiver_count \in Nat /\ fast_receiver_count \in Nat
       /\ fast_receivers \subseteq Live
  BY NumbersOfInv, Zenon
<1>15. owed[r] = Outstanding(y) /\ (Steady(y) => Covered(y))
  BY <1>2, <1>5, Zenon DEF Owes, Outstanding, Covered
<1>16. owed'[r] = Outstanding(z) /\ owed' \in [Streams -> Int] /\ \A q \in Streams \ {r} : owed'[q] = owed[q]
  <2>1. owed[r] \in Int /\ owed[r] - 1 \in Int
    BY <1>2, <1>14
  <2> QED
    BY <1>2, <1>7, <1>13, <1>14, <1>15, <2>1, Zenon
<1>17. Owes(x, owed'[r])
  <2>1. owed'[r] = x.preserved + (process_exit_revision - x.exit) /\ x.status = "ready"
    BY <1>2, <1>7, <1>9, <1>16, Zenon DEF Outstanding
  <2>2. ASSUME Steady(x) PROVE process_exit_revision - x.exit <= Cardinality(Markers(ring, x.cursor))
    <3>1. ~d /\ Steady(z)
      BY <1>9, <2>2, Zenon DEF Steady
    <3>2. Covered(z)
      BY <1>6, <1>7, <1>15, <3>1, Zenon DEF Keeps
    <3> QED
      BY <1>9, <3>2, Zenon DEF Covered
  <2> QED
    BY <2>1, <2>2, Zenon DEF Owes
<1>18. Counted(y) /\ Counted(x)
  BY <1>2, <1>7, <1>9, Zenon DEF Counted
<1>19. receiver_count' = receiver_count + Delta(Counted(y), Counted(x))
  BY <1>2, <1>14, <1>18, Deltas, Zenon DEF counts
<1>20. fast_receiver_count' = fast_receiver_count + Delta(r \in Live /\ FastCounted(y), r \in Live /\ FastCounted(x))
  <2>1. Delta(r \in Live /\ FastCounted(y), r \in Live /\ FastCounted(x)) = 0
    BY <1>3, Zenon DEF Delta
  <2> QED
    BY <1>2, <1>14, <2>1, Deltas, Zenon DEF counts
<1>21. UNCHANGED <<state, pub>> /\ stale' = {} /\ fast_receivers' \subseteq Live /\ accounted' \in [Receivers -> Nat]
       /\ (\A q \in Receivers \ {r} : accounted'[q] = accounted[q]) /\ Fine(r, x, accounted'[r])
  BY <1>2, <1>12, <1>13, <1>14, Zenon DEF counts
<1> QED
  BY <1>10, <1>16, <1>17, <1>19, <1>20, <1>21, MovedInv, Zenon DEF y


---------------------------------------------------------------------------
(* The steps of a publisher and the invalidations.                         *)

Publisher == Idle \cup Pushed \cup Notify \cup Deciding

(* A publisher that has passed its copy on, or had none.                   *)
LEMMA PublisherMoves ==
    ASSUME PaneOutputInv, UNCHANGED state, NEW g \in Readers, NEW p \in Idle \cup Notify \cup Deciding, pub' = [pub EXCEPT ![g] = p]
    PROVE  pub' \in [Readers -> Publisher] /\ \A h \in Readers : pub'[h].phase = "pushed" => CopyOK(pub[h])'
<1>1. pub \in [Readers -> Publisher]
  BY Zenon DEF PaneOutputInv, Types, Publisher
<1>2. p \in Publisher
  BY Zenon DEF Publisher
<1>3. p.phase # "pushed"
  BY DEF Idle, Notify, Deciding
<1>4. UNCHANGED ring /\ UNCHANGED generation /\ UNCHANGED fast_epoch
  BY Zenon DEF state
<1>5. \A item : CopyOK(item) => CopyOK(item)'
  BY <1>4, Zenon DEF CopyOK, Current
<1>6. \A h \in Readers : pub'[h].phase = "pushed" => pub'[h] = pub[h] /\ CopyOK(pub[h])
  <2> SUFFICES ASSUME NEW h \in Readers, pub'[h].phase = "pushed" PROVE pub'[h] = pub[h] /\ CopyOK(pub[h])
    BY Zenon
  <2>1. h # g
    BY <1>1, <1>3, Zenon
  <2>2. pub'[h] = pub[h]
    BY <1>1, <2>1, Zenon
  <2> QED
    BY <2>2, Zenon DEF PaneOutputInv, Copies
<1>7. \A h \in Readers : pub'[h].phase = "pushed" => CopyOK(pub'[h])
  BY <1>6, Zenon
<1>8. \A h \in Readers : pub'[h].phase = "pushed" => CopyOK(pub[h])'
  BY <1>5, <1>7, Zenon
<1> QED
  BY <1>1, <1>2, <1>8, Zenon

(* Receivers are woken, and nothing else but a publisher's phase changes.  *)
LEMMA WokenInv ==
    ASSUME PaneOutputInv, UNCHANGED <<state, counts, history>>, AllAlike,
           pub' \in [Readers -> Publisher], \A h \in Readers : pub'[h].phase = "pushed" => CopyOK(pub[h])'
    PROVE  PaneOutputInv'
<1>1. /\ UNCHANGED generation /\ UNCHANGED fast_epoch /\ UNCHANGED invalidation_revision /\ UNCHANGED process_exit_revision
      /\ UNCHANGED process_exit_revision_at_invalidation /\ UNCHANGED ring /\ UNCHANGED accounted /\ UNCHANGED owed /\ UNCHANGED stale
  BY Zenon DEF state, history
<1>2. AllFine'
  BY AllFineAlike, Zenon DEF PaneOutputInv
<1>3. Counts'
  <2>1. UNCHANGED <<receiver_count, fast_receiver_count>> /\ fast_receivers' \subseteq Live
    BY Zenon DEF counts, PaneOutputInv, Counts
  <2> QED
    BY <2>1, CountsAlike, Zenon DEF PaneOutputInv
<1>4. Types'
  BY <1>1, Zenon DEF PaneOutputInv, Types, AllAlike, Publisher
<1>5. RingOK'
  BY <1>1, Zenon DEF PaneOutputInv, RingOK, Numbered
<1>6. Copies'
  BY <1>1, Zenon DEF PaneOutputInv, Copies, Current
<1> QED
  BY <1>2, <1>3, <1>4, <1>5, <1>6, Zenon DEF PaneOutputInv

LEMMA PublishedPhase ==
    ASSUME PaneOutputInv, NEW g \in Readers
    PROVE  pub[g].eof \in BOOLEAN /\ (pub[g].phase \in {"notify", "decide"} => pub[g].delivered \in BOOLEAN)
           /\ pub \in [Readers -> Publisher] /\ (pub[g].phase = "pushed" => pub[g] \in Pushed)
<1>1. pub \in [Readers -> Publisher]
  BY Zenon DEF PaneOutputInv, Types, Publisher
<1>2. pub[g] \in Publisher
  BY <1>1, Zenon
<1>3. pub[g] \in Idle \/ pub[g] \in Pushed \/ pub[g] \in Notify \/ pub[g] \in Deciding
  BY <1>2, Zenon DEF Publisher
<1> QED
  BY <1>1, <1>3 DEF Idle, Pushed, Notify, Deciding

LEMMA NotifyLoadInv == ASSUME PaneOutputInv, NEW g \in Readers, NotifyLoad(g) PROVE PaneOutputInv'
<1> DEFINE p == [phase |-> "idle", eof |-> pub[g].eof]
           w == [phase |-> "decide", eof |-> pub[g].eof, delivered |-> pub[g].delivered, receivers |-> receiver_count]
<1>1. /\ pub[g].phase = "notify" /\ UNCHANGED <<state, counts, history>> /\ UNCHANGED rcv
      /\ pub' = [pub EXCEPT ![g] = p] \/ pub' = [pub EXCEPT ![g] = w]
  BY Zenon DEF NotifyLoad, Published
<1>2. pub[g].eof \in BOOLEAN /\ pub[g].delivered \in BOOLEAN /\ receiver_count \in Nat
  BY <1>1, PublishedPhase, NumbersOfInv, Zenon
<1>3. p \in Idle \cup Notify \cup Deciding /\ w \in Idle \cup Notify \cup Deciding
  BY <1>2 DEF Idle, Deciding
<1> HIDE DEF p, w
<1>4. pub' \in [Readers -> Publisher] /\ \A h \in Readers : pub'[h].phase = "pushed" => CopyOK(pub[h])'
  BY <1>1, <1>3, PublisherMoves, Zenon
<1>5. AllAlike
  BY <1>1, StayAlike, Zenon DEF PaneOutputInv, Types
<1> QED
  BY <1>1, <1>4, <1>5, WokenInv, Zenon

LEMMA NotifyDecideInv == ASSUME PaneOutputInv, NEW g \in Readers, NotifyDecide(g) PROVE PaneOutputInv'
<1> DEFINE p == [phase |-> "idle", eof |-> pub[g].eof]
<1>1. /\ UNCHANGED <<state, counts, history>> /\ pub' = [pub EXCEPT ![g] = p]
      /\ UNCHANGED rcv \/ NotifyBy(pub[g].receivers)
  BY Zenon DEF NotifyDecide, Published
<1>2. p \in Idle \cup Notify \cup Deciding
  BY PublishedPhase DEF Idle
<1> HIDE DEF p
<1>3. pub' \in [Readers -> Publisher] /\ \A h \in Readers : pub'[h].phase = "pushed" => CopyOK(pub[h])'
  BY <1>1, <1>2, PublisherMoves, Zenon
<1>4. rcv \in [Receivers -> Receiver]
  BY Zenon DEF PaneOutputInv, Types
<1>5. AllAlike
  BY <1>1, <1>4, StayAlike, NotifiesAlike, Zenon
<1> QED
  BY <1>1, <1>3, <1>5, WokenInv, Zenon

LEMMA UnchangedPublishers ==
    ASSUME PaneOutputInv, UNCHANGED <<state, pub>>
    PROVE  pub' \in [Readers -> Publisher] /\ \A h \in Readers : pub'[h].phase = "pushed" => CopyOK(pub[h])'
<1>1. UNCHANGED ring /\ UNCHANGED generation /\ UNCHANGED fast_epoch /\ UNCHANGED pub
  BY Zenon DEF state
<1> QED
  BY <1>1, Zenon DEF PaneOutputInv, Types, Publisher, Copies, CopyOK, Current

LEMMA NotifyReceiversInv == ASSUME PaneOutputInv, notify_receivers PROVE PaneOutputInv'
<1>1. /\ UNCHANGED <<state, counts, history>> /\ UNCHANGED <<state, pub>>
      /\ UNCHANGED rcv \/ NotifyBy(unnotified.receivers)
  BY Zenon DEF notify_receivers, LoadReceivers, WakeReceivers
<1>2. AllAlike
  BY <1>1, NotifiesAlike, StayAlike, Zenon DEF PaneOutputInv, Types
<1> QED
  BY <1>1, <1>2, UnchangedPublishers, WokenInv, Zenon

LEMMA StutterInv == ASSUME PaneOutputInv, UNCHANGED vars PROVE PaneOutputInv'
<1>1. UNCHANGED <<state, counts, history>> /\ UNCHANGED <<state, pub>> /\ UNCHANGED rcv
  BY Zenon DEF vars
<1>2. AllAlike
  BY <1>1, StayAlike, Zenon DEF PaneOutputInv, Types
<1> QED
  BY <1>1, <1>2, UnchangedPublishers, WokenInv, Zenon


(* The channel only moves forward, and what it replaces starts an epoch.   *)
Advances ==
    /\ ring.next \in Nat /\ ring'.next \in Nat /\ ring.next <= ring'.next
    /\ fast_epoch \in Nat /\ fast_epoch' \in Nat /\ fast_epoch <= fast_epoch'
    /\ generation' = generation \/ fast_epoch < fast_epoch'
    /\ process_exit_revision \in Nat /\ process_exit_revision' \in Nat /\ process_exit_revision <= process_exit_revision'
    /\ invalidation_revision \in Nat /\ invalidation_revision' \in Nat /\ invalidation_revision <= invalidation_revision'

LEMMA CopyAdvances ==
    ASSUME Advances
    PROVE  \A item : item.sequence \in Nat /\ item.epoch \in Nat /\ CopyOK(item) => CopyOK(item)'
<1> SUFFICES ASSUME NEW item, item.sequence \in Nat, item.epoch \in Nat, CopyOK(item) PROVE CopyOK(item)'
  BY Zenon
<1>1. item.sequence < ring.next /\ item.epoch <= fast_epoch /\ (item.epoch = fast_epoch => Current(item.bytes))
  BY Zenon DEF CopyOK
<1>2. item.sequence < ring'.next /\ item.epoch <= fast_epoch' /\ (item.epoch = fast_epoch' => item.epoch = fast_epoch /\ generation' = generation)
  BY <1>1 DEF Advances
<1> QED
  BY <1>1, <1>2, Zenon DEF CopyOK, Current

LEMMA FineAdvances == ASSUME Advances PROVE \A r, a : \A x \in Receiver : Fine(r, x, a) => Fine(r, x, a)'
<1> SUFFICES ASSUME NEW r, NEW a, NEW x \in Receiver, Fine(r, x, a) PROVE Fine(r, x, a)'
  BY Zenon
<1>1. x.fast \in Seq(FastItem) /\ x.cursor \in Nat /\ x.exit \in Nat /\ x.invalidation \in Nat
  BY ReceiverFields, Zenon DEF FastQueue
<1>2. \A i \in DOMAIN x.fast : x.fast[i].sequence \in Nat /\ x.fast[i].epoch \in Nat
  <2>1. \A i \in DOMAIN x.fast : x.fast[i] \in FastItem
    <3> HIDE DEF FastItem
    <3> QED
      BY <1>1
  <2> QED
    BY <2>1 DEF FastItem
<1>3. \A i \in DOMAIN x.fast : CopyOK(x.fast[i])'
  BY <1>2, CopyAdvances, Zenon DEF Fine
<1>4. x.cursor <= ring.next /\ x.exit <= process_exit_revision /\ x.invalidation <= invalidation_revision
  BY Zenon DEF Fine
<1>5. x.cursor <= ring'.next /\ x.exit <= process_exit_revision' /\ x.invalidation <= invalidation_revision'
  BY SMTT(30), <1>1, <1>4 DEF Advances
<1> QED
  BY <1>3, <1>5, Zenon DEF Fine

(* A new invalidation is one no stream has seen.                           *)
LEMMA OwesInvalidated ==
    ASSUME invalidation_revision \in Nat, invalidation_revision' = invalidation_revision + 1, UNCHANGED process_exit_revision
    PROVE  \A o : \A x \in Receiver : x.invalidation <= invalidation_revision /\ Owes(x, o) => Owes(x, o)'
<1> SUFFICES ASSUME NEW o, NEW x \in Receiver, x.invalidation <= invalidation_revision, Owes(x, o) PROVE Owes(x, o)'
  BY Zenon
<1>1. x.invalidation \in Nat
  BY ReceiverFields, Zenon
<1>2. x.invalidation # invalidation_revision'
  BY <1>1
<1>3. ~Steady(x)'
  BY <1>2, Zenon DEF Steady
<1> QED
  BY <1>3, Zenon DEF Owes

LEMMA OwesPushed ==
    ASSUME Numbered(ring), NEW bytes \in Bytes, ring' = push(ring, bytes), UNCHANGED invalidation_revision,
           NEW d \in Nat, d = IF bytes = <<>> THEN 1 ELSE 0,
           process_exit_revision \in Nat, process_exit_revision' = process_exit_revision + d
    PROVE  \A o \in Int : \A x \in Receiver : x.cursor <= ring.next /\ Owes(x, o) =>
                Owes(x, o + (IF x.status \in {"ready", "rebasing"} THEN d ELSE 0))'
<1> SUFFICES ASSUME NEW o \in Int, NEW x \in Receiver, x.cursor <= ring.next, Owes(x, o)
             PROVE  Owes(x, o + (IF x.status \in {"ready", "rebasing"} THEN d ELSE 0))'
  BY Zenon
<1>1. x.cursor \in Nat /\ x.exit \in Nat /\ x.preserved \in Nat /\ ring.next \in Nat
  BY ReceiverFields, Zenon DEF Numbered
<1>2. CASE x.status \notin {"ready", "rebasing"}
  <2>1. o = 0
    BY <1>2, Zenon DEF Owes
  <2>2. 0 + 0 = 0
    OBVIOUS
  <2> QED
    BY <1>2, <2>1, <2>2, Zenon DEF Owes
<1>3. CASE x.status \in {"ready", "rebasing"}
  <2>1. o = x.preserved + (process_exit_revision - x.exit)
    BY <1>3, Zenon DEF Owes
  <2>2. o + d = x.preserved + (process_exit_revision' - x.exit)
    BY <1>1, <2>1
  <2>3. ASSUME Steady(x)' PROVE process_exit_revision' - x.exit <= Cardinality(Markers(ring', x.cursor))
    <3>1. ~Lags(push(ring, bytes), x.cursor)
      BY <2>3, Zenon DEF Steady
    <3>2. ~Lags(ring, x.cursor) /\ Cardinality(Markers(push(ring, bytes), x.cursor)) = Cardinality(Markers(ring, x.cursor)) + d
      BY <1>1, <3>1, MarkersPush, Zenon
    <3>3. Steady(x)
      BY <2>3, <3>2, Zenon DEF Steady
    <3>4. process_exit_revision - x.exit <= Cardinality(Markers(ring, x.cursor))
      BY <1>3, <3>3, Zenon DEF Owes
    <3>5. Cardinality(Markers(ring, x.cursor)) \in Nat
      BY <1>1, MarkersAreFinite, Zenon
    <3>6. process_exit_revision' - x.exit <= Cardinality(Markers(ring, x.cursor)) + d
      BY <1>1, <3>4, <3>5
    <3> QED
      BY <3>2, <3>6, Zenon
  <2>4. Cardinality(Markers(ring', x.cursor)) = Cardinality(Markers(ring, x.cursor))'
    BY Zenon
  <2> QED
    BY <1>3, <2>2, <2>3, <2>4, Zenon DEF Owes
<1> QED
  BY <1>2, <1>3, Zenon

(* The channel moves and no receiver does.                                 *)
LEMMA AdvancedInv ==
    ASSUME PaneOutputInv, Advances, UNCHANGED <<counts, rcv, accounted, stale>>, RingOK', generation' \in Readers,
           process_exit_revision_at_invalidation' \in 0 .. process_exit_revision', pub' \in [Readers -> Publisher],
           owed' \in [Streams -> Int], \A i \in DOMAIN ring'.events : Current(ring.events[i].bytes)',
           \A h \in Readers : pub'[h].phase = "pushed" => CopyOK(pub[h])',
           \A q \in Streams : Owes(rcv[q], owed[q])'
    PROVE  PaneOutputInv'
<1>1. UNCHANGED rcv /\ UNCHANGED accounted /\ UNCHANGED stale /\ UNCHANGED counts
  BY Zenon
<1>2. Types'
  BY <1>1, Zenon DEF PaneOutputInv, Types, Advances, Publisher
<1>3. Copies'
  BY <1>1, Zenon DEF PaneOutputInv, Copies
<1>4. Counts'
  BY <1>1, Zenon DEF PaneOutputInv, Counts, counts, Counted, FastCounted
<1>5. \A q \in Receivers : Fine(q, rcv'[q], accounted'[q])
  BY <1>1, InvFacts, Zenon
<1>6. \A q \in Receivers : rcv'[q] \in Receiver
  BY <1>1, InvFacts, Zenon
<1>7. \A q \in Receivers : Fine(q, rcv[q], accounted[q])'
  BY <1>5, <1>6, FineAdvances, Zenon
<1> QED
  BY <1>2, <1>3, <1>4, <1>7, Zenon DEF PaneOutputInv, AllFine


LEMMA PublishPushInv == ASSUME PaneOutputInv, NEW g \in Readers, PublishPush(g) PROVE PaneOutputInv'
<1>1. generation = g /\ ring.next < MaxOutputs /\ UNCHANGED <<counts, rcv, accounted, stale>> /\ UNCHANGED generation
  BY Zenon DEF PublishPush, generation_matches
<1>2. PICK bytes \in {<<g>>} \cup (IF pub[g].eof THEN {} ELSE {<<>>}), invalidates \in BOOLEAN, fit \in BOOLEAN :
         /\ invalidates => bytes # <<>>
         /\ ring' = push(ring, bytes)
         /\ process_exit_revision' = process_exit_revision + (IF bytes = <<>> THEN 1 ELSE 0)
         /\ IF invalidates
            THEN /\ invalidation_revision' = invalidation_revision + 1
                 /\ process_exit_revision_at_invalidation' = process_exit_revision'
                 /\ fast_epoch' = fast_epoch + 1
            ELSE UNCHANGED <<invalidation_revision, process_exit_revision_at_invalidation, fast_epoch>>
         /\ pub' = [pub EXCEPT ![g] = [phase |-> "pushed", eof |-> pub[g].eof \/ bytes = <<>>,
                      sequence |-> ring.next, bytes |-> bytes, epoch |-> fast_epoch',
                      candidate |-> fast_receiver_count > 0 /\ ~invalidates /\ fit]]
         /\ owed' = [r \in Streams |-> owed[r] + (IF bytes = <<>> /\ rcv[r].status \notin {"absent", "off", "dropped"}
                                                  THEN 1 ELSE 0)]
  BY Zenon DEF PublishPush
<1>3. bytes \in Bytes /\ (bytes = <<>> \/ bytes = <<generation>>)
  BY <1>1, <1>2, Zenon DEF Bytes
<1>4. /\ ring.next \in Nat /\ Numbered(ring) /\ process_exit_revision \in Nat /\ invalidation_revision \in Nat /\ fast_epoch \in Nat
      /\ process_exit_revision_at_invalidation \in 0 .. process_exit_revision /\ owed \in [Streams -> Int] /\ MaxOutputs \in Nat
      /\ generation \in Readers
  BY NumbersOfInv, ReceiversAssumption, Zenon DEF PaneOutputInv, Types
<1> DEFINE d == IF bytes = <<>> THEN 1 ELSE 0
           e == [sequence |-> ring.next, bytes |-> bytes]
           p == [phase |-> "pushed", eof |-> pub[g].eof \/ bytes = <<>>,
                 sequence |-> ring.next, bytes |-> bytes, epoch |-> fast_epoch',
                 candidate |-> fast_receiver_count > 0 /\ ~invalidates /\ fit]
<1>5. d \in Nat /\ d = (IF bytes = <<>> THEN 1 ELSE 0) /\ process_exit_revision' = process_exit_revision + d
  BY <1>2
<1>6. /\ Numbered(ring') /\ ring'.next = ring.next + 1
      /\ \A i \in DOMAIN ring'.events : ring'.events[i] = e \/ \E j \in DOMAIN ring.events : ring'.events[i] = ring.events[j]
  BY <1>2, <1>3, <1>4, PushNumbers, ZenonT(30)
<1> HIDE DEF d
<1>7. Advances
  <2>1. fast_epoch' = fast_epoch + 1 \/ fast_epoch' = fast_epoch
    BY <1>2, Zenon
  <2>2. invalidation_revision' = invalidation_revision + 1 \/ invalidation_revision' = invalidation_revision
    BY <1>2, Zenon
  <2> QED
    BY <1>1, <1>4, <1>5, <1>6, <2>1, <2>2 DEF Advances
<1>8. RingOK'
  <2>1. ring'.next <= MaxOutputs
    BY <1>1, <1>4, <1>6
  <2>2. Numbered(ring')
    BY <1>6, Zenon
  <2> QED
    BY <2>1, <2>2, Zenon DEF RingOK, Numbered
<1>9. process_exit_revision_at_invalidation' \in 0 .. process_exit_revision'
  <2>1. process_exit_revision_at_invalidation' = process_exit_revision' \/ process_exit_revision_at_invalidation' = process_exit_revision_at_invalidation
    BY <1>2, Zenon
  <2> QED
    BY <1>4, <1>5, <2>1
<1>10. p \in Pushed /\ p.phase = "pushed" /\ p.sequence = ring.next /\ p.epoch = fast_epoch' /\ p.bytes = bytes
  <2> DEFINE b == pub[g].eof \/ bytes = <<>>
             c == fast_receiver_count > 0 /\ ~invalidates /\ fit
  <2>1. b \in BOOLEAN /\ c \in BOOLEAN
    BY PublishedPhase
  <2>2. fast_epoch' \in Nat
    BY <1>7, Zenon DEF Advances
  <2> HIDE DEF b, c
  <2>3. p = [phase |-> "pushed", eof |-> b, sequence |-> ring.next, bytes |-> bytes, epoch |-> fast_epoch', candidate |-> c]
    BY Zenon DEF b, c
  <2> HIDE DEF p
  <2> QED
    BY SMTT(30), <1>3, <1>4, <2>1, <2>2, <2>3 DEF Pushed
<1> HIDE DEF p
<1>11. pub' = [pub EXCEPT ![g] = p] /\ pub \in [Readers -> Publisher]
  BY <1>2, PublishedPhase, Zenon DEF p
<1>12. pub' \in [Readers -> Publisher] /\ pub'[g] = p /\ \A h \in Readers \ {g} : pub'[h] = pub[h]
  BY <1>10, <1>11, Zenon DEF Publisher
<1>13. \A i \in DOMAIN ring'.events : Current(ring.events[i].bytes)'
  <2>1. \A j \in DOMAIN ring.events : Current(ring.events[j].bytes)
    BY Zenon DEF PaneOutputInv, Copies
  <2>2. e.bytes = bytes /\ Current(bytes)
    BY <1>3 DEF Current
  <2> HIDE DEF e
  <2>3. \A i \in DOMAIN ring'.events : Current(ring'.events[i].bytes)
    BY <1>6, <2>1, <2>2, Zenon
  <2> QED
    BY <1>1, <2>3, Zenon DEF Current
<1>14. \A h \in Readers : pub'[h].phase = "pushed" => CopyOK(pub[h])'
  <2> SUFFICES ASSUME NEW h \in Readers, pub'[h].phase = "pushed" PROVE CopyOK(pub[h])'
    BY Zenon
  <2>1. CASE h = g
    <3>1. p.sequence < ring'.next /\ p.epoch <= fast_epoch' /\ fast_epoch' \in Nat
      BY <1>4, <1>6, <1>7, <1>10 DEF Advances
    <3>2. p.bytes \in {<<>>, <<generation'>>}
      BY <1>1, <1>3, <1>10, Zenon
    <3> QED
      BY <1>12, <2>1, <3>1, <3>2, Zenon DEF CopyOK, Current
  <2>2. CASE h # g
    <3>1. pub'[h] = pub[h] /\ pub[h].phase = "pushed"
      BY <1>12, <2>2, Zenon
    <3>2. CopyOK(pub[h]) /\ pub[h] \in Pushed
      BY <3>1, PublishedPhase, Zenon DEF PaneOutputInv, Copies
    <3>3. pub[h].sequence \in Nat /\ pub[h].epoch \in Nat
      BY <3>2 DEF Pushed
    <3>4. pub'[h].sequence \in Nat /\ pub'[h].epoch \in Nat /\ CopyOK(pub'[h])
      BY <3>1, <3>2, <3>3, Zenon
    <3> QED
      BY <1>7, <3>4, CopyAdvances, Zenon
  <2> QED
    BY <2>1, <2>2, Zenon
<1>15. owed' \in [Streams -> Int] /\ \A q \in Streams : owed'[q] = owed[q] + (IF rcv[q].status \in {"ready", "rebasing"} THEN d ELSE 0)
  <2>1. \A q \in Streams : rcv[q].status \notin {"absent", "off", "dropped"} <=> rcv[q].status \in {"ready", "rebasing"}
    <3> SUFFICES ASSUME NEW q \in Streams PROVE rcv[q].status \notin {"absent", "off", "dropped"} <=> rcv[q].status \in {"ready", "rebasing"}
      BY Zenon
    <3>1. q \in Receivers /\ q \notin Live
      BY StreamsReceive, ReceiversAssumption, Zenon DEF Observers
    <3>2. rcv[q].status \in Statuses /\ Fine(q, rcv[q], accounted[q])
      BY <3>1, InvFacts, ReceiverFields, Zenon
    <3>3. rcv[q].status \notin {"registering", "closing", "enabled", "parked"}
      BY <3>1, <3>2, Zenon DEF Fine
    <3> QED
      BY <3>2, <3>3 DEF Statuses
  <2>2. \A q \in Streams : owed'[q] = owed[q] + (IF bytes = <<>> /\ rcv[q].status \notin {"absent", "off", "dropped"} THEN 1 ELSE 0)
    BY <1>2, Zenon
  <2>3. \A q \in Streams : (IF bytes = <<>> /\ rcv[q].status \notin {"absent", "off", "dropped"} THEN 1 ELSE 0)
                           = (IF rcv[q].status \in {"ready", "rebasing"} THEN d ELSE 0)
    BY <2>1, Zenon DEF d
  <2>4. \A q \in Streams : owed'[q] = owed[q] + (IF rcv[q].status \in {"ready", "rebasing"} THEN d ELSE 0)
    BY <2>2, <2>3, Zenon
  <2>5. owed' \in [Streams -> Int]
    BY <1>2, <1>4
  <2> QED
    BY <2>4, <2>5, Zenon
<1>16. \A q \in Streams : Owes(rcv[q], owed[q])'
  <2> SUFFICES ASSUME NEW q \in Streams PROVE Owes(rcv[q], owed[q])'
    BY Zenon
  <2>1. /\ rcv[q] \in Receiver /\ Fine(q, rcv[q], accounted[q]) /\ Owes(rcv[q], owed[q])
    BY StreamsReceive, InvFacts, Zenon
  <2>2. rcv[q].cursor <= ring.next /\ rcv[q].invalidation <= invalidation_revision /\ owed[q] \in Int
    BY <1>4, <2>1, Zenon DEF Fine
  <2>3. rcv'[q] = rcv[q]
    BY <1>1, Zenon
  <2>4. CASE invalidates
    <3>1. d = 0 /\ process_exit_revision' = process_exit_revision /\ owed'[q] = owed[q]
      <4>1. d = 0
        BY <1>2, <2>4, Zenon DEF d
      <4>2. owed'[q] = owed[q] + 0
        BY <1>15, <4>1, Zenon
      <4> QED
        BY SMTT(30), <1>4, <1>5, <2>2, <4>1, <4>2
    <3>2. invalidation_revision' = invalidation_revision + 1
      BY <1>2, <2>4, Zenon
    <3>3. /\ rcv'[q] \in Receiver /\ rcv'[q].invalidation <= invalidation_revision /\ Owes(rcv'[q], owed'[q])
      BY <2>1, <2>2, <2>3, <3>1, Zenon
    <3> QED
      BY <1>4, <3>1, <3>2, <3>3, OwesInvalidated, Zenon
  <2>5. CASE ~invalidates
    <3>1. UNCHANGED invalidation_revision
      BY <1>2, <2>5, Zenon
    <3>2. /\ rcv'[q] \in Receiver /\ rcv'[q].cursor <= ring.next /\ Owes(rcv'[q], owed[q])
      BY <2>1, <2>2, <2>3, Zenon
    <3>3. owed'[q] = owed[q] + (IF rcv'[q].status \in {"ready", "rebasing"} THEN d ELSE 0)
      BY <1>15, <2>3, Zenon
    <3>4. \A o \in Int : \A x \in Receiver : x.cursor <= ring.next /\ Owes(x, o) =>
                Owes(x, o + (IF x.status \in {"ready", "rebasing"} THEN d ELSE 0))'
      BY <1>2, <1>3, <1>4, <1>5, <3>1, OwesPushed, Zenon
    <3> QED
      BY <2>2, <3>2, <3>3, <3>4, Zenon
  <2> QED
    BY <2>4, <2>5, Zenon
<1>17. generation' \in Readers
  BY <1>1, <1>4, Zenon
<1> QED
  BY <1>1, <1>7, <1>8, <1>9, <1>12, <1>13, <1>14, <1>15, <1>16, <1>17, AdvancedInv, Zenon


LEMMA InvalidatedInv ==
    ASSUME PaneOutputInv, Invalidated, RingOK', ring'.next = ring.next, generation' \in Readers,
           \A i \in DOMAIN ring'.events : Current(ring.events[i].bytes)'
    PROVE  PaneOutputInv'
<1>1. /\ invalidation_revision' = invalidation_revision + 1 /\ process_exit_revision_at_invalidation' = process_exit_revision
      /\ fast_epoch' = fast_epoch + 1 /\ UNCHANGED process_exit_revision /\ UNCHANGED pub
      /\ UNCHANGED rcv /\ UNCHANGED owed /\ UNCHANGED <<counts, rcv, accounted, stale>>
  BY Zenon DEF Invalidated, history
<1>2. /\ ring.next \in Nat /\ process_exit_revision \in Nat /\ invalidation_revision \in Nat /\ fast_epoch \in Nat
      /\ owed \in [Streams -> Int] /\ pub \in [Readers -> Publisher]
  BY NumbersOfInv, Zenon DEF PaneOutputInv, Types, Publisher
<1>3. Advances
  BY <1>1, <1>2 DEF Advances
<1>4. process_exit_revision_at_invalidation' \in 0 .. process_exit_revision'
  BY <1>1, <1>2
<1>5. \A h \in Readers : pub'[h].phase = "pushed" => CopyOK(pub[h])'
  <2> SUFFICES ASSUME NEW h \in Readers, pub'[h].phase = "pushed" PROVE CopyOK(pub[h])'
    BY Zenon
  <2>1. pub'[h] = pub[h] /\ pub[h].phase = "pushed"
    BY <1>1, Zenon
  <2>2. CopyOK(pub[h]) /\ pub[h] \in Pushed
    BY <2>1, PublishedPhase, Zenon DEF PaneOutputInv, Copies
  <2>3. pub[h].sequence \in Nat /\ pub[h].epoch \in Nat
    BY <2>2 DEF Pushed
  <2>4. pub'[h].sequence \in Nat /\ pub'[h].epoch \in Nat /\ CopyOK(pub'[h])
    BY <2>1, <2>2, <2>3, Zenon
  <2> QED
    BY <1>3, <2>4, CopyAdvances, Zenon
<1>6. \A q \in Streams : Owes(rcv[q], owed[q])'
  <2> SUFFICES ASSUME NEW q \in Streams PROVE Owes(rcv[q], owed[q])'
    BY Zenon
  <2>1. rcv[q] \in Receiver /\ Fine(q, rcv[q], accounted[q]) /\ Owes(rcv[q], owed[q])
    BY StreamsReceive, InvFacts, Zenon
  <2>2. rcv'[q] \in Receiver /\ rcv'[q].invalidation <= invalidation_revision /\ Owes(rcv'[q], owed'[q])
    BY <1>1, <2>1, Zenon DEF Fine
  <2> QED
    BY <1>1, <1>2, <2>2, OwesInvalidated, Zenon
<1>7. pub' \in [Readers -> Publisher] /\ owed' \in [Streams -> Int]
  BY <1>1, <1>2, Zenon
<1> QED
  BY <1>1, <1>3, <1>4, <1>5, <1>6, <1>7, AdvancedInv, Zenon

LEMMA MutateInv == ASSUME PaneOutputInv, mutate_transcript PROVE PaneOutputInv'
<1>1. Invalidated /\ UNCHANGED ring /\ UNCHANGED generation
  BY Zenon DEF mutate_transcript
<1>2. RingOK /\ generation \in Readers /\ \A i \in DOMAIN ring.events : Current(ring.events[i].bytes)
  BY Zenon DEF PaneOutputInv, Types, Copies
<1>3. RingOK' /\ generation' \in Readers /\ \A i \in DOMAIN ring'.events : Current(ring.events[i].bytes)'
  BY <1>1, <1>2, Zenon DEF RingOK, Numbered, Current
<1> QED
  BY <1>1, <1>3, InvalidatedInv, Zenon

LEMMA ResetInv == ASSUME PaneOutputInv, reset_generation PROVE PaneOutputInv'
<1>1. Invalidated /\ ring' = clear_retained(ring) /\ generation' = generation + 1 /\ generation < MaxGeneration
  BY Zenon DEF reset_generation
<1>2. Numbered(ring) /\ ring.next <= MaxOutputs /\ ring.next \in Nat /\ generation \in Readers
  BY NumbersOfInv, Zenon DEF PaneOutputInv, Types, RingOK
<1>3. ring = [next |-> ring.next, events |-> ring.events, recent |-> ring.recent]
  BY <1>2, Zenon DEF Numbered
<1>4. ring' = [next |-> ring.next, events |-> <<>>, recent |-> <<>>]
  BY <1>1, <1>3, Zenon DEF clear_retained
<1>5. ring'.next = ring.next /\ ring'.events = <<>> /\ ring' = [next |-> ring'.next, events |-> ring'.events, recent |-> ring'.recent]
  BY <1>4
<1>6. RingOK'
  <2>1. Len(ring'.events) = 0 /\ DOMAIN ring'.events = {} /\ ring'.events \in Seq(Event) /\ EventCapacity \in Nat
    BY <1>5, CapacityAssumption
  <2>2. ring'.next \in Nat /\ ring'.next <= MaxOutputs /\ Len(ring'.events) <= EventCapacity /\ Len(ring'.events) <= ring'.next
    BY <1>2, <1>5, <2>1
  <2> QED
    BY <1>5, <2>1, <2>2, Zenon DEF RingOK, Numbered
<1>7. generation' \in Readers
  <2>1. MaxGeneration \in Nat /\ generation \in Nat
    BY <1>2, ReceiversAssumption DEF Readers
  <2> QED
    BY <1>1, <2>1 DEF Readers
<1>8. \A i \in DOMAIN ring'.events : Current(ring.events[i].bytes)'
  <2>1. DOMAIN ring'.events = {}
    BY <1>5
  <2> QED
    BY <2>1, Zenon
<1> QED
  BY <1>1, <1>5, <1>6, <1>7, <1>8, InvalidatedInv, Zenon

(* A copy is put into queues of live receivers.                            *)
LEMMA FineTaking ==
    ASSUME NEW r \in Live, NEW x \in Receiver, NEW a, Fine(r, x, a), NEW item \in FastItem, CopyOK(item), ~(Len(x.fast) >= FastCapacity)
    PROVE  LET y == [x EXCEPT !.fast = Append(@, item)] IN
           /\ y \in Receiver /\ y.status = x.status /\ Fine(r, y, a)
<1> DEFINE q == Append(x.fast, item)
           y == [x EXCEPT !.fast = q]
<1>1. x.fast \in Seq(FastItem) /\ FastCapacity \in Nat
  BY ReceiverFields, ReceiversAssumption, Zenon DEF FastQueue
<1>2. /\ q \in Seq(FastItem) /\ Len(q) = Len(x.fast) + 1 /\ q[Len(x.fast) + 1] = item
      /\ \A i \in 1 .. Len(x.fast) : q[i] = x.fast[i]
  <2> HIDE DEF FastItem
  <2> QED
    BY <1>1, Appended
<1>3. DOMAIN q = 1 .. (Len(x.fast) + 1) /\ DOMAIN x.fast = 1 .. Len(x.fast) /\ Len(x.fast) \in Nat
  <2> HIDE DEF q, FastItem
  <2> QED
    BY <1>1, <1>2
<1> HIDE DEF q
<1>4. Len(q) <= FastCapacity
  BY <1>1, <1>2, <1>3
<1>5. \A i \in DOMAIN q : CopyOK(q[i])
  <2>1. \A i \in DOMAIN q : i = Len(x.fast) + 1 \/ i \in DOMAIN x.fast
    BY <1>3
  <2>2. \A i \in DOMAIN x.fast : CopyOK(x.fast[i]) /\ q[i] = x.fast[i]
    BY <1>2, <1>3, Zenon DEF Fine
  <2> QED
    BY <1>2, <2>1, <2>2, Zenon
<1>6. q \in FastQueue
  BY <1>2, Zenon DEF FastQueue
<1>7. /\ y \in Receiver /\ y.status = x.status /\ y.cursor = x.cursor /\ y.fast = q /\ y.invalidation = x.invalidation
      /\ y.exit = x.exit /\ y.preserved = x.preserved /\ y.dirty = x.dirty /\ y.since = x.since
  BY <1>6, Zenon DEF Receiver
<1> HIDE DEF y
<1>8. Fine(r, y, a)
  BY <1>4, <1>5, <1>7, Zenon DEF Fine
<1> QED
  BY <1>7, <1>8, Zenon DEF y, q

LEMMA PublishFastInv == ASSUME PaneOutputInv, NEW g \in Readers, PublishFast(g) PROVE PaneOutputInv'
<1> DEFINE open == {r \in fast_receivers : ~Closed(r)}
           item == [epoch |-> pub[g].epoch, sequence |-> pub[g].sequence, bytes |-> pub[g].bytes]
           grown(r) == [rcv[r] EXCEPT !.fast = Append(@, item)]
           p(b) == [phase |-> "notify", eof |-> pub[g].eof, delivered |-> b]
           full == open # {} /\ \A r \in open : ~Full(r)
<1>1. /\ pub[g].phase = "pushed" /\ UNCHANGED state /\ UNCHANGED <<receiver_count, fast_receiver_count>> /\ UNCHANGED history
      /\ \/ /\ fast_receivers' = open /\ pub' = [pub EXCEPT ![g] = p(full)]
            /\ rcv' = [r \in Receivers |-> IF r \in open /\ ~Full(r) THEN grown(r) ELSE rcv[r]]
         \/ pub' = [pub EXCEPT ![g] = p(FALSE)] /\ UNCHANGED rcv /\ UNCHANGED fast_receivers
  BY Zenon DEF PublishFast, Notifying
<1>2. pub[g] \in Pushed /\ CopyOK(pub[g]) /\ pub[g].eof \in BOOLEAN
  BY <1>1, PublishedPhase, Zenon DEF PaneOutputInv, Copies
<1>3. item \in FastItem /\ item.epoch = pub[g].epoch /\ item.sequence = pub[g].sequence /\ item.bytes = pub[g].bytes
  BY <1>2 DEF Pushed, FastItem
<1> HIDE DEF item
<1>4. CopyOK(item)
  BY <1>2, <1>3, Zenon DEF CopyOK
<1>5. fast_receivers \subseteq Live /\ Live \subseteq Receivers /\ rcv \in [Receivers -> Receiver]
  BY NumbersOfInv, Zenon DEF Receivers, PaneOutputInv, Types
<1>6. pub' \in [Readers -> Publisher] /\ \A h \in Readers : pub'[h].phase = "pushed" => CopyOK(pub[h])'
  <2>1. full \in BOOLEAN
    OBVIOUS
  <2> HIDE DEF full
  <2>2. p(full) \in Idle \cup Notify \cup Deciding /\ p(FALSE) \in Idle \cup Notify \cup Deciding
    BY <1>2, <2>1 DEF Notify
  <2> HIDE DEF p
  <2> QED
    BY <1>1, <2>2, PublisherMoves, Zenon
<1>7. fast_receivers' \subseteq Live
  BY <1>1, <1>5, Zenon
<1>8. \A r \in Receivers : rcv'[r] = rcv[r] \/ (r \in Live /\ ~Full(r) /\ rcv'[r] = grown(r))
  <2> HIDE DEF grown
  <2> QED
    BY <1>1, <1>5, Zenon
<1>9. ASSUME NEW r \in Receivers
      PROVE  /\ rcv'[r] \in Receiver /\ rcv'[r].status = rcv[r].status /\ Fine(r, rcv'[r], accounted[r])
             /\ r \in Streams => rcv'[r] = rcv[r]
  <2>1. rcv[r] \in Receiver /\ Fine(r, rcv[r], accounted[r])
    BY InvFacts, Zenon
  <2>2. CASE rcv'[r] = rcv[r]
    BY <2>1, <2>2, Zenon
  <2>3. CASE r \in Live /\ ~Full(r) /\ rcv'[r] = grown(r)
    <3>1. r \notin Streams
      BY <2>3, ReceiversAssumption, Zenon DEF Observers
    <3>2. ~(Len(rcv[r].fast) >= FastCapacity)
      BY <2>3, Zenon DEF Full
    <3>3. grown(r) \in Receiver /\ grown(r).status = rcv[r].status /\ Fine(r, grown(r), accounted[r])
      BY <1>3, <1>4, <2>1, <2>3, <3>2, FineTaking, Zenon
    <3> HIDE DEF grown
    <3> QED
      BY <2>3, <3>1, <3>3, Zenon
  <2> QED
    BY <1>8, <2>2, <2>3, Zenon
<1>10. rcv' \in [Receivers -> Receiver]
  <2>1. rcv' = [r \in Receivers |-> rcv'[r]]
    <3> HIDE DEF grown, Receiver
    <3> QED
      BY <1>1, <1>5, Zenon
  <2> HIDE DEF Receiver
  <2> QED
    BY <1>9, <2>1, Zenon
<1>11. /\ UNCHANGED generation /\ UNCHANGED fast_epoch /\ UNCHANGED invalidation_revision /\ UNCHANGED process_exit_revision
       /\ UNCHANGED process_exit_revision_at_invalidation /\ UNCHANGED ring /\ UNCHANGED accounted /\ UNCHANGED owed /\ UNCHANGED stale
  BY <1>1, Zenon DEF state, history
<1>12. Types'
  BY <1>6, <1>10, <1>11, Zenon DEF PaneOutputInv, Types, Publisher
<1>13. RingOK' /\ Copies'
  BY <1>6, <1>11, Zenon DEF PaneOutputInv, RingOK, Numbered, Copies, Current
<1>14. AllFine'
  <2>1. \A r \in Receivers : Fine(r, rcv'[r], accounted'[r])
    BY <1>9, <1>11, Zenon
  <2>2. \A r \in Streams : Owes(rcv'[r], owed'[r])
    BY <1>9, <1>11, StreamsReceive, InvFacts, Zenon
  <2>3. \A r \in Receivers : Fine(r, rcv[r], accounted[r])'
    BY <1>1, <2>1, FineKept, Zenon
  <2>4. \A r \in Streams : Owes(rcv[r], owed[r])'
    BY <1>1, <2>2, OwesKept, Zenon
  <2> QED
    BY <2>3, <2>4, Zenon DEF AllFine
<1>15. Counts'
  <2>1. \A q \in Receivers : (Counted(rcv'[q]) <=> Counted(rcv[q])) /\ (FastCounted(rcv'[q]) <=> FastCounted(rcv[q]))
    BY <1>9, Zenon DEF Counted, FastCounted
  <2>2. {q \in Receivers : Counted(rcv'[q])} = {q \in Receivers : Counted(rcv[q])}
    BY <2>1, Zenon
  <2>3. {q \in Live : FastCounted(rcv'[q])} = {q \in Live : FastCounted(rcv[q])}
    BY <1>5, <2>1, Zenon
  <2> QED
    BY <1>1, <1>7, <2>2, <2>3, Zenon DEF PaneOutputInv, Counts, Counted, FastCounted
<1> QED
  BY <1>12, <1>13, <1>14, <1>15, Zenon DEF PaneOutputInv


---------------------------------------------------------------------------
(* The invariant holds, and what follows from it.                          *)

LEMMA InitInv == Init => PaneOutputInv
<1> SUFFICES ASSUME Init PROVE PaneOutputInv
  OBVIOUS
<1>1. /\ ring = EmptyRing /\ generation = 0 /\ fast_epoch = 0 /\ invalidation_revision = 0 /\ process_exit_revision = 0
      /\ process_exit_revision_at_invalidation = 0 /\ receiver_count = 0 /\ fast_receiver_count = 0 /\ fast_receivers = {}
      /\ pub = [g \in Readers |-> IdleReader] /\ accounted = [r \in Receivers |-> 0] /\ stale = {} /\ owed = [r \in Streams |-> 0]
  BY Zenon DEF Init
<1>2. PICK population \in Populations : rcv = [r \in Receivers |-> IF r \in population THEN Off ELSE Absent]
  BY Zenon DEF Init
<1>3. ring.next = 0 /\ ring.events = <<>> /\ ring = [next |-> ring.next, events |-> ring.events, recent |-> ring.recent]
  BY <1>1 DEF EmptyRing
<1>4. RingOK
  BY <1>3, CapacityAssumption, ReceiversAssumption DEF RingOK, Numbered
<1>5. /\ Off \in Receiver /\ Absent \in Receiver /\ Off.status = "off" /\ Absent.status = "absent"
      /\ Off.cursor = 0 /\ Absent.cursor = 0 /\ Off.fast = <<>> /\ Absent.fast = <<>> /\ Off.invalidation = 0 /\ Absent.invalidation = 0
      /\ Off.exit = 0 /\ Absent.exit = 0 /\ Off.dirty = FALSE /\ Absent.dirty = FALSE
  <2>1. Off \in Receiver
    BY OffIsReceiver, Zenon
  <2>2. "absent" \in Statuses
    BY DEF Statuses
  <2>3. /\ Absent \in Receiver /\ Absent.status = "absent" /\ Absent.cursor = Off.cursor /\ Absent.fast = Off.fast
        /\ Absent.invalidation = Off.invalidation /\ Absent.exit = Off.exit /\ Absent.dirty = Off.dirty
    BY <2>1, <2>2 DEF Absent, Receiver
  <2>4. /\ Off.status = "off" /\ Off.cursor = 0 /\ Off.fast = <<>> /\ Off.invalidation = 0 /\ Off.exit = 0 /\ Off.dirty = FALSE
    BY DEF Off
  <2> QED
    BY <2>1, <2>3, <2>4, Zenon
<1>6. \A r \in Receivers : /\ rcv[r] \in Receiver /\ rcv[r].status \in {"off", "absent"} /\ rcv[r].cursor = 0 /\ rcv[r].fast = <<>>
                           /\ rcv[r].invalidation = 0 /\ rcv[r].exit = 0 /\ rcv[r].dirty = FALSE
  BY <1>2, <1>5, Zenon
<1>7. rcv \in [Receivers -> Receiver]
  BY <1>2, <1>5, Zenon
<1>8. IdleReader \in Idle /\ IdleReader.phase # "pushed"
  BY DEF IdleReader, Idle
<1>9. Types
  <2>1. pub \in [Readers -> Idle \cup Pushed \cup Notify \cup Deciding]
    BY <1>1, <1>8, Zenon
  <2>2. generation \in Readers /\ 0 \in Nat /\ 0 \in Int /\ 0 \in 0 .. 0
    BY <1>1, ReceiversAssumption DEF Readers
  <2>3. accounted \in [Receivers -> Nat] /\ owed \in [Streams -> Int]
    BY <1>1, <2>2, Zenon
  <2> QED
    BY <1>1, <1>7, <2>1, <2>2, <2>3, Zenon DEF Types
<1>10. Copies
  <2>1. DOMAIN ring.events = {}
    BY <1>3
  <2>2. \A g \in Readers : pub[g].phase # "pushed"
    BY <1>1, <1>8, Zenon
  <2> QED
    BY <1>1, <2>1, <2>2, Zenon DEF Copies
<1>11. AllFine
  <2>1. Len(<<>>) = 0 /\ DOMAIN <<>> = {} /\ 0 <= 0 /\ 0 <= FastCapacity
    BY ReceiversAssumption
  <2>2. ASSUME NEW r \in Receivers PROVE Fine(r, rcv[r], accounted[r])
    <3>1. accounted[r] = rcv[r].cursor
      BY <1>1, <1>6, Zenon
    <3>2. rcv[r].status \notin {"registering", "closing", "enabled", "parked", "rebasing"}
      BY <1>6
    <3>3. rcv[r].fast = <<>> /\ rcv[r].cursor = 0 /\ rcv[r].exit = 0 /\ rcv[r].invalidation = 0 /\ ~rcv[r].dirty
      BY <1>6, Zenon
    <3>4. \A i \in DOMAIN rcv[r].fast : CopyOK(rcv[r].fast[i])
      BY <2>1, <3>3, Zenon
    <3>5. /\ Len(rcv[r].fast) <= FastCapacity /\ rcv[r].cursor <= ring.next /\ rcv[r].exit <= process_exit_revision
          /\ rcv[r].invalidation <= invalidation_revision
      BY <1>1, <1>3, <2>1, <3>3, Zenon
    <3> QED
      BY <3>1, <3>2, <3>3, <3>4, <3>5, Zenon DEF Fine
  <2>3. ASSUME NEW r \in Streams PROVE Owes(rcv[r], owed[r])
    <3>1. rcv[r].status \notin {"ready", "rebasing"}
      BY <1>6, StreamsReceive
    <3>2. owed[r] = 0
      BY <1>1, Zenon
    <3> QED
      BY <3>1, <3>2, Zenon DEF Owes
  <2> QED
    BY <2>2, <2>3, Zenon DEF AllFine
<1>12. Counts
  <2>1. \A r \in Receivers : ~Counted(rcv[r]) /\ ~FastCounted(rcv[r])
    BY <1>6 DEF Counted, FastCounted
  <2>2. Live \subseteq Receivers
    BY Zenon DEF Receivers
  <2>3. {r \in Receivers : Counted(rcv[r])} = {} /\ {r \in Live : FastCounted(rcv[r])} = {}
    BY <2>1, <2>2, Zenon
  <2>4. Cardinality({}) = 0
    BY FS_EmptySet, Zenon
  <2> QED
    BY <1>1, <2>3, <2>4, Zenon DEF Counts
<1> QED
  BY <1>4, <1>9, <1>10, <1>11, <1>12, Zenon DEF PaneOutputInv

LEMMA NextInv == PaneOutputInv /\ [Next]_vars => PaneOutputInv'
<1> SUFFICES ASSUME PaneOutputInv, [Next]_vars PROVE PaneOutputInv'
  OBVIOUS
<1>1. ASSUME NEW g \in Readers, Publish(g) PROVE PaneOutputInv'
  BY <1>1, PublishPushInv, PublishFastInv, NotifyLoadInv, NotifyDecideInv, Zenon DEF Publish
<1>2. CASE mutate_transcript
  BY <1>2, MutateInv, Zenon
<1>3. CASE reset_generation
  BY <1>3, ResetInv, Zenon
<1>4. CASE notify_receivers
  BY <1>4, NotifyReceiversInv, Zenon
<1>5. ASSUME NEW r \in Receivers, ReceiverStep(r) PROVE PaneOutputInv'
  <2>1. CASE subscribe(r) \/ register_live_receiver(r) \/ CountLiveReceiver(r) \/ DropFast(r) \/ Drop(r)
    BY <2>1, SubscribeInv, RegisterInv, CountLiveInv, DropFastInv, DropInv, Zenon
  <2>2. CASE try_recv_fast(r) \/ Enable(r) \/ RecvFast(r) \/ RecvRing(r) \/ RecvObserved(r) \/ Awake(r)
    BY <2>2, TryRecvFastInv, EnableInv, RecvFastInv, RecvRingInv, RecvObservedInv, AwakeInv, Zenon
  <2>3. CASE PollStream(r) \/ BeginRebase(r) \/ FinishRebase(r) \/ AbandonRebase(r)
    BY <2>3, PollStreamInv, BeginRebaseInv, FinishRebaseInv, AbandonRebaseInv, Zenon
  <2> QED
    BY <1>5, <2>1, <2>2, <2>3, Zenon DEF ReceiverStep
<1>6. CASE UNCHANGED vars
  BY <1>6, StutterInv, Zenon
<1> QED
  BY <1>1, <1>2, <1>3, <1>4, <1>5, <1>6, Zenon DEF Next

(* The inductive invariant holds in every reachable state of the channel.  *)
THEOREM PaneOutputIsSafe == Spec => []PaneOutputInv
BY InitInv, NextInv, PTL DEF Spec

LEMMA InvAccounts == PaneOutputInv => OutputAccounted
<1> SUFFICES ASSUME PaneOutputInv PROVE OutputAccounted
  OBVIOUS
<1>1. /\ ring.next \in Nat /\ ring.next <= MaxOutputs /\ Len(ring.events) <= EventCapacity /\ generation \in Readers
      /\ receiver_count \in Nat /\ fast_receiver_count \in Nat /\ fast_receivers \subseteq Live
  BY NumbersOfInv, Zenon DEF PaneOutputInv, RingOK, Numbered, Types
<1>2. ring.next \in 0 .. MaxOutputs
  BY <1>1, ReceiversAssumption
<1>3. receiver_count \in 0 .. Cardinality(Receivers) /\ fast_receiver_count \in 0 .. Cardinality(Live)
  <2>1. receiver_count = Cardinality(CountedSet) /\ fast_receiver_count = Cardinality(FastSet)
    BY Zenon DEF PaneOutputInv, Counts, CountedSet, FastSet
  <2>2. receiver_count <= Cardinality(Receivers) /\ fast_receiver_count <= Cardinality(Live)
    BY <2>1, CountsFinite, Zenon
  <2>3. Cardinality(Receivers) \in Nat /\ Cardinality(Live) \in Nat
    <3>1. IsFiniteSet(Receivers) /\ Live \subseteq Receivers
      BY ReceiversAssumption, Zenon DEF Receivers
    <3> QED
      BY <3>1, FS_Subset, FS_CardinalityType, Zenon
  <2> QED
    BY <1>1, <2>2, <2>3
<1>4. ASSUME NEW r \in Receivers
      PROVE  /\ rcv[r].status \in Statuses /\ rcv[r].cursor \in 0 .. ring.next
             /\ Len(rcv[r].fast) <= FastCapacity /\ rcv[r].exit <= process_exit_revision
             /\ r \in Live \cup Plain /\ rcv[r].status \notin {"closing", "dropped"} => accounted[r] = rcv[r].cursor
  <2>1. rcv[r] \in Receiver /\ Fine(r, rcv[r], accounted[r])
    BY InvFacts, Zenon
  <2>2. rcv[r].status \in Statuses /\ rcv[r].cursor \in Nat
    BY <2>1, ReceiverFields, Zenon
  <2>3. /\ rcv[r].cursor <= ring.next /\ Len(rcv[r].fast) <= FastCapacity /\ rcv[r].exit <= process_exit_revision
        /\ r \in Live \cup Plain /\ rcv[r].status \notin {"closing", "dropped"} => accounted[r] = rcv[r].cursor
    BY <2>1, Zenon DEF Fine
  <2>4. rcv[r].cursor \in 0 .. ring.next
    BY <1>1, <2>2, <2>3
  <2> QED
    BY <2>2, <2>3, <2>4, Zenon
<1>5. TypeOK
  BY <1>1, <1>2, <1>3, <1>4, Zenon DEF TypeOK, Statuses
<1>6. Live \cup Plain \subseteq Receivers
  BY Zenon DEF Receivers
<1> QED
  BY <1>4, <1>5, <1>6, Zenon DEF OutputAccounted

(* OutputAccounted for any receivers, capacities and history: what a       *)
(* receiver was given by the fast queue and the ring, and what a gap told  *)
(* it is missing, add up to its cursor (accept_fast_item, poll_cursor).    *)
THEOREM OutputIsAccounted == Spec => []OutputAccounted
BY PaneOutputIsSafe, InvAccounts, PTL

(* OldProcessIsSilent for any receivers, capacities and history: a fast    *)
(* copy captured before reset_generation carries an epoch that no receiver *)
(* accepts any more.                                                       *)
THEOREM ReplacedProcessIsSilent == Spec => []OldProcessIsSilent
<1>1. PaneOutputInv => OldProcessIsSilent
  BY Zenon DEF PaneOutputInv, Copies, OldProcessIsSilent
<1> QED
  BY <1>1, PaneOutputIsSafe, PTL

(* What a stream that has nothing to rebase for reads when all is told.    *)
LEMMA NoneOwed ==
    ASSUME PaneOutputInv, NEW x \in Receiver, x.cursor <= ring.next, x.exit <= process_exit_revision, ~x.dirty,
           Steady(x) => Covered(x), Observed(x).item = "none"
    PROVE  Outstanding(x) = 0
<1>1. ring.next \in Nat /\ Numbered(ring) /\ process_exit_revision \in Nat
  BY NumbersOfInv, Zenon
<1>2. x.cursor \in Nat /\ x.exit \in Nat /\ x.preserved \in Nat
  BY ReceiverFields, Zenon
<1>3. ASSUME NEW y PROVE ExitItem(y).item = "exit"
  BY DEF ExitItem
<1>4. ASSUME NEW y PROVE GapItem(y).item # "none"
  <2> DEFINE z == [y EXCEPT !.cursor = oldest_sequence(ring)]
             w == [z EXCEPT !.pending = TRUE]
  <2>1. GapItem(y) = ExitItem(w) \/ GapItem(y) = [item |-> "gap", x |-> z]
    BY Zenon DEF GapItem
  <2> HIDE DEF w, z
  <2>2. [item |-> "gap", x |-> z].item = "gap"
    OBVIOUS
  <2> QED
    BY <1>3, <2>1, <2>2
<1> DEFINE a == [item |-> "exit", x |-> [x EXCEPT !.preserved = @ - 1]]
           b == [item |-> "invalidated", x |-> [x EXCEPT !.invalidation = invalidation_revision,
                                                         !.cursor = ring.next, !.pending = FALSE]]
           c == [item |-> "gap", x |-> [x EXCEPT !.pending = FALSE]]
           e == ExitItem(x)
           f == GapItem(x)
           h == PollItem(x)
<1>5. a.item # "none" /\ b.item # "none" /\ c.item # "none" /\ e.item # "none" /\ f.item # "none"
  <2>1. e.item # "none" /\ f.item # "none"
    <3>1. e.item = "exit"
      BY <1>3, Zenon
    <3> QED
      BY <1>4, <3>1
  <2> HIDE DEF e, f
  <2>2. a.item = "exit" /\ b.item = "invalidated" /\ c.item = "gap"
    OBVIOUS
  <2> HIDE DEF a, b, c
  <2> QED
    BY <2>1, <2>2
<1>6. Observed(x) =
        CASE x.preserved > 0 -> a
          [] x.preserved = 0 /\ x.invalidation # invalidation_revision ->
               IF x.exit < process_exit_revision_at_invalidation THEN e ELSE b
          [] OTHER -> IF x.pending THEN (IF x.exit < process_exit_revision THEN e ELSE c)
                      ELSE IF Lags(ring, x.cursor) THEN f ELSE h
  BY Zenon DEF Observed
<1> HIDE DEF a, b, c, e, f, h
<1>7. /\ x.preserved = 0 /\ x.invalidation = invalidation_revision /\ ~x.pending /\ ~Lags(ring, x.cursor)
      /\ h.item = "none"
  BY <1>2, <1>5, <1>6
<1>8. Covered(x)
  BY <1>7, Zenon DEF Steady
<1>9. process_exit_revision = x.exit
  <2> SUFFICES ASSUME x.exit < process_exit_revision PROVE FALSE
    BY <1>1, <1>2
  <2> DEFINE n == [item |-> "none", x |-> [x EXCEPT !.cursor = x.cursor]]
             u == ExitItem([x EXCEPT !.cursor = x.cursor + 1])
             v == [item |-> "event", x |-> [x EXCEPT !.cursor = x.cursor + 1]]
  <2>1. h = CASE x.cursor = ring.next -> n
              [] x.cursor < ring.next /\ EventAt(ring, x.cursor).bytes = <<>> -> u
              [] OTHER -> v
    BY Zenon DEF PollItem, h
  <2>2. u.item = "exit"
    BY <1>3, Zenon
  <2>3. v.item = "event"
    OBVIOUS
  <2> HIDE DEF n, u, v
  <2>4. x.cursor = ring.next
    BY <1>7, <2>1, <2>2, <2>3
  <2>5. Cardinality(Markers(ring, x.cursor)) = 0
    BY <1>1, <2>4, MarkersAtEnd, Zenon
  <2>6. process_exit_revision - x.exit <= 0
    BY <1>8, <2>5, Zenon DEF Covered
  <2> QED
    BY <1>1, <1>2, <2>6
<1> QED
  BY <1>1, <1>7, <1>9 DEF Outstanding

LEMMA InvReports == PaneOutputInv => ExitsReportedOnce
<1> SUFFICES ASSUME PaneOutputInv, NEW r \in Streams
             PROVE  /\ owed[r] >= 0
                    /\ (rcv[r].status = "ready" /\ ~rcv[r].dirty /\ Observed(rcv[r]).item = "none") => owed[r] = 0
  BY Zenon DEF ExitsReportedOnce
<1>1. rcv[r] \in Receiver /\ Fine(r, rcv[r], accounted[r]) /\ Owes(rcv[r], owed[r])
  BY StreamsReceive, InvFacts, Zenon
<1>2. /\ rcv[r].cursor <= ring.next /\ rcv[r].exit <= process_exit_revision /\ process_exit_revision \in Nat
      /\ rcv[r].exit \in Nat /\ rcv[r].preserved \in Nat
  BY <1>1, NumbersOfInv, ReceiverFields, Zenon DEF Fine
<1>3. owed[r] = 0 \/ owed[r] = rcv[r].preserved + (process_exit_revision - rcv[r].exit)
  BY <1>1, Zenon DEF Owes
<1>4. owed[r] >= 0
  BY <1>2, <1>3
<1>5. ASSUME rcv[r].status = "ready", ~rcv[r].dirty, Observed(rcv[r]).item = "none" PROVE owed[r] = 0
  <2>1. rcv[r].status \in {"ready", "rebasing"}
    BY <1>5
  <2>2. owed[r] = Outstanding(rcv[r]) /\ (Steady(rcv[r]) => Covered(rcv[r]))
    BY <1>1, <2>1, Zenon DEF Owes, Outstanding, Covered
  <2>3. Outstanding(rcv[r]) = 0
    BY <1>1, <1>2, <1>5, <2>2, NoneOwed, Zenon
  <2> QED
    BY <2>2, <2>3, Zenon
<1> QED
  BY <1>4, <1>5, Zenon

(* ExitsReportedOnce for any receivers, capacities and history: across     *)
(* gaps, invalidations and rebases (preserve_process_exits_since) a stream *)
(* never reports more exits than there were, and one that has caught up    *)
(* has reported them all.                                                  *)
THEOREM ExitsAreReportedOnce == Spec => []ExitsReportedOnce
BY PaneOutputIsSafe, InvReports, PTL
=============================================================================
