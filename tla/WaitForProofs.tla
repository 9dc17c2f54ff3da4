--------------------------- MODULE WaitForProofs ---------------------------
(***************************************************************************)
(* Proofs about WaitFor for every set of requests and channels.            *)
(***************************************************************************)
EXTENDS WaitFor, TLAPS

Distinct(q) == \A i, j \in 1 .. Len(q) : q[i] = q[j] => i = j

\* A queue of channel c holds distinct requests of kind k on c that have been sent
\* nothing and whose cleanup guard has not run.
QueueOK(q, c, k) ==
    /\ \A x \in Elements(q) : /\ chan[x] = c /\ kind[x] = k /\ wake[x] = "none"
                              /\ status[x] \in {"waiting", "cleanup"}
    /\ Distinct(q)

GrantOK(c) ==
    LET g == State(c).granted
    IN  g # NoWaiter => /\ chan[g] = c /\ kind[g] = "Lock" /\ wake[g] = "Ready"
                        /\ status[g] \in {"waiting", "accepting", "cleanup"}
                        /\ holder[c] = {}

LockOK(c) ==
    /\ State(c).locked <=> holder[c] # {} \/ State(c).granted # NoWaiter
    /\ \A r1, r2 \in holder[c] : r1 = r2
    /\ State(c).lock_waiters # <<>> => State(c).locked

ChannelOK(c) ==
    /\ QueueOK(State(c).signal_waiters, c, "Signal")
    /\ QueueOK(State(c).lock_waiters, c, "Lock")
    /\ GrantOK(c)
    /\ LockOK(c)
    /\ State(c).woken => State(c).signal_waiters = <<>>

RequestOK(r) ==
    /\ status[r] = "start" => wake[r] = "none"
    /\ status[r] = "waiting" => rx_open[r]
    /\ status[r] = "waiting" => wake[r] # "none" \/ r \in Elements(QueueOf(r))

\* The inductive invariant behind the store's safety properties.
IInv ==
    /\ TypeOK
    /\ \A c \in DOMAIN channels : channels[c] # DefaultChannel
    /\ \A c \in Channels : ChannelOK(c)
    /\ \A r \in Requests : RequestOK(r)

-----------------------------------------------------------------------------
\* What a store method does to the map, seen through `State`.
ChannelsBecome(c, s) ==
    /\ DOMAIN channels' \subseteq Channels
    /\ channels' \in [DOMAIN channels' -> WaitForChannel]
    /\ \A d \in DOMAIN channels' : channels'[d] # DefaultChannel
    /\ \A d \in Channels : State(d)' = IF d = c THEN s ELSE State(d)

\* Every channel name has a well-typed state, present in the map or not.
LEMMA StateType ==
    ASSUME TypeOK, NEW c \in Channels
    PROVE  State(c) \in WaitForChannel
BY DEF TypeOK, State, WaitForChannel, DefaultChannel

\* Inserting a non-default state is seen through `State` as an update at c.
LEMMA PutBecomes ==
    ASSUME IInv, NEW c \in Channels, NEW s \in WaitForChannel,
           s # DefaultChannel, channels' = Put(c, s)
    PROVE  ChannelsBecome(c, s)
BY Zenon DEF IInv, TypeOK, Put, ChannelsBecome, State

\* remove_idle_channel is seen through `State` as the same update at c.
LEMMA IdleBecomes ==
    ASSUME IInv, NEW c \in Channels, NEW s \in WaitForChannel,
           channels' = remove_idle_channel(c, s)
    PROVE  ChannelsBecome(c, s)
<1>1. CASE s = DefaultChannel
  BY <1>1, Zenon DEF IInv, TypeOK, remove_idle_channel, ChannelsBecome, State
<1>2. CASE s # DefaultChannel
  BY <1>2, PutBecomes, Zenon DEF remove_idle_channel
<1> QED BY <1>1, <1>2, Zenon

-----------------------------------------------------------------------------
\* The queue operations, as far as the invariant can see them.
LEMMA ElementsOf ==
    ASSUME NEW q \in Seq(Requests)
    PROVE  /\ Elements(q) \subseteq Requests
           /\ q = <<>> <=> Elements(q) = {}
           /\ \A i \in 1 .. Len(q) : q[i] \in Elements(q)
           /\ \A x \in Elements(q) : \E i \in 1 .. Len(q) : q[i] = x
<1>1. Len(q) \in Nat /\ DOMAIN q = 1 .. Len(q) /\ \A i \in 1 .. Len(q) : q[i] \in Requests
  OBVIOUS
<1>2. q # <<>> => 1 \in 1 .. Len(q)
  OBVIOUS
<1>3. q = <<>> => 1 .. Len(q) = {}
  OBVIOUS
<1> QED BY <1>1, <1>2, <1>3, SMTT(30) DEF Elements

\* The queue of a new channel.
LEMMA EmptyQueue ==
    <<>> \in Seq(Requests) /\ Elements(<<>>) = {} /\ Distinct(<<>>)
BY DEF Elements, Distinct

\* push_back of a new waiter keeps the queue free of duplicates.
LEMMA AppendQueue ==
    ASSUME NEW q \in Seq(Requests), NEW r \in Requests
    PROVE  /\ Append(q, r) \in Seq(Requests) /\ Append(q, r) # <<>>
           /\ Elements(Append(q, r)) = Elements(q) \cup {r}
           /\ Distinct(q) /\ r \notin Elements(q) => Distinct(Append(q, r))
<1> DEFINE p == Append(q, r)
<1>1. /\ p \in Seq(Requests) /\ p # <<>> /\ Len(p) = Len(q) + 1 /\ Len(q) \in Nat
      /\ \A i \in 1 .. Len(q) : p[i] = q[i]
      /\ p[Len(q) + 1] = r
  OBVIOUS
<1> HIDE DEF p
<1>2. DOMAIN p = 1 .. (Len(q) + 1) /\ DOMAIN q = 1 .. Len(q)
  BY <1>1
<1>3. Elements(p) = Elements(q) \cup {r}
  <2>1. Elements(p) \subseteq Elements(q) \cup {r}
    BY <1>1, <1>2 DEF Elements
  <2>2. r \in Elements(p)
    BY <1>1, <1>2 DEF Elements
  <2>3. Elements(q) \subseteq Elements(p)
    BY <1>1, <1>2 DEF Elements
  <2> QED BY <2>1, <2>2, <2>3, Zenon
<1>4. ASSUME Distinct(q), r \notin Elements(q) PROVE Distinct(p)
  <2>1. \A i \in 1 .. Len(q) : q[i] # r BY <1>2, <1>4, Zenon DEF Elements
  <2> QED BY <1>1, <1>4, <2>1 DEF Distinct
<1> QED BY <1>1, <1>3, <1>4, Zenon DEF p

\* Removing position i of a duplicate-free queue removes exactly that waiter.
LEMMA RemoveWaiter ==
    ASSUME NEW q \in Seq(Requests), NEW i \in 1 .. Len(q), Distinct(q)
    PROVE  /\ remove_waiter(q, i) \in Seq(Requests)
           /\ Elements(remove_waiter(q, i)) = Elements(q) \ {q[i]}
           /\ Distinct(remove_waiter(q, i))
<1> DEFINE n == Len(q)  p == remove_waiter(q, i)
<1>1. n \in Nat /\ n >= 1 /\ DOMAIN q = 1 .. n /\ \A j \in 1 .. n : q[j] \in Requests
  OBVIOUS
<1>2. p = [j \in 1 .. (n - 1) |-> IF j < i THEN q[j] ELSE q[j + 1]]
  BY Zenon DEF remove_waiter
<1>3. p \in Seq(Requests) /\ Len(p) = n - 1
  BY <1>1, <1>2
<1>4. Distinct(p)
  BY <1>1, <1>2, <1>3 DEF Distinct
<1>5. Elements(p) = Elements(q) \ {q[i]}
  <2>1. Elements(p) \subseteq Elements(q) \ {q[i]}
    BY <1>1, <1>2, <1>3 DEF Elements, Distinct
  <2>2. ASSUME NEW k \in 1 .. n, k # i PROVE q[k] \in Elements(p)
    <3>1. CASE k < i
      <4> k \in 1 .. (n - 1) /\ p[k] = q[k] BY <3>1, <1>1, <1>2
      <4> QED BY <1>3 DEF Elements
    <3>2. CASE k > i
      <4> k - 1 \in 1 .. (n - 1) /\ p[k - 1] = q[k] BY <3>2, <1>1, <1>2
      <4> QED BY <1>3 DEF Elements
    <3> QED BY <2>2, <3>1, <3>2, <1>1
  <2>3. ASSUME NEW x \in Elements(q), x # q[i] PROVE x \in Elements(p)
    <3>1. PICK k \in 1 .. n : x = q[k] BY <1>1, Zenon DEF Elements
    <3> QED BY <3>1, <2>2, <2>3, Zenon
  <2> HIDE DEF p
  <2> QED BY <2>1, <2>3, Zenon
<1> QED BY <1>3, <1>4, <1>5, Zenon

\* Behind position i are later waiters only; the ones in front of it are gone.
LEMMA AfterQueue ==
    ASSUME NEW q \in Seq(Requests), NEW i \in 1 .. Len(q), Distinct(q)
    PROVE  /\ After(q, i) \in Seq(Requests)
           /\ Elements(After(q, i)) \subseteq Elements(q) \ {q[i]}
           /\ Distinct(After(q, i))
           /\ \A x \in Elements(q) : \/ x \in Elements(After(q, i)) \/ x = q[i]
                                     \/ \E j \in 1 .. (i - 1) : q[j] = x
<1> DEFINE n == Len(q)  p == After(q, i)
<1>1. n \in Nat /\ DOMAIN q = 1 .. n /\ \A j \in 1 .. n : q[j] \in Requests
  OBVIOUS
<1>2. p = [j \in 1 .. (n - i) |-> q[j + i]]
  BY Zenon DEF After
<1>3. p \in Seq(Requests) /\ Len(p) = n - i /\ DOMAIN p = 1 .. (n - i)
  BY <1>1, <1>2
<1>4. Distinct(p)
  BY <1>1, <1>2, <1>3 DEF Distinct
<1>5. Elements(p) \subseteq Elements(q) \ {q[i]}
  BY <1>1, <1>2, <1>3 DEF Elements, Distinct
<1>6. ASSUME NEW x \in Elements(q)
      PROVE  x \in Elements(p) \/ x = q[i] \/ \E j \in 1 .. (i - 1) : q[j] = x
  <2>1. PICK k \in 1 .. n : x = q[k] BY <1>1, Zenon DEF Elements
  <2>2. CASE k > i
    <3> k - i \in 1 .. (n - i) /\ p[k - i] = q[k] BY <2>2, <1>1, <1>2
    <3> QED BY <2>1, <1>3, Zenon DEF Elements
  <2>3. CASE k < i
    <3> k \in 1 .. (i - 1) BY <2>3, <1>1
    <3> QED BY <2>1, Zenon
  <2> QED BY <2>1, <2>2, <2>3, <1>1
<1> QED BY <1>3, <1>4, <1>5, <1>6, Zenon

\* Reading the invariant at one channel.
LEMMA Known ==
    ASSUME IInv, NEW c \in Channels
    PROVE  /\ TypeOK
           /\ State(c) \in WaitForChannel
           /\ State(c).signal_waiters \in Seq(Requests)
           /\ State(c).lock_waiters \in Seq(Requests)
           /\ State(c).locked \in BOOLEAN
           /\ State(c).woken \in BOOLEAN
           /\ State(c).granted \in Requests \cup {NoWaiter}
           /\ ChannelOK(c)
BY StateType, Zenon DEF IInv, WaitForChannel

-----------------------------------------------------------------------------
\* The daemon starts in the invariant.
LEMMA InitIInv == Init => IInv
<1> SUFFICES ASSUME Init PROVE IInv
  BY Zenon
<1>1. TypeOK
  BY Zenon DEF Init, TypeOK, Statuses, Results
<1>2. \A c \in Channels : State(c) = DefaultChannel
  BY Zenon DEF Init, State
<1>3. ASSUME NEW c \in Channels PROVE ChannelOK(c)
  <2>1. /\ State(c).signal_waiters = <<>> /\ State(c).lock_waiters = <<>>
        /\ State(c).granted = NoWaiter /\ State(c).locked = FALSE /\ State(c).woken = FALSE
    BY <1>2 DEF DefaultChannel
  <2> QED BY <2>1, EmptyQueue, Zenon DEF Init, ChannelOK, QueueOK, GrantOK, LockOK
<1>4. \A r \in Requests : RequestOK(r)
  BY Zenon DEF Init, RequestOK
<1> QED BY <1>1, <1>3, <1>4, Zenon DEF IInv, Init

\* A channel keeps its part of the invariant while its queued and granted requests
\* stay on their way to their cleanup.
LEMMA Frame ==
    ASSUME IInv, NEW d \in Channels, State(d)' = State(d), holder'[d] = holder[d],
           UNCHANGED <<kind, chan>>,
           \A x \in Requests : chan[x] = d =>
              /\ wake'[x] = wake[x]
              /\ x \in Elements(State(d).signal_waiters) \cup Elements(State(d).lock_waiters)
                    => status'[x] \in {"waiting", "cleanup"}
              /\ x = State(d).granted => status'[x] \in {"waiting", "accepting", "cleanup"}
    PROVE  ChannelOK(d)'
<1>1. /\ Elements(State(d).signal_waiters) \subseteq Requests
      /\ Elements(State(d).lock_waiters) \subseteq Requests
      /\ State(d).granted \in Requests \cup {NoWaiter} /\ ChannelOK(d)
  BY Known, ElementsOf, Zenon
<1>2. QueueOK(State(d).signal_waiters, d, "Signal")'
  BY <1>1, Zenon DEF ChannelOK, QueueOK
<1>3. QueueOK(State(d).lock_waiters, d, "Lock")'
  BY <1>1, Zenon DEF ChannelOK, QueueOK
<1>4. GrantOK(d)'
  BY <1>1, Zenon DEF ChannelOK, GrantOK
<1> QED BY <1>1, <1>2, <1>3, <1>4, Zenon DEF ChannelOK, LockOK

\* A task's own step that leaves the store alone.
LEMMA TaskMove ==
    ASSUME IInv, NEW r \in Requests, TypeOK', UNCHANGED <<channels, kind, chan, wake, holder>>,
           \A x \in Requests : x # r => status'[x] = status[x] /\ rx_open'[x] = rx_open[x],
           r \in Elements(QueueOf(r)) => status'[r] \in {"waiting", "cleanup"},
           State(chan[r]).granted = r => status'[r] \in {"waiting", "accepting", "cleanup"},
           RequestOK(r)'
    PROVE  IInv'
<1>1. \A d \in Channels : State(d)' = State(d)
  BY Zenon DEF State
<1>2. ASSUME NEW d \in Channels PROVE ChannelOK(d)'
  <2>1. ASSUME NEW x \in Requests, chan[x] = d
        PROVE  /\ x \in Elements(State(d).signal_waiters) \cup Elements(State(d).lock_waiters)
                    => status'[x] \in {"waiting", "cleanup"}
               /\ x = State(d).granted => status'[x] \in {"waiting", "accepting", "cleanup"}
    BY <2>1, Known, NoWaiterAssumption DEF ChannelOK, QueueOK, GrantOK, QueueOf
  <2> QED BY <1>1, <2>1, Frame, Zenon
<1>3. \A x \in Requests : x # r => RequestOK(x)'
  BY <1>1, Zenon DEF IInv, TypeOK, RequestOK, QueueOf
<1> QED BY <1>2, <1>3, Zenon DEF IInv

\* A store method on channel c that leaves the requests of other channels alone.
LEMMA StoreStep ==
    ASSUME IInv, NEW c \in Channels, NEW t, ChannelsBecome(c, t), TypeOK',
           UNCHANGED <<kind, chan>>,
           \A x \in Requests : chan[x] # c => /\ status'[x] = status[x] /\ wake'[x] = wake[x]
                                              /\ rx_open'[x] = rx_open[x],
           \A d \in Channels : d # c => holder'[d] = holder[d],
           ChannelOK(c)',
           \A x \in Requests : chan[x] = c => RequestOK(x)'
    PROVE  IInv'
<1>1. ASSUME NEW d \in Channels, d # c PROVE ChannelOK(d)'
  <2>1. /\ Elements(State(d).signal_waiters) \subseteq Requests
        /\ Elements(State(d).lock_waiters) \subseteq Requests /\ ChannelOK(d)
    BY Known, ElementsOf, Zenon
  <2>2. ASSUME NEW x \in Requests, chan[x] = d
        PROVE  /\ wake'[x] = wake[x]
               /\ x \in Elements(State(d).signal_waiters) \cup Elements(State(d).lock_waiters)
                    => status'[x] \in {"waiting", "cleanup"}
               /\ x = State(d).granted => status'[x] \in {"waiting", "accepting", "cleanup"}
    BY <1>1, <2>1, <2>2, NoWaiterAssumption DEF ChannelOK, QueueOK, GrantOK, IInv, TypeOK
  <2>3. State(d)' = State(d) /\ holder'[d] = holder[d]
    BY <1>1, Zenon DEF ChannelsBecome
  <2> QED BY <2>2, <2>3, Frame, Zenon
<1>2. ASSUME NEW x \in Requests, chan[x] # c PROVE RequestOK(x)'
  BY <1>2, Zenon DEF IInv, TypeOK, RequestOK, QueueOf, ChannelsBecome
<1> QED BY <1>1, <1>2, Zenon DEF IInv, ChannelsBecome

\* What is known of a channel when one of its methods runs.
At(c, s) ==
    /\ s = State(c) /\ s \in WaitForChannel /\ TypeOK /\ ChannelOK(c)
    /\ s.signal_waiters \in Seq(Requests) /\ s.lock_waiters \in Seq(Requests)
    /\ s.granted \in Requests \cup {NoWaiter}
    /\ s.locked \in BOOLEAN /\ s.woken \in BOOLEAN
    /\ QueueOK(s.signal_waiters, c, "Signal") /\ QueueOK(s.lock_waiters, c, "Lock")
    /\ Elements(s.signal_waiters) \subseteq Requests /\ Elements(s.lock_waiters) \subseteq Requests

\* The invariant supplies all of it.
LEMMA AtState ==
    ASSUME IInv, NEW c \in Channels
    PROVE  \E s \in WaitForChannel : At(c, s)
<1>1. At(c, State(c))
  BY Known, ElementsOf, Zenon DEF At, ChannelOK
<1> QED BY <1>1, Known, Zenon

\* Registrations after shutdown answer at once.
LEMMA AfterShutdownStep ==
    ASSUME IInv, NEW r \in Requests, RegisterAfterShutdown(r)
    PROVE  IInv'
<1> USE DEF RegisterAfterShutdown, Finish
<1>1. TypeOK'
  BY Zenon DEF IInv, TypeOK, Statuses, Results
<1>2. r \notin Elements(QueueOf(r)) /\ State(chan[r]).granted # r
  <2>1. PICK d \in Channels : d = chan[r] BY Zenon DEF IInv, TypeOK
  <2>2. ChannelOK(d) BY Known, Zenon
  <2> QED BY <2>1, <2>2, NoWaiterAssumption, Zenon DEF ChannelOK, QueueOK, GrantOK, QueueOf
<1>3. RequestOK(r)'
  BY Zenon DEF RequestOK, IInv, TypeOK
<1> QED BY <1>1, <1>2, <1>3, TaskMove, Zenon DEF IInv, TypeOK

\* Registering for a signal consumes a remembered one or joins the queue.
LEMMA RegisterWaitStep ==
    ASSUME IInv, NEW r \in Requests, register_wait(r)
    PROVE  IInv'
<1>c. PICK c \in Channels : c = chan[r]
  BY Zenon DEF IInv, TypeOK
<1>p. PICK s \in WaitForChannel : At(c, s)
  BY AtState, Zenon
<1>0. /\ s = State(c) /\ TypeOK /\ ChannelOK(c)
      /\ s.signal_waiters \in Seq(Requests) /\ s.lock_waiters \in Seq(Requests)
      /\ s.granted \in Requests \cup {NoWaiter}
      /\ s.locked \in BOOLEAN /\ s.woken \in BOOLEAN
      /\ QueueOK(s.signal_waiters, c, "Signal") /\ QueueOK(s.lock_waiters, c, "Lock")
  BY <1>p, Zenon DEF At
<1>k. UNCHANGED <<shutting_down, kind, chan, wake, holder>> /\ status[r] = "start"
      /\ kind[r] = "Signal" /\ wake[r] = "none"
  BY Zenon DEF register_wait, IInv, RequestOK
<1>1. CASE s.woken /\ channels' = remove_idle_channel(c, [s EXCEPT !.woken = FALSE])
           /\ Finish(r, "ok") /\ UNCHANGED rx_open
  <2>1. PICK t \in WaitForChannel : t = [s EXCEPT !.woken = FALSE]
    BY <1>0, Zenon DEF WaitForChannel
  <2>2. ChannelsBecome(c, t) BY <1>0, <1>1, <2>1, IdleBecomes, Zenon
  <2>3. /\ State(c)' = t
        /\ t.signal_waiters = s.signal_waiters /\ t.lock_waiters = s.lock_waiters
        /\ t.granted = s.granted /\ t.locked = s.locked /\ t.woken = FALSE
    BY <1>0, <2>1, <2>2, Zenon DEF ChannelsBecome, WaitForChannel
  <2>4. TypeOK'
    BY <1>0, <1>1, <1>k, <2>2, Zenon DEF TypeOK, ChannelsBecome, Finish, Statuses, Results
  <2>5. ChannelOK(c)'
    BY <1>0, <1>1, <1>k, <2>3 DEF ChannelOK, QueueOK, GrantOK, LockOK, Finish, TypeOK
  <2>6. ASSUME NEW x \in Requests, chan[x] = c PROVE RequestOK(x)'
    BY <1>0, <1>1, <1>k, <2>3, <2>6, Zenon DEF IInv, RequestOK, TypeOK, Finish, QueueOf
  <2> QED BY <1>0, <1>1, <1>c, <1>k, <2>2, <2>4, <2>5, <2>6, StoreStep, Zenon DEF TypeOK, Finish
<1>2. CASE ~s.woken /\ channels' = Put(c, [s EXCEPT !.signal_waiters = Append(@, r)])
           /\ \E eof \in BOOLEAN : Enqueue(r, eof)
  <2>0. PICK q \in Seq(Requests) : /\ q = Append(s.signal_waiters, r) /\ q # <<>>
                                   /\ Elements(q) = Elements(s.signal_waiters) \cup {r}
                                   /\ Distinct(q)
    BY <1>0, <1>k, AppendQueue, Zenon DEF QueueOK
  <2>1. PICK t \in WaitForChannel : t = [s EXCEPT !.signal_waiters = q]
    BY <1>0, Zenon DEF WaitForChannel
  <2>2. t # DefaultChannel
    BY <1>0, <2>0, <2>1, Zenon DEF WaitForChannel, DefaultChannel
  <2>3. ChannelsBecome(c, t) BY <1>0, <1>2, <2>0, <2>1, <2>2, PutBecomes, Zenon
  <2>4. /\ State(c)' = t
        /\ t.signal_waiters = q /\ t.lock_waiters = s.lock_waiters
        /\ t.granted = s.granted /\ t.locked = s.locked /\ t.woken = s.woken
    BY <1>0, <2>1, <2>3, Zenon DEF ChannelsBecome, WaitForChannel
  <2>5. TypeOK'
    BY <1>0, <1>2, <1>k, <2>3, Zenon DEF TypeOK, ChannelsBecome, Enqueue, Statuses, Results
  <2>6. ChannelOK(c)'
    BY <1>0, <1>2, <1>c, <1>k, <2>0, <2>4
       DEF TypeOK, ChannelOK, QueueOK, GrantOK, LockOK, Enqueue
  <2>7. ASSUME NEW x \in Requests, chan[x] = c PROVE RequestOK(x)'
    BY <1>0, <1>2, <1>k, <2>0, <2>4, <2>7, ZenonT(30) DEF IInv, RequestOK, TypeOK, Enqueue, QueueOf
  <2> QED BY <1>0, <1>2, <1>c, <1>k, <2>3, <2>5, <2>6, <2>7, StoreStep, Zenon DEF TypeOK, Enqueue
<1> QED BY <1>c, <1>0, <1>1, <1>2, Zenon DEF register_wait

\* Registering for a lock takes a free one or joins the queue.
LEMMA RegisterLockStep ==
    ASSUME IInv, NEW r \in Requests, register_lock(r)
    PROVE  IInv'
<1>c. PICK c \in Channels : c = chan[r]
  BY Zenon DEF IInv, TypeOK
<1>p. PICK s \in WaitForChannel : At(c, s)
  BY AtState, Zenon
<1>0. /\ s = State(c) /\ TypeOK /\ ChannelOK(c)
      /\ s.signal_waiters \in Seq(Requests) /\ s.lock_waiters \in Seq(Requests)
      /\ s.granted \in Requests \cup {NoWaiter}
      /\ s.locked \in BOOLEAN /\ s.woken \in BOOLEAN
      /\ QueueOK(s.signal_waiters, c, "Signal") /\ QueueOK(s.lock_waiters, c, "Lock")
  BY <1>p, Zenon DEF At
<1>k. UNCHANGED <<shutting_down, kind, chan, wake>> /\ status[r] = "start"
      /\ kind[r] = "Lock" /\ wake[r] = "none"
  BY Zenon DEF register_lock, IInv, RequestOK
<1>1. CASE ~s.locked /\ channels' = Put(c, [s EXCEPT !.locked = TRUE])
           /\ Finish(r, "ok") /\ holder' = [holder EXCEPT ![c] = @ \cup {r}] /\ UNCHANGED rx_open
  <2>1. PICK t \in WaitForChannel : t = [s EXCEPT !.locked = TRUE]
    BY <1>0, Zenon DEF WaitForChannel
  <2>2. t # DefaultChannel
    BY <1>0, <2>1, Zenon DEF WaitForChannel, DefaultChannel
  <2>3. ChannelsBecome(c, t) BY <1>0, <1>1, <2>1, <2>2, PutBecomes, Zenon
  <2>4. /\ State(c)' = t
        /\ t.signal_waiters = s.signal_waiters /\ t.lock_waiters = s.lock_waiters
        /\ t.granted = s.granted /\ t.locked = TRUE /\ t.woken = s.woken
    BY <1>0, <2>1, <2>3, Zenon DEF ChannelsBecome, WaitForChannel
  <2>5. TypeOK'
    BY <1>0, <1>1, <1>k, <2>3, Zenon DEF TypeOK, ChannelsBecome, Finish, Statuses, Results
  <2>6. ChannelOK(c)'
    <3>1. holder[c] = {} /\ s.granted = NoWaiter /\ holder'[c] = {r}
      BY <1>0, <1>1, Zenon DEF ChannelOK, LockOK, TypeOK
    <3> QED BY <1>0, <1>1, <1>k, <2>4, <3>1 DEF ChannelOK, QueueOK, GrantOK, LockOK, Finish, TypeOK
  <2>7. ASSUME NEW x \in Requests, chan[x] = c PROVE RequestOK(x)'
    BY <1>0, <1>1, <1>k, <2>4, <2>7, Zenon DEF IInv, RequestOK, TypeOK, Finish, QueueOf
  <2> QED BY <1>0, <1>1, <1>c, <1>k, <2>3, <2>5, <2>6, <2>7, StoreStep, Zenon DEF TypeOK, Finish
<1>2. CASE s.locked /\ channels' = Put(c, [s EXCEPT !.lock_waiters = Append(@, r)])
           /\ (\E eof \in BOOLEAN : Enqueue(r, eof)) /\ UNCHANGED holder
  <2>0. PICK q \in Seq(Requests) : /\ q = Append(s.lock_waiters, r) /\ q # <<>>
                                   /\ Elements(q) = Elements(s.lock_waiters) \cup {r}
                                   /\ Distinct(q)
    BY <1>0, <1>k, AppendQueue, Zenon DEF QueueOK
  <2>1. PICK t \in WaitForChannel : t = [s EXCEPT !.lock_waiters = q]
    BY <1>0, Zenon DEF WaitForChannel
  <2>2. t # DefaultChannel
    BY <1>0, <2>0, <2>1, Zenon DEF WaitForChannel, DefaultChannel
  <2>3. ChannelsBecome(c, t) BY <1>0, <1>2, <2>0, <2>1, <2>2, PutBecomes, Zenon
  <2>4. /\ State(c)' = t
        /\ t.lock_waiters = q /\ t.signal_waiters = s.signal_waiters
        /\ t.granted = s.granted /\ t.locked = s.locked /\ t.woken = s.woken
    BY <1>0, <2>1, <2>3, Zenon DEF ChannelsBecome, WaitForChannel
  <2>5. TypeOK'
    BY <1>0, <1>2, <1>k, <2>3, Zenon DEF TypeOK, ChannelsBecome, Enqueue, Statuses, Results
  <2>6. ChannelOK(c)'
    BY <1>0, <1>2, <1>c, <1>k, <2>0, <2>4
       DEF TypeOK, ChannelOK, QueueOK, GrantOK, LockOK, Enqueue
  <2>7. ASSUME NEW x \in Requests, chan[x] = c PROVE RequestOK(x)'
    <3>1. CASE x = r
      BY <1>0, <1>2, <1>c, <1>k, <2>0, <2>4, <3>1, Zenon DEF RequestOK, TypeOK, Enqueue, QueueOf
    <3>2. CASE x # r
      <4>1. RequestOK(x) BY Zenon DEF IInv
      <4>2. status'[x] = status[x] /\ rx_open'[x] = rx_open[x] /\ wake'[x] = wake[x]
        BY <1>0, <1>2, <1>k, <3>2, Zenon DEF TypeOK, Enqueue
      <4>3. Elements(QueueOf(x)) \subseteq Elements(QueueOf(x)')
        BY <1>0, <1>k, <2>0, <2>4, <2>7, Zenon DEF QueueOf
      <4> QED BY <4>1, <4>2, <4>3, Zenon DEF RequestOK
    <3> QED BY <3>1, <3>2, Zenon
  <2> QED BY <1>0, <1>2, <1>c, <1>k, <2>3, <2>5, <2>6, <2>7, StoreStep, Zenon DEF TypeOK, Enqueue
<1> QED BY <1>c, <1>0, <1>1, <1>2, Zenon DEF register_lock

\* A signal is remembered when nobody waits, and otherwise wakes every waiter.
LEMMA SignalStep ==
    ASSUME IInv, NEW c \in Channels, signal(c)
    PROVE  IInv'
<1>0. PICK s \in WaitForChannel : At(c, s)
  BY AtState, Zenon
<1>k. UNCHANGED <<shutting_down, kind, chan, holder, status, result, rx_open>>
  BY Zenon DEF signal, requestVars
<1>1. CASE s.signal_waiters = <<>> /\ ~s.woken /\ wake' = wake
           /\ channels' = Put(c, [s EXCEPT !.woken = TRUE])
  <2>1. PICK t \in WaitForChannel : t = [s EXCEPT !.woken = TRUE]
    BY Zenon DEF WaitForChannel
  <2>2. t # DefaultChannel
    BY <2>1, Zenon DEF WaitForChannel, DefaultChannel
  <2>3. ChannelsBecome(c, t) BY <1>1, <2>1, <2>2, PutBecomes, Zenon
  <2>4. /\ State(c)' = t
        /\ t.signal_waiters = s.signal_waiters /\ t.lock_waiters = s.lock_waiters
        /\ t.granted = s.granted /\ t.locked = s.locked /\ t.woken = TRUE
    BY <2>1, <2>3, Zenon DEF ChannelsBecome, WaitForChannel
  <2>5. TypeOK'
    BY <1>0, <1>1, <1>k, <2>3, Zenon DEF At, TypeOK, ChannelsBecome
  <2>6. ChannelOK(c)'
    BY <1>0, <1>1, <1>k, <2>4 DEF At, ChannelOK, QueueOK, GrantOK, LockOK
  <2>7. ASSUME NEW x \in Requests, chan[x] = c PROVE RequestOK(x)'
    BY <1>0, <1>1, <1>k, <2>4, <2>7, Zenon DEF At, IInv, RequestOK, QueueOf
  <2> QED BY <1>1, <1>k, <2>3, <2>5, <2>6, <2>7, StoreStep, Zenon
<1>2. CASE channels' = remove_idle_channel(c, [s EXCEPT !.signal_waiters = <<>>])
           /\ wake' = Send(Elements(s.signal_waiters), "Ready")
  <2>1. PICK t \in WaitForChannel : t = [s EXCEPT !.signal_waiters = <<>>]
    BY EmptyQueue, Zenon DEF WaitForChannel
  <2>3. ChannelsBecome(c, t) BY <1>2, <2>1, IdleBecomes, Zenon
  <2>4. /\ State(c)' = t
        /\ t.signal_waiters = <<>> /\ t.lock_waiters = s.lock_waiters
        /\ t.granted = s.granted /\ t.locked = s.locked /\ t.woken = s.woken
    BY <2>1, <2>3, Zenon DEF ChannelsBecome, WaitForChannel
  <2>w. wake' = Send(Elements(s.signal_waiters), "Ready")
    BY <1>2, Zenon
  <2>a. \A x \in Requests : wake'[x] = IF x \in Elements(s.signal_waiters) /\ rx_open[x]
                                       THEN "Ready" ELSE wake[x]
    BY <2>w, Zenon DEF Send
  <2>b. wake' \in [Requests -> {"none", "Ready", "Shutdown"}]
    BY <1>0, <2>w, Zenon DEF At, TypeOK, Send
  <2>5. TypeOK'
    BY <1>0, <1>k, <2>b, <2>3, Zenon DEF At, TypeOK, ChannelsBecome
  <2>6. ChannelOK(c)'
    <3>1. QueueOK(t.lock_waiters, c, "Lock")'
      BY <1>0, <1>k, <2>4, <2>a DEF At, QueueOK
    <3>2. GrantOK(c)'
      BY <1>0, <1>k, <2>4, <2>a, Zenon DEF At, ChannelOK, GrantOK
    <3>3. QueueOK(t.signal_waiters, c, "Signal")'
      BY <2>4, EmptyQueue, Zenon DEF QueueOK
    <3> QED BY <1>0, <1>k, <2>4, <3>1, <3>2, <3>3, Zenon DEF At, ChannelOK, LockOK
  <2>7. ASSUME NEW x \in Requests, chan[x] = c PROVE RequestOK(x)'
    BY <1>0, <1>k, <2>4, <2>7, <2>a DEF At, QueueOK, IInv, RequestOK, QueueOf
  <2>8. \A x \in Requests : chan[x] # c => wake'[x] = wake[x]
    BY <1>0, <2>a, Zenon DEF At, QueueOK
  <2> QED BY <1>k, <2>3, <2>5, <2>6, <2>7, <2>8, StoreStep, Zenon
<1> QED BY <1>0, <1>1, <1>2, Zenon DEF signal, At

\* Handing the lock of c to the next live waiter, or unlocking it: the step shared by
\* unlock and by a cancelled grant.  At most one request leaves: the granted one.
LEMMA GrantStep ==
    ASSUME IInv, NEW c \in Channels, NEW s, At(c, s), GrantNextOrUnlock(c, s),
           UNCHANGED <<shutting_down, kind, chan>>,
           status' \in [Requests -> Statuses], result' \in [Requests -> Results],
           rx_open' \in [Requests -> BOOLEAN], holder' \in [Channels -> SUBSET Requests],
           holder'[c] = {}, \A d \in Channels : d # c => holder'[d] = holder[d],
           \A x \in Requests :
              \/ status'[x] = status[x] /\ rx_open'[x] = rx_open[x]
              \/ /\ status'[x] = "done" /\ chan[x] = c
                 /\ x \notin Elements(s.signal_waiters) \cup Elements(s.lock_waiters)
    PROVE  IInv'
<1>0. PICK q \in Seq(Requests) : /\ q = s.lock_waiters /\ Distinct(q)
                                 /\ QueueOK(q, c, "Lock") /\ Elements(q) \subseteq Requests
  BY Zenon DEF At, QueueOK
<1>s. s \in WaitForChannel /\ s = State(c)
  BY Zenon DEF At
<1>r. \A x \in Requests : /\ status[x] = "start" => wake[x] = "none"
                          /\ status[x] = "waiting" => rx_open[x]
                          /\ status[x] = "waiting" => wake[x] # "none" \/ x \in Elements(QueueOf(x))
  BY Zenon DEF IInv, RequestOK
<1>1. CASE \E i \in 1 .. Len(q) :
            /\ rx_open[q[i]]
            /\ \A j \in 1 .. (i - 1) : ~rx_open[q[j]]
            /\ channels' = Put(c, [s EXCEPT !.lock_waiters = After(q, i),
                                            !.locked = TRUE, !.granted = q[i]])
            /\ wake' = Send({q[i]}, "Ready")
  <2>1. PICK i \in 1 .. Len(q) :
            /\ rx_open[q[i]]
            /\ \A j \in 1 .. (i - 1) : ~rx_open[q[j]]
            /\ channels' = Put(c, [s EXCEPT !.lock_waiters = After(q, i),
                                            !.locked = TRUE, !.granted = q[i]])
            /\ wake' = Send({q[i]}, "Ready")
    BY <1>1, Zenon
  <2>g. PICK g \in Requests : g = q[i] /\ g \in Elements(q)
    BY ElementsOf, <1>0, Zenon
  <2>p. PICK p \in Seq(Requests) :
            /\ p = After(q, i) /\ Distinct(p) /\ Elements(p) \subseteq Elements(q) \ {g}
            /\ \A x \in Elements(q) : x \in Elements(p) \/ x = g \/ ~rx_open[x]
    BY <1>0, <2>1, <2>g, AfterQueue
  <2>2. PICK t \in WaitForChannel : t = [s EXCEPT !.lock_waiters = p, !.locked = TRUE, !.granted = g]
    BY <1>s, Zenon DEF WaitForChannel
  <2>3. t # DefaultChannel
    BY <1>s, <2>2, Zenon DEF WaitForChannel, DefaultChannel
  <2>4. ChannelsBecome(c, t)
    BY <2>1, <2>g, <2>p, <2>2, <2>3, PutBecomes, Zenon
  <2>5. /\ State(c)' = t
        /\ t.signal_waiters = s.signal_waiters /\ t.lock_waiters = p
        /\ t.granted = g /\ t.locked = TRUE /\ t.woken = s.woken
    BY <1>s, <2>2, <2>4, Zenon DEF ChannelsBecome, WaitForChannel
  <2>6. \A x \in Requests : wake'[x] = IF x = g THEN "Ready" ELSE wake[x]
    BY <2>1, <2>g, Zenon DEF Send
  <2>7. TypeOK'
    BY <2>1, <2>4, SMTT(30) DEF IInv, TypeOK, ChannelsBecome, Send
  <2>8. ChannelOK(c)'
    <3>1. QueueOK(t.signal_waiters, c, "Signal")'
      BY <1>0, <2>5, <2>6, <2>g, SMTT(30) DEF At, QueueOK
    <3>2. QueueOK(t.lock_waiters, c, "Lock")'
      BY <1>0, <2>5, <2>6, <2>p, SMTT(30) DEF At, QueueOK
    <3>3. GrantOK(c)'
      BY <1>0, <2>5, <2>6, <2>g DEF QueueOK, GrantOK
    <3> QED BY <2>5, <2>g, <3>1, <3>2, <3>3, NoWaiterAssumption, SMTT(30) DEF At, ChannelOK, LockOK
  <2>9. ASSUME NEW x \in Requests, chan[x] = c PROVE RequestOK(x)'
    <3>1. status'[x] = "waiting" => wake'[x] # "none" \/ x \in Elements(QueueOf(x)')
      BY <1>0, <1>r, <1>s, <2>5, <2>6, <2>9, <2>p, SMTT(30) DEF QueueOf
    <3>2. status'[x] = "start" => wake'[x] = "none"
      BY <1>0, <1>r, <2>6, <2>g, SMTT(30) DEF QueueOK
    <3> QED BY <1>r, <3>1, <3>2, SMTT(30) DEF RequestOK
  <2> QED BY <1>0, <2>4, <2>6, <2>7, <2>8, <2>9, <2>g, StoreStep DEF QueueOK
<1>2. CASE /\ \A i \in 1 .. Len(q) : ~rx_open[q[i]]
           /\ channels' = remove_idle_channel(c, [s EXCEPT !.lock_waiters = <<>>,
                                                  !.locked = FALSE, !.granted = NoWaiter])
           /\ wake' = wake
  <2>1. \A x \in Elements(q) : ~rx_open[x]
    BY <1>2, ElementsOf
  <2>2. PICK t \in WaitForChannel :
            t = [s EXCEPT !.lock_waiters = <<>>, !.locked = FALSE, !.granted = NoWaiter]
    BY <1>s, EmptyQueue, Zenon DEF WaitForChannel
  <2>4. ChannelsBecome(c, t)
    BY <1>2, <2>2, IdleBecomes, Zenon
  <2>5. /\ State(c)' = t
        /\ t.signal_waiters = s.signal_waiters /\ t.lock_waiters = <<>>
        /\ t.granted = NoWaiter /\ t.locked = FALSE /\ t.woken = s.woken
    BY <1>s, <2>2, <2>4, Zenon DEF ChannelsBecome, WaitForChannel
  <2>7. TypeOK'
    BY <1>2, <2>4, SMTT(30) DEF IInv, TypeOK, ChannelsBecome
  <2>8. ChannelOK(c)'
    <3>1. QueueOK(t.signal_waiters, c, "Signal")'
      BY <1>2, <2>5, SMTT(30) DEF At, QueueOK
    <3>2. QueueOK(t.lock_waiters, c, "Lock")'
      BY <2>5, EmptyQueue, Zenon DEF QueueOK
    <3> QED BY <2>5, <3>1, <3>2, Zenon DEF At, ChannelOK, LockOK, GrantOK
  <2>9. ASSUME NEW x \in Requests, chan[x] = c PROVE RequestOK(x)'
    <3>1. status'[x] = "waiting" => wake'[x] # "none" \/ x \in Elements(QueueOf(x)')
      BY <1>0, <1>2, <1>r, <1>s, <2>1, <2>5, <2>9, Zenon DEF QueueOf
    <3> QED BY <1>2, <1>r, <3>1, Zenon DEF RequestOK
  <2> QED BY <1>2, <2>4, <2>7, <2>8, <2>9, StoreStep, Zenon
<1> QED BY <1>0, <1>1, <1>2, Zenon DEF GrantNextOrUnlock

\* wait-for -U hands the lock on or frees it.
LEMMA UnlockStep ==
    ASSUME IInv, NEW c \in Channels, unlock(c)
    PROVE  IInv'
<1>0. PICK s \in WaitForChannel : At(c, s)
  BY AtState, Zenon
<1>1. GrantNextOrUnlock(c, s)
  BY <1>0, Zenon DEF unlock, At
<1>2. /\ UNCHANGED <<shutting_down, kind, chan, status, result, rx_open>>
      /\ holder' = [holder EXCEPT ![c] = {}]
  BY Zenon DEF unlock, requestVars
<1>3. TypeOK BY Zenon DEF IInv
<1>4. /\ holder' \in [Channels -> SUBSET Requests] /\ holder'[c] = {}
      /\ \A d \in Channels : d # c => holder'[d] = holder[d]
  BY <1>2, <1>3, Zenon DEF TypeOK
<1>5. /\ status' \in [Requests -> Statuses] /\ result' \in [Requests -> Results]
      /\ rx_open' \in [Requests -> BOOLEAN]
  BY <1>2, <1>3, Zenon DEF TypeOK
<1> QED BY <1>0, <1>1, <1>2, <1>4, <1>5, GrantStep, Zenon

\* A task that reads its oneshot is no longer in any queue.
LEMMA ReceiveWakeStep ==
    ASSUME IInv, NEW r \in Requests, ReceiveWake(r)
    PROVE  IInv'
<1>c. PICK c \in Channels : c = chan[r]
  BY Zenon DEF IInv, TypeOK
<1>0. PICK s \in WaitForChannel : At(c, s)
  BY AtState, Zenon
<1>k. /\ UNCHANGED <<channels, shutting_down, kind, chan, wake, holder>>
      /\ status[r] = "waiting" /\ wake[r] # "none"
      /\ rx_open' = [rx_open EXCEPT ![r] = FALSE]
  BY Zenon DEF ReceiveWake
<1>1. r \notin Elements(QueueOf(r))
  BY <1>0, <1>c, <1>k, Zenon DEF At, QueueOK, QueueOf
<1>2. /\ status' \in [Requests -> Statuses] /\ status'[r] \in {"done", "accepting", "cleanup"}
      /\ \A x \in Requests : x # r => status'[x] = status[x]
  BY DEF IInv, TypeOK, ReceiveWake, Finish, Statuses
<1>3. result' \in [Requests -> Results]
  BY Zenon DEF IInv, TypeOK, ReceiveWake, Finish, Results
<1>4. State(chan[r]).granted = r => status'[r] \in {"accepting", "cleanup"}
  <2>1. State(c).granted = r => kind[r] = "Lock" /\ wake[r] = "Ready"
    BY <1>0, NoWaiterAssumption, Zenon DEF At, ChannelOK, GrantOK
  <2> QED BY <1>c, <2>1, Zenon DEF ReceiveWake, IInv, TypeOK
<1>5. TypeOK'
  BY <1>k, <1>2, <1>3, Zenon DEF IInv, TypeOK
<1>6. RequestOK(r)'
  BY <1>2, Zenon DEF RequestOK
<1>7. \A x \in Requests : x # r => status'[x] = status[x] /\ rx_open'[x] = rx_open[x]
  BY <1>2, <1>k, Zenon DEF IInv, TypeOK
<1> QED BY <1>k, <1>1, <1>4, <1>5, <1>6, <1>7, TaskMove, Zenon

\* A cancelled task keeps its place in the queue until its guard runs.
LEMMA AbandonStep ==
    ASSUME IInv, NEW r \in Requests, Abandon(r)
    PROVE  IInv'
<1>k. /\ UNCHANGED <<channels, shutting_down, kind, chan, wake, holder>>
      /\ status' = [status EXCEPT ![r] = "cleanup"]
      /\ rx_open' = [rx_open EXCEPT ![r] = FALSE]
      /\ result' = [result EXCEPT ![r] = "cancelled"]
  BY Zenon DEF Abandon
<1>5. TypeOK'
  BY <1>k, Zenon DEF IInv, TypeOK, Statuses, Results
<1>7. /\ \A x \in Requests : x # r => status'[x] = status[x] /\ rx_open'[x] = rx_open[x]
      /\ status'[r] = "cleanup"
  BY <1>k, Zenon DEF IInv, TypeOK
<1>6. RequestOK(r)'
  BY <1>7, Zenon DEF RequestOK
<1> QED BY <1>k, <1>5, <1>6, <1>7, TaskMove, Zenon

\* Accepting turns the grant into ownership; a grant that is gone is reported.
LEMMA AcceptStep ==
    ASSUME IInv, NEW r \in Requests, accept_lock(r)
    PROVE  IInv'
<1>c. PICK c \in Channels : c = chan[r]
  BY Zenon DEF IInv, TypeOK
<1>0. PICK s \in WaitForChannel : At(c, s)
  BY AtState, Zenon
<1>k. /\ UNCHANGED <<shutting_down, kind, chan, wake, rx_open>>
      /\ status[r] = "accepting"
  BY Zenon DEF accept_lock
<1>1. CASE s.granted = r /\ channels' = Put(c, [s EXCEPT !.granted = NoWaiter])
           /\ holder' = [holder EXCEPT ![c] = @ \cup {r}] /\ Finish(r, "ok")
  <2>0. holder[c] = {} /\ s.locked
    BY <1>0, <1>1, NoWaiterAssumption, Zenon DEF At, ChannelOK, GrantOK, LockOK
  <2>1. PICK t \in WaitForChannel : t = [s EXCEPT !.granted = NoWaiter]
    BY Zenon DEF WaitForChannel
  <2>2. t # DefaultChannel
    BY <2>0, <2>1, Zenon DEF WaitForChannel, DefaultChannel
  <2>3. ChannelsBecome(c, t) BY <1>1, <2>1, <2>2, PutBecomes, Zenon
  <2>4. /\ State(c)' = t
        /\ t.signal_waiters = s.signal_waiters /\ t.lock_waiters = s.lock_waiters
        /\ t.granted = NoWaiter /\ t.locked = s.locked /\ t.woken = s.woken
    BY <2>1, <2>3, Zenon DEF ChannelsBecome, WaitForChannel
  <2>5. TypeOK'
    BY <1>1, <1>k, <2>3, SMTT(30) DEF IInv, TypeOK, ChannelsBecome, Finish, Statuses, Results
  <2>a. /\ status'[r] = "done" /\ \A x \in Requests : x # r => status'[x] = status[x]
        /\ holder'[c] = {r} /\ \A d \in Channels : d # c => holder'[d] = holder[d]
    BY <1>1, <2>0, Zenon DEF IInv, TypeOK, Finish
  <2>6. ChannelOK(c)'
    <3>1. r \notin Elements(s.signal_waiters) \cup Elements(s.lock_waiters)
      BY <1>0, <1>k, SMTT(30) DEF At, QueueOK
    <3>2. QueueOK(t.signal_waiters, c, "Signal")'
      BY <1>0, <1>k, <2>4, <2>a, <3>1 DEF At, QueueOK
    <3>3. QueueOK(t.lock_waiters, c, "Lock")'
      BY <1>0, <1>k, <2>4, <2>a, <3>1 DEF At, QueueOK
    <3> QED BY <1>0, <2>0, <2>4, <2>a, <3>2, <3>3, SMTT(30) DEF At, ChannelOK, GrantOK, LockOK
  <2>7. ASSUME NEW x \in Requests, chan[x] = c PROVE RequestOK(x)'
    BY <1>0, <1>k, <2>4, <2>7, <2>a, SMTT(30) DEF At, IInv, RequestOK, QueueOf
  <2> QED BY <1>c, <1>k, <2>3, <2>5, <2>6, <2>7, <2>a, StoreStep, Zenon
<1>2. CASE /\ s.granted # r /\ UNCHANGED <<channels, holder>>
           /\ status' = [status EXCEPT ![r] = "cleanup"]
           /\ result' = [result EXCEPT ![r] = "grant_cancelled"]
  <2>5. TypeOK'
    BY <1>2, <1>k, Zenon DEF IInv, TypeOK, Statuses, Results
  <2>7. /\ \A x \in Requests : x # r => status'[x] = status[x] /\ rx_open'[x] = rx_open[x]
        /\ status'[r] = "cleanup"
    BY <1>2, <1>k, Zenon DEF IInv, TypeOK
  <2>6. RequestOK(r)'
    BY <2>7, Zenon DEF RequestOK
  <2> QED BY <1>2, <1>k, <2>5, <2>6, <2>7, TaskMove, Zenon
<1> QED BY <1>c, <1>0, <1>1, <1>2, Zenon DEF accept_lock, At

\* The guard takes its waiter out of the queue, passes on an unaccepted grant, or
\* finds that neither is there.
LEMMA CleanupStep ==
    ASSUME IInv, NEW r \in Requests, DropCleanupGuard(r)
    PROVE  IInv'
<1>c. PICK c \in Channels : c = chan[r]
  BY Zenon DEF IInv, TypeOK
<1>0. PICK s \in WaitForChannel : At(c, s)
  BY AtState, Zenon
<1>k. UNCHANGED <<shutting_down, kind, chan, result, holder>> /\ status[r] = "cleanup"
  BY Zenon DEF DropCleanupGuard
<1>a. \/ kind[r] = "Signal" /\ CancelSignalWaiter(c, s, r)
      \/ kind[r] = "Lock" /\ CancelLockWaiter(c, s, r)
  BY <1>0, <1>c, Zenon DEF DropCleanupGuard, At
<1>b. /\ status' \in [Requests -> Statuses] /\ rx_open' \in [Requests -> BOOLEAN]
      /\ status'[r] = "done"
      /\ \A x \in Requests : x # r => status'[x] = status[x] /\ rx_open'[x] = rx_open[x]
  BY Zenon DEF IInv, TypeOK, DropCleanupGuard, Statuses
<1>d. RequestOK(r)'
  BY <1>b, Zenon DEF RequestOK
<1>1. CASE kind[r] = "Signal" /\ r \in Elements(s.signal_waiters)
  <2>1. PICK q \in Seq(Requests) : q = s.signal_waiters /\ Distinct(q) /\ Elements(q) \subseteq Requests
    BY <1>0, Zenon DEF At, QueueOK
  <2>2. PICK i \in 1 .. Len(q) :
            /\ q[i] = r /\ wake' = wake
            /\ channels' = remove_idle_channel(c, [s EXCEPT !.signal_waiters = remove_waiter(q, i)])
    BY <1>1, <1>a, <2>1, Zenon DEF CancelSignalWaiter
  <2>w. wake' = wake
    BY <2>2, Zenon
  <2>3. PICK p \in Seq(Requests) :
            p = remove_waiter(q, i) /\ Distinct(p) /\ Elements(p) = Elements(q) \ {r}
    BY <2>1, <2>2, RemoveWaiter, Zenon
  <2>4. PICK t \in WaitForChannel : t = [s EXCEPT !.signal_waiters = p]
    BY Zenon DEF WaitForChannel
  <2>5. ChannelsBecome(c, t) BY <2>2, <2>3, <2>4, IdleBecomes, Zenon
  <2>6. /\ State(c)' = t
        /\ t.signal_waiters = p /\ t.lock_waiters = s.lock_waiters
        /\ t.granted = s.granted /\ t.locked = s.locked /\ t.woken = s.woken
    BY <2>4, <2>5, Zenon DEF ChannelsBecome, WaitForChannel
  <2>7. TypeOK'
    BY <1>k, <1>b, <2>w, <2>5, Zenon DEF IInv, TypeOK, ChannelsBecome
  <2>8. ChannelOK(c)'
    <3>1. QueueOK(t.signal_waiters, c, "Signal")'
      BY <1>0, <1>b, <1>k, <1>1, <2>1, <2>w, <2>3, <2>6, SMTT(30) DEF At, QueueOK
    <3>2. QueueOK(t.lock_waiters, c, "Lock")'
      BY <1>0, <1>b, <1>k, <1>1, <2>1, <2>w, <2>3, <2>6, Zenon DEF At, QueueOK
    <3>3. s.granted # r
      BY <1>0, <1>1, NoWaiterAssumption, SMTT(30) DEF At, QueueOK, ChannelOK, GrantOK
    <3>4. GrantOK(c)'
      BY <1>0, <1>b, <1>k, <2>w, <2>6, <3>3, Zenon DEF At, ChannelOK, GrantOK
    <3>5. p # <<>> => s.signal_waiters # <<>>
      BY SMTT(30), <2>1, <2>3, ElementsOf
    <3> QED BY <1>0, <1>k, <2>6, <3>1, <3>2, <3>4, <3>5, Zenon DEF At, ChannelOK, LockOK
  <2>9. ASSUME NEW x \in Requests, chan[x] = c PROVE RequestOK(x)'
    BY <1>0, <1>b, <1>k, <2>1, <2>w, <2>3, <2>6, <2>9, Zenon DEF At, IInv, RequestOK, QueueOf
  <2> QED BY <1>b, <1>c, <1>k, <2>w, <2>5, <2>7, <2>8, <2>9, StoreStep, Zenon
<1>2. CASE kind[r] = "Lock" /\ r \in Elements(s.lock_waiters)
  <2>1. PICK q \in Seq(Requests) : q = s.lock_waiters /\ Distinct(q) /\ Elements(q) \subseteq Requests
    BY <1>0, Zenon DEF At, QueueOK
  <2>2. PICK i \in 1 .. Len(q) :
            /\ q[i] = r /\ wake' = wake
            /\ channels' = remove_idle_channel(c, [s EXCEPT !.lock_waiters = remove_waiter(q, i)])
    BY <1>2, <1>a, <2>1, Zenon DEF CancelLockWaiter
  <2>w. wake' = wake
    BY <2>2, Zenon
  <2>3. PICK p \in Seq(Requests) :
            p = remove_waiter(q, i) /\ Distinct(p) /\ Elements(p) = Elements(q) \ {r}
    BY <2>1, <2>2, RemoveWaiter, Zenon
  <2>4. PICK t \in WaitForChannel : t = [s EXCEPT !.lock_waiters = p]
    BY Zenon DEF WaitForChannel
  <2>5. ChannelsBecome(c, t) BY SMTT(30), <2>2, <2>3, <2>4, IdleBecomes
  <2>6. /\ State(c)' = t
        /\ t.lock_waiters = p /\ t.signal_waiters = s.signal_waiters
        /\ t.granted = s.granted /\ t.locked = s.locked /\ t.woken = s.woken
    BY <2>4, <2>5, Zenon DEF ChannelsBecome, WaitForChannel
  <2>7. TypeOK'
    BY <1>k, <1>b, <2>w, <2>5, Zenon DEF IInv, TypeOK, ChannelsBecome
  <2>8. ChannelOK(c)'
    <3>1. QueueOK(t.signal_waiters, c, "Signal")'
      BY <1>0, <1>b, <1>k, <1>2, <2>1, <2>w, <2>3, <2>6, SMTT(30) DEF At, QueueOK
    <3>2. QueueOK(t.lock_waiters, c, "Lock")'
      BY <1>0, <1>b, <1>k, <1>2, <2>1, <2>w, <2>3, <2>6, SMTT(30) DEF At, QueueOK
    <3>3. s.granted # r
      BY <1>0, <1>2, NoWaiterAssumption, SMTT(30) DEF At, QueueOK, ChannelOK, GrantOK
    <3>4. GrantOK(c)'
      BY <1>0, <1>b, <1>k, <2>w, <2>6, <3>3, SMTT(30) DEF At, ChannelOK, GrantOK
    <3>5. p # <<>> => s.lock_waiters # <<>>
      BY SMTT(30), <2>1, <2>3, ElementsOf
    <3> QED BY <1>0, <1>k, <2>6, <3>1, <3>2, <3>4, <3>5, SMTT(30) DEF At, ChannelOK, LockOK
  <2>9. ASSUME NEW x \in Requests, chan[x] = c PROVE RequestOK(x)'
    BY <1>0, <1>b, <1>k, <2>1, <2>w, <2>3, <2>6, <2>9, SMTT(30) DEF At, IInv, RequestOK, QueueOf
  <2> QED BY <1>b, <1>c, <1>k, <2>w, <2>5, <2>7, <2>8, <2>9, StoreStep, Zenon
<1>3. CASE kind[r] = "Lock" /\ r \notin Elements(s.lock_waiters) /\ s.granted = r
  <2>0. PICK q \in Seq(Requests) : q = s.lock_waiters
    BY <1>0, Zenon DEF At
  <2>1. \A i \in 1 .. Len(q) : q[i] # r
    BY <1>3, <2>0, ElementsOf, Zenon
  <2>2. GrantNextOrUnlock(c, s)
    BY <1>3, <1>a, <2>0, <2>1, Zenon DEF CancelLockWaiter
  <2>3. r \notin Elements(s.signal_waiters)
    BY <1>0, <1>3, Zenon DEF At, QueueOK
  <2>4. holder[c] = {}
    BY <1>0, <1>3, NoWaiterAssumption, Zenon DEF At, ChannelOK, GrantOK
  <2>5. result' \in [Requests -> Results] /\ holder' \in [Channels -> SUBSET Requests]
    BY <1>k, Zenon DEF IInv, TypeOK
  <2>6. \A x \in Requests :
              \/ status'[x] = status[x] /\ rx_open'[x] = rx_open[x]
              \/ /\ status'[x] = "done" /\ chan[x] = c
                 /\ x \notin Elements(s.signal_waiters) \cup Elements(s.lock_waiters)
    BY <1>3, <1>b, <1>c, <2>3, Zenon
  <2> QED BY <1>0, <1>b, <1>k, <2>2, <2>4, <2>5, <2>6, GrantStep, Zenon
<1>4. CASE /\ kind[r] = "Signal" => r \notin Elements(s.signal_waiters)
           /\ kind[r] = "Lock" => r \notin Elements(s.lock_waiters) /\ s.granted # r
  <2>0. PICK p, q \in Seq(Requests) : p = s.signal_waiters /\ q = s.lock_waiters
    BY <1>0, Zenon DEF At
  <2>1. /\ kind[r] = "Signal" => \A i \in 1 .. Len(p) : p[i] # r
        /\ kind[r] = "Lock" => \A i \in 1 .. Len(q) : q[i] # r
    BY <1>4, <2>0, ElementsOf
  <2>2. UNCHANGED <<channels, wake>>
    BY <1>4, <1>a, <2>0, <2>1, Zenon DEF CancelSignalWaiter, CancelLockWaiter
  <2>3. s.granted # r
    BY <1>0, <1>4, <1>a, NoWaiterAssumption, SMTT(30) DEF At, ChannelOK, GrantOK
  <2>4. r \notin Elements(QueueOf(r)) /\ State(chan[r]).granted # r
    BY <1>0, <1>4, <1>a, <1>c, <2>3, Zenon DEF At, QueueOf
  <2>5. TypeOK'
    BY <1>b, <1>k, <2>2, Zenon DEF IInv, TypeOK
  <2> QED BY <1>b, <1>d, <1>k, <2>2, <2>4, <2>5, TaskMove, Zenon
<1> QED BY <1>1, <1>2, <1>3, <1>4, <1>a, Zenon

\* Shutdown empties the map; every sleeper it removes has been sent Shutdown.
LEMMA ShutdownStep ==
    ASSUME IInv, shutdown
    PROVE  IInv'
<1>0. /\ channels' = [c \in {} |-> DefaultChannel] /\ holder' = [c \in Channels |-> {}]
      /\ wake' = Send(Queued, "Shutdown") /\ shutting_down' = TRUE
      /\ UNCHANGED <<kind, chan, status, result, rx_open>>
  BY Zenon DEF shutdown, requestVars
<1>1. \A c \in Channels : State(c)' = DefaultChannel
  BY <1>0, Zenon DEF State
<1>2. \A x \in Requests : wake'[x] = IF x \in Queued /\ rx_open[x] THEN "Shutdown" ELSE wake[x]
  BY <1>0, Zenon DEF Send
<1>3. TypeOK'
  BY <1>0, Zenon DEF IInv, TypeOK, Send
<1>4. ASSUME NEW c \in Channels PROVE ChannelOK(c)'
  <2>1. /\ DefaultChannel.signal_waiters = <<>> /\ DefaultChannel.lock_waiters = <<>>
        /\ DefaultChannel.granted = NoWaiter /\ DefaultChannel.locked = FALSE
        /\ DefaultChannel.woken = FALSE
    BY Zenon DEF DefaultChannel
  <2>2. holder'[c] = {} BY <1>0, Zenon
  <2> QED BY <1>1, <2>1, <2>2, EmptyQueue, Zenon DEF ChannelOK, QueueOK, GrantOK, LockOK
<1>5. ASSUME NEW x \in Requests, x \in Elements(QueueOf(x)) PROVE x \in Queued
  <2>1. PICK c \in Channels : c = chan[x] BY Zenon DEF IInv, TypeOK
  <2>2. c \in DOMAIN channels
    <3> SUFFICES ASSUME c \notin DOMAIN channels PROVE FALSE BY Zenon
    <3>1. QueueOf(x) = <<>> BY <2>1, Zenon DEF QueueOf, State, DefaultChannel
    <3> QED BY <1>5, <3>1, EmptyQueue, Zenon
  <2> QED BY <1>5, <2>1, <2>2 DEF Queued, QueueOf, State
<1>6. ASSUME NEW x \in Queued, x \in Requests PROVE status[x] # "start"
  <2>1. PICK c \in DOMAIN channels :
           x \in Elements(channels[c].signal_waiters) \cup Elements(channels[c].lock_waiters)
    BY Zenon DEF Queued
  <2>2. c \in Channels /\ State(c) = channels[c] BY SMTT(30) DEF IInv, TypeOK, State
  <2> QED BY <2>1, <2>2, Known, Zenon DEF ChannelOK, QueueOK
<1>7. ASSUME NEW x \in Requests PROVE RequestOK(x)'
  BY <1>0, <1>2, <1>5, <1>6, Zenon DEF IInv, RequestOK
<1> QED BY <1>0, <1>3, <1>4, <1>7, Zenon DEF IInv

-----------------------------------------------------------------------------
\* Every step of the store and of its request tasks preserves the invariant.
LEMMA NextIInv == IInv /\ [Next]_vars => IInv'
<1> SUFFICES ASSUME IInv, [Next]_vars PROVE IInv'
  BY Zenon
<1>1. ASSUME NEW r \in Requests, RequestNext(r) PROVE IInv'
  BY Zenon, <1>1, AfterShutdownStep, RegisterWaitStep, RegisterLockStep, AbandonStep,
     ReceiveWakeStep, AcceptStep, CleanupStep DEF RequestNext, TaskStep
<1>2. ASSUME NEW c \in Channels, signal(c) \/ unlock(c) PROVE IInv'
  BY SMTT(30), <1>2, SignalStep, UnlockStep
<1>3. CASE UNCHANGED vars
  BY <1>3 DEF vars, IInv, TypeOK, ChannelOK, QueueOK, GrantOK, LockOK, RequestOK, QueueOf, State
<1> QED BY <1>1, <1>2, <1>3, ShutdownStep, Zenon DEF Next

\* The invariant implies the properties the runs check.
LEMMA IInvImplies ==
    IInv => NoLostWaiter /\ GrantIsLive /\ LockAccountedFor /\ WokenHasNoWaiters /\ NoLeak
<1> SUFFICES ASSUME IInv
             PROVE  NoLostWaiter /\ GrantIsLive /\ LockAccountedFor /\ WokenHasNoWaiters /\ NoLeak
  BY Zenon
<1>0. \A c \in DOMAIN channels : c \in Channels /\ State(c) = channels[c]
  BY Zenon DEF IInv, TypeOK, State
<1>1. NoLostWaiter BY Zenon DEF IInv, RequestOK, NoLostWaiter
<1>2. GrantIsLive BY <1>0 DEF IInv, ChannelOK, GrantOK, LockOK, GrantIsLive
<1>3. LockAccountedFor BY Zenon DEF IInv, ChannelOK, GrantOK, LockOK, LockAccountedFor
<1>4. WokenHasNoWaiters BY <1>0, Zenon DEF IInv, ChannelOK, WokenHasNoWaiters
<1>5. NoLeak BY <1>0 DEF IInv, ChannelOK, QueueOK, NoLeak
<1> QED BY <1>1, <1>2, <1>3, <1>4, <1>5, Zenon

-----------------------------------------------------------------------------
\* The step relation of FifoGrant.
GrantedInTurn ==
    \A c \in DOMAIN channels \cap DOMAIN channels' :
        LET q == channels[c].lock_waiters  g == channels'[c].granted
        IN  g # channels[c].granted /\ g # NoWaiter =>
              \E i \in DOMAIN q : q[i] = g /\ \A j \in 1 .. (i - 1) : ~rx_open[q[j]]

\* The new state t of a channel grants nothing new, or grants in turn.
InTurn(s, t) ==
    \/ t.granted = s.granted \/ t.granted = NoWaiter
    \/ \E i \in DOMAIN s.lock_waiters : /\ s.lock_waiters[i] = t.granted
                                        /\ \A j \in 1 .. (i - 1) : ~rx_open[s.lock_waiters[j]]

\* A store method touches one channel, whether its entry stays or goes.
LEMMA StoreInTurn ==
    ASSUME NEW c \in Channels, NEW t, InTurn(State(c), t),
           channels' = Put(c, t) \/ channels' = remove_idle_channel(c, t)
    PROVE  GrantedInTurn
<1>1. ASSUME NEW d \in DOMAIN channels \cap DOMAIN channels'
      PROVE  channels'[d] = IF d = c THEN t ELSE channels[d]
  BY <1>1, Zenon DEF Put, remove_idle_channel
<1>2. c \in DOMAIN channels => State(c) = channels[c]
  BY Zenon DEF State
<1> QED BY <1>1, <1>2, Zenon DEF GrantedInTurn, InTurn

\* The new states the methods write, other than a grant.
LEMMA NoNewGrant ==
    ASSUME NEW s \in WaitForChannel
    PROVE  /\ \A w : InTurn(s, [s EXCEPT !.woken = w])
           /\ \A q : InTurn(s, [s EXCEPT !.signal_waiters = q])
           /\ \A q : InTurn(s, [s EXCEPT !.lock_waiters = q])
           /\ \A l : InTurn(s, [s EXCEPT !.locked = l])
           /\ InTurn(s, [s EXCEPT !.granted = NoWaiter])
           /\ \A q : InTurn(s, [s EXCEPT !.lock_waiters = q, !.locked = FALSE, !.granted = NoWaiter])
BY Zenon DEF InTurn, WaitForChannel

LEMMA GrantInTurn ==
    ASSUME TypeOK, NEW c \in Channels, GrantNextOrUnlock(c, State(c))
    PROVE  GrantedInTurn
<1> DEFINE s == State(c)  q == s.lock_waiters
<1>1. s \in WaitForChannel /\ q \in Seq(Requests)
  BY StateType, Zenon DEF WaitForChannel
<1>2. CASE \E i \in 1 .. Len(q) :
            /\ \A j \in 1 .. (i - 1) : ~rx_open[q[j]]
            /\ channels' = Put(c, [s EXCEPT !.lock_waiters = After(q, i),
                                            !.locked = TRUE, !.granted = q[i]])
  <2>1. PICK i \in 1 .. Len(q) :
            /\ \A j \in 1 .. (i - 1) : ~rx_open[q[j]]
            /\ channels' = Put(c, [s EXCEPT !.lock_waiters = After(q, i),
                                            !.locked = TRUE, !.granted = q[i]])
    BY <1>2, Zenon
  <2> DEFINE t == [s EXCEPT !.lock_waiters = After(q, i), !.locked = TRUE, !.granted = q[i]]
  <2>2. t.granted = q[i] /\ i \in DOMAIN q
    BY <1>1, <2>1 DEF WaitForChannel
  <2>3. InTurn(s, t)
    BY <2>1, <2>2, Zenon DEF InTurn
  <2> QED BY <2>1, <2>3, StoreInTurn, Zenon
<1>3. CASE channels' = remove_idle_channel(c, [s EXCEPT !.lock_waiters = <<>>,
                                                        !.locked = FALSE, !.granted = NoWaiter])
  BY <1>1, <1>3, NoNewGrant, StoreInTurn, Zenon
<1> QED BY <1>2, <1>3, Zenon DEF GrantNextOrUnlock

LEMMA NextInTurn == TypeOK /\ [Next]_vars => GrantedInTurn
<1> SUFFICES ASSUME TypeOK, [Next]_vars PROVE GrantedInTurn
  BY Zenon
<1>1. ASSUME UNCHANGED channels PROVE GrantedInTurn
  BY <1>1, Zenon DEF GrantedInTurn
<1>2. ASSUME NEW r \in Requests, RequestNext(r) PROVE GrantedInTurn
  <2>1. PICK c \in Channels : c = chan[r] /\ State(c) \in WaitForChannel
    BY StateType, Zenon DEF TypeOK
  <2>2. CASE RegisterAfterShutdown(r) \/ Abandon(r) \/ ReceiveWake(r)
    BY <1>1, <2>2, Zenon DEF RegisterAfterShutdown, Abandon, ReceiveWake
  <2>3. CASE register_wait(r)
    BY <2>1, <2>3, NoNewGrant, StoreInTurn, ZenonT(30) DEF register_wait
  <2>4. CASE register_lock(r)
    BY ZenonT(30), <2>1, <2>4, NoNewGrant, StoreInTurn DEF register_lock
  <2>5. CASE accept_lock(r)
    BY <1>1, <2>1, <2>5, NoNewGrant, StoreInTurn, Zenon DEF accept_lock
  <2>6. CASE DropCleanupGuard(r)
    <3>1. CASE CancelSignalWaiter(c, State(c), r)
      BY ZenonT(30), <1>1, <2>1, <3>1, NoNewGrant, StoreInTurn DEF CancelSignalWaiter
    <3>2. CASE CancelLockWaiter(c, State(c), r)
      BY ZenonT(30), <1>1, <2>1, <3>2, NoNewGrant, StoreInTurn, GrantInTurn DEF CancelLockWaiter
    <3> QED BY <2>1, <2>6, <3>1, <3>2, Zenon DEF DropCleanupGuard
  <2> QED BY <1>2, <2>2, <2>3, <2>4, <2>5, <2>6, Zenon DEF RequestNext, TaskStep
<1>3. ASSUME NEW c \in Channels, signal(c) PROVE GrantedInTurn
  BY <1>3, StateType, NoNewGrant, StoreInTurn, Zenon DEF signal
<1>4. ASSUME NEW c \in Channels, unlock(c) PROVE GrantedInTurn
  BY <1>4, GrantInTurn, Zenon DEF unlock
<1>5. CASE shutdown
  BY <1>5, Zenon DEF shutdown, GrantedInTurn
<1>6. CASE UNCHANGED vars
  BY <1>1, <1>6, Zenon DEF vars
<1> QED BY <1>2, <1>3, <1>4, <1>5, <1>6, Zenon DEF Next

-----------------------------------------------------------------------------
\* wait_for.rs and its request tasks stay well typed, for any requests and channels.
THEOREM TypeCorrect == Spec => []TypeOK
<1>1. IInv => TypeOK BY DEF IInv
<1> QED BY <1>1, InitIInv, NextIInv, PTL DEF Spec

\* No interleaving of registrations, signals, unlocks, cancellations and shutdown
\* loses a sleeping task, strands a lock, or leaks an entry of the channel map.
THEOREM StoreIsSafe ==
    Spec => [](NoLostWaiter /\ LocksAreSafe /\ WokenHasNoWaiters /\ NoLeak)
<1>1. IInv => NoLostWaiter /\ LocksAreSafe /\ WokenHasNoWaiters /\ NoLeak
  BY IInvImplies DEF LocksAreSafe
<1> QED BY <1>1, InitIInv, NextIInv, PTL DEF Spec

\* For any requests and channels: a task that sleeps in wait-for is still queued or
\* has been sent its wake value, so no sender is dropped without one.
THEOREM NoWaiterIsLost == Spec => []NoLostWaiter
<1>1. IInv => NoLostWaiter BY IInvImplies
<1> QED BY <1>1, InitIInv, NextIInv, PTL DEF Spec

\* For any requests and channels: the channel map holds no idle entry, and a queue no
\* request whose cleanup guard has already run.
THEOREM NoEntryLeaks == Spec => []NoLeak
<1>1. IInv => NoLeak BY IInvImplies
<1> QED BY <1>1, InitIInv, NextIInv, PTL DEF Spec

\* For any requests and channels: whichever of unlock and a cancelled grant hands a
\* lock on, it goes to the first queued task whose receiver is alive.
THEOREM GrantsAreFifo == Spec => FifoGrant
<1>1. TypeOK /\ [Next]_vars => [GrantedInTurn]_vars
  BY NextInTurn
<1> QED BY <1>1, TypeCorrect, PTL DEF Spec, FifoGrant, GrantedInTurn
=============================================================================
