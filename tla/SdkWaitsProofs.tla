--------------------------- MODULE SdkWaitsProofs ---------------------------
(***************************************************************************)
(* The answers and the cancellations of SDK waits, for any requests, keys, *)
(* connections, limits, pattern and output.  What makes them inductive is  *)
(* that a key belongs to one guard at a time (the quota refuses a second   *)
(* reservation until the first guard is dropped), so that whatever a       *)
(* cancel, a teardown or the drop of a guard does to a key reaches one     *)
(* wait.  What the waits read from the ring does not matter here.          *)
(***************************************************************************)
EXTENDS SdkWaits, SequenceTheorems, FiniteSetTheorems, WellFoundedInduction, TLAPS

(***************************************************************************)
(* Induction over numbers and recursion over an initial segment of them,   *)
(* stated with sets and functions instead of predicates and operators so   *)
(* that a proof can cite them: a property P of numbers is used as the set  *)
(* {i \in 0 .. n : P(i)}, a recursive definition as a function of the      *)
(* previous value.  Both follow from the well-foundedness of < on Nat.     *)
(***************************************************************************)

(* A non-empty set of numbers has a least one.                             *)
LEMMA LeastNumber ==
    ASSUME NEW T \in SUBSET Nat, T # {}
    PROVE  \E x \in T : \A y \in T : x <= y
<1> DEFINE R == {ss \in Nat \X Nat : ss[1] < ss[2]}
<1>1. IsWellFoundedOn(R, Nat)
  BY NatLessThanWellFounded DEF OpToRel
<1>2. PICK x \in T : \A y \in T : ~(<<y, x>> \in R)
  <2> HIDE DEF R
  <2> QED BY ZenonT(30), <1>1, WFMin
<1>3. ASSUME NEW y \in T, y < x PROVE FALSE
  <2>1. <<y, x>> \in Nat \X Nat /\ <<y, x>>[1] < <<y, x>>[2]
    BY <1>3
  <2>2. <<y, x>> \in R
    BY <2>1
  <2> QED BY <1>2, <2>2
<1>4. \A y \in T : x <= y
  BY <1>3
<1> QED BY <1>4

(* Induction up to a bound, for a set of numbers.                          *)
LEMMA UpTo ==
    ASSUME NEW n \in Nat, NEW S, 0 \in S, \A i \in 1 .. n : i - 1 \in S => i \in S
    PROVE  0 .. n \subseteq S
<1> DEFINE T == (0 .. n) \ S
<1> SUFFICES ASSUME T # {} PROVE FALSE
  OBVIOUS
<1>1. T \in SUBSET Nat
  OBVIOUS
<1>2. PICK x \in T : \A y \in T : x <= y
  <2> HIDE DEF T
  <2> QED BY <1>1, LeastNumber
<1>3. x \in 1 .. n /\ x - 1 \in 0 .. n
  OBVIOUS
<1>4. x - 1 \in S
  BY <1>2, <1>3
<1> QED BY <1>3, <1>4

(* g starts at base and G gives each of its values up to k from the one    *)
(* before.                                                                 *)
Recurs(g, k, base, G) ==
    g[0] = base /\ \A i \in 1 .. k : g[i] = G[<<i, g[i - 1]>>]

(* A recursion over 0 .. n has a solution.                                 *)
LEMMA Recursion ==
    ASSUME NEW n \in Nat, NEW V, NEW base \in V, NEW G \in [(1 .. n) \X V -> V]
    PROVE  \E g \in [0 .. n -> V] : Recurs(g, n, base, G)
<1> DEFINE Solves(g, k) == g[0] = base /\ \A i \in 1 .. k : g[i] = G[<<i, g[i - 1]>>]
           S == {k \in 0 .. n : \E g \in [0 .. k -> V] : Solves(g, k)}
<1>1. 0 \in S
  <2>1. Solves([i \in 0 .. 0 |-> base], 0) /\ [i \in 0 .. 0 |-> base] \in [0 .. 0 -> V]
    OBVIOUS
  <2> HIDE DEF Solves
  <2> QED BY <2>1
<1>2. ASSUME NEW k \in 1 .. n, k - 1 \in S PROVE k \in S
  <2>1. PICK g \in [0 .. (k - 1) -> V] : Solves(g, k - 1)
    BY <1>2
  <2> DEFINE h == [i \in 0 .. k |-> IF i = k THEN G[<<k, g[k - 1]>>] ELSE g[i]]
  <2>2. G[<<k, g[k - 1]>>] \in V
    OBVIOUS
  <2>3. h \in [0 .. k -> V]
    BY <2>2
  <2>4. h[0] = g[0] /\ h[k] = G[<<k, g[k - 1]>>] /\ \A i \in 0 .. (k - 1) : h[i] = g[i]
    OBVIOUS
  <2>5. ASSUME NEW i \in 1 .. k PROVE h[i] = G[<<i, h[i - 1]>>]
    <3> HIDE DEF h
    <3>1. CASE i = k
      <4>1. h[i - 1] = g[k - 1]
        BY <2>4, <3>1
      <4> QED BY <2>4, <3>1, <4>1
    <3>2. CASE i # k
      <4>1. i \in 1 .. (k - 1) /\ i \in 0 .. (k - 1) /\ i - 1 \in 0 .. (k - 1)
        BY <3>2
      <4>2. h[i] = g[i] /\ h[i - 1] = g[i - 1] /\ g[i] = G[<<i, g[i - 1]>>]
        BY <2>1, <2>4, <4>1
      <4> QED BY <4>2
    <3> QED BY <3>1, <3>2
  <2>6. Solves(h, k)
    BY ZenonT(30), <2>1, <2>4, <2>5
  <2> HIDE DEF h, Solves
  <2> QED BY <2>3, <2>6
<1>3. n \in S
  <2> HIDE DEF S
  <2> QED BY <1>1, <1>2, UpTo
<1> QED BY <1>3 DEF Recurs

(***************************************************************************)
(* The waits.                                                              *)
(***************************************************************************)
Fields == {"status", "key", "connection", "start", "cursor", "tail", "signalled", "response"}
Alive == Guarded \cup {"subscribed"}

(* The tasks and the registry are well formed.                             *)
Records == req = [r \in Requests |-> [f \in Fields |-> req[r][f]]]

Shape ==
    /\ \A r \in Requests :
         /\ req[r].status \in Statuses
         /\ req[r].signalled \in BOOLEAN
         /\ req[r].response \in {None, "Matched", "Cancelled"}
         /\ req[r].status \in Alive => req[r].key \in Keys /\ req[r].connection \in Connections
    /\ registry \in [Keys -> Connections \cup {None}]
    /\ reservations \in [Keys -> SUBSET Scopes]
    /\ cancel_senders = {k \in Keys : registry[k] # None}
    /\ revoked \subseteq Requests

(* One guard per key, and what a revoked, a signalled, a finished and a    *)
(* running wait know of their registration.                                *)
Guards ==
    /\ \A r \in Requests : req[r].status \in Guarded => reservations[req[r].key] # {}
    /\ \A q, r \in Requests :
         req[q].status \in Guarded /\ req[r].status \in Guarded /\ req[q].key = req[r].key => q = r
    /\ \A r \in revoked : req[r].status \in Guarded \cup {"done"}
    /\ \A r \in revoked : req[r].status \in Guarded => registry[req[r].key] = None /\ req[r].signalled
    /\ \A r \in Requests :
         /\ req[r].signalled => req[r].status \in Guarded /\ r \in revoked
         /\ req[r].response # None => req[r].status = "leaving" /\ registry[req[r].key] = None
         /\ req[r].status \in {"draining", "select", "matched"} => registry[req[r].key] # None \/ r \in revoked
         /\ req[r].response = "Matched" => r \notin revoked
         /\ req[r].response = "Cancelled" => r \in revoked

IInv == Records /\ Shape /\ Guards

LEMMA InitIInv == Init => IInv
<1> SUFFICES ASSUME Init PROVE IInv
  BY Zenon
<1>1. Idle = [f \in Fields |-> Idle[f]]
  BY Zenon DEF Idle, Fields
<1>2. \A r \in Requests : req[r] = Idle
  BY Zenon DEF Init
<1>3. Records
  BY <1>1, <1>2, Zenon DEF Init, Records
<1>4. Idle.status = "idle" /\ Idle.signalled = FALSE /\ Idle.response = None
  BY Zenon DEF Idle
<1>5. Shape
  BY <1>2, <1>4, Zenon DEF Init, Shape, Alive, Guarded, Statuses, None
<1>6. Guards
  BY <1>2, <1>4, Zenon DEF Init, Guards, Guarded, None
<1> QED
  BY <1>3, <1>5, <1>6, Zenon DEF IInv

(* The invariant is as strong as the two properties.                       *)
LEMMA Implied == IInv => AnswersAreOwn /\ CancelReachesTask
  BY Zenon DEF IInv, Shape, Guards, AnswersAreOwn, CancelReachesTask, Guarded, None

LEMMA Charges ==
    ASSUME NEW k \in Keys, NEW c \in Connections
    PROVE  Charged(k, c) \subseteq Scopes /\ Charged(k, c) # {}
  BY Zenon DEF Charged, Scopes, Keys

(* Where a cursor goes when its task reads.                                *)
Reads(r, cursor) ==
    IF Lags(ring, req[r].cursor)
    THEN cursor = oldest_sequence(ring)
    ELSE HasEvent(ring, req[r].cursor) /\ cursor = req[r].cursor + 1

(* A step of task r that moves it to a status and may set its answer or    *)
(* read, and leaves key, connection and signal alone.                      *)
Moves(r, status, response) ==
    /\ Records'
    /\ \A q \in Requests \ {r} : req'[q] = req[q]
    /\ req'[r].status = status /\ req'[r].response = response
    /\ req'[r].key = req[r].key /\ req'[r].connection = req[r].connection
    /\ req'[r].signalled = req[r].signalled
    /\ req'[r].cursor = req[r].cursor \/ Reads(r, req'[r].cursor)

(* Task r ends.                                                            *)
Ends(r) ==
    /\ Records'
    /\ \A q \in Requests \ {r} : req'[q] = req[q]
    /\ req'[r].status = "done" /\ req'[r].response = None /\ req'[r].signalled = FALSE
    /\ req'[r].cursor = 0

(* Replacing the record of one task.                                       *)
LEMMA Replaces ==
    ASSUME Records, NEW r \in Requests, NEW task, task = [f \in Fields |-> task[f]],
           req' = [req EXCEPT ![r] = task]
    PROVE  /\ Records'
           /\ req'[r] = task
           /\ \A q \in Requests \ {r} : req'[q] = req[q]
<1>0. req = [q \in Requests |-> [f \in Fields |-> req[q][f]]]
  BY Zenon DEF Records
<1>1. req'[r] = task /\ \A q \in Requests \ {r} : req'[q] = req[q]
  BY <1>0, Zenon
<1>2. \A q \in Requests : req'[q] = [f \in Fields |-> req'[q][f]]
  BY <1>0, <1>1, Zenon
<1> QED
  BY <1>0, <1>1, <1>2, Zenon DEF Records

LEMMA TaskMoves ==
    ASSUME Records, NEW r \in Requests
    PROVE  /\ RegisterArmed(r) => Moves(r, "draining", req[r].response)
           /\ Drained(r) => Moves(r, "select", req[r].response)
           /\ ObserveCancel(r) => Moves(r, "leaving", "Cancelled")
           /\ Abandon(r) => Moves(r, "leaving", req[r].response)
           /\ complete(r) => Moves(r, "leaving", IF registry[req[r].key] # None THEN "Matched" ELSE "Cancelled")
           /\ observe_cursor_item(r) => \E s \in {"matched", "draining"} : Moves(r, s, req[r].response)
           /\ RegisterCancelled(r) \/ RegisterRefused(r) => Ends(r)
<1>1. req = [q \in Requests |-> [f \in Fields |-> req[q][f]]]
  BY Zenon DEF Records
<1>2. req[r] = [f \in Fields |-> req[r][f]]
  BY <1>1, Zenon
<1>3. ASSUME NEW s, req' = [req EXCEPT ![r].status = s]
      PROVE  Moves(r, s, req[r].response)
  <2> DEFINE task == [req[r] EXCEPT !.status = s]
  <2>1. req' = [req EXCEPT ![r] = task]
    BY <1>1, <1>3, Zenon
  <2>2. /\ task = [f \in Fields |-> task[f]] /\ task.status = s /\ task.response = req[r].response
        /\ task.key = req[r].key /\ task.connection = req[r].connection /\ task.signalled = req[r].signalled
        /\ task.cursor = req[r].cursor
    BY <1>2, Zenon DEF Fields
  <2> HIDE DEF task
  <2> QED
    BY <2>1, <2>2, Replaces, Zenon DEF Moves
<1>4. /\ RegisterArmed(r) => Moves(r, "draining", req[r].response)
      /\ Drained(r) => Moves(r, "select", req[r].response)
      /\ Abandon(r) => Moves(r, "leaving", req[r].response)
  BY <1>3, Zenon DEF RegisterArmed, Drained, Abandon
<1>5. ASSUME NEW a, req' = [req EXCEPT ![r].status = "leaving", ![r].response = a]
      PROVE  Moves(r, "leaving", a)
  <2> DEFINE left == [req[r] EXCEPT !.status = "leaving"]
             task == [left EXCEPT !.response = a]
  <2>1. req' = [req EXCEPT ![r] = task]
    BY <1>1, <1>5, Zenon
  <2>2. /\ left = [f \in Fields |-> left[f]] /\ left.status = "leaving" /\ left.key = req[r].key
        /\ left.connection = req[r].connection /\ left.signalled = req[r].signalled
        /\ left.cursor = req[r].cursor
    BY <1>2, Zenon DEF Fields
  <2> HIDE DEF left
  <2>3. /\ task = [f \in Fields |-> task[f]] /\ task.response = a /\ task.status = "leaving" /\ task.key = req[r].key
        /\ task.connection = req[r].connection /\ task.signalled = req[r].signalled
        /\ task.cursor = req[r].cursor
    BY <2>2, Zenon DEF Fields
  <2> HIDE DEF task
  <2>4. Records' /\ req'[r] = task /\ \A q \in Requests \ {r} : req'[q] = req[q]
    BY <2>1, <2>3, Replaces, Zenon
  <2> QED
    BY <2>3, <2>4, SMTT(20) DEF Moves
<1>6. complete(r) => Moves(r, "leaving", IF registry[req[r].key] # None THEN "Matched" ELSE "Cancelled")
  BY <1>5, Zenon DEF complete
<1>7. observe_cursor_item(r) => \E s \in {"matched", "draining"} : Moves(r, s, req[r].response)
  <2> SUFFICES ASSUME observe_cursor_item(r)
               PROVE  \E s \in {"matched", "draining"} : Moves(r, s, req[r].response)
    BY Zenon
  <2>1. PICK c, t, s : /\ s \in {"matched", "draining"} /\ Reads(r, c)
                       /\ req' = [req EXCEPT ![r].cursor = c, ![r].tail = t, ![r].status = s]
    <3> DEFINE C == IF Lags(ring, req[r].cursor) THEN oldest_sequence(ring) ELSE req[r].cursor + 1
    <3>1. Reads(r, C)
      BY Zenon DEF observe_cursor_item, Reads, HasEvent
    <3>2. \E t, s : /\ s \in {"matched", "draining"}
                    /\ req' = [req EXCEPT ![r].cursor = C, ![r].tail = t, ![r].status = s]
      BY <1>1, ZenonT(30) DEF observe_cursor_item
    <3> HIDE DEF C
    <3> QED BY <3>1, <3>2, Zenon
  <2> DEFINE read == [req[r] EXCEPT !.cursor = c]
             cut == [read EXCEPT !.tail = t]
             task == [cut EXCEPT !.status = s]
  <2>2. req' = [req EXCEPT ![r] = task]
    BY <1>1, <2>1, Zenon
  <2>3. /\ read = [f \in Fields |-> read[f]] /\ read.response = req[r].response /\ read.key = req[r].key
        /\ read.connection = req[r].connection /\ read.signalled = req[r].signalled /\ read.cursor = c
    BY <1>2, Zenon DEF Fields
  <2> HIDE DEF read
  <2>4. /\ cut = [f \in Fields |-> cut[f]] /\ cut.response = req[r].response /\ cut.key = req[r].key
        /\ cut.connection = req[r].connection /\ cut.signalled = req[r].signalled /\ cut.cursor = c
    BY <2>3, Zenon DEF Fields
  <2> HIDE DEF cut
  <2>5. /\ task = [f \in Fields |-> task[f]] /\ task.response = req[r].response /\ task.key = req[r].key
        /\ task.connection = req[r].connection /\ task.signalled = req[r].signalled /\ task.status = s
        /\ task.cursor = c
    BY <2>4, Zenon DEF Fields
  <2> HIDE DEF task
  <2>6. Moves(r, s, req[r].response)
    <3>1. Records' /\ req'[r] = task /\ \A q \in Requests \ {r} : req'[q] = req[q]
      BY <2>2, <2>5, Replaces, Zenon
    <3>2. Reads(r, task.cursor)
      BY <2>1, <2>5, Zenon
    <3> QED
      BY <2>5, <3>1, <3>2, SMTT(30) DEF Moves
  <2> QED
    BY <2>1, <2>6, Zenon
<1>8. RegisterCancelled(r) \/ RegisterRefused(r) => Ends(r)
  <2>1. /\ Over = [f \in Fields |-> Over[f]] /\ Over.status = "done" /\ Over.response = None
        /\ Over.signalled = FALSE /\ Over.cursor = 0
    BY Zenon DEF Over, Idle, Fields
  <2>2. RegisterCancelled(r) \/ RegisterRefused(r) => req' = [req EXCEPT ![r] = Over]
    BY Zenon DEF RegisterCancelled, RegisterRefused
  <2> QED
    BY <2>1, <2>2, Replaces, Zenon DEF Ends
<1>9. ObserveCancel(r) => Moves(r, "leaving", "Cancelled")
  BY <1>5, Zenon DEF ObserveCancel
<1> QED
  BY SMTT(30), <1>4, <1>6, <1>7, <1>8, <1>9

(* Signalling the holders of some keys changes nothing else of any task.   *)
LEMMA Signals ==
    ASSUME Records, Shape, NEW keys
    PROVE  /\ Signal(keys) = [q \in Requests |-> [f \in Fields |-> Signal(keys)[q][f]]]
           /\ \A q \in Requests :
                /\ Signal(keys)[q].status = req[q].status /\ Signal(keys)[q].key = req[q].key
                /\ Signal(keys)[q].connection = req[q].connection
                /\ Signal(keys)[q].response = req[q].response /\ Signal(keys)[q].cursor = req[q].cursor
                /\ Signal(keys)[q].signalled = (req[q].signalled \/ q \in Holders(keys))
<1>1. \A q \in Requests : req[q] = [f \in Fields |-> req[q][f]] /\ req[q].signalled \in BOOLEAN
  BY Zenon DEF Records, Shape
<1> SUFFICES ASSUME NEW q \in Requests
             PROVE  /\ Signal(keys)[q] = [f \in Fields |-> Signal(keys)[q][f]]
                    /\ Signal(keys)[q].status = req[q].status /\ Signal(keys)[q].key = req[q].key
                    /\ Signal(keys)[q].connection = req[q].connection
                    /\ Signal(keys)[q].response = req[q].response /\ Signal(keys)[q].cursor = req[q].cursor
                    /\ Signal(keys)[q].signalled = (req[q].signalled \/ q \in Holders(keys))
  BY Zenon DEF Signal
<1> DEFINE told == [req[q] EXCEPT !.signalled = TRUE]
<1>2. Signal(keys)[q] = IF q \in Holders(keys) THEN told ELSE req[q]
  BY Zenon DEF Signal
<1>3. /\ told = [f \in Fields |-> told[f]] /\ told.status = req[q].status /\ told.key = req[q].key
      /\ told.connection = req[q].connection /\ told.response = req[q].response /\ told.signalled = TRUE
      /\ told.cursor = req[q].cursor
  BY <1>1, Zenon DEF Fields
<1> HIDE DEF told
<1>4. CASE q \in Holders(keys)
  BY <1>2, <1>3, <1>4, ZenonT(30)
<1>5. CASE q \notin Holders(keys)
  BY <1>1, <1>2, <1>5, Zenon
<1> QED
  BY <1>4, <1>5, Zenon

(* A subscription starts at the next or at the oldest retained event.      *)
LEMMA Subscribes ==
    ASSUME Records, NEW r \in Requests, Subscribe(r)
    PROVE  /\ Records'
           /\ \A q \in Requests \ {r} : req'[q] = req[q]
           /\ req'[r].status = "subscribed" /\ req'[r].key \in Keys /\ req'[r].connection \in Connections
           /\ req'[r].signalled = FALSE /\ req'[r].response = None
           /\ req'[r].cursor \in {ring.next, oldest_sequence(ring)}
<1>1. PICK key \in Keys, connection \in Connections, start \in {ring.next, oldest_sequence(ring)} :
        req' = [req EXCEPT ![r] = [Idle EXCEPT !.status = "subscribed", !.key = key,
                                     !.connection = connection, !.start = start, !.cursor = start]]
  BY Zenon DEF Subscribe
<1> DEFINE task == [Idle EXCEPT !.status = "subscribed", !.key = key,
                      !.connection = connection, !.start = start, !.cursor = start]
<1>2. /\ task = [f \in Fields |-> task[f]] /\ task.status = "subscribed" /\ task.key = key
      /\ task.connection = connection /\ task.signalled = FALSE /\ task.response = None
      /\ task.cursor = start
  BY Zenon DEF Idle, Fields
<1>3. req' = [req EXCEPT ![r] = task]
  BY <1>1, Zenon
<1> HIDE DEF task
<1>4. /\ Records' /\ req'[r] = task
      /\ \A q \in Requests \ {r} : req'[q] = req[q]
  BY <1>2, <1>3, Replaces, SMTT(30)
<1> QED
  BY <1>1, <1>2, <1>4, Zenon

(***************************************************************************)
(* One lemma per step.                                                     *)
(***************************************************************************)
LEMMA StepSubscribe == ASSUME IInv, NEW r \in Requests, Subscribe(r) PROVE IInv'
<1>1. /\ Records' /\ \A q \in Requests \ {r} : req'[q] = req[q]
      /\ req'[r].status = "subscribed" /\ req'[r].key \in Keys /\ req'[r].connection \in Connections
      /\ req'[r].signalled = FALSE /\ req'[r].response = None
  BY Subscribes, Zenon DEF IInv
<1>2. UNCHANGED <<registry, reservations, cancel_senders, revoked>> /\ r \notin revoked
  BY Zenon DEF Subscribe, waits, IInv, Guards, Guarded
<1>3. Shape'
  BY <1>1, <1>2, Zenon DEF IInv, Shape, Alive, Guarded, Statuses
<1>4. Guards'
  <2>1. revoked \subseteq Requests
    BY Zenon DEF IInv, Shape
  <2> QED
    BY <1>1, <1>2, <2>1, SMTT(30) DEF IInv, Guards, Guarded, None
<1> QED
  BY <1>1, <1>3, <1>4, Zenon DEF IInv

(* A registration that is answered at once takes nothing.                  *)
LEMMA StepAnswered ==
    ASSUME IInv, NEW r \in Requests, RegisterCancelled(r) \/ RegisterRefused(r) PROVE IInv'
<1>1. Ends(r) /\ req[r].status = "subscribed"
  BY TaskMoves, Zenon DEF IInv, RegisterCancelled, RegisterRefused
<1>2. UNCHANGED <<registry, reservations, cancel_senders, revoked>> /\ r \notin revoked
  BY <1>1, Zenon DEF RegisterCancelled, RegisterRefused, waits, IInv, Guards, Guarded
<1>3. Shape'
  BY <1>1, <1>2, Zenon DEF IInv, Shape, Ends, Alive, Guarded, Statuses
<1>4. Guards'
  <2>1. revoked \subseteq Requests
    BY Zenon DEF IInv, Shape
  <2> QED
    BY <1>1, <1>2, <2>1 DEF IInv, Guards, Ends, Guarded, None
<1> QED
  BY <1>1, <1>3, <1>4, SMTT(30) DEF IInv, Ends

LEMMA StepArmed == ASSUME IInv, NEW r \in Requests, RegisterArmed(r) PROVE IInv'
<1> DEFINE key == req[r].key
<1>1. /\ Moves(r, "draining", req[r].response) /\ req[r].status = "subscribed"
      /\ key \in Keys /\ req[r].connection \in Connections
  BY TaskMoves, Zenon DEF IInv, Shape, RegisterArmed, Alive
<1>2. /\ registry[key] = None /\ registry' = [registry EXCEPT ![key] = req[r].connection]
      /\ reservations[key] = {} /\ reservations' = [reservations EXCEPT ![key] = Charged(key, req[r].connection)]
      /\ cancel_senders' = cancel_senders \cup {key}
      /\ revoked' = revoked /\ r \notin revoked
  BY <1>1, Zenon DEF RegisterArmed, reserve, Charge, IInv, Guards, Guarded
<1>3. Charged(key, req[r].connection) \subseteq Scopes /\ Charged(key, req[r].connection) # {}
  BY SMTT(30), <1>1, Charges
<1>4. Shape'
  BY <1>1, <1>2, <1>3, ConnectionsAssumption, SMTT(30) DEF IInv, Shape, Moves, Alive, Guarded, Statuses
<1>5. \A q \in Requests : req[q].status \in Guarded => req[q].key # key /\ req[q].key \in Keys
  <2>1. \A q \in Requests : req[q].status \in Guarded => reservations[req[q].key] # {}
    BY Zenon DEF IInv, Guards
  <2>2. \A q \in Requests : req[q].status \in Guarded => req[q].key \in Keys
    BY Zenon DEF IInv, Shape, Alive
  <2> QED
    BY SMTT(30), <1>2, <2>1, <2>2
<1>6. ~req[r].signalled /\ req[r].response = None
  BY <1>1, SMTT(30) DEF IInv, Guards, Guarded
<1>7. Guards'
  <2>1. registry'[key] # None /\ reservations'[key] # {}
    BY <1>1, <1>2, <1>3, ConnectionsAssumption, SMTT(30) DEF IInv, Shape
  <2>2. \A k \in Keys \ {key} : registry'[k] = registry[k] /\ reservations'[k] = reservations[k]
    BY <1>2, Zenon DEF IInv, Shape
  <2>3. \A q \in Requests \ {r} : req'[q] = req[q]
    BY <1>1, Zenon DEF Moves
  <2>4. req'[r].status = "draining" /\ req'[r].key = key /\ ~req'[r].signalled /\ req'[r].response = None
    BY <1>1, <1>6, SMTT(30) DEF Moves
  <2>5. revoked' = revoked /\ r \notin revoked /\ revoked \subseteq Requests
    BY <1>2, Zenon DEF IInv, Shape
  <2> HIDE DEF key
  <2> QED
    BY <1>5, <2>1, <2>2, <2>3, <2>4, <2>5, SMTT(30) DEF IInv, Guards, Guarded, None
<1> QED
  BY <1>1, <1>4, <1>7, Zenon DEF IInv, Moves

(* The steps that only move a guarded task.                                *)
LEMMA StepReading ==
    ASSUME IInv, NEW r \in Requests, observe_cursor_item(r) \/ Drained(r) \/ ObserveCancel(r) \/ Abandon(r)
    PROVE  IInv'
<1>1. /\ req[r].status \in {"draining", "select"} /\ req[r].response = None
      /\ UNCHANGED <<registry, reservations, cancel_senders, revoked>>
  BY Zenon DEF observe_cursor_item, Drained, ObserveCancel, Abandon, waits, IInv, Guards
<1>2. PICK status \in Guarded, response \in {None, "Cancelled"} :
        /\ Moves(r, status, response)
        /\ response = "Cancelled" => status = "leaving" /\ r \in revoked
  <2>1. CASE observe_cursor_item(r)
    BY <1>1, <2>1, TaskMoves, SMTT(30) DEF IInv, Guarded, None
  <2>2. CASE Drained(r)
    BY <1>1, <2>2, TaskMoves DEF IInv, Guarded, None
  <2>3. CASE ObserveCancel(r)
    BY <1>1, <2>3, TaskMoves, Zenon DEF IInv, Guards, ObserveCancel, Guarded
  <2>4. CASE Abandon(r)
    BY <1>1, <2>4, TaskMoves, SMTT(30) DEF IInv, Guarded, None
  <2> QED
    BY SMTT(30), <2>1, <2>2, <2>3, <2>4
<1>3. Shape'
  BY <1>1, <1>2, SMTT(30) DEF IInv, Shape, Moves, Alive, Guarded, Statuses
<1>4. Guards'
  <2>1. revoked \subseteq Requests
    BY Zenon DEF IInv, Shape
  <2>2. /\ \A q \in Requests \ {r} : req'[q] = req[q]
        /\ req'[r].key = req[r].key /\ req'[r].signalled = req[r].signalled
        /\ req'[r].status = status /\ req'[r].response = response
    BY <1>2, SMTT(30) DEF Moves
  <2>3. req[r].status \in Guarded /\ (registry[req[r].key] # None \/ r \in revoked)
    BY <1>1, SMTT(30) DEF IInv, Guards, Guarded
  <2>4. response = "Cancelled" => registry[req[r].key] = None
    BY <1>2, <2>3, Zenon DEF IInv, Guards
  <2> QED
    BY <1>1, <1>2, <2>1, <2>2, <2>3, <2>4, SMTT(30) DEF IInv, Guards, Guarded, None
<1> QED
  BY <1>2, <1>3, <1>4, SMTT(30) DEF IInv, Moves

(* Another guard never shares the key of r's.                              *)
LEMMA OwnKey ==
    ASSUME IInv, NEW r \in Requests, req[r].status \in Guarded
    PROVE  /\ req[r].key \in Keys
           /\ \A q \in Requests \ {r} : req[q].status \in Guarded => req[q].key \in Keys \ {req[r].key}
<1>1. \A q \in Requests : req[q].status \in Guarded => req[q].key \in Keys
  BY Zenon DEF IInv, Shape, Alive
<1>2. \A q \in Requests \ {r} : req[q].status \in Guarded => req[q].key # req[r].key
  BY Zenon DEF IInv, Guards
<1> QED
  BY <1>1, <1>2, Zenon

LEMMA StepComplete == ASSUME IInv, NEW r \in Requests, complete(r) PROVE IInv'
<1> DEFINE key == req[r].key
           answer == IF registry[key] # None THEN "Matched" ELSE "Cancelled"
<1>1. /\ req[r].status = "matched" /\ Moves(r, "leaving", answer)
      /\ registry' = [registry EXCEPT ![key] = None] /\ cancel_senders' = cancel_senders \ {key}
      /\ UNCHANGED <<reservations, revoked>>
  BY TaskMoves, Zenon DEF IInv, complete
<1>2. /\ key \in Keys
      /\ \A q \in Requests \ {r} : req[q].status \in Guarded => req[q].key \in Keys \ {key}
  BY <1>1, OwnKey, SMTT(30) DEF Guarded
<1>3. /\ registry'[key] = None /\ \A k \in Keys \ {key} : registry'[k] = registry[k]
      /\ registry' \in [Keys -> Connections \cup {None}]
  BY <1>1, <1>2, SMTT(30) DEF IInv, Shape
<1>4. (answer = "Matched" /\ r \notin revoked) \/ (answer = "Cancelled" /\ r \in revoked)
  <2>1. registry[key] # None => r \notin revoked
    BY <1>1, Zenon DEF IInv, Guards, Guarded
  <2>2. registry[key] = None => r \in revoked
    BY <1>1, Zenon DEF IInv, Guards
  <2> QED
    BY SMTT(30), <2>1, <2>2
<1>5. revoked \subseteq Requests
  BY Zenon DEF IInv, Shape
<1>6. /\ Records'
      /\ \A q \in Requests \ {r} : req'[q] = req[q]
      /\ req'[r].status = "leaving" /\ req'[r].key = key /\ req'[r].connection = req[r].connection
      /\ req'[r].signalled = req[r].signalled /\ req'[r].response = answer
  BY <1>1, SMTT(30) DEF Moves
<1> HIDE DEF answer, key
<1>7. Shape'
  BY <1>1, <1>2, <1>3, <1>4, <1>6, SMTT(20) DEF IInv, Shape, Alive, Guarded, Statuses, key
<1>8. Guards'
  BY <1>1, <1>2, <1>3, <1>4, <1>5, <1>6, SMTT(30) DEF IInv, Guards, Guarded, None, key
<1> QED
  BY <1>6, <1>7, <1>8 DEF IInv

(* The drop of a guard signals nobody but its own task, which is over.     *)
LEMMA FinishEnds == ASSUME IInv, NEW r \in Requests, finish_registration(r) PROVE Ends(r)
<1> DEFINE key == req[r].key
<1>1. /\ req[r].status = "leaving"
      /\ req' = [(IF key \in cancel_senders THEN Signal({key}) ELSE req) EXCEPT ![r] = Over]
  BY Zenon DEF finish_registration
<1>2. \A q \in Requests \ {r} : req[q].status \in Guarded => req[q].key \in Keys \ {key}
  BY <1>1, OwnKey, Zenon DEF Guarded
<1>3. \A q \in Requests \ {r} : q \notin Holders({key})
  BY <1>2, Zenon DEF Holders
<1>4. /\ Over = [f \in Fields |-> Over[f]] /\ Over.status = "done" /\ Over.response = None
      /\ Over.signalled = FALSE /\ Over.cursor = 0
  BY Zenon DEF Over, Idle, Fields
<1>5. req = [q \in Requests |-> [f \in Fields |-> req[q][f]]]
  BY Zenon DEF IInv, Records
<1>6. req' = [q \in Requests |-> IF q = r THEN Over ELSE req[q]]
  BY <1>1, <1>3, <1>5, Zenon DEF Signal
<1>7. req' = [req EXCEPT ![r] = Over]
  BY SMTT(30), <1>5, <1>6
<1> QED
  BY <1>4, <1>7, Replaces, SMTT(30) DEF IInv, Ends

LEMMA StepFinish == ASSUME IInv, NEW r \in Requests, finish_registration(r) PROVE IInv'
<1> DEFINE key == req[r].key
<1>1. /\ req[r].status = "leaving"
      /\ req' = [(IF key \in cancel_senders THEN Signal({key}) ELSE req) EXCEPT ![r] = Over]
      /\ registry' = [registry EXCEPT ![key] = None] /\ cancel_senders' = cancel_senders \ {key}
      /\ reservations' = [reservations EXCEPT ![key] = {}] /\ revoked' = revoked
  BY Zenon DEF finish_registration, release
<1>2. /\ key \in Keys
      /\ \A q \in Requests \ {r} : req[q].status \in Guarded => req[q].key \in Keys \ {key}
  BY <1>1, OwnKey, Zenon DEF Guarded
<1>3. Ends(r)
  BY FinishEnds
<1>4. /\ registry'[key] = None /\ \A k \in Keys \ {key} : registry'[k] = registry[k]
      /\ registry' \in [Keys -> Connections \cup {None}]
      /\ \A k \in Keys \ {key} : reservations'[k] = reservations[k]
      /\ reservations' \in [Keys -> SUBSET Scopes]
  BY <1>1, <1>2, SMTT(30) DEF IInv, Shape
<1>5. revoked \subseteq Requests
  BY Zenon DEF IInv, Shape
<1>6. /\ cancel_senders' = {k \in Keys : registry'[k] # None} /\ revoked' = revoked
      /\ req[r].status \in Guarded
  BY SMTT(30), <1>1, <1>2, <1>4 DEF IInv, Shape, Guarded
<1>7. Shape'
  BY <1>3, <1>4, <1>6, ZenonT(30) DEF IInv, Shape, Ends, Alive, Guarded, Statuses
<1>8. Guards'
  <2>1. /\ \A q \in Requests \ {r} : req'[q] = req[q]
        /\ req'[r].status = "done" /\ req'[r].response = None /\ req'[r].signalled = FALSE
    BY <1>3, SMTT(30) DEF Ends
  <2> HIDE DEF key
  <2> QED
    BY <1>2, <1>4, <1>5, <1>6, <2>1, SMTT(30) DEF IInv, Guards, Guarded, None
<1> QED
  BY <1>3, <1>7, <1>8, SMTT(30) DEF IInv, Ends

(* Removing registrations and signalling their holders.                    *)
LEMMA Revokes ==
    ASSUME IInv, NEW keys \in SUBSET Keys, \A k \in keys : registry[k] # None,
           registry' = [k \in Keys |-> IF k \in keys THEN None ELSE registry[k]],
           cancel_senders' = cancel_senders \ keys, req' = Signal(keys),
           revoked' = revoked \cup Holders(keys), reservations' = reservations
    PROVE  IInv'
<1>1. /\ Records'
      /\ \A q \in Requests :
           /\ req'[q].status = req[q].status /\ req'[q].key = req[q].key
           /\ req'[q].connection = req[q].connection /\ req'[q].response = req[q].response
           /\ req'[q].signalled = (req[q].signalled \/ q \in Holders(keys))
  BY Signals DEF IInv, Records
<1>2. \A q \in Requests : q \in Holders(keys) <=> (req[q].status \in Guarded /\ req[q].key \in keys)
  BY Zenon DEF Holders
<1>9. \A q \in Requests : /\ req[q].signalled \/ q \in Holders(keys) => req'[q].signalled
                          /\ req'[q].signalled => req[q].signalled \/ q \in Holders(keys)
  BY <1>1, Zenon
<1>3. Holders(keys) \subseteq Requests
  BY Zenon DEF Holders
<1>4. Shape'
  <2>1. registry' \in [Keys -> Connections \cup {None}] /\ cancel_senders' = {k \in Keys : registry'[k] # None}
    BY Zenon DEF IInv, Shape
  <2>2. \A q \in Requests : req'[q].signalled \in BOOLEAN
    BY <1>1, ZenonT(30) DEF IInv, Shape
  <2> QED
    BY <1>1, <1>3, <2>1, <2>2, SMTT(30) DEF IInv, Shape, Alive
<1>5. \A q \in Requests : req[q].status \in Guarded => req[q].key \in Keys
  BY Zenon DEF IInv, Shape, Alive
<1>6. \A k \in Keys : registry'[k] = IF k \in keys THEN None ELSE registry[k]
  BY Zenon
<1>7. revoked \subseteq Requests
  BY SMTT(30) DEF IInv, Shape
<1>8. Guards'
  <2>1. /\ \A q \in Requests : req'[q].status \in Guarded => reservations'[req'[q].key] # {}
        /\ \A p, q \in Requests :
             req'[p].status \in Guarded /\ req'[q].status \in Guarded /\ req'[p].key = req'[q].key => p = q
    BY <1>1, SMTT(30) DEF IInv, Guards
  <2>2. \A q \in revoked' : req'[q].status \in Guarded \cup {"done"}
    BY <1>1, <1>2, <1>3, <1>7, SMTT(30) DEF IInv, Guards
  <2>3. ASSUME NEW q \in revoked', req'[q].status \in Guarded
        PROVE  registry'[req'[q].key] = None /\ req'[q].signalled
    <3>1. q \in Requests /\ req[q].status \in Guarded /\ req[q].key \in Keys /\ req'[q].key = req[q].key
      BY <1>1, <1>3, <1>5, <1>7, <2>3, SMTT(20)
    <3>2. CASE q \in Holders(keys)
      BY <1>2, <1>6, <1>9, <3>1, <3>2, SMTT(20)
    <3>3. CASE q \in revoked
      <4>1. registry[req[q].key] = None /\ req[q].signalled
        BY <3>1, <3>3, SMTT(30) DEF IInv, Guards
      <4> QED
        BY SMTT(30), <1>6, <1>9, <3>1, <4>1
    <3> QED
      BY SMTT(30), <3>2, <3>3
  <2>4. ASSUME NEW q \in Requests
        PROVE  /\ req'[q].signalled => req'[q].status \in Guarded /\ q \in revoked'
               /\ req'[q].status \in {"draining", "select", "matched"} => registry'[req'[q].key] # None \/ q \in revoked'
    <3>1. req[q].signalled => req[q].status \in Guarded /\ q \in revoked
      BY Zenon DEF IInv, Guards
    <3>2. req[q].status \in {"draining", "select", "matched"} => registry[req[q].key] # None \/ q \in revoked
      BY Zenon DEF IInv, Guards
    <3>3. req[q].status \in {"draining", "select", "matched"} => req[q].key \in Keys /\ req[q].status \in Guarded
      BY <1>5 DEF Guarded
    <3>4. /\ req'[q].status = req[q].status /\ req'[q].key = req[q].key
          /\ req'[q].signalled => req[q].signalled \/ q \in Holders(keys)
      BY SMTT(30), <1>1, <1>9
    <3> QED
      BY <1>2, <1>6, <3>1, <3>2, <3>3, <3>4, SMTT(20)
  <2>5. ASSUME NEW q \in Requests, req'[q].response # None
        PROVE  /\ req'[q].status = "leaving" /\ registry'[req'[q].key] = None
               /\ q \in revoked' <=> q \in revoked
    <3>1. req[q].response # None /\ req[q].status = "leaving" /\ registry[req[q].key] = None /\ req[q].key \in Keys
      BY <1>1, <1>5, <2>5, SMTT(30) DEF IInv, Guards, Guarded
    <3>2. q \notin Holders(keys)
      BY SMTT(30), <1>2, <3>1
    <3> QED
      BY <1>1, <1>6, <3>1, <3>2, SMTT(20)
  <2>6. ASSUME NEW q \in Requests
        PROVE  /\ req'[q].response = "Matched" => q \notin revoked'
               /\ req'[q].response = "Cancelled" => q \in revoked'
    BY <1>1, <2>5 DEF IInv, Guards, None
  <2> QED
    BY <2>1, <2>2, <2>3, <2>4, <2>5, <2>6, SMTT(30) DEF Guards
<1> QED
  BY <1>1, <1>4, <1>8, SMTT(30) DEF IInv

LEMMA StepCancel == ASSUME IInv, NEW key \in Keys, handle_cancel_sdk_wait(key) PROVE IInv'
<1>1. CASE registry[key] = None
  <2>1. UNCHANGED <<registry, cancel_senders, req, revoked, reservations>>
    BY <1>1, Zenon DEF handle_cancel_sdk_wait, IInv, Shape
  <2> QED
    BY <2>1, ZenonT(30) DEF IInv, Records, Shape, Guards
<1>2. CASE registry[key] # None
  <2>1. key \in cancel_senders
    BY <1>2, Zenon DEF IInv, Shape
  <2>2. registry' = [k \in Keys |-> IF k \in {key} THEN None ELSE registry[k]]
    BY Zenon DEF handle_cancel_sdk_wait, IInv, Shape
  <2> QED
    BY <1>2, <2>1, <2>2, Revokes, Zenon DEF handle_cancel_sdk_wait
<1> QED
  BY <1>1, <1>2, Zenon

LEMMA StepCleanup ==
    ASSUME IInv, NEW connection \in Connections, cleanup_connection_sdk_waits(connection) PROVE IInv'
<1> DEFINE keys == {k \in Keys : registry[k] = connection}
<1>1. \A k \in keys : registry[k] # None
  BY ConnectionsAssumption, Zenon
<1>2. keys \cap cancel_senders = keys
  BY <1>1, Zenon DEF IInv, Shape
<1>3. /\ registry' = [k \in Keys |-> IF k \in keys THEN None ELSE registry[k]]
      /\ cancel_senders' = cancel_senders \ keys /\ req' = Signal(keys)
      /\ revoked' = revoked \cup Holders(keys) /\ reservations' = reservations
  BY <1>2, Zenon DEF cleanup_connection_sdk_waits
<1> HIDE DEF keys
<1>4. keys \in SUBSET Keys
  BY Zenon DEF keys
<1> QED
  BY SMTT(30), <1>1, <1>3, <1>4, Revokes

(* The invariant holds in every behaviour.                                 *)
LEMMA StepIInv == IInv /\ [Next]_vars => IInv'
<1> SUFFICES ASSUME IInv, [Next]_vars PROVE IInv'
  BY Zenon
<1>1. CASE Emit \/ UNCHANGED vars
  <2>1. UNCHANGED <<registry, cancel_senders, req, revoked, reservations>>
    BY <1>1, Zenon DEF Emit, vars, waits
  <2> QED
    BY <2>1, ZenonT(30) DEF IInv, Records, Shape, Guards
<1>2. ASSUME NEW r \in Requests, TaskStep(r) PROVE IInv'
  BY <1>2, StepSubscribe, StepAnswered, StepArmed, StepReading, StepComplete, StepFinish, SMTT(30) DEF TaskStep, register
<1> QED
  BY <1>1, <1>2, StepCancel, StepCleanup, SMTT(30) DEF Next

(* An armed wait answers Cancelled only if its own registration was        *)
(* cancelled or torn down, and then never Matched, however completes,      *)
(* cancels, teardowns and drops of other guards interleave.                *)
THEOREM EveryAnswerIsOwn == Spec => []AnswersAreOwn
<1>1. IInv => AnswersAreOwn
  BY SMTT(30), Implied
<1> QED
  BY <1>1, InitIInv, StepIInv, PTL DEF Spec

(* No cancellation is lost: a wait whose registration was removed has been *)
(* signalled, and a sender is held exactly while its key is registered.    *)
THEOREM NoCancelIsLost == Spec => []CancelReachesTask
<1>1. IInv => CancelReachesTask
  BY Implied, Zenon
<1> QED
  BY <1>1, InitIInv, StepIInv, PTL DEF Spec

---------------------------------------------------------------------------
(***************************************************************************)
(* The quota.  First what the operators on bounded key lists and on the    *)
(* ring's events return.                                                   *)
(***************************************************************************)
Bounded(limit) == {q \in Seq(Keys) : Len(q) <= limit}

LEMMA InsertIsBounded ==
    ASSUME NEW limit \in Nat, NEW q \in Seq(Keys), NEW key \in Keys
    PROVE  BoundedInsert(q, key, limit) \in Bounded(limit)
<1> DEFINE longer == IF Contains(q, key) THEN q ELSE Append(q, key)
           k == 1 + (IF Len(longer) > limit THEN Len(longer) - limit ELSE 0)
<1>1. longer \in Seq(Keys) /\ Len(longer) \in Nat
  OBVIOUS
<1>2. k \in 1 .. Len(longer) + 1 /\ Len(longer) - k + 1 <= limit
  BY <1>1
<1>3. BoundedInsert(q, key, limit) = SubSeq(longer, k, Len(longer))
  BY Zenon DEF BoundedInsert, From
<1> HIDE DEF longer, k
<1>4. \A i \in k .. Len(longer) : longer[i] \in Keys
  BY <1>1, <1>2
<1>5. /\ SubSeq(longer, k, Len(longer)) \in Seq(Keys)
      /\ Len(SubSeq(longer, k, Len(longer))) = IF k <= Len(longer) THEN Len(longer) - k + 1 ELSE 0
  BY SMTT(30), <1>1, <1>2, <1>4, SubSeqProperties
<1> QED
  BY SMTT(30), <1>1, <1>2, <1>3, <1>5 DEF Bounded

(* BoundedSdkWaitKeys::remove shortens the list or leaves it.              *)
LEMMA RemoveIsBounded ==
    ASSUME NEW limit \in Nat, NEW q \in Bounded(limit), NEW key
    PROVE  BoundedRemove(q, key) \in Bounded(limit)
<1>1. PICK n \in Nat : n = Len(q)
  BY DEF Bounded
<1>2. q \in Seq(Keys) /\ n <= limit /\ \A i \in 1 .. n : q[i] \in Keys
  BY <1>1 DEF Bounded
<1> DEFINE Keep(i, before) == IF q[i] = key THEN before ELSE Append(before, q[i])
           Kept(f) == f = [i \in 0 .. n |-> IF i = 0 THEN <<>> ELSE Keep(i, f[i - 1])]
<1>3. BoundedRemove(q, key) = (CHOOSE f : Kept(f))[n]
  BY <1>1, Zenon DEF BoundedRemove
<1>4. \A i \in 1 .. n : \A before \in Seq(Keys) :
         Keep(i, before) \in Seq(Keys) /\ Len(Keep(i, before)) <= Len(before) + 1
  BY <1>2
<1> HIDE DEF Keep
<1>5. \E f : Kept(f)
  <2> DEFINE G == [iv \in (1 .. n) \X Seq(Keys) |-> Keep(iv[1], iv[2])]
  <2>1. G \in [(1 .. n) \X Seq(Keys) -> Seq(Keys)]
    BY <1>4, Zenon
  <2>2. \A i \in 1 .. n : \A before \in Seq(Keys) : G[<<i, before>>] = Keep(i, before)
    BY Zenon
  <2> HIDE DEF G
  <2>3. <<>> \in Seq(Keys)
    OBVIOUS
  <2>4. PICK g \in [0 .. n -> Seq(Keys)] : Recurs(g, n, <<>>, G)
    BY <2>1, <2>3, Recursion, Zenon
  <2>5. g[0] = <<>> /\ \A i \in 1 .. n : g[i] = Keep(i, g[i - 1])
    <3>1. g[0] = <<>> /\ \A i \in 1 .. n : g[i] = G[<<i, g[i - 1]>>]
      BY <2>4, Zenon DEF Recurs
    <3>2. \A i \in 1 .. n : g[i - 1] \in Seq(Keys)
      OBVIOUS
    <3> QED BY ZenonT(30), <2>2, <3>1, <3>2
  <2>6. Kept(g)
    BY <2>4, <2>5
  <2> QED BY <2>6, Zenon
<1>6. PICK f : Kept(f) /\ BoundedRemove(q, key) = f[n]
  BY <1>3, <1>5, Zenon
<1>7. f[0] = <<>> /\ \A i \in 1 .. n : f[i] = Keep(i, f[i - 1])
  BY <1>6
<1> HIDE DEF Kept
<1> DEFINE S == {i \in 0 .. n : f[i] \in Seq(Keys) /\ Len(f[i]) <= i}
<1>8. 0 \in S
  <2>1. <<>> \in Seq(Keys) /\ Len(<<>>) <= 0 /\ 0 \in 0 .. n
    OBVIOUS
  <2>2. f[0] \in Seq(Keys) /\ Len(f[0]) <= 0
    BY <1>7, <2>1, Zenon
  <2> QED BY <2>1, <2>2, Zenon
<1>9. ASSUME NEW i \in 1 .. n, i - 1 \in S PROVE i \in S
  BY SMTT(30), <1>4, <1>7, <1>9
<1>10. n \in S
  <2> HIDE DEF S
  <2>1. 0 .. n \subseteq S
    BY SMTT(30), <1>8, <1>9, UpTo
  <2> QED BY <2>1
<1> QED
  BY SMTT(30), <1>2, <1>6, <1>10 DEF Bounded

(* So does inserting keys one after the other.                             *)
LEMMA InsertAllIsBounded ==
    ASSUME NEW limit \in Nat, NEW q \in Bounded(limit), NEW order \in Seq(Keys)
    PROVE  BoundedInsertAll(q, order, limit) \in Bounded(limit)
<1>1. PICK n \in Nat : n = Len(order) /\ \A i \in 1 .. n : order[i] \in Keys
  OBVIOUS
<1> DEFINE Insert(i, before) == BoundedInsert(before, order[i], limit)
           Inserted(f) == f = [i \in 0 .. n |-> IF i = 0 THEN q ELSE Insert(i, f[i - 1])]
<1>2. BoundedInsertAll(q, order, limit) = (CHOOSE f : Inserted(f))[n]
  BY <1>1, Zenon DEF BoundedInsertAll
<1>3. \A i \in 1 .. n : \A before \in Bounded(limit) : Insert(i, before) \in Bounded(limit)
  BY ZenonT(30), <1>1, InsertIsBounded DEF Bounded
<1> HIDE DEF Insert
<1>4. PICK g \in [0 .. n -> Bounded(limit)] : Inserted(g)
  <2> DEFINE G == [iv \in (1 .. n) \X Bounded(limit) |-> Insert(iv[1], iv[2])]
  <2>1. G \in [(1 .. n) \X Bounded(limit) -> Bounded(limit)]
    BY <1>3, Zenon
  <2>2. \A i \in 1 .. n : \A before \in Bounded(limit) : G[<<i, before>>] = Insert(i, before)
    BY Zenon
  <2> HIDE DEF G
  <2>3. PICK g \in [0 .. n -> Bounded(limit)] : Recurs(g, n, q, G)
    BY <2>1, Recursion, Zenon
  <2>4. g[0] = q /\ \A i \in 1 .. n : g[i] = Insert(i, g[i - 1])
    <3>1. g[0] = q /\ \A i \in 1 .. n : g[i] = G[<<i, g[i - 1]>>]
      BY <2>3, Zenon DEF Recurs
    <3>2. \A i \in 1 .. n : g[i - 1] \in Bounded(limit)
      OBVIOUS
    <3> QED BY SMTT(30), <2>2, <3>1, <3>2
  <2>5. Inserted(g)
    BY <2>3, <2>4
  <2> QED BY <2>5, Zenon
<1>5. PICK f : Inserted(f) /\ BoundedInsertAll(q, order, limit) = f[n]
  BY <1>2, <1>4, Zenon
<1>6. f[0] = q /\ \A i \in 1 .. n : f[i] = Insert(i, f[i - 1])
  BY <1>5
<1> HIDE DEF Inserted
<1> DEFINE S == {i \in 0 .. n : f[i] \in Bounded(limit)}
<1>7. 0 \in S
  BY <1>6
<1>8. ASSUME NEW i \in 1 .. n, i - 1 \in S PROVE i \in S
  BY SMTT(30), <1>3, <1>6, <1>8
<1>9. n \in S
  <2> HIDE DEF S
  <2>1. 0 .. n \subseteq S
    BY <1>7, <1>8, UpTo, Zenon
  <2> QED BY <2>1
<1> QED
  BY <1>5, <1>9, Zenon

(* Both eviction loops of the push keep a tail of the events.              *)
LEMMA EvictKeepsTail ==
    ASSUME NEW E, NEW events \in Seq(E), events # <<>>
    PROVE  \E k \in 1 .. Len(events) : Evict(events) = SubSeq(events, k, Len(events))
<1> DEFINE n == Len(events)
           T == {k \in 1 .. n : Fits(From(events, k))}
<1>1. n \in Nat \ {0} /\ DOMAIN events = 1 .. n /\ \A i \in 1 .. n : events[i] \in E
  OBVIOUS
<1>2. n \in T
  <2>1. Len(From(events, n)) = 1
    BY <1>1, SubSeqProperties DEF From
  <2>2. Len(From(events, n)) <= EventCapacity
    BY <2>1, CapacityAssumption
  <2>3. Fits(From(events, n))
    BY <2>1, <2>2, Zenon DEF Fits
  <2> HIDE DEF n
  <2> QED
    BY <1>1, <2>3
<1>3. PICK k \in T : \A j \in T : k <= j
  <2>1. T \in SUBSET Nat
    OBVIOUS
  <2> HIDE DEF T
  <2> QED BY <1>2, <2>1, LeastNumber
<1>4. k \in DOMAIN events /\ Fits(From(events, k)) /\ \A j \in 1 .. (k - 1) : ~Fits(From(events, j))
  BY <1>1, <1>3
<1>5. \E m \in DOMAIN events : Evict(events) = From(events, m)
  BY <1>4, Zenon DEF Evict
<1> QED
  BY <1>1, <1>5, Zenon DEF From

(* The waits that hold a guard charged to a scope, as QuotaIsExact counts  *)
(* them.                                                                   *)
Charging(s) == {r \in Requests : req[r].status \in Guarded /\ s \in Charged(req[r].key, req[r].connection)}

Quota ==
    /\ usage \in [Scopes -> Nat]
    /\ \A s \in Scopes : usage[s] = Cardinality(Charging(s)) /\ usage[s] <= Limit(s)
    /\ \A r \in Requests : req[r].status \in Guarded
                            => reservations[req[r].key] = Charged(req[r].key, req[r].connection)

(* The events of the ring are numbered below its next sequence, which a    *)
(* cursor never passes.                                                    *)
Events == [sequence : Nat, bytes : Payloads]
Output ==
    /\ emitted \in Seq(Payloads) /\ Len(emitted) <= MaxEvents /\ ring.next = Len(emitted)
    /\ ring.events \in Seq(Events)
    /\ \A i \in 1 .. Len(ring.events) : ring.events[i].sequence < ring.next
Cursors == \A r \in Requests : req[r].cursor \in Nat /\ req[r].cursor <= ring.next

KeyLists ==
    /\ finished_waits \in Bounded(FinishedLimit)
    /\ cancelled_before_register \in Bounded(PendingCancelLimit)

LEMMA Limits ==
    /\ FinishedLimit \in Nat /\ PendingCancelLimit \in Nat /\ MaxEvents \in Nat
    /\ \A s \in Scopes : Limit(s) \in Nat
<1>1. /\ FinishedLimit \in Nat /\ PendingCancelLimit \in Nat /\ MaxEvents \in Nat
      /\ GlobalLimit \in Nat /\ ConnectionLimit \in Nat /\ OwnerLimit \in Nat /\ PaneLimit \in Nat
  BY LimitsAssumption, Zenon
<1> QED
  BY <1>1, Zenon DEF Limit

LEMMA ChargingIsFinite == ASSUME NEW s PROVE IsFiniteSet(Charging(s)) /\ Charging(s) \subseteq Requests
<1>1. IsFiniteSet(Requests) /\ Charging(s) \subseteq Requests
  BY LimitsAssumption, Zenon DEF Charging
<1> QED
  BY <1>1, FS_Subset

(* A step after which the same waits hold the same guards.                 *)
LEMMA QuotaFrame ==
    ASSUME Quota, UNCHANGED <<usage, reservations>>,
           \A q \in Requests :
             /\ req'[q].status \in Guarded <=> req[q].status \in Guarded
             /\ req[q].status \in Guarded => req'[q].key = req[q].key /\ req'[q].connection = req[q].connection
    PROVE  Quota'
<1>1. ASSUME NEW s PROVE Charging(s)' = Charging(s)
  BY Zenon DEF Charging
<1> QED
  BY <1>1, Zenon DEF Quota

(* Arming a wait charges its scopes once.                                  *)
LEMMA QuotaArmed == ASSUME IInv, Quota, NEW r \in Requests, RegisterArmed(r) PROVE Quota'
<1>1. /\ req[r].status = "subscribed" /\ req[r].key \in Keys /\ req[r].connection \in Connections
      /\ reservations \in [Keys -> SUBSET Scopes]
  BY Zenon DEF IInv, Shape, RegisterArmed, Alive
<1>2. /\ \A q \in Requests \ {r} : req'[q] = req[q]
      /\ req'[r].status = "draining" /\ req'[r].key = req[r].key /\ req'[r].connection = req[r].connection
  <2>1. Moves(r, "draining", req[r].response)
    BY TaskMoves, Zenon DEF IInv
  <2> QED BY <2>1, Zenon DEF Moves
<1> DEFINE scopes == Charged(req[r].key, req[r].connection)
<1>3. /\ reservations[req[r].key] = {} /\ \A s \in scopes : usage[s] + 1 <= Limit(s)
      /\ reservations' = [reservations EXCEPT ![req[r].key] = scopes]
      /\ usage' = [s \in Scopes |-> usage[s] + (IF s \in scopes THEN 1 ELSE 0)]
  BY Zenon DEF RegisterArmed, reserve, Charge
<1>4. \A q \in Requests : req[q].status \in Guarded => req[q].key \in Keys /\ req[q].key # req[r].key
  BY <1>3, Zenon DEF IInv, Shape, Guards, Alive
<1> HIDE DEF scopes
<1>5. ASSUME NEW s \in Scopes
      PROVE  /\ usage'[s] = Cardinality(Charging(s)') /\ usage'[s] <= Limit(s) /\ usage'[s] \in Nat
  <2>1. /\ usage[s] \in Nat /\ usage[s] = Cardinality(Charging(s)) /\ usage[s] <= Limit(s)
        /\ usage'[s] = usage[s] + (IF s \in scopes THEN 1 ELSE 0)
    BY <1>3, Zenon DEF Quota
  <2>2. r \notin Charging(s)
    BY <1>1, Zenon DEF Charging, Guarded
  <2>3. CASE s \in scopes
    <3>1. Charging(s)' = Charging(s) \cup {r}
      BY <1>2, <2>3, Zenon DEF Charging, Guarded, scopes
    <3>2. Cardinality(Charging(s)') = Cardinality(Charging(s)) + 1
      BY SMTT(30), <2>2, <3>1, ChargingIsFinite, FS_AddElement
    <3>3. usage[s] + 1 <= Limit(s)
      BY <1>3, <2>3
    <3> QED BY SMTT(30), <2>1, <2>3, <3>2, <3>3
  <2>4. CASE s \notin scopes
    <3>1. Charging(s)' = Charging(s)
      BY <1>2, <2>2, <2>4, Zenon DEF Charging, scopes
    <3> QED BY SMTT(30), <2>1, <2>4, <3>1
  <2> QED BY <2>3, <2>4, Zenon
<1>6. usage' \in [Scopes -> Nat]
  BY SMTT(30), <1>3, <1>5
<1>7. ASSUME NEW q \in Requests, req'[q].status \in Guarded
      PROVE  reservations'[req'[q].key] = Charged(req'[q].key, req'[q].connection)
  <2>1. CASE q = r
    BY SMTT(30), <1>1, <1>2, <1>3, <2>1 DEF scopes
  <2>2. CASE q # r
    <3>1. req'[q] = req[q] /\ req[q].status \in Guarded
      BY SMTT(30), <1>2, <1>7, <2>2
    <3>2. reservations[req[q].key] = Charged(req[q].key, req[q].connection)
      BY SMTT(30), <3>1 DEF Quota
    <3> QED BY SMTT(30), <1>1, <1>3, <1>4, <3>1, <3>2
  <2> QED BY SMTT(30), <2>1, <2>2
<1> QED
  BY <1>5, <1>6, <1>7, Zenon DEF Quota

(* Dropping a guard releases the scopes it was charged to, and the release *)
(* does not underflow.                                                     *)
LEMMA QuotaFinish == ASSUME IInv, Quota, NEW r \in Requests, finish_registration(r) PROVE Quota'
<1>1. /\ req[r].status \in Guarded /\ req[r].key \in Keys
      /\ reservations[req[r].key] = Charged(req[r].key, req[r].connection)
      /\ reservations \in [Keys -> SUBSET Scopes]
  BY Zenon DEF IInv, Shape, finish_registration, Alive, Guarded, Quota
<1>2. \A q \in Requests \ {r} : req[q].status \in Guarded => req[q].key \in Keys \ {req[r].key}
  BY <1>1, OwnKey
<1>3. (\A q \in Requests \ {r} : req'[q] = req[q]) /\ req'[r].status = "done"
  BY FinishEnds, Zenon DEF Ends
<1> DEFINE scopes == reservations[req[r].key]
<1>4. /\ reservations' = [reservations EXCEPT ![req[r].key] = {}]
      /\ usage' = [s \in Scopes |-> usage[s] - (IF s \in scopes THEN 1 ELSE 0)]
  BY Zenon DEF finish_registration, release
<1>5. scopes = Charged(req[r].key, req[r].connection)
  BY SMTT(30), <1>1
<1> HIDE DEF scopes
<1>6. ASSUME NEW s \in Scopes
      PROVE  /\ usage'[s] = Cardinality(Charging(s)') /\ usage'[s] <= Limit(s) /\ usage'[s] \in Nat
  <2>1. /\ usage[s] \in Nat /\ usage[s] = Cardinality(Charging(s)) /\ usage[s] <= Limit(s) /\ Limit(s) \in Nat
        /\ usage'[s] = usage[s] - (IF s \in scopes THEN 1 ELSE 0)
    BY SMTT(30), <1>4, Limits DEF Quota
  <2>2. CASE s \in scopes
    <3>1. Charging(s)' = Charging(s) \ {r} /\ r \in Charging(s)
      BY <1>1, <1>3, <1>5, <2>2, Zenon DEF Charging, Guarded
    <3>2. /\ Cardinality(Charging(s)') = Cardinality(Charging(s)) - 1
          /\ IsFiniteSet(Charging(s)')
      BY SMTT(30), <3>1, ChargingIsFinite, FS_RemoveElement
    <3>3. Cardinality(Charging(s)') \in Nat
      BY <3>2, FS_CardinalityType, Zenon
    <3> QED BY SMTT(30), <2>1, <2>2, <3>2, <3>3
  <2>3. CASE s \notin scopes
    <3>1. Charging(s)' = Charging(s)
      BY <1>3, <1>5, <2>3, Zenon DEF Charging, Guarded
    <3> QED BY SMTT(30), <2>1, <2>3, <3>1
  <2> QED BY <2>2, <2>3, Zenon
<1>7. usage' \in [Scopes -> Nat]
  BY <1>4, <1>6, Zenon
<1>8. ASSUME NEW q \in Requests, req'[q].status \in Guarded
      PROVE  reservations'[req'[q].key] = Charged(req'[q].key, req'[q].connection)
  <2>1. q # r
    BY <1>3, <1>8, Zenon DEF Guarded
  <2>2. req'[q] = req[q] /\ req[q].status \in Guarded
    BY SMTT(30), <1>3, <1>8, <2>1
  <2>3. reservations[req[q].key] = Charged(req[q].key, req[q].connection)
    BY <2>2, Zenon DEF Quota
  <2> QED BY SMTT(30), <1>1, <1>2, <1>4, <2>1, <2>2, <2>3
<1> QED
  BY <1>6, <1>7, <1>8, Zenon DEF Quota

LEMMA StepQuota == ASSUME IInv, Quota, [Next]_vars PROVE Quota'
<1>1. CASE Emit \/ UNCHANGED vars
  <2>1. UNCHANGED <<req, usage, reservations>>
    BY <1>1, Zenon DEF Emit, vars, waits
  <2> QED BY <2>1, QuotaFrame, Zenon
<1>2. ASSUME NEW r \in Requests, TaskStep(r) PROVE Quota'
  <2>1. CASE Subscribe(r)
    <3>1. /\ req[r].status = "idle" /\ req'[r].status = "subscribed" /\ UNCHANGED <<usage, reservations>>
          /\ \A q \in Requests \ {r} : req'[q] = req[q]
      BY ZenonT(30), <2>1, Subscribes DEF IInv, Subscribe, waits
    <3> QED BY <3>1, QuotaFrame, SMTT(30) DEF Guarded
  <2>2. CASE RegisterCancelled(r) \/ RegisterRefused(r)
    <3>1. Ends(r) /\ req[r].status = "subscribed" /\ UNCHANGED <<usage, reservations>>
      BY <2>2, TaskMoves, Zenon DEF IInv, RegisterCancelled, RegisterRefused, waits
    <3> QED BY <3>1, QuotaFrame, SMTT(30) DEF Guarded, Ends
  <2>3. CASE RegisterArmed(r)
    BY SMTT(30), <2>3, QuotaArmed
  <2>4. CASE observe_cursor_item(r) \/ Drained(r) \/ ObserveCancel(r) \/ Abandon(r) \/ complete(r)
    <3>1. PICK status, response : status \in Guarded /\ Moves(r, status, response)
      BY <2>4, TaskMoves, SMTT(30) DEF IInv, Guarded
    <3>2. req[r].status \in Guarded /\ UNCHANGED <<usage, reservations>>
      BY <2>4, Zenon DEF observe_cursor_item, Drained, ObserveCancel, Abandon, complete, waits, Guarded
    <3>3. /\ \A q \in Requests \ {r} : req'[q] = req[q]
          /\ req'[r].status \in Guarded /\ req'[r].key = req[r].key /\ req'[r].connection = req[r].connection
      BY <3>1, Zenon DEF Moves
    <3> QED BY <3>2, <3>3, QuotaFrame, SMTT(30)
  <2>5. CASE finish_registration(r)
    BY <2>5, QuotaFinish, Zenon
  <2> QED BY <1>2, <2>1, <2>2, <2>3, <2>4, <2>5, Zenon DEF TaskStep, register
<1>3. ASSUME UNCHANGED <<usage, reservations>>, req' = req \/ \E keys : req' = Signal(keys) PROVE Quota'
  <2>1. CASE req' = req
    BY <1>3, <2>1, QuotaFrame, Zenon
  <2>2. ASSUME NEW keys, req' = Signal(keys) PROVE Quota'
    <3>1. \A q \in Requests : /\ req'[q].status = req[q].status /\ req'[q].key = req[q].key
                              /\ req'[q].connection = req[q].connection
      BY <2>2, Signals, Zenon DEF IInv
    <3> QED BY SMTT(30), <1>3, <3>1, QuotaFrame
  <2> QED BY <1>3, <2>1, <2>2, Zenon
<1>4. ASSUME NEW key \in Keys, handle_cancel_sdk_wait(key) PROVE Quota'
  BY <1>3, <1>4, Zenon DEF handle_cancel_sdk_wait
<1>5. ASSUME NEW connection \in Connections, cleanup_connection_sdk_waits(connection) PROVE Quota'
  BY <1>3, <1>5, Zenon DEF cleanup_connection_sdk_waits
<1> QED
  BY <1>1, <1>2, <1>4, <1>5, Zenon DEF Next

(* The oldest retained event is not newer than the next one.               *)
LEMMA OldestIsBelow == Output => oldest_sequence(ring) \in Nat /\ oldest_sequence(ring) <= ring.next
<1> SUFFICES ASSUME Output PROVE oldest_sequence(ring) \in Nat /\ oldest_sequence(ring) <= ring.next
  BY Zenon
<1>1. ring.next \in Nat
  BY DEF Output
<1>2. CASE ring.events = <<>>
  BY <1>1, <1>2 DEF oldest_sequence
<1>3. CASE ring.events # <<>>
  <2>1. Head(ring.events) = ring.events[1] /\ 1 \in 1 .. Len(ring.events) /\ ring.events[1] \in Events
    BY <1>3 DEF Output
  <2>2. ring.events[1].sequence \in Nat /\ ring.events[1].sequence < ring.next
    BY <2>1, Zenon DEF Output, Events
  <2> QED BY SMTT(30), <1>1, <1>3, <2>1, <2>2 DEF oldest_sequence
<1> QED BY <1>2, <1>3, Zenon

LEMMA StepOutput == ASSUME Output, [Next]_vars PROVE Output' /\ (ring' = ring \/ ring'.next = ring.next + 1)
<1>1. CASE UNCHANGED <<ring, emitted>>
  BY <1>1, Zenon DEF Output
<1>2. CASE Emit
  <2>1. PICK bytes \in Payloads : ring' = push(ring, bytes) /\ emitted' = Append(emitted, bytes)
    BY <1>2, Zenon DEF Emit
  <2>2. Len(emitted) < MaxEvents /\ Len(emitted) \in Nat /\ ring.next \in Nat /\ MaxEvents \in Nat
    BY <1>2, Limits DEF Emit, Output
  <2> DEFINE event == [sequence |-> ring.next, bytes |-> bytes]
             longer == Append(ring.events, event)
  <2>3. ring'.next = ring.next + 1 /\ ring'.events = Evict(longer)
    BY <2>1, Zenon DEF push
  <2>4. event \in Events /\ event.sequence = ring.next
    BY <2>2, Zenon DEF Events
  <2> HIDE DEF event
  <2>5. /\ longer \in Seq(Events) /\ longer # <<>> /\ Len(longer) \in Nat
        /\ \A i \in 1 .. Len(longer) : longer[i].sequence < ring.next + 1
    <3>1. ring.events \in Seq(Events) /\ \A i \in 1 .. Len(ring.events) : ring.events[i].sequence < ring.next
      BY Zenon DEF Output
    <3>2. \A i \in 1 .. Len(ring.events) : ring.events[i].sequence \in Nat
      <4>1. \A i \in 1 .. Len(ring.events) : ring.events[i] \in Events
        BY <3>1
      <4>2. \A e \in Events : e.sequence \in Nat
        BY Zenon DEF Events
      <4> QED BY <4>1, <4>2, Zenon
    <3>3. longer \in Seq(Events) /\ longer # <<>> /\ Len(longer) = Len(ring.events) + 1 /\ Len(ring.events) \in Nat
      BY SMTT(30), <2>4, <3>1
    <3>4. longer[Len(ring.events) + 1] = event /\ \A i \in 1 .. Len(ring.events) : longer[i] = ring.events[i]
      BY SMTT(30), <2>4, <3>1, AppendProperties
    <3>5. ASSUME NEW i \in 1 .. Len(longer) PROVE longer[i].sequence < ring.next + 1
      <4>1. CASE i = Len(ring.events) + 1
        BY SMTT(30), <2>2, <2>4, <3>4, <4>1
      <4>2. CASE i \in 1 .. Len(ring.events)
        BY SMTT(30), <2>2, <3>1, <3>2, <3>4, <4>2
      <4> QED BY SMTT(30), <3>3, <4>1, <4>2
    <3> QED BY <3>3, <3>5
  <2> HIDE DEF longer
  <2>6. PICK k \in 1 .. Len(longer) : ring'.events = SubSeq(longer, k, Len(longer))
    BY SMTT(30), <2>3, <2>5, EvictKeepsTail
  <2>7. /\ ring'.events \in Seq(Events) /\ Len(ring'.events) = Len(longer) - k + 1
        /\ \A i \in 1 .. Len(ring'.events) : ring'.events[i] = longer[k + i - 1]
    <3>1. \A i \in k .. Len(longer) : longer[i] \in Events
      BY <2>5
    <3> QED BY SMTT(30), <2>5, <2>6, <3>1, SubSeqProperties
  <2>8. \A i \in 1 .. Len(ring'.events) : ring'.events[i].sequence < ring'.next
    <3>1. ASSUME NEW i \in 1 .. Len(ring'.events) PROVE k + i - 1 \in 1 .. Len(longer)
      BY SMTT(30), <2>5, <2>7
    <3> QED BY <2>3, <2>5, <2>7, <3>1, Zenon
  <2>9. emitted' \in Seq(Payloads) /\ Len(emitted') = Len(emitted) + 1
    BY <2>1 DEF Output
  <2>10. ring.next = Len(emitted)
    BY Zenon DEF Output
  <2> QED BY SMTT(30), <2>2, <2>3, <2>7, <2>8, <2>9, <2>10 DEF Output
<1>3. Emit \/ UNCHANGED <<ring, emitted>>
  <2>1. ASSUME NEW r \in Requests, TaskStep(r) PROVE UNCHANGED <<ring, emitted>>
    BY <2>1, Zenon DEF TaskStep, register, Subscribe, RegisterCancelled, RegisterRefused, RegisterArmed, observe_cursor_item,
                Drained, ObserveCancel, Abandon, complete, finish_registration
  <2> QED BY <2>1, Zenon DEF Next, vars, handle_cancel_sdk_wait, cleanup_connection_sdk_waits
<1> QED
  BY SMTT(30), <1>1, <1>2, <1>3

LEMMA StepCursors == ASSUME IInv, Output, Cursors, [Next]_vars PROVE Cursors'
<1>1. ring.next \in Nat /\ oldest_sequence(ring) \in Nat /\ oldest_sequence(ring) <= ring.next
  BY OldestIsBelow DEF Output
<1>2. ring'.next \in Nat /\ ring.next <= ring'.next
  BY SMTT(30), <1>1, StepOutput
<1>3. ASSUME NEW r \in Requests,
             \A q \in Requests \ {r} : req'[q] = req[q],
             req'[r].cursor \in {0, ring.next, oldest_sequence(ring), req[r].cursor} \/ Reads(r, req'[r].cursor)
      PROVE  Cursors'
  <2>1. req[r].cursor \in Nat /\ req[r].cursor <= ring.next
    BY Zenon DEF Cursors
  <2>2. req'[r].cursor \in Nat /\ req'[r].cursor <= ring.next
    BY <1>1, <1>3, <2>1, SMTT(30) DEF Reads, HasEvent
  <2>3. \A q \in Requests : req'[q].cursor \in Nat /\ req'[q].cursor <= ring.next
    BY SMTT(30), <1>3, <2>2 DEF Cursors
  <2> QED BY SMTT(30), <1>1, <1>2, <2>3 DEF Cursors
<1>4. ASSUME \A q \in Requests : req'[q].cursor = req[q].cursor PROVE Cursors'
  BY SMTT(30), <1>1, <1>2, <1>4 DEF Cursors
<1>5. ASSUME NEW r \in Requests, TaskStep(r) PROVE Cursors'
  <2>1. CASE Subscribe(r)
    BY <1>3, <2>1, Subscribes, Zenon DEF IInv
  <2>2. ASSUME Ends(r) PROVE Cursors'
    BY <1>3, <2>2, Zenon DEF Ends
  <2>3. ASSUME NEW status, NEW response, Moves(r, status, response) PROVE Cursors'
    BY <1>3, <2>3, Zenon DEF Moves
  <2> QED
    BY <1>5, <2>1, <2>2, <2>3, TaskMoves, FinishEnds, SMTT(30) DEF IInv, TaskStep, register
<1>6. ASSUME NEW keys, req' = Signal(keys) PROVE Cursors'
  BY <1>4, <1>6, Signals, Zenon DEF IInv
<1>7. ASSUME req' = req PROVE Cursors'
  BY <1>4, <1>7, Zenon
<1> QED
  BY <1>5, <1>6, <1>7, Zenon DEF Next, Emit, handle_cancel_sdk_wait, cleanup_connection_sdk_waits, vars

LEMMA StepKeyLists == ASSUME IInv, KeyLists, [Next]_vars PROVE KeyLists'
<1>1. FinishedLimit \in Nat /\ PendingCancelLimit \in Nat
  BY Limits, Zenon
<1>2. /\ finished_waits \in Bounded(FinishedLimit) /\ finished_waits \in Seq(Keys)
      /\ cancelled_before_register \in Bounded(PendingCancelLimit) /\ cancelled_before_register \in Seq(Keys)
  BY Zenon DEF KeyLists, Bounded
<1>3. \A key \in Keys :
        /\ BoundedInsert(finished_waits, key, FinishedLimit) \in Bounded(FinishedLimit)
        /\ BoundedRemove(finished_waits, key) \in Bounded(FinishedLimit)
        /\ BoundedInsert(cancelled_before_register, key, PendingCancelLimit) \in Bounded(PendingCancelLimit)
        /\ BoundedRemove(cancelled_before_register, key) \in Bounded(PendingCancelLimit)
  BY <1>1, <1>2, InsertIsBounded, RemoveIsBounded, Zenon
<1>4. ASSUME UNCHANGED <<finished_waits, cancelled_before_register>> PROVE KeyLists'
  BY <1>2, <1>4, Zenon DEF KeyLists
<1>5. ASSUME NEW r \in Requests, TaskStep(r) PROVE KeyLists'
  <2>1. req[r].status \in Alive => req[r].key \in Keys
    BY Zenon DEF IInv, Shape
  <2>2. CASE RegisterCancelled(r) \/ RegisterArmed(r) \/ complete(r) \/ finish_registration(r)
    <3>1. req[r].key \in Keys
      BY <2>1, <2>2, Zenon DEF RegisterCancelled, RegisterArmed, complete, finish_registration, Alive, Guarded
    <3> QED
      BY <1>2, <1>3, <2>2, <3>1, Zenon DEF RegisterCancelled, RegisterArmed, complete, finish_registration, KeyLists
  <2>3. CASE ~(RegisterCancelled(r) \/ RegisterArmed(r) \/ complete(r) \/ finish_registration(r))
    <3>1. UNCHANGED <<finished_waits, cancelled_before_register>>
      BY <1>5, <2>3, Zenon DEF TaskStep, register, Subscribe, RegisterRefused, observe_cursor_item, Drained, ObserveCancel,
                        Abandon, waits
    <3> QED BY <1>4, <3>1, Zenon
  <2> QED BY <2>2, <2>3, Zenon
<1>6. ASSUME NEW key \in Keys, handle_cancel_sdk_wait(key) PROVE KeyLists'
  BY <1>2, <1>3, <1>6, Zenon DEF handle_cancel_sdk_wait, KeyLists
<1>7. ASSUME NEW connection \in Connections, cleanup_connection_sdk_waits(connection) PROVE KeyLists'
  <2> DEFINE keys == {k \in Keys : registry[k] = connection}
  <2>1. PICK order \in SetToSeqs(keys) : finished_waits' = BoundedInsertAll(finished_waits, order, FinishedLimit)
    BY <1>7, Zenon DEF cleanup_connection_sdk_waits
  <2>2. order \in Seq(Keys)
    <3>1. order \in [1 .. Cardinality(keys) -> keys]
      BY <2>1, Zenon DEF SetToSeqs
    <3>2. Cardinality(keys) \in Nat /\ keys \subseteq Keys
      <4>1. IsFiniteSet(Owners \X WaitIds)
        BY LimitsAssumption, FS_Product
      <4>2. keys \in SUBSET (Owners \X WaitIds)
        BY Zenon DEF Keys
      <4> QED BY SMTT(30), <4>1, <4>2, FS_Subset, FS_CardinalityType DEF Keys
    <3> HIDE DEF keys
    <3> QED BY <3>1, <3>2
  <2>3. finished_waits' \in Bounded(FinishedLimit)
    BY <1>1, <1>2, <2>1, <2>2, InsertAllIsBounded, Zenon
  <2> QED BY <1>2, <1>7, <2>3, Zenon DEF cleanup_connection_sdk_waits, KeyLists
<1> QED
  BY <1>4, <1>5, <1>6, <1>7, Zenon DEF Next, Emit, vars, waits

QInv == IInv /\ Quota /\ Output /\ Cursors /\ KeyLists

(* Quota is charged exactly while a guard is alive, once per key and in    *)
(* every scope, no scope exceeds its limit and no release underflows, for  *)
(* any limits and any number of requests (SdkWaitQuota::reserve, release   *)
(* and the guard's drop).                                                  *)
THEOREM QuotaIsAlwaysExact == Spec => []QuotaIsExact
<1>1. Init => QInv
  <2> SUFFICES ASSUME Init PROVE QInv
    BY Zenon
  <2>1. \A r \in Requests : req[r] = Idle
    BY Zenon DEF Init
  <2>2. Idle.status \notin Guarded /\ Idle.cursor = 0
    BY Zenon DEF Idle, Guarded
  <2>3. Quota
    <3>1. \A s : Charging(s) = {}
      BY <2>1, <2>2, Zenon DEF Charging
    <3>2. Cardinality({}) = 0
      BY FS_EmptySet, Zenon
    <3>3. usage = [s \in Scopes |-> 0]
      BY Zenon DEF Init
    <3> QED BY SMTT(30), <2>1, <2>2, <3>1, <3>2, <3>3, Limits DEF Quota
  <2>4. Output /\ Cursors
    <3>1. ring.next = 0 /\ ring.events = <<>> /\ emitted = <<>>
      BY Zenon DEF Init, EmptyRing
    <3>2. Output
      BY <3>1, Limits DEF Output
    <3> QED BY SMTT(30), <2>1, <2>2, <3>1, <3>2 DEF Cursors
  <2>5. KeyLists
    BY Limits DEF Init, KeyLists, Bounded
  <2> QED BY SMTT(30), <2>3, <2>4, <2>5, InitIInv DEF QInv
<1>2. QInv /\ [Next]_vars => QInv'
  BY StepIInv, StepQuota, StepOutput, StepCursors, StepKeyLists, Zenon DEF QInv
<1>3. QInv => QuotaIsExact
  <2> SUFFICES ASSUME QInv PROVE QuotaIsExact
    BY Zenon
  <2>1. TypeOK
    <3>1. /\ registry \in [Keys -> Connections \cup {None}] /\ cancel_senders \subseteq Keys
          /\ reservations \in [Keys -> SUBSET Scopes] /\ \A r \in Requests : req[r].status \in Statuses
      BY Zenon DEF QInv, IInv, Shape
    <3>2. Len(finished_waits) <= FinishedLimit /\ Len(cancelled_before_register) <= PendingCancelLimit
      BY Zenon DEF QInv, KeyLists, Bounded
    <3> QED BY <3>1, <3>2, Zenon DEF TypeOK, QInv, Quota, Output, Cursors
  <2>2. \A r \in Requests : req[r].status \in Guarded => reservations[req[r].key] # {}
    BY Zenon DEF QInv, IInv, Guards
  <2> QED BY <2>1, <2>2, Zenon DEF QuotaIsExact, QInv, Quota, Charging
<1> QED
  BY <1>1, <1>2, <1>3, PTL DEF Spec
=============================================================================
