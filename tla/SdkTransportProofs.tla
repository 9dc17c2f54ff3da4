------------------------- MODULE SdkTransportProofs -------------------------
(***************************************************************************)
(* The transport is correct for any callers, scenarios and capacities:     *)
(* answers stay with their requests, an armed wait is armed and a shutdown *)
(* loses nothing.  The argument counts: the answers on their way to the    *)
(* actor complete the pending calls one by one from the front, and every   *)
(* call behind those is at the daemon or on its way to it.                 *)
(***************************************************************************)
EXTENDS SdkTransport, Integers, WellFoundedInduction, TLAPS

(***************************************************************************)
(* Counting the answers of a queue that complete a request.                *)
(***************************************************************************)

One(e) == IF Completes(e) THEN 1 ELSE 0

LEMMA NumbersFrom0 == ASSUME NEW P, 0 \in P, \A k \in Nat : k \in P => k + 1 \in P PROVE Nat \subseteq P
<1> DEFINE R == {ss \in Nat \X Nat : ss[1] < ss[2]}
           T == Nat \ P
<1> SUFFICES ASSUME T # {} PROVE FALSE
  BY Zenon
<1>1. IsWellFoundedOn(R, Nat)
  BY NatLessThanWellFounded, Zenon DEF OpToRel
<1>2. T \subseteq Nat
  BY Zenon
<1>3. PICK x \in T : \A y \in T : ~(<<y, x>> \in R)
  <2> HIDE DEF R, T
  <2> QED
    BY <1>1, <1>2, WFMin, Zenon
<1>4. x \in Nat /\ x # 0 /\ x - 1 \in Nat /\ (x - 1) + 1 = x
  OBVIOUS
<1>5. x - 1 \in T
  BY <1>4, Zenon
<1>6. <<x - 1, x>> \in R
  BY <1>4
<1> QED
  BY <1>3, <1>5, <1>6, Zenon

(* The count is the solution of its recursion.                             *)
LEMMA BeforeCounts ==
    ASSUME NEW q
    PROVE  /\ Before(q, 1) = 0
           /\ \A i \in Nat \ {0} : Before(q, i) \in Nat /\ Before(q, i + 1) = Before(q, i) + One(q[i])
<1> DEFINE Starts(g, k) == g[0] = 0 /\ \A i \in 1 .. k : g[i] = g[i - 1] + One(q[i])
           Counts(g, k) == g \in [0 .. k -> Nat] /\ Starts(g, k)
           P == {k \in Nat : \E g : Counts(g, k)}
<1>0. \A e : One(e) \in Nat
  BY DEF One
<1>1. 0 \in P
  <2>1. Counts([i \in 0 .. 0 |-> 0], 0)
    OBVIOUS
  <2> HIDE DEF Counts
  <2> QED
    BY <2>1
<1>2. ASSUME NEW k \in Nat, k \in P PROVE k + 1 \in P
  <2>1. PICK g : Counts(g, k)
    BY <1>2, Zenon
  <2> DEFINE h == [i \in 0 .. (k + 1) |-> IF i = k + 1 THEN g[k] + One(q[k + 1]) ELSE g[i]]
  <2>2. g \in [0 .. k -> Nat] /\ g[0] = 0 /\ \A i \in 1 .. k : g[i] = g[i - 1] + One(q[i])
    BY <2>1, Zenon
  <2>3. g[k] + One(q[k + 1]) \in Nat
    BY <1>0, <2>2
  <2>4. h \in [0 .. (k + 1) -> Nat] /\ h[0] = 0 /\ h[k + 1] = g[k] + One(q[k + 1]) /\ \A i \in 0 .. k : h[i] = g[i]
    BY <2>2, <2>3
  <2> HIDE DEF h
  <2>5. ASSUME NEW i \in 1 .. (k + 1) PROVE h[i] = h[i - 1] + One(q[i])
    <3>1. CASE i = k + 1
      <4>1. i - 1 = k /\ k \in 0 .. k
        BY <3>1
      <4> QED
        BY <2>4, <3>1, <4>1, Zenon
    <3>2. CASE i # k + 1
      <4>1. i \in 1 .. k /\ i \in 0 .. k /\ i - 1 \in 0 .. k
        BY <3>2
      <4> QED
        BY <2>2, <2>4, <4>1, Zenon
    <3> QED
      BY <3>1, <3>2, Zenon
  <2>6. Counts(h, k + 1) /\ k + 1 \in Nat
    BY <2>4, <2>5
  <2> HIDE DEF Counts
  <2> QED
    BY <2>6, Zenon
<1>3. \A k \in Nat : \E g : Counts(g, k)
  <2>1. Nat \subseteq P
    <3> HIDE DEF P
    <3> QED
      BY <1>1, <1>2, NumbersFrom0, Zenon
  <2> QED
    BY <2>1, Zenon
<1>4. ASSUME NEW k \in Nat, NEW g, NEW h, Starts(g, k), Starts(h, k) PROVE g[k] = h[k]
  <2> DEFINE E == {i \in Nat : i <= k => g[i] = h[i]}
  <2>1. g[0] = 0 /\ h[0] = 0 /\ \A i \in 1 .. k : g[i] = g[i - 1] + One(q[i]) /\ h[i] = h[i - 1] + One(q[i])
    BY <1>4, Zenon
  <2> HIDE DEF Starts
  <2>2. 0 \in E
    BY <2>1
  <2>3. ASSUME NEW i \in Nat, i \in E PROVE i + 1 \in E
    <3> SUFFICES ASSUME i + 1 <= k PROVE g[i + 1] = h[i + 1]
      OBVIOUS
    <3>1. i + 1 \in 1 .. k /\ (i + 1) - 1 = i /\ i <= k
      OBVIOUS
    <3> QED
      BY <2>1, <2>3, <3>1, Zenon
  <2>4. k \in E
    <3> HIDE DEF E
    <3> QED
      BY <2>2, <2>3, NumbersFrom0, Zenon
  <2>5. k <= k
    OBVIOUS
  <2> QED
    BY <2>4, <2>5, Zenon
<1> DEFINE G(k) == CHOOSE g : Counts(g, k)
           f == [n \in Nat |-> G(n)[n]]
           R(g) == g = [n \in Nat |-> IF n = 0 THEN 0 ELSE g[n - 1] + One(q[n])]
<1>5. \A k \in Nat : Counts(G(k), k)
  <2> HIDE DEF Counts
  <2> QED
    BY <1>3, Zenon
<1>6. \A n \in Nat : f[n] = IF n = 0 THEN 0 ELSE f[n - 1] + One(q[n])
  <2> SUFFICES ASSUME NEW n \in Nat PROVE f[n] = IF n = 0 THEN 0 ELSE f[n - 1] + One(q[n])
    BY Zenon
  <2>1. CASE n = 0
    BY <1>5, <2>1, Zenon
  <2>2. CASE n # 0
    <3>1. n - 1 \in Nat /\ n \in 1 .. n /\ \A i \in 1 .. (n - 1) : i \in 1 .. n
      BY <2>2
    <3>2. Starts(G(n), n) /\ Starts(G(n - 1), n - 1)
      BY <1>5, <3>1, Zenon
    <3>3. Starts(G(n), n - 1)
      BY <3>1, <3>2, Zenon
    <3>4. G(n)[n] = G(n)[n - 1] + One(q[n])
      BY <3>1, <3>2, Zenon
    <3> HIDE DEF G, Starts
    <3>5. G(n)[n - 1] = G(n - 1)[n - 1]
      BY <1>4, <3>1, <3>2, <3>3, Zenon
    <3>6. f[n] = G(n)[n] /\ f[n - 1] = G(n - 1)[n - 1]
      BY <3>1, Zenon
    <3> QED
      BY <2>2, <3>4, <3>5, <3>6, Zenon
  <2> QED
    BY <2>1, <2>2, Zenon
<1>7. R(f)
  <2>1. f = [n \in Nat |-> f[n]]
    <3> HIDE DEF G
    <3> QED
      OBVIOUS
  <2> HIDE DEF f
  <2> QED
    BY <1>6, <2>1, Zenon
<1> DEFINE c == CHOOSE g : R(g)
<1>8. R(c)
  <2> HIDE DEF R, f
  <2> QED
    BY <1>7, Zenon
<1>9. \A n \in Nat : c[n] = IF n = 0 THEN 0 ELSE c[n - 1] + One(q[n])
  <2> HIDE DEF c
  <2> QED
    BY <1>8, Zenon
<1>10. \A i : Before(q, i) = c[i - 1]
  BY Zenon DEF Before, One
<1> HIDE DEF c
<1>11. \A n \in Nat : c[n] \in Nat
  <2> DEFINE N == {n \in Nat : c[n] \in Nat}
  <2>1. 0 \in N
    BY <1>9
  <2>2. ASSUME NEW n \in Nat, n \in N PROVE n + 1 \in N
    <3>1. n + 1 # 0 /\ (n + 1) - 1 = n /\ n + 1 \in Nat
      OBVIOUS
    <3>2. c[n + 1] = c[n] + One(q[n + 1])
      BY <1>9, <3>1, Zenon
    <3>3. One(q[n + 1]) \in Nat /\ c[n] \in Nat
      BY <1>0, <2>2, Zenon
    <3>4. c[n + 1] \in Nat
      BY <3>2, <3>3
    <3> QED
      BY <3>1, <3>4, Zenon
  <2>3. Nat \subseteq N
    <3> HIDE DEF N
    <3> QED
      BY <2>1, <2>2, NumbersFrom0, Zenon
  <2> QED
    BY <2>3, Zenon
<1>12. Before(q, 1) = 0
  <2>1. Before(q, 1) = c[1 - 1] /\ c[0] = 0
    BY <1>9, <1>10, Zenon
  <2> QED
    BY <2>1, 1 - 1 = 0, Zenon
<1>13. ASSUME NEW i \in Nat \ {0} PROVE Before(q, i) \in Nat /\ Before(q, i + 1) = Before(q, i) + One(q[i])
  <2>1. i - 1 \in Nat /\ (i + 1) - 1 = i /\ i \in Nat /\ i # 0
    OBVIOUS
  <2>2. Before(q, i) = c[i - 1] /\ Before(q, i + 1) = c[(i + 1) - 1]
    BY <1>10, Zenon
  <2> QED
    BY <1>9, <1>11, <2>1, <2>2, Zenon
<1> QED
  BY <1>12, <1>13, Zenon

LEMMA BeforeFirst == \A q : Before(q, 1) = 0
BY BeforeCounts, Zenon

LEMMA BeforeIsNat == ASSUME NEW q, NEW i \in Nat \ {0} PROVE Before(q, i) \in Nat
BY BeforeCounts, Zenon

LEMMA BeforeNext == ASSUME NEW q, NEW i \in Nat \ {0} PROVE Before(q, i + 1) = Before(q, i) + One(q[i])
BY BeforeCounts, Zenon

(* Equal queues up to a place count the same before it.                    *)
LEMMA BeforeSame ==
    ASSUME NEW q, NEW s, NEW i \in Nat \ {0}, \A j \in 1 .. (i - 1) : q[j] = s[j]
    PROVE  Before(q, i) = Before(s, i)
<1> DEFINE P == {k \in Nat : k <= i - 1 => Before(q, k + 1) = Before(s, k + 1)}
<1>1. 0 \in P
  BY BeforeFirst, 0 + 1 = 1
<1>2. ASSUME NEW k \in Nat, k \in P PROVE k + 1 \in P
  <2> SUFFICES ASSUME k + 1 <= i - 1 PROVE Before(q, (k + 1) + 1) = Before(s, (k + 1) + 1)
    OBVIOUS
  <2>1. k + 1 \in Nat \ {0} /\ k + 1 \in 1 .. (i - 1) /\ k <= i - 1
    OBVIOUS
  <2>2. Before(q, k + 1) = Before(s, k + 1) /\ q[k + 1] = s[k + 1]
    BY <1>2, <2>1, Zenon
  <2> QED
    BY <2>1, <2>2, BeforeNext, Zenon
<1>3. i - 1 \in P
  <2>1. i - 1 \in Nat
    OBVIOUS
  <2> HIDE DEF P
  <2> QED
    BY <1>1, <1>2, <2>1, NumbersFrom0, Zenon
<1>4. i - 1 <= i - 1 /\ (i - 1) + 1 = i
  OBVIOUS
<1> QED
  BY <1>3, <1>4, Zenon

LEMMA BeforeMonotone ==
    ASSUME NEW q, NEW i \in Nat \ {0}, NEW j \in Nat, i <= j
    PROVE  Before(q, i) <= Before(q, j)
<1> DEFINE P == {k \in Nat : Before(q, i) <= Before(q, i + k)}
<1>1. 0 \in P
  <2>1. Before(q, i) \in Nat /\ i + 0 = i
    BY BeforeIsNat
  <2> QED
    BY <2>1
<1>2. ASSUME NEW k \in Nat, k \in P PROVE k + 1 \in P
  <2>1. i + k \in Nat \ {0} /\ i + (k + 1) = (i + k) + 1 /\ k + 1 \in Nat
    OBVIOUS
  <2>2. Before(q, (i + k) + 1) = Before(q, i + k) + One(q[i + k]) /\ Before(q, i) \in Nat /\ Before(q, i + k) \in Nat
    BY <2>1, BeforeNext, BeforeIsNat, Zenon
  <2>3. One(q[i + k]) \in Nat
    BY DEF One
  <2>4. Before(q, i) <= Before(q, (i + k) + 1)
    BY <1>2, <2>2, <2>3
  <2> QED
    BY <2>1, <2>4, Zenon
<1>3. j - i \in P
  <2>1. j - i \in Nat
    OBVIOUS
  <2> HIDE DEF P
  <2> QED
    BY <1>1, <1>2, <2>1, NumbersFrom0, Zenon
<1>4. i + (j - i) = j
  OBVIOUS
<1> QED
  BY <1>3, <1>4, Zenon

(* Without its first item a queue counts one item less.                    *)
LEMMA BeforeTail ==
    ASSUME NEW S, NEW q \in Seq(S), q # <<>>, NEW i \in 1 .. Len(q)
    PROVE  Before(q, i + 1) = Before(Tail(q), i) + One(q[1])
<1> DEFINE t == Tail(q)
           P == {k \in Nat : k + 1 <= Len(q) => Before(q, (k + 1) + 1) = Before(t, k + 1) + One(q[1])}
<1>1. 0 \in P
  <2>1. Before(q, 1 + 1) = Before(q, 1) + One(q[1]) /\ Before(q, 1) = 0 /\ Before(t, 1) = 0
    BY BeforeNext, BeforeFirst
  <2> QED
    BY <2>1, 0 + 1 = 1, Zenon
<1>2. ASSUME NEW k \in Nat, k \in P PROVE k + 1 \in P
  <2> SUFFICES ASSUME (k + 1) + 1 <= Len(q) PROVE Before(q, ((k + 1) + 1) + 1) = Before(t, (k + 1) + 1) + One(q[1])
    OBVIOUS
  <2>1. Before(q, (k + 1) + 1) = Before(t, k + 1) + One(q[1])
    BY <1>2
  <2>2. /\ Before(q, ((k + 1) + 1) + 1) = Before(q, (k + 1) + 1) + One(q[(k + 1) + 1])
        /\ Before(t, (k + 1) + 1) = Before(t, k + 1) + One(t[k + 1])
    <3>1. k + 1 \in Nat \ {0} /\ (k + 1) + 1 \in Nat \ {0}
      OBVIOUS
    <3> QED
      BY <3>1, BeforeNext, Zenon
  <2>3. t[k + 1] = q[(k + 1) + 1]
    OBVIOUS
  <2>4. Before(t, k + 1) \in Nat /\ One(q[1]) \in Nat /\ One(t[k + 1]) \in Nat
    BY BeforeIsNat DEF One
  <2> HIDE DEF t
  <2> QED
    BY <2>1, <2>2, <2>3, <2>4
<1>3. Nat \subseteq P
  <2> HIDE DEF P
  <2> QED
    BY <1>1, <1>2, NumbersFrom0, Zenon
<1>4. i - 1 \in Nat /\ (i - 1) + 1 = i /\ i <= Len(q)
  OBVIOUS
<1> QED
  BY <1>3, <1>4, Zenon

(* The count does not see an item that completes nothing.                  *)
LEMMA BeforeInserted ==
    ASSUME NEW S, NEW a \in Seq(S), NEW b \in Seq(S), NEW e \in S
    PROVE  /\ \A i \in 1 .. (Len(a) + 1) : Before(Append(a, e) \o b, i) = Before(a \o b, i)
           /\ \A i \in (Len(a) + 1) .. (Len(a) + Len(b) + 1) :
                Before(Append(a, e) \o b, i + 1) = Before(a \o b, i) + One(e)
<1> DEFINE s == a \o b
           t == Append(a, e) \o b
           n == Len(a) + 1
<1>1. /\ \A j \in 1 .. Len(a) : t[j] = s[j]
      /\ t[n] = e
      /\ \A j \in n .. (Len(a) + Len(b)) : t[j + 1] = s[j]
  OBVIOUS
<1>2. n \in Nat \ {0} /\ Len(b) \in Nat /\ n = Len(a) + 1 /\ n + Len(b) = Len(a) + Len(b) + 1
  OBVIOUS
<1> HIDE DEF s, t, n
<1>3. ASSUME NEW i \in 1 .. n PROVE Before(t, i) = Before(s, i)
  <2>1. i \in Nat \ {0} /\ 1 .. (i - 1) \subseteq 1 .. Len(a)
    BY <1>2
  <2>2. \A j \in 1 .. (i - 1) : t[j] = s[j]
    BY <1>1, <2>1, Zenon
  <2> QED
    BY <2>1, <2>2, BeforeSame, Zenon
<1> DEFINE P == {k \in Nat : k <= Len(b) => Before(t, (n + k) + 1) = Before(s, n + k) + One(e)}
<1>4. 0 \in P
  <2>1. Before(t, n + 1) = Before(t, n) + One(t[n]) /\ Before(t, n) = Before(s, n)
    BY <1>2, <1>3, BeforeNext
  <2>2. n + 0 = n
    BY <1>2
  <2> QED
    BY <1>1, <2>1, <2>2, Zenon
<1>5. ASSUME NEW k \in Nat, k \in P PROVE k + 1 \in P
  <2> SUFFICES ASSUME k + 1 <= Len(b) PROVE Before(t, (n + (k + 1)) + 1) = Before(s, n + (k + 1)) + One(e)
    OBVIOUS
  <2>1. Before(t, (n + k) + 1) = Before(s, n + k) + One(e)
    BY <1>2, <1>5
  <2>2. Before(t, ((n + k) + 1) + 1) = Before(t, (n + k) + 1) + One(t[(n + k) + 1])
    BY <1>2, BeforeNext
  <2>3. Before(s, (n + k) + 1) = Before(s, n + k) + One(s[n + k])
    BY <1>2, BeforeNext
  <2>4. n + k \in n .. (Len(a) + Len(b))
    BY <1>2
  <2>5. t[(n + k) + 1] = s[n + k]
    BY <1>1, <2>4, Zenon
  <2>6. Before(s, n + k) \in Nat
    BY <1>2, BeforeIsNat
  <2>7. One(e) \in Nat /\ One(s[n + k]) \in Nat
    BY Zenon DEF One
  <2>8. n + (k + 1) = (n + k) + 1
    BY <1>2
  <2> QED
    BY <2>1, <2>2, <2>3, <2>5, <2>6, <2>7, <2>8
<1>6. Nat \subseteq P
  <2> HIDE DEF P
  <2> QED
    BY <1>4, <1>5, NumbersFrom0, Zenon
<1>7. ASSUME NEW i \in n .. (n + Len(b)) PROVE Before(t, i + 1) = Before(s, i) + One(e)
  <2>1. i - n \in Nat /\ i - n <= Len(b) /\ n + (i - n) = i
    BY <1>2
  <2>2. i - n \in P
    BY <2>1, <1>6, Zenon
  <2> QED
    BY <2>1, <2>2, Zenon
<1>8. Before(t, n) = Before(s, n)
  BY <1>2, <1>3
<1> QED
  BY <1>2, <1>3, <1>7, Zenon DEF s, t, n

LEMMA BeforeAppended ==
    ASSUME NEW S, NEW q \in Seq(S), NEW e \in S
    PROVE  /\ \A i \in 1 .. (Len(q) + 1) : Before(Append(q, e), i) = Before(q, i)
           /\ Completed(Append(q, e)) = Completed(q) + One(e)
<1>1. \A i \in 1 .. (Len(q) + 1) : Before(Append(q, e), i) = Before(q, i)
  <2> SUFFICES ASSUME NEW i \in 1 .. (Len(q) + 1) PROVE Before(Append(q, e), i) = Before(q, i)
    BY Zenon
  <2>1. \A j \in 1 .. (i - 1) : Append(q, e)[j] = q[j]
    OBVIOUS
  <2>2. i \in Nat \ {0}
    OBVIOUS
  <2> QED
    BY <2>1, <2>2, BeforeSame, Zenon
<1>2. Len(Append(q, e)) = Len(q) + 1 /\ Append(q, e)[Len(q) + 1] = e /\ Len(q) + 1 \in Nat \ {0}
  OBVIOUS
<1>3. Before(Append(q, e), (Len(q) + 1) + 1) = Before(Append(q, e), Len(q) + 1) + One(e)
  BY <1>2, BeforeNext, Zenon
<1> QED
  BY <1>1, <1>2, <1>3 DEF Completed

(* An answer meets the pending call it completes or arms.                  *)
IsAck(e) == IsAnswer(e) /\ e.name = "ack"
Matches(r, p) == /\ r.of = p.of
                 /\ r.name = "ack" => p.armed
                 /\ r.name # "ack" => r.name \in {"error", p.name}
Fits(q, pend) ==
    \A i \in DOMAIN q : IsAnswer(q[i]) => Before(q, i) + 1 \in DOMAIN pend /\ Matches(q[i], pend[Before(q, i) + 1])

(* A wait is acknowledged once.                                            *)
Once(q) == \A i, j \in DOMAIN q : i < j /\ IsAck(q[i]) /\ IsAck(q[j]) => Before(q, i) < Before(q, j)
AcksBelow(q, n) == \A i \in DOMAIN q : IsAck(q[i]) => Before(q, i) < n

(* How the answers fit when the first item is handled: one that completes  *)
(* no request leaves the pending calls alone, another takes the first.     *)
LEMMA FitsTail ==
    ASSUME NEW S, NEW q \in Seq(S), q # <<>>, ~Completes(q[1]), NEW pend, Fits(q, pend), Once(q)
    PROVE  /\ Fits(Tail(q), pend) /\ Once(Tail(q)) /\ Completed(Tail(q)) = Completed(q)
           /\ \A n : AcksBelow(q, n) => AcksBelow(Tail(q), n)
<1> DEFINE t == Tail(q)
<1>1. /\ t \in Seq(S) /\ Len(q) = Len(t) + 1 /\ Len(t) \in Nat
      /\ \A i \in DOMAIN t : i \in 1 .. Len(q) /\ i + 1 \in DOMAIN q /\ t[i] = q[i + 1]
  OBVIOUS
<1>2. One(q[1]) = 0
  BY Zenon DEF One
<1>3. \A i \in 1 .. Len(q) : Before(q, i + 1) = Before(t, i)
  <2> SUFFICES ASSUME NEW i \in 1 .. Len(q) PROVE Before(q, i + 1) = Before(t, i)
    BY Zenon
  <2>1. Before(t, i) \in Nat
    BY BeforeIsNat
  <2> QED
    BY <1>2, <2>1, BeforeTail
<1> HIDE DEF t
<1>4. Fits(t, pend)
  BY <1>1, <1>3, Zenon DEF Fits
<1>5. Once(t)
  <2> SUFFICES ASSUME NEW i \in DOMAIN t, NEW j \in DOMAIN t, i < j, IsAck(t[i]), IsAck(t[j]) PROVE Before(t, i) < Before(t, j)
    BY Zenon DEF Once
  <2>1. i + 1 < j + 1
    BY <1>1
  <2> QED
    BY <1>1, <1>3, <2>1, Zenon DEF Once
<1>6. Completed(t) = Completed(q)
  BY <1>1, <1>3 DEF Completed
<1>7. \A n : AcksBelow(q, n) => AcksBelow(t, n)
  BY <1>1, <1>3, Zenon DEF AcksBelow
<1> QED
  BY <1>4, <1>5, <1>6, <1>7, Zenon DEF t

LEMMA FitsTails ==
    ASSUME NEW S, NEW q \in Seq(S), q # <<>>, Completes(q[1]), NEW T, NEW pend \in Seq(T), pend # <<>>, Fits(q, pend), Once(q)
    PROVE  /\ Fits(Tail(q), Tail(pend)) /\ Once(Tail(q)) /\ Completed(Tail(q)) + 1 = Completed(q)
           /\ AcksBelow(q, Completed(q)) => AcksBelow(Tail(q), Completed(Tail(q)))
<1> DEFINE t == Tail(q)
           p == Tail(pend)
<1>1. /\ t \in Seq(S) /\ Len(q) = Len(t) + 1 /\ Len(t) \in Nat
      /\ \A i \in DOMAIN t : i \in 1 .. Len(q) /\ i + 1 \in DOMAIN q /\ t[i] = q[i + 1]
  OBVIOUS
<1>2. One(q[1]) = 1
  BY Zenon DEF One
<1>3. \A i \in 1 .. Len(q) : Before(q, i + 1) = Before(t, i) + 1 /\ Before(t, i) \in Nat
  <2> SUFFICES ASSUME NEW i \in 1 .. Len(q) PROVE Before(q, i + 1) = Before(t, i) + 1 /\ Before(t, i) \in Nat
    BY Zenon
  <2>1. Before(t, i) \in Nat
    BY BeforeIsNat
  <2> QED
    BY <1>2, <2>1, BeforeTail, Zenon
<1>4. \A n \in Nat : (n + 1) + 1 \in DOMAIN pend => n + 1 \in DOMAIN p /\ p[n + 1] = pend[(n + 1) + 1]
  OBVIOUS
<1> HIDE DEF t, p
<1>5. Fits(t, p)
  <2> SUFFICES ASSUME NEW i \in DOMAIN t, IsAnswer(t[i])
               PROVE  Before(t, i) + 1 \in DOMAIN p /\ Matches(t[i], p[Before(t, i) + 1])
    BY Zenon DEF Fits
  <2>1. Before(q, i + 1) + 1 \in DOMAIN pend /\ Matches(t[i], pend[Before(q, i + 1) + 1])
    BY <1>1, Zenon DEF Fits
  <2> QED
    BY SMTT(30), <1>1, <1>3, <1>4, <2>1
<1>6. Once(t)
  <2> SUFFICES ASSUME NEW i \in DOMAIN t, NEW j \in DOMAIN t, i < j, IsAck(t[i]), IsAck(t[j]) PROVE Before(t, i) < Before(t, j)
    BY Zenon DEF Once
  <2>1. i + 1 < j + 1
    BY <1>1
  <2>2. Before(q, i + 1) < Before(q, j + 1)
    BY <1>1, <2>1, Zenon DEF Once
  <2>3. /\ Before(q, i + 1) = Before(t, i) + 1 /\ Before(t, i) \in Nat
        /\ Before(q, j + 1) = Before(t, j) + 1 /\ Before(t, j) \in Nat
    BY <1>1, <1>3, Zenon
  <2> QED
    BY <2>2, <2>3
<1>7. Completed(t) + 1 = Completed(q) /\ Completed(t) \in Nat
  BY <1>1, <1>3 DEF Completed
<1>8. ASSUME AcksBelow(q, Completed(q)) PROVE AcksBelow(t, Completed(t))
  <2> SUFFICES ASSUME NEW i \in DOMAIN t, IsAck(t[i]) PROVE Before(t, i) < Completed(t)
    BY Zenon DEF AcksBelow
  <2>1. Before(q, i + 1) < Completed(q)
    BY <1>1, <1>8, Zenon DEF AcksBelow
  <2> QED
    BY SMTT(30), <1>1, <1>3, <1>7, <2>1
<1> QED
  BY <1>5, <1>6, <1>7, <1>8, Zenon DEF t, p

(* How they fit when the daemon sends one more.                            *)
LEMMA FitsAppend ==
    ASSUME NEW S, NEW q \in Seq(S), NEW e \in S, NEW pend, Fits(q, pend), Once(q),
           IsAnswer(e) => Completed(q) + 1 \in DOMAIN pend /\ Matches(e, pend[Completed(q) + 1]),
           IsAck(e) => AcksBelow(q, Completed(q))
    PROVE  /\ Fits(Append(q, e), pend) /\ Once(Append(q, e)) /\ Completed(Append(q, e)) = Completed(q) + One(e)
           /\ ~IsAck(e) /\ (Completes(e) \/ AcksBelow(q, Completed(q))) => AcksBelow(Append(q, e), Completed(Append(q, e)))
<1> DEFINE t == Append(q, e)
           l == Len(q) + 1
<1>1. /\ t \in Seq(S) /\ DOMAIN t = 1 .. l /\ DOMAIN q = 1 .. Len(q) /\ t[l] = e /\ l \in Nat /\ Len(q) \in Nat /\ l = Len(q) + 1
      /\ \A i \in DOMAIN q : t[i] = q[i]
  OBVIOUS
<1>2. \A i \in 1 .. l : Before(t, i) = Before(q, i) /\ Before(q, i) \in Nat
  BY BeforeAppended, BeforeIsNat
<1>3. Completed(t) = Completed(q) + One(e) /\ Completed(q) = Before(q, l) /\ Completed(q) \in Nat
  BY BeforeAppended, <1>2 DEF Completed
<1> HIDE DEF t, l
<1>4. Fits(t, pend)
  <2> SUFFICES ASSUME NEW i \in DOMAIN t, IsAnswer(t[i])
               PROVE  Before(t, i) + 1 \in DOMAIN pend /\ Matches(t[i], pend[Before(t, i) + 1])
    BY Zenon DEF Fits
  <2>1. CASE i = l
    BY <1>1, <1>2, <1>3, <2>1, Zenon
  <2>2. CASE i # l
    <3>1. i \in DOMAIN q /\ Before(t, i) = Before(q, i)
      BY <1>1, <1>2, <2>2
    <3> QED
      BY <1>1, <3>1, Zenon DEF Fits
  <2> QED
    BY <2>1, <2>2, Zenon
<1>5. Once(t)
  <2> SUFFICES ASSUME NEW i \in DOMAIN t, NEW j \in DOMAIN t, i < j, IsAck(t[i]), IsAck(t[j]) PROVE Before(t, i) < Before(t, j)
    BY Zenon DEF Once
  <2>1. i \in DOMAIN q
    BY <1>1
  <2>2. CASE j = l
    <3>1. Before(q, i) < Completed(q)
      BY <1>1, <2>1, <2>2, Zenon DEF AcksBelow
    <3> QED
      BY <1>1, <1>2, <1>3, <2>1, <2>2, <3>1, Zenon
  <2>3. CASE j # l
    <3>1. j \in DOMAIN q
      BY <1>1, <2>3
    <3>2. Before(q, i) < Before(q, j)
      BY <1>1, <2>1, <3>1, Zenon DEF Once
    <3> QED
      BY <1>1, <1>2, <3>2, Zenon
  <2> QED
    BY <2>2, <2>3, Zenon
<1>6. ASSUME ~IsAck(e), Completes(e) \/ AcksBelow(q, Completed(q)) PROVE AcksBelow(t, Completed(t))
  <2> SUFFICES ASSUME NEW i \in DOMAIN t, IsAck(t[i]) PROVE Before(t, i) < Completed(t)
    BY Zenon DEF AcksBelow
  <2>1. i \in DOMAIN q /\ Before(t, i) = Before(q, i) /\ Before(q, i) \in Nat
    BY <1>1, <1>2, <1>6
  <2>2. Before(q, i) <= Completed(q)
    BY <1>1, <1>3, <2>1, BeforeMonotone
  <2>3. CASE Completes(e)
    BY <1>3, <2>1, <2>2, <2>3 DEF One
  <2>4. CASE ~Completes(e)
    <3>1. Before(q, i) < Completed(q)
      BY <1>1, <1>6, <2>1, <2>4, Zenon DEF AcksBelow
    <3> QED
      BY <1>3, <2>1, <2>4, <3>1 DEF One
  <2> QED
    BY <2>3, <2>4, Zenon
<1> QED
  BY <1>3, <1>4, <1>5, <1>6, Zenon DEF t

(* An item that is no answer, wherever it is put.                          *)
LEMMA FitsInsert ==
    ASSUME NEW S, NEW a \in Seq(S), NEW b \in Seq(S), NEW e \in S, ~IsAnswer(e), NEW pend, Fits(a \o b, pend), Once(a \o b)
    PROVE  LET t == Append(a, e) \o b IN
           /\ Fits(t, pend) /\ Once(t) /\ Completed(t) = Completed(a \o b)
           /\ \A n : AcksBelow(a \o b, n) => AcksBelow(t, n)
<1> DEFINE s == a \o b
           t == Append(a, e) \o b
           l == Len(a) + 1
           Old(i) == IF i < l THEN i ELSE i - 1
<1>1. /\ DOMAIN t = 1 .. (Len(a) + Len(b) + 1) /\ DOMAIN s = 1 .. (Len(a) + Len(b)) /\ t[l] = e
      /\ Len(t) = Len(a) + Len(b) + 1 /\ Len(s) = Len(a) + Len(b)
      /\ Len(a) \in Nat /\ Len(b) \in Nat /\ l = Len(a) + 1
      /\ \A i \in DOMAIN t : i # l => Old(i) \in DOMAIN s /\ t[i] = s[Old(i)]
  OBVIOUS
<1>2. One(e) = 0
  BY Zenon DEF One, Completes
<1>3. \A i \in 1 .. l : Before(t, i) = Before(s, i)
  BY BeforeInserted
<1>4. \A i \in l .. (Len(s) + 1) : Before(t, i + 1) = Before(s, i)
  <2> SUFFICES ASSUME NEW i \in l .. (Len(s) + 1) PROVE Before(t, i + 1) = Before(s, i)
    BY Zenon
  <2>1. i \in Nat \ {0} /\ i \in (Len(a) + 1) .. (Len(a) + Len(b) + 1)
    BY <1>1
  <2>2. Before(t, i + 1) = Before(s, i) + One(e)
    BY <2>1, BeforeInserted
  <2>3. Before(s, i) \in Nat
    BY <2>1, BeforeIsNat, Zenon
  <2> QED
    BY <1>2, <2>2, <2>3
<1> HIDE DEF s, t, l
<1>5. ASSUME NEW i \in DOMAIN t, i # l PROVE Before(t, i) = Before(s, Old(i))
  <2>1. CASE i < l
    BY <1>1, <1>3, <2>1
  <2>2. CASE i > l
    <3>1. i - 1 \in l .. (Len(s) + 1) /\ (i - 1) + 1 = i /\ Old(i) = i - 1
      BY <1>1, <2>2
    <3> QED
      BY <1>4, <3>1, Zenon
  <2> QED
    BY <1>1, <1>5, <2>1, <2>2
<1>6. \A i, j \in DOMAIN t : i # l /\ j # l /\ i < j => Old(i) < Old(j)
  BY <1>1
<1>7. ~IsAnswer(t[l]) /\ ~IsAck(t[l])
  BY <1>1, Zenon DEF IsAck
<1> HIDE DEF Old
<1>8. Fits(t, pend)
  <2> SUFFICES ASSUME NEW i \in DOMAIN t, IsAnswer(t[i]) PROVE Before(t, i) + 1 \in DOMAIN pend /\ Matches(t[i], pend[Before(t, i) + 1])
    BY Zenon DEF Fits
  <2>1. i # l
    BY <1>7, Zenon
  <2>2. t[i] = s[Old(i)] /\ Old(i) \in DOMAIN s /\ Before(t, i) = Before(s, Old(i))
    BY <1>1, <1>5, <2>1, Zenon
  <2>3. Before(s, Old(i)) + 1 \in DOMAIN pend /\ Matches(s[Old(i)], pend[Before(s, Old(i)) + 1])
    BY <2>2, Zenon DEF Fits, s
  <2> QED
    BY <2>2, <2>3, Zenon
<1>9. Once(t)
  <2> SUFFICES ASSUME NEW i \in DOMAIN t, NEW j \in DOMAIN t, i < j, IsAck(t[i]), IsAck(t[j]) PROVE Before(t, i) < Before(t, j)
    BY Zenon DEF Once
  <2>1. i # l /\ j # l
    BY <1>7, Zenon
  <2>2. Old(i) < Old(j) /\ t[i] = s[Old(i)] /\ t[j] = s[Old(j)] /\ Old(i) \in DOMAIN s /\ Old(j) \in DOMAIN s
    BY <1>1, <1>6, <2>1, Zenon
  <2>3. Before(s, Old(i)) < Before(s, Old(j))
    BY <2>2, Zenon DEF Once, s
  <2> QED
    BY <1>5, <2>1, <2>3, Zenon
<1>10. Completed(t) = Completed(s)
  BY <1>1, <1>4 DEF Completed
<1>11. \A n : AcksBelow(s, n) => AcksBelow(t, n)
  BY <1>1, <1>5, <1>7, Zenon DEF AcksBelow
<1> QED
  BY <1>8, <1>9, <1>10, <1>11, Zenon DEF s, t

(* What the pending calls may become under the answers.                    *)
LEMMA FitsPending ==
    ASSUME NEW q, NEW pend, NEW pend2, Fits(q, pend),
           \A n \in DOMAIN pend : n \in DOMAIN pend2 /\ pend2[n].of = pend[n].of /\ pend2[n].name = pend[n].name,
           \A i \in DOMAIN q : IsAck(q[i]) => pend2[Before(q, i) + 1].armed
    PROVE  Fits(q, pend2)
<1> SUFFICES ASSUME NEW i \in DOMAIN q, IsAnswer(q[i])
             PROVE  Before(q, i) + 1 \in DOMAIN pend2 /\ Matches(q[i], pend2[Before(q, i) + 1])
  BY Zenon DEF Fits
<1> DEFINE n == Before(q, i) + 1
<1>1. n \in DOMAIN pend /\ Matches(q[i], pend[n])
  BY Zenon DEF Fits
<1>2. q[i].name = "ack" => pend2[n].armed
  BY Zenon DEF IsAck
<1> HIDE DEF n
<1>3. n \in DOMAIN pend2 /\ Matches(q[i], pend2[n])
  BY <1>1, <1>2, Zenon DEF Matches
<1> QED
  BY <1>3, Zenon DEF n

(***************************************************************************)
(* The inductive invariant.                                                *)
(***************************************************************************)

Names == Kinds \cup {"unsubscribe"}
Answer == [is : {"response"}, of : Calls \cup {None}, name : Names \cup {"ack", "error", "stray"}]
Event == Answer \cup [is : {"command"}, of : Callers] \cup [is : {"closed", "eof"}, of : {None}]
Message == [of : Calls, name : Names]
Entry == [of : Calls, name : Names, reply : BOOLEAN, armed : BOOLEAN]
Final(x) == x.is \notin {"open", "closed", "failed"}

CallStates == {"idle", "sending", "waiting", "holding", "done", "dropped"}
CallRecord == [pc : CallStates, told : {None, "ok", "failed", "refused"}, of : Calls \cup {None}]
ReplyRecord == [is : Kinds \cup {"error", "open", "closed", "failed"}, of : Calls \cup {None}]

CallTypes ==
    /\ scenario \in Scenarios
    /\ call \in [Calls -> CallRecord]
    /\ \A c \in Calls : (call[c].pc # "idle" => c \in Callers) /\ (call[c].told # None => call[c].pc = "done")
    /\ reply \in [Calls -> ReplyRecord]
    /\ armed \in [Calls -> {"open", "ok", "failed"}]
    /\ commands \in Seq(Callers) /\ sent \in Seq(Callers)

WireTypes ==
    /\ actor \in {"running", "gone"}
    /\ events \in Seq(Event) /\ to_client \in Seq(Answer)
    /\ pending \in Seq(Entry) /\ to_server \in Seq(Message) /\ frame \in Seq(Message)
    /\ shutdown_reply \in Callers \cup {None}
    /\ server \in [open : BOOLEAN, wait : Calls \cup {None}, subscriptions : SUBSET Calls, began : SUBSET (Calls \cup {None})]

Capacities ==
    /\ Len(commands) <= CommandCap /\ Len(events) <= 2 * CommandCap
    /\ Len(to_server) <= SocketCap /\ Len(to_client) <= SocketCap /\ Len(frame) <= 1

(* What the actor held is gone with it.                                    *)
GoneIsEmpty ==
    actor = "gone" => /\ commands = <<>> /\ events = <<>> /\ to_client = <<>>
                      /\ pending = <<>> /\ frame = <<>> /\ shutdown_reply = None

(* A call that is pending for its caller has its kind.                     *)
Entries ==
    \A k \in DOMAIN pending :
        pending[k].reply => pending[k].name = Kind(pending[k].of) /\ pending[k].of \in Callers /\ Kind(pending[k].of) # "shutdown"

(* Behind the answers come the wait the daemon works on and the requests   *)
(* on their way to it.                                                     *)
Asked(m, p) == m.of = p.of /\ m.name = p.name /\ (m.name = "wait" => p.armed)
Working(wait) == IF wait = None THEN 0 ELSE 1
Rest(n, pend, wait, out, fr) ==
    /\ Len(pend) = n + Working(wait) + Len(out) + Len(fr)
    /\ wait # None => pend[n + 1].of = wait /\ pend[n + 1].name = "wait"
    /\ \A i \in DOMAIN out : Asked(out[i], pend[n + Working(wait) + i])
    /\ \A i \in DOMAIN fr : Asked(fr[i], pend[n + Working(wait) + Len(out) + i])

Alignment ==
    /\ Fits(Stream, pending) /\ Once(Stream)
    /\ Running /\ server.open =>
         /\ Rest(Completed(Stream), pending, server.wait, to_server, frame)
         /\ server.wait = None => AcksBelow(Stream, Completed(Stream))

Strays ==
    /\ \A i \in DOMAIN Stream : Stream[i].is = "response" /\ Stream[i].name = "stray" => May("stray")
    /\ ~May("stray") => terminal_failure \notin {"unsolicited", "mismatched"}

(* What a caller was told is of its own request, and what the daemon has   *)
(* answered it has begun.                                                  *)
Channels ==
    /\ \A i \in DOMAIN Stream : IsAnswer(Stream[i]) => Stream[i].of \in server.began
    /\ server.wait # None => server.wait \in server.began
    /\ \A c \in Calls :
         /\ armed[c] = "ok" => c \in server.began
         /\ call[c].pc = "holding" => armed[c] = "ok"
         /\ reply[c].of = IF reply[c].is \in {"open", "closed"} THEN None ELSE c
         /\ call[c].told \in {"ok", "refused"} /\ c \in Callers /\ Kind(c) \notin {"guard", "shutdown"} => call[c].of = c

(* Commands are handled in the order they were sent.                       *)
Taken == Len(sent) - Len(commands)
IsCommand(e) == e.is = "command"
Order ==
    /\ \A n, m \in DOMAIN sent : sent[n] = sent[m] => n = m
    /\ \A c \in Calls : call[c].pc \in {"idle", "sending"} => \A n \in DOMAIN sent : sent[n] # c
    /\ Len(commands) <= Len(sent) /\ \A i \in DOMAIN commands : commands[i] = sent[Taken + i]
    /\ \A i \in DOMAIN events : IsCommand(events[i]) => \E n \in 1 .. Taken : sent[n] = events[i].of
    /\ \A i, j \in DOMAIN events : i < j /\ IsCommand(events[i]) /\ IsCommand(events[j]) =>
         \A n, m \in DOMAIN sent : sent[n] = events[i].of /\ sent[m] = events[j].of => n < m

(* Until its command is handled a call is not pending, and not armed.      *)
Queued(d) == \E i \in DOMAIN events : IsCommand(events[i]) /\ events[i].of = d
Fresh(c) == call[c].pc \in {"idle", "sending"} \/ (\E i \in DOMAIN commands : commands[i] = c) \/ Queued(c)
Untouched ==
    Running => \A c \in Calls : Fresh(c) => armed[c] = "open" /\ \A k \in DOMAIN pending : pending[k].of # c

(* A call that was handled is pending or answered; the calls before a      *)
(* shutdown are handled when it is.                                        *)
IsPending(d) == \E k \in DOMAIN pending : pending[k].of = d /\ pending[k].reply
Settled(d) == Kind(d) # "guard" /\ Encodes(d) => Final(reply[d]) \/ IsPending(d)

Shutdowns ==
    /\ Running /\ shutdown_reply = None => \A n \in 1 .. Taken : Queued(sent[n]) \/ Settled(sent[n])
    /\ shutdown_reply # None =>
         /\ Kind(shutdown_reply) = "shutdown"
         /\ \E n \in 1 .. Taken :
              /\ sent[n] = shutdown_reply
              /\ \A k \in 1 .. (n - 1) : Settled(sent[k])
              /\ \A i \in DOMAIN events : IsCommand(events[i]) =>
                   \A m \in DOMAIN sent : sent[m] = events[i].of => n < m
    /\ \A c \in Callers : Kind(c) = "shutdown" =>
         /\ Final(reply[c]) =>
              /\ actor = "gone"
              /\ \A n \in DOMAIN sent : sent[n] = c => \A k \in 1 .. (n - 1) : Settled(sent[k])
         /\ call[c].told = "ok" /\ IsSent(c) => Final(reply[c])

TransportInv ==
    /\ CallTypes /\ WireTypes /\ Capacities /\ GoneIsEmpty
    /\ Entries /\ Alignment /\ Strays /\ Channels /\ Order /\ Untouched /\ Shutdowns

(***************************************************************************)
(* What the actions of each side leave alone.                              *)
(***************************************************************************)

CallerStep(c) == Start(c) \/ CallStep(c) \/ Timeout(c) \/ Drop(c)
wireVars == <<scenario, channels, events, actor, pending, frame, shutdown_reply, to_server, to_client, server>>
daemonVars == <<scenario, call, channels, queues, actorVars, sent, terminal_failure>>

LEMMA CallerLeavesWire ==
    ASSUME (\E c \in Calls : CallerStep(c)) \/ Abort \/ DropHandle
    PROVE  UNCHANGED wireVars
<1>1. ASSUME NEW c \in Calls, Start(c) PROVE UNCHANGED wireVars
  BY <1>1, Zenon DEF Start, wireVars, queues, actorVars, wire
<1>2. ASSUME NEW c \in Calls, Send(c) PROVE UNCHANGED wireVars
  BY <1>2, Zenon DEF Send, wireVars, actorVars, wire
<1>3. ASSUME NEW c \in Calls, Armed(c) PROVE UNCHANGED wireVars
  BY <1>3, Zenon DEF Armed, wireVars, queues, actorVars, wire
<1>4. ASSUME NEW c \in Calls, Finish(c) PROVE UNCHANGED wireVars
  BY <1>4, Zenon DEF Finish, wireVars, queues, actorVars, wire
<1>5. ASSUME NEW c \in Calls, Timeout(c) PROVE UNCHANGED wireVars
  BY <1>5, Zenon DEF Timeout, wireVars, queues, actorVars, wire
<1>6. ASSUME NEW c \in Calls, Drop(c) PROVE UNCHANGED wireVars
  BY <1>6, Zenon DEF Drop, wireVars, queues, actorVars, wire
<1>7. ASSUME Abort PROVE UNCHANGED wireVars
  BY <1>7, Zenon DEF Abort, wireVars, queues, actorVars, wire
<1>8. ASSUME DropHandle PROVE UNCHANGED wireVars
  BY <1>8, Zenon DEF DropHandle, wireVars, queues, actorVars, wire
<1> QED
  BY <1>1, <1>2, <1>3, <1>4, <1>5, <1>6, <1>7, <1>8, Zenon DEF CallerStep, CallStep

DaemonStep == ServerStep \/ Crash \/ Stray

LEMMA DaemonLeavesCallers == ASSUME DaemonStep PROVE UNCHANGED daemonVars
<1>1. ASSUME Serve PROVE UNCHANGED daemonVars
  BY <1>1, Zenon DEF Serve, daemonVars
<1>2. ASSUME FinishWait PROVE UNCHANGED daemonVars
  BY <1>2, Zenon DEF FinishWait, daemonVars
<1>3. ASSUME ServerEnds PROVE UNCHANGED daemonVars
  BY <1>3, Zenon DEF ServerEnds, daemonVars
<1>4. ASSUME Stray PROVE UNCHANGED daemonVars
  BY <1>4, Zenon DEF Stray, daemonVars
<1> QED
  BY <1>1, <1>2, <1>3, <1>4, Zenon DEF DaemonStep, ServerStep, CloseConnection, ResponseTimesOut, Crash

TransportStep == ForwarderStep \/ forward_responses \/ ActorStep

LEMMA TransportLeavesCallers == ASSUME TransportStep PROVE UNCHANGED <<scenario, call, server, sent>>
<1>1. ASSUME forward_commands PROVE UNCHANGED <<scenario, call, server, sent>>
  BY <1>1, Zenon DEF forward_commands
<1>2. ASSUME ForwardClosed PROVE UNCHANGED <<scenario, call, server, sent>>
  BY <1>2, Zenon DEF ForwardClosed
<1>3. ASSUME forward_responses PROVE UNCHANGED <<scenario, call, server, sent>>
  BY <1>3, Zenon DEF forward_responses
<1>4. ASSUME HandleCommand PROVE UNCHANGED <<scenario, call, server, sent>>
  BY <1>4, Zenon DEF HandleCommand
<1>5. ASSUME write_frame PROVE UNCHANGED <<scenario, call, server, sent>>
  BY <1>5, Zenon DEF write_frame
<1>6. ASSUME HandleResponse PROVE UNCHANGED <<scenario, call, server, sent>>
  BY <1>6, Zenon DEF HandleResponse
<1>7. ASSUME HandleEof \/ HandleClosed PROVE UNCHANGED <<scenario, call, server, sent>>
  BY <1>7, Zenon DEF HandleEof, HandleClosed
<1>8. ASSUME AbortActor PROVE UNCHANGED <<scenario, call, server, sent>>
  BY <1>8, Zenon DEF AbortActor
<1> QED
  BY <1>1, <1>2, <1>3, <1>4, <1>5, <1>6, <1>7, <1>8, Zenon DEF TransportStep, ForwarderStep, ActorStep

LEMMA ScenarioIsFixed == ASSUME Next PROVE scenario' = scenario /\ Callers' = Callers
<1>1. CASE (\E c \in Calls : CallerStep(c)) \/ Abort \/ DropHandle
  BY <1>1, CallerLeavesWire, Zenon DEF wireVars, Callers
<1>2. CASE DaemonStep
  BY <1>2, DaemonLeavesCallers, Zenon DEF daemonVars, Callers
<1>3. CASE TransportStep
  BY <1>3, TransportLeavesCallers, Zenon DEF Callers
<1> QED
  BY <1>1, <1>2, <1>3, Zenon DEF Next, CallerStep, DaemonStep, TransportStep


(***************************************************************************)
(* The actor's steps, case by case.                                        *)
(***************************************************************************)

others == <<actor, commands, to_client, terminal_failure>>
Command(c) ==
    /\ Take("command") /\ c = Head(events).of /\ events' = Tail(events) /\ UNCHANGED <<others, to_server>>
Refuse(c) ==
    /\ Command(c) /\ (shutdown_reply # None \/ ~Encodes(c))
    /\ reply' = [reply EXCEPT ![c] = [is |-> "failed", of |-> c]] /\ armed' = [armed EXCEPT ![c] = "failed"]
    /\ UNCHANGED <<pending, frame, shutdown_reply>>
Request(c) ==
    /\ Command(c) /\ shutdown_reply = None /\ Encodes(c) /\ Kind(c) # "shutdown"
    /\ pending' = Append(pending, PendingCall(c)) /\ frame' = <<[of |-> c, name |-> Kind(c)]>>
    /\ UNCHANGED <<channels, shutdown_reply>>
Shut(c) ==
    /\ Command(c) /\ shutdown_reply = None /\ Kind(c) = "shutdown" /\ shutdown_reply' = c
    /\ UNCHANGED <<channels, pending, frame>>
Written ==
    /\ Running /\ frame # <<>> /\ server.open /\ Len(to_server) < SocketCap
    /\ to_server' = Append(to_server, Head(frame)) /\ frame' = <<>>
    /\ UNCHANGED <<others, events, channels, pending, shutdown_reply>>
Response(r, p) ==
    /\ Take("response") /\ pending # <<>> /\ r = Head(events) /\ p = Head(pending)
AckTaken(r, p) ==
    /\ Response(r, p) /\ AcceptArmed(p, r) /\ r.of = p.of
    /\ pending' = KeepPending(p) /\ armed' = [armed EXCEPT ![p.of] = "ok"] /\ events' = Tail(events)
    /\ UNCHANGED <<others, to_server, reply, frame, shutdown_reply>>
AnswerTaken(r, p) ==
    /\ Response(r, p) /\ ~AcceptArmed(p, r) /\ validate_response(p, r)
    /\ reply' = Answered(p, r) /\ armed' = IF p.armed THEN [armed EXCEPT ![p.of] = "ok"] ELSE armed
    /\ \/ /\ orphaned_subscription_cleanup(p, r)
          /\ pending' = Append(Tail(pending), discard(p.of)) /\ frame' = <<[of |-> r.of, name |-> "unsubscribe"]>>
       \/ pending' = Tail(pending) /\ frame' = frame
    /\ events' = Tail(events)
    /\ UNCHANGED <<others, to_server, shutdown_reply>>
LastAnswer(r, p) ==
    /\ Response(r, p) /\ ~AcceptArmed(p, r) /\ validate_response(p, r) /\ Idle(Tail(pending))
    /\ End(Answered(p, r)) /\ terminal_failure' = terminal_failure
Misfit(r) ==
    /\ Take("response") /\ r = Head(events)
    /\ pending = <<>> \/ LET p == Head(pending) IN IF AcceptArmed(p, r) THEN r.of # p.of ELSE ~validate_response(p, r)
    /\ End(reply)
Fails ==
    /\ Running /\ End(reply)
    /\ terminal_failure' \in {terminal_failure, "io", "eof"}
ShutDone ==
    /\ Running /\ ShutdownIsComplete /\ terminal_failure' = terminal_failure
    /\ End([reply EXCEPT ![shutdown_reply] = [is |-> "shutdown", of |-> shutdown_reply]])
Noted ==
    /\ Take("closed") /\ events' = Tail(events)
    /\ UNCHANGED <<others, to_server, channels, pending, frame, shutdown_reply>>

LEMMA CommandCases ==
    ASSUME HandleCommand
    PROVE  \/ Fails
           \/ \E c : Refuse(c) \/ Request(c) \/ Shut(c)
<1> DEFINE c == Head(events).of
<1>1. Take("command") /\ UNCHANGED scenario
  BY Zenon DEF HandleCommand
<1>r. Running
  BY <1>1, Zenon DEF Take
<1>2. CASE /\ shutdown_reply # None \/ ~Encodes(c)
           /\ reply' = [reply EXCEPT ![c] = [is |-> "failed", of |-> c]]
           /\ armed' = [armed EXCEPT ![c] = "failed"]
           /\ events' = Tail(events)
           /\ UNCHANGED <<actorVars, wire, commands, terminal_failure>>
  BY <1>1, <1>2, Zenon DEF Refuse, Command, others, actorVars, wire
<1>3. CASE /\ shutdown_reply = None /\ Encodes(c) /\ Kind(c) # "shutdown"
           /\ pending' = Append(pending, PendingCall(c)) /\ frame' = <<[of |-> c, name |-> Kind(c)]>>
           /\ events' = Tail(events)
           /\ UNCHANGED <<channels, actor, commands_closed, shutdown_reply, wire, commands, terminal_failure>>
  BY <1>1, <1>3, Zenon DEF Request, Command, others, wire
<1>4. CASE /\ shutdown_reply = None /\ Kind(c) = "shutdown"
           /\ shutdown_reply' = c /\ write_open' = FALSE /\ events' = Tail(events)
           /\ UNCHANGED <<channels, actor, pending, frame, commands_closed, to_server, to_client, eof_read,
                          commands, terminal_failure>>
  BY <1>1, <1>4, Zenon DEF Shut, Command, others
<1>5. CASE fail_transport("io")
  BY <1>5, <1>r, Zenon DEF fail_transport, set_terminal_failure, Fails
<1> QED
  BY <1>2, <1>3, <1>4, <1>5, Zenon DEF HandleCommand

LEMMA ResponseCases ==
    ASSUME HandleResponse
    PROVE  \E r, p : Misfit(r) \/ AckTaken(r, p) \/ AnswerTaken(r, p) \/ LastAnswer(r, p)
<1> DEFINE r == Head(events)
<1> DEFINE p == Head(pending)
<1>1. Take("response")
  BY Zenon DEF HandleResponse
<1>2. CASE pending = <<>> /\ fail_transport("unsolicited")
  BY <1>1, <1>2, Zenon DEF Misfit, fail_transport
<1>3. CASE pending # <<>> /\ AcceptArmed(p, r) /\ r.of # p.of /\ fail_transport("mismatched")
  BY <1>1, <1>3, Zenon DEF Misfit, fail_transport
<1>4. CASE /\ pending # <<>> /\ AcceptArmed(p, r) /\ r.of = p.of
           /\ pending' = KeepPending(p)
           /\ armed' = [armed EXCEPT ![p.of] = "ok"]
           /\ events' = Tail(events)
           /\ UNCHANGED <<reply, commands, actor, frame, commands_closed, shutdown_reply, terminal_failure, wire>>
  BY <1>1, <1>4, Zenon DEF AckTaken, Response, others, wire
<1>5. CASE /\ pending # <<>> /\ ~AcceptArmed(p, r) /\ ~validate_response(p, r)
           /\ fail_transport("mismatched")
  BY <1>1, <1>5, Zenon DEF Misfit, fail_transport
<1>6. CASE /\ pending # <<>> /\ ~AcceptArmed(p, r) /\ validate_response(p, r)
           /\ Idle(Tail(pending)) /\ ~orphaned_subscription_cleanup(p, r)
           /\ End(Answered(p, r)) /\ UNCHANGED terminal_failure
  BY <1>1, <1>6, Zenon DEF LastAnswer, Response
<1>7. CASE /\ pending # <<>> /\ ~AcceptArmed(p, r) /\ validate_response(p, r)
           /\ reply' = Answered(p, r)
           /\ armed' = IF p.armed THEN [armed EXCEPT ![p.of] = "ok"] ELSE armed
           /\ IF orphaned_subscription_cleanup(p, r)
              THEN /\ pending' = Append(Tail(pending), discard(p.of))
                   /\ frame' = <<[of |-> r.of, name |-> "unsubscribe"]>>
              ELSE pending' = Tail(pending) /\ UNCHANGED frame
           /\ events' = Tail(events)
           /\ UNCHANGED <<commands, actor, commands_closed, shutdown_reply, terminal_failure, wire>>
  BY <1>1, <1>7, Zenon DEF AnswerTaken, Response, others, wire
<1> QED
  BY <1>2, <1>3, <1>4, <1>5, <1>6, <1>7, Zenon DEF HandleResponse

LEMMA OtherCases ==
    ASSUME write_frame \/ HandleEof \/ HandleClosed \/ AbortActor
    PROVE  Written \/ Fails \/ ShutDone \/ Noted
<1>1. CASE write_frame
  BY <1>1, Zenon DEF write_frame, Written, others, queues, Fails, fail_transport, set_terminal_failure
<1>2. CASE HandleEof
  BY <1>2, Zenon DEF HandleEof, Take, ShutDone, Fails, fail_transport, set_terminal_failure
<1>3. CASE HandleClosed
  BY <1>3, Zenon DEF HandleClosed, Take, Noted, others, wire, Fails
<1>4. CASE AbortActor
  BY <1>4, Zenon DEF AbortActor, Fails
<1> QED
  BY <1>1, <1>2, <1>3, <1>4, Zenon


(***************************************************************************)
(* Types, capacities, and what is left of an actor that ended.             *)
(***************************************************************************)

Types == CallTypes /\ WireTypes /\ Capacities /\ GoneIsEmpty /\ Entries

LEMMA Appends ==
    ASSUME NEW S, NEW s \in Seq(S), NEW e \in S
    PROVE  /\ Append(s, e) \in Seq(S) /\ Len(Append(s, e)) = Len(s) + 1 /\ Len(s) \in Nat
           /\ \A i \in DOMAIN s : i \in DOMAIN Append(s, e) /\ Append(s, e)[i] = s[i]
           /\ Append(s, e)[Len(s) + 1] = e
           /\ DOMAIN Append(s, e) = (DOMAIN s) \cup {Len(s) + 1}
OBVIOUS

LEMMA Tails ==
    ASSUME NEW S, NEW s \in Seq(S), s # <<>>
    PROVE  /\ Head(s) \in S /\ Head(s) = s[1] /\ Tail(s) \in Seq(S) /\ Len(Tail(s)) = Len(s) - 1
           /\ Len(s) \in Nat /\ Len(s) > 0 /\ 1 \in DOMAIN s
           /\ \A i \in DOMAIN Tail(s) : i + 1 \in DOMAIN s /\ Tail(s)[i] = s[i + 1]
OBVIOUS

LEMMA CallersAreCalls == ASSUME CallTypes PROVE Callers \subseteq Calls /\ \A c \in Callers : Kind(c) \in Kinds
BY CallsAssumption, Zenon DEF CallTypes, Callers, Kind

LEMMA CallMoves ==
    ASSUME NEW c \in Calls, call \in [Calls -> CallRecord]
    PROVE  /\ \A pc \in CallStates : Goto(c, pc) =>
                call' \in [Calls -> CallRecord] /\ call'[c] = [pc |-> pc, told |-> call[c].told, of |-> call[c].of]
           /\ \A told \in {None, "ok", "failed", "refused"} : Told(c, told) =>
                call' \in [Calls -> CallRecord] /\ call'[c] = [pc |-> "done", told |-> told, of |-> None]
           /\ \A x : Goto(c, x) \/ Told(c, x) => \A d \in Calls : d # c => call'[d] = call[d]
BY DEF Goto, Told, CallRecord, CallStates

LEMMA CallerMove ==
    ASSUME Types, Channels, NEW c \in Calls, CallerStep(c)
    PROVE  /\ call' \in [Calls -> CallRecord] /\ \A d \in Calls : d # c => call'[d] = call[d]
           /\ c \in Callers
           /\ call'[c].pc # "idle" /\ (call'[c].pc = "sending" => call[c].pc = "idle")
           /\ call'[c].told # None => call'[c].pc = "done"
           /\ call'[c].pc = "holding" => armed[c] = "ok"
           /\ call'[c].told \in {"ok", "refused"} =>
                \/ call'[c].told = "ok" /\ call[c].pc = "idle" /\ Kind(c) = "shutdown"
                \/ Kind(c) = "guard"
                \/ Final(reply[c]) /\ call'[c].of = reply[c].of
           /\ \/ UNCHANGED <<commands, sent>>
              \/ /\ Running /\ Len(commands) < CommandCap /\ call[c].pc = "sending" /\ call'[c].pc # "sending"
                 /\ commands' = Append(commands, c) /\ sent' = Append(sent, c)
<1>0. /\ call \in [Calls -> CallRecord] /\ \A d \in Calls : call[d].pc # "idle" => d \in Callers
      /\ call[c].pc # "done" => call[c].told = None
  BY Zenon DEF Types, CallTypes
<1>m. /\ \A pc \in CallStates : Goto(c, pc) =>
           call' \in [Calls -> CallRecord] /\ call'[c] = [pc |-> pc, told |-> call[c].told, of |-> call[c].of]
      /\ \A told \in {None, "ok", "failed", "refused"} : Told(c, told) =>
           call' \in [Calls -> CallRecord] /\ call'[c] = [pc |-> "done", told |-> told, of |-> None]
      /\ \A x : Goto(c, x) \/ Told(c, x) => \A d \in Calls : d # c => call'[d] = call[d]
  BY <1>0, CallMoves, Zenon
<1>1. CASE Start(c)
  <2>1. c \in Callers /\ call[c].pc = "idle" /\ UNCHANGED <<commands, sent>>
    BY <1>1, Zenon DEF Start, queues
  <2>2. CASE Goto(c, "sending")
    BY <1>0, <1>m, <2>1, <2>2 DEF CallStates, None
  <2>3. CASE Told(c, "ok") /\ Kind(c) = "shutdown"
    BY <1>m, <2>1, <2>3 DEF CallStates
  <2>4. CASE Told(c, "failed")
    BY <1>m, <2>1, <2>4 DEF CallStates
  <2> QED
    BY <1>1, <2>2, <2>3, <2>4, Zenon DEF Start
<1>2. CASE Send(c)
  <2>1. c \in Callers /\ call[c].pc = "sending"
    BY <1>0, <1>2, Zenon DEF Send
  <2>2. CASE Running /\ Len(commands) < CommandCap /\ commands' = Append(commands, c) /\ sent' = Append(sent, c)
    <3>1. CASE Kind(c) = "guard" /\ Told(c, "ok")
      BY <1>m, <2>1, <2>2, <3>1
    <3>2. CASE Goto(c, "waiting")
      BY <1>0, <1>m, <2>1, <2>2, <3>2 DEF CallStates, None
    <3>3. (Kind(c) = "guard" /\ Told(c, "ok")) \/ Goto(c, "waiting") \/ (Told(c, "failed") /\ UNCHANGED <<commands, sent>>)
      BY <1>2, Zenon DEF Send
    <3>4. CASE Told(c, "failed") /\ UNCHANGED <<commands, sent>>
      BY <1>m, <2>1, <3>4
    <3> QED
      BY <3>1, <3>2, <3>3, <3>4
  <2>3. CASE Told(c, "failed") /\ UNCHANGED <<commands, sent>>
    BY <1>m, <2>1, <2>3
  <2> QED
    BY <1>2, <2>2, <2>3, Zenon DEF Send, Running
<1>3. CASE Armed(c)
  <2>1. c \in Callers /\ UNCHANGED <<commands, sent>> /\ call[c].pc = "waiting"
    BY <1>0, <1>3, Zenon DEF Armed, queues
  <2>2. CASE armed[c] = "ok" /\ Goto(c, "holding")
    BY <1>0, <1>m, <2>1, <2>2 DEF CallStates, None
  <2>3. CASE Told(c, "failed")
    BY <1>m, <2>1, <2>3
  <2> QED
    BY <1>3, <2>2, <2>3, Zenon DEF Armed
<1>4. CASE Finish(c)
  <2>1. UNCHANGED <<commands, sent>> /\ reply[c] # Open /\ c \in Callers
    BY <1>4, Zenon DEF Finish, queues
  <2>2. /\ call' = [call EXCEPT ![c] = [pc |-> "done", of |-> reply[c].of,
                  told |-> CASE reply[c].is \in {"closed", "failed"} -> "failed"
                             [] reply[c].is = "error" -> "refused"
                             [] OTHER -> "ok"]]
    BY <1>4, Zenon DEF Finish
  <2>3. reply[c] \in ReplyRecord /\ (reply[c].is = "open" => reply[c].of = None)
    BY Zenon DEF Types, CallTypes, Channels
  <2>4. reply[c].is # "open"
    BY <2>1, <2>3, Zenon DEF ReplyRecord, Open
  <2> QED
    BY <1>0, <2>1, <2>2, <2>3, <2>4 DEF CallRecord, ReplyRecord, CallStates, Final
<1>5. CASE Timeout(c)
  <2>1. c \in Callers /\ Told(c, "failed") /\ UNCHANGED <<commands, sent>>
    BY <1>0, <1>5, Zenon DEF Timeout, queues
  <2> QED
    BY <1>m, <2>1
<1>6. CASE Drop(c)
  <2>1. c \in Callers /\ Goto(c, "dropped") /\ UNCHANGED <<commands, sent>> /\ call[c].pc # "done"
    BY <1>0, <1>6, Zenon DEF Drop, queues
  <2> QED
    BY <1>0, <1>m, <2>1 DEF CallStates, None
<1> QED
  BY <1>1, <1>2, <1>3, <1>4, <1>5, <1>6, Zenon DEF CallerStep, CallStep


LEMMA CallerTypes ==
    ASSUME Types, Channels, (\E c \in Calls : CallerStep(c)) \/ Abort \/ DropHandle
    PROVE  Types'
<1>1. UNCHANGED wireVars
  BY CallerLeavesWire, Zenon
<1>2. UNCHANGED <<scenario, reply, armed, events, actor, pending, frame, shutdown_reply, to_server, to_client, server>>
  BY <1>1, Zenon DEF wireVars, channels
<1>3. Callers' = Callers /\ Event' = Event /\ Entries' /\ WireTypes'
  BY <1>2, Zenon DEF Callers, Event, Types, Entries, Kind, WireTypes
<1>4. CASE Abort \/ DropHandle
  <2>1. UNCHANGED <<call, commands, sent>>
    BY <1>4, Zenon DEF Abort, DropHandle, queues
  <2> QED
    BY <1>2, <1>3, <2>1, Zenon DEF Types, CallTypes, Capacities, GoneIsEmpty
<1>5. ASSUME NEW c \in Calls, CallerStep(c) PROVE Types'
  <2>1. /\ call' \in [Calls -> CallRecord] /\ \A d \in Calls : d # c => call'[d] = call[d]
        /\ c \in Callers /\ (call'[c].told # None => call'[c].pc = "done")
        /\ \/ UNCHANGED <<commands, sent>>
           \/ /\ Running /\ Len(commands) < CommandCap
              /\ commands' = Append(commands, c) /\ sent' = Append(sent, c)
    BY <1>5, CallerMove, Zenon
  <2>2. \A d \in Calls : (call'[d].pc # "idle" => d \in Callers) /\ (call'[d].told # None => call'[d].pc = "done")
    BY <2>1, Zenon DEF Types, CallTypes
  <2>0. commands \in Seq(Callers) /\ sent \in Seq(Callers) /\ Len(commands) <= CommandCap /\ (actor = "gone" => commands = <<>>)
    BY Zenon DEF Types, CallTypes, Capacities, GoneIsEmpty
  <2>a. /\ Append(commands, c) \in Seq(Callers) /\ Len(Append(commands, c)) = Len(commands) + 1
        /\ Append(sent, c) \in Seq(Callers)
    BY <2>0, <2>1, Appends
  <2>3. commands' \in Seq(Callers) /\ sent' \in Seq(Callers)
    BY <2>0, <2>1, <2>a, Zenon
  <2>4. Len(commands') <= CommandCap /\ (actor = "gone" => commands' = <<>>)
    <3>1. CASE UNCHANGED <<commands, sent>>
      BY <2>0, <3>1, Zenon
    <3>2. CASE Running /\ Len(commands) < CommandCap /\ commands' = Append(commands, c)
      BY <2>0, <2>a, <3>2, CallsAssumption DEF Running
    <3> QED
      BY <2>1, <3>1, <3>2, Zenon
  <2> QED
    BY <1>2, <1>3, <2>1, <2>2, <2>3, <2>4 DEF Types, CallTypes, Capacities, GoneIsEmpty
<1> QED
  BY <1>4, <1>5, Zenon

LEMMA DaemonTypes == ASSUME Types, DaemonStep PROVE Types'
<1>0. UNCHANGED <<scenario, call, reply, armed, commands, events, actor, pending, frame, shutdown_reply, sent>>
  BY DaemonLeavesCallers, Zenon DEF daemonVars, channels, queues, actorVars
<1>1. Callers' = Callers /\ Event' = Event /\ Entries' /\ CallTypes'
  BY <1>0, Zenon DEF Callers, Event, Types, Entries, Kind, CallTypes
<1>2. ASSUME NEW name \in Names \cup {"ack", "error", "stray"}, NEW c \in Calls \cup {None}, Respond(name, c), Len(to_client) < SocketCap
      PROVE  to_client' \in Seq(Answer) /\ Len(to_client') <= SocketCap /\ (actor = "gone" => to_client' = <<>>)
  <2>1. [is |-> "response", of |-> c, name |-> name] \in Answer
    BY <1>2, Zenon DEF Answer
  <2>2. to_client' = <<>> \/ (Running /\ to_client' = Append(to_client, [is |-> "response", of |-> c, name |-> name]))
    BY <1>2, Zenon DEF Respond
  <2> DEFINE e == [is |-> "response", of |-> c, name |-> name]
  <2>3. to_client \in Seq(Answer) /\ SocketCap \in Nat
    BY CallsAssumption, Zenon DEF Types, WireTypes
  <2>4. Append(to_client, e) \in Seq(Answer) /\ Len(Append(to_client, e)) = Len(to_client) + 1 /\ Len(to_client) \in Nat
    BY <2>1, <2>3, Appends
  <2> HIDE DEF e
  <2>5. CASE to_client' = <<>>
    BY <2>3, <2>5
  <2>6. CASE Running /\ to_client' = Append(to_client, e)
    BY <1>2, <2>3, <2>4, <2>6 DEF Running
  <2> QED
    BY <2>2, <2>5, <2>6, Zenon DEF e
<1> DEFINE Server == [open : BOOLEAN, wait : Calls \cup {None}, subscriptions : SUBSET Calls, began : SUBSET (Calls \cup {None})]
<1>3. SUFFICES /\ to_client' \in Seq(Answer) /\ Len(to_client') <= SocketCap /\ (actor = "gone" => to_client' = <<>>)
               /\ to_server' \in Seq(Message) /\ Len(to_server') <= SocketCap
               /\ server' \in Server
  BY <1>0, <1>1, <1>3, Zenon DEF Types, WireTypes, Capacities, GoneIsEmpty
<1>t. server \in Server /\ to_server \in Seq(Message) /\ Len(to_server) <= SocketCap /\ to_client \in Seq(Answer)
      /\ Len(to_client) <= SocketCap /\ (actor = "gone" => to_client = <<>>)
  BY Zenon DEF Types, WireTypes, Capacities, GoneIsEmpty
<1>4. CASE Serve
  <2> DEFINE m == Head(to_server)
  <2>1. to_server # <<>> /\ to_server' = Tail(to_server) /\ Len(to_client) < SocketCap
    BY <1>4, Zenon DEF Serve
  <2>2. m \in Message /\ to_server' \in Seq(Message) /\ Len(to_server') <= SocketCap
    BY <1>t, <2>1, CallsAssumption
  <2>3. m.of \in Calls /\ m.name \in Names
    BY <2>2, Zenon DEF Message
  <2>4. \/ Respond("error", m.of) /\ server' = [server EXCEPT !.began = @ \cup {m.of}]
        \/ /\ Respond(IF m.name = "wait" THEN "ack" ELSE m.name, m.of)
           /\ server' = [server EXCEPT
               !.wait = IF m.name = "wait" THEN m.of ELSE @,
               !.began = @ \cup {m.of},
               !.subscriptions = CASE m.name = "subscribe" -> @ \cup {m.of}
                                   [] m.name = "unsubscribe" -> @ \ {m.of}
                                   [] OTHER -> @]
    BY <1>4, Zenon DEF Serve
  <2> DEFINE sub == CASE m.name = "subscribe" -> server.subscriptions \cup {m.of}
                      [] m.name = "unsubscribe" -> server.subscriptions \ {m.of}
                      [] OTHER -> server.subscriptions
  <2>s. server.subscriptions \subseteq Calls /\ server.began \cup {m.of} \subseteq Calls \cup {None} /\ server.wait \in Calls \cup {None}
    BY <1>t, <2>3, Zenon
  <2>u. sub \subseteq Calls
    BY <2>s, <2>3, Zenon
  <2>v. \/ server' = [server EXCEPT !.began = server.began \cup {m.of}]
        \/ server' = [server EXCEPT !.wait = IF m.name = "wait" THEN m.of ELSE server.wait,
                                    !.began = server.began \cup {m.of}, !.subscriptions = sub]
    BY <2>4, Zenon
  <2> HIDE DEF m
  <2> HIDE DEF sub
  <2>5. server' \in Server
    BY <1>t, <2>3, <2>s, <2>u, <2>v, Zenon
  <2> USE DEF m
  <2>6. /\ (IF m.name = "wait" THEN "ack" ELSE m.name) \in Names \cup {"ack", "error", "stray"}
        /\ "error" \in Names \cup {"ack", "error", "stray"} /\ m.of \in Calls \cup {None}
    BY <2>3, Zenon
  <2> QED
    BY <1>2, <2>1, <2>2, <2>4, <2>5, <2>6, Zenon
<1>5. CASE FinishWait
  <2>1. Len(to_client) < SocketCap /\ Respond("wait", server.wait) /\ server' = [server EXCEPT !.wait = None] /\ to_server' = to_server
    BY <1>5, Zenon DEF FinishWait
  <2>2. "wait" \in Names \cup {"ack", "error", "stray"} /\ server.wait \in Calls \cup {None} /\ server' \in Server
    BY <1>t, <2>1, Zenon DEF Names, Kinds
  <2> QED
    BY <1>2, <1>t, <2>1, <2>2, Zenon
<1>6. CASE ServerEnds
  <2>1. server' = [server EXCEPT !.open = FALSE, !.wait = None, !.subscriptions = {}] /\ to_server' = <<>> /\ to_client' = to_client
    BY <1>6, Zenon DEF ServerEnds
  <2>2. server' \in Server
    BY <1>t, <2>1, Zenon
  <2>3. to_server' \in Seq(Message) /\ Len(to_server') <= SocketCap
    BY <2>1, CallsAssumption
  <2> QED
    BY <1>t, <2>1, <2>2, <2>3, Zenon
<1>7. CASE Stray
  <2>1. Len(to_client) < SocketCap /\ Respond("stray", None) /\ server' = [server EXCEPT !.began = @ \cup {None}] /\ to_server' = to_server
    BY <1>7, Zenon DEF Stray
  <2>2. "stray" \in Names \cup {"ack", "error", "stray"} /\ None \in Calls \cup {None} /\ server' \in Server
    BY <1>t, <2>1, Zenon
  <2> QED
    BY <1>2, <1>t, <2>1, <2>2, Zenon
<1> QED
  BY <1>4, <1>5, <1>6, <1>7, Zenon DEF DaemonStep, ServerStep, CloseConnection, ResponseTimesOut, Crash


(* The answer at the head is for the first of the pending calls.           *)
LEMMA HeadFits ==
    ASSUME Types, Alignment, NEW r, Take("response"), r = Head(events)
    PROVE  /\ r \in Answer /\ r = Stream[1] /\ r.is = "response" /\ Stream # <<>> /\ 1 \in DOMAIN Stream
           /\ r.name # "stray" =>
                /\ IsAnswer(r) /\ pending # <<>> /\ Head(pending) \in Entry
                /\ Matches(r, Head(pending)) /\ r.of = Head(pending).of /\ r.of \in Calls
<1>0. events \in Seq(Event) /\ to_client \in Seq(Answer) /\ pending \in Seq(Entry)
  BY Zenon DEF Types, WireTypes
<1>1. events # <<>> /\ r.is = "response" /\ r \in Event /\ r = events[1]
  BY <1>0, Tails, Zenon DEF Take
<1>2. r \in Answer
  BY <1>1, Zenon DEF Event
<1>3. Stream[1] = r /\ 1 \in DOMAIN Stream /\ Stream # <<>>
  <2>1. to_client \in Seq(Event)
    BY <1>0 DEF Event
  <2> HIDE DEF Event
  <2> QED
    BY <1>0, <1>1, <2>1 DEF Stream
<1>4. ASSUME r.name # "stray"
      PROVE  /\ IsAnswer(r) /\ pending # <<>> /\ Head(pending) \in Entry
             /\ Matches(r, Head(pending)) /\ r.of = Head(pending).of /\ r.of \in Calls
  <2>1. IsAnswer(Stream[1])
    BY <1>1, <1>3, <1>4, Zenon DEF IsAnswer
  <2>2. Before(Stream, 1) + 1 \in DOMAIN pending /\ Matches(Stream[1], pending[Before(Stream, 1) + 1])
    BY <1>3, <2>1, Zenon DEF Alignment, Fits
  <2>3. 1 \in DOMAIN pending /\ Matches(r, pending[1])
    BY <1>3, <2>2, BeforeFirst
  <2>4. pending # <<>> /\ Head(pending) = pending[1] /\ pending[1] \in Entry
    BY <1>0, <2>3
  <2> QED
    BY <1>3, <2>1, <2>3, <2>4, Zenon DEF Matches, Entry
<1> QED
  BY <1>1, <1>2, <1>3, <1>4, Zenon

LEMMA EndTypes ==
    ASSUME Types, NEW a \in [Calls -> ReplyRecord], End(a), UNCHANGED <<scenario, call, server, sent>>
    PROVE  Types'
<1>1. /\ actor' = "gone" /\ pending' = <<>> /\ frame' = <<>> /\ shutdown_reply' = None
      /\ commands' = <<>> /\ events' = <<>> /\ to_client' = <<>> /\ to_server' = to_server
      /\ reply' = [c \in Calls |-> IF a[c] = Open THEN Closed ELSE a[c]]
      /\ armed' = [c \in Calls |-> IF armed[c] = "open" THEN "failed" ELSE armed[c]]
  BY Zenon DEF End
<1>2. Callers' = Callers
  BY Zenon DEF Callers
<1>3. Closed \in ReplyRecord
  BY Zenon DEF Closed, ReplyRecord
<1>4. reply' \in [Calls -> ReplyRecord]
  BY <1>1, <1>3, Zenon
<1>5. armed' \in [Calls -> {"open", "ok", "failed"}]
  BY <1>1, Zenon DEF Types, CallTypes
<1>6. CallTypes'
  BY <1>1, <1>2, <1>4, <1>5 DEF Types, CallTypes
<1>7. WireTypes' /\ GoneIsEmpty' /\ Entries'
  BY <1>1, <1>2 DEF Types, WireTypes, GoneIsEmpty, Entries
<1>8. Capacities'
  BY <1>1, CallsAssumption DEF Types, Capacities
<1> QED
  BY <1>6, <1>7, <1>8, Zenon DEF Types

(* A queue that one side fills and the other empties.                      *)
LEMMA ForwarderTypes == ASSUME Types, ForwarderStep \/ forward_responses PROVE Types'
<1>0. /\ events \in Seq(Event) /\ to_client \in Seq(Answer) /\ commands \in Seq(Callers)
      /\ Len(commands) <= CommandCap /\ Len(to_client) <= SocketCap /\ CommandCap \in Nat /\ SocketCap \in Nat
      /\ Answer \subseteq Event
  BY CallsAssumption, Zenon DEF Types, CallTypes, WireTypes, Capacities, Event
<1>1. UNCHANGED <<scenario, call, reply, armed, actor, pending, frame, shutdown_reply, to_server, server, sent>>
  BY Zenon DEF ForwarderStep, forward_commands, ForwardClosed, forward_responses, actorVars, channels, wire
<1>2. Callers' = Callers /\ Event' = Event /\ Entries'
  BY <1>1, Zenon DEF Callers, Event, Types, Entries, Kind
<1>3. SUFFICES /\ Running
               /\ events' \in Seq(Event) /\ to_client' \in Seq(Answer) /\ commands' \in Seq(Callers)
               /\ Len(events') <= 2 * CommandCap /\ Len(commands') <= CommandCap /\ Len(to_client') <= SocketCap
  BY <1>1, <1>2, <1>3, Zenon DEF Types, CallTypes, WireTypes, Capacities, GoneIsEmpty, Running
<1>4. \A e \in Event : Len(events) < 2 * CommandCap => Append(events, e) \in Seq(Event) /\ Len(Append(events, e)) <= 2 * CommandCap
  <2> HIDE DEF Event
  <2> QED
    BY <1>0
<1>5. CASE forward_commands
  <2>1. /\ Running /\ Len(events) < 2 * CommandCap /\ commands # <<>> /\ to_client' = to_client
        /\ events' = Append(events, [is |-> "command", of |-> Head(commands)]) /\ commands' = Tail(commands)
    BY <1>5, Zenon DEF forward_commands, EventRoom, wire
  <2>2. Head(commands) \in Callers /\ Tail(commands) \in Seq(Callers) /\ Len(Tail(commands)) <= CommandCap
    BY <1>0, <2>1
  <2>3. [is |-> "command", of |-> Head(commands)] \in Event
    BY <2>2, Zenon DEF Event
  <2> QED
    BY <1>0, <1>4, <2>1, <2>2, <2>3, Zenon
<1>6. CASE ForwardClosed
  <2>1. /\ Running /\ Len(events) < 2 * CommandCap /\ to_client' = to_client /\ commands' = commands
        /\ events' = Append(events, [is |-> "closed", of |-> None])
    BY <1>6, Zenon DEF ForwardClosed, EventRoom, wire
  <2>2. [is |-> "closed", of |-> None] \in Event
    BY Zenon DEF Event
  <2> QED
    BY <1>0, <1>4, <2>1, <2>2, Zenon
<1>7. CASE forward_responses
  <2>1. /\ Running /\ Len(events) < 2 * CommandCap /\ commands' = commands
        /\ \/ to_client # <<>> /\ events' = Append(events, Head(to_client)) /\ to_client' = Tail(to_client)
           \/ events' = Append(events, [is |-> "eof", of |-> None]) /\ to_client' = to_client
    BY <1>7, Zenon DEF forward_responses, EventRoom
  <2>2. [is |-> "eof", of |-> None] \in Event
    BY Zenon DEF Event
  <2>3. to_client # <<>> => Head(to_client) \in Event /\ Tail(to_client) \in Seq(Answer) /\ Len(Tail(to_client)) <= SocketCap
    BY <1>0
  <2> QED
    BY <1>0, <1>4, <2>1, <2>2, <2>3, Zenon
<1> QED
  BY <1>5, <1>6, <1>7, Zenon DEF ForwarderStep


LEMMA Replaces ==
    ASSUME NEW S, NEW s \in Seq(S), s # <<>>, NEW e \in S
    PROVE  LET t == <<e>> \o Tail(s) IN
           /\ t \in Seq(S) /\ Len(t) = Len(s) /\ DOMAIN t = DOMAIN s
           /\ \A k \in DOMAIN s : t[k] = IF k = 1 THEN e ELSE s[k]
OBVIOUS

(* What the caller of the first pending call is told.                      *)
LEMMA AnsweredTypes ==
    ASSUME Types, Alignment, NEW r, NEW p, Response(r, p), ~AcceptArmed(p, r), validate_response(p, r)
    PROVE  /\ Answered(p, r) \in [Calls -> ReplyRecord] /\ p \in Entry /\ r \in Answer /\ Completes(r)
           /\ r.of = p.of /\ r.of \in Calls
<1>1. p \in Entry /\ p = pending[1] /\ pending # <<>> /\ 1 \in DOMAIN pending /\ Take("response") /\ r = Head(events)
  BY DEF Response, Types, WireTypes
<1>2. r \in Answer /\ r.is = "response"
  BY <1>1, HeadFits, Zenon
<1>3. r.name \in {"error", p.name} /\ p.name \in Names
  BY <1>1, Zenon DEF validate_response, Entry
<1>4. r.name # "stray" /\ r.name # "ack"
  BY <1>3, Zenon DEF Names, Kinds
<1>5. r.of = p.of /\ r.of \in Calls
  BY <1>1, <1>4, HeadFits, Zenon DEF Response
<1>6. ASSUME p.reply PROVE r.name \in Kinds \cup {"error"}
  <2>1. p.name = Kind(p.of) /\ p.of \in Callers
    BY <1>1, <1>6, Zenon DEF Types, Entries
  <2> QED
    BY <1>3, <2>1, CallersAreCalls, Zenon DEF Types
<1>7. Answered(p, r) \in [Calls -> ReplyRecord]
  <2>1. p.reply => [is |-> r.name, of |-> r.of] \in ReplyRecord
    BY <1>5, <1>6, Zenon DEF ReplyRecord
  <2>2. reply \in [Calls -> ReplyRecord]
    BY Zenon DEF Types, CallTypes
  <2> QED
    BY <1>5, <2>1, <2>2, Zenon DEF Answered
<1> QED
  BY <1>1, <1>2, <1>4, <1>5, <1>7 DEF Completes, IsAnswer

LEMMA ActorTypes == ASSUME Types, Alignment, ActorStep PROVE Types'
<1>0. UNCHANGED <<scenario, call, server, sent>> /\ Callers' = Callers
  BY TransportLeavesCallers, Zenon DEF TransportStep, Callers
<1>a. Event' = Event
  BY <1>0, Zenon DEF Event
<1>t. /\ events \in Seq(Event) /\ pending \in Seq(Entry) /\ to_server \in Seq(Message) /\ frame \in Seq(Message)
      /\ Len(events) <= 2 * CommandCap /\ Len(to_server) <= SocketCap /\ Len(frame) <= 1
      /\ CommandCap \in Nat /\ SocketCap \in Nat
      /\ reply \in [Calls -> ReplyRecord] /\ armed \in [Calls -> {"open", "ok", "failed"}]
      /\ shutdown_reply \in Callers \cup {None} /\ Callers \subseteq Calls
      /\ \A c \in Callers : Kind(c) \in Kinds
  BY CallsAssumption, CallersAreCalls, Zenon DEF Types, CallTypes, WireTypes, Capacities
<1> DEFINE Same == UNCHANGED <<actor, commands, to_client>>
<1>s. ASSUME Running, Same,
             events' \in Seq(Event), Len(events') <= 2 * CommandCap,
             pending' \in Seq(Entry), Entries',
             frame' \in Seq(Message), Len(frame') <= 1, to_server' \in Seq(Message), Len(to_server') <= SocketCap,
             reply' \in [Calls -> ReplyRecord], armed' \in [Calls -> {"open", "ok", "failed"}],
             shutdown_reply' \in Callers \cup {None}
      PROVE  Types'
  BY <1>0, <1>a, <1>s, Zenon DEF Types, CallTypes, WireTypes, Capacities, GoneIsEmpty, Running
<1>e. ASSUME NEW is, Take(is)
      PROVE  Running /\ Head(events) \in Event /\ Head(events).is = is /\ Tail(events) \in Seq(Event) /\ Len(Tail(events)) <= 2 * CommandCap
  <2>1. Running /\ events # <<>> /\ Head(events).is = is
    BY <1>e, Zenon DEF Take
  <2> HIDE DEF Event
  <2> QED
    BY <1>t, <2>1
<1>c. ASSUME NEW c, Command(c)
      PROVE  /\ Running /\ Same /\ to_server' = to_server /\ c \in Callers /\ c \in Calls
             /\ events' \in Seq(Event) /\ Len(events') <= 2 * CommandCap
  <2>1. Take("command") /\ c = Head(events).of /\ events' = Tail(events) /\ Same /\ to_server' = to_server
    BY <1>c, Zenon DEF Command, others
  <2>2. Running /\ Head(events) \in Event /\ Head(events).is = "command" /\ events' \in Seq(Event) /\ Len(events') <= 2 * CommandCap
    BY <1>e, <2>1, Zenon
  <2>3. c \in Callers
    BY <2>1, <2>2, Zenon DEF Event, Answer
  <2> QED
    BY <1>t, <2>1, <2>2, <2>3, Zenon
<1>u. ASSUME UNCHANGED pending PROVE Entries'
  BY <1>0, <1>u, Zenon DEF Types, Entries, Kind
<1>1. ASSUME NEW c, Refuse(c) PROVE Types'
  <2>1. /\ Command(c) /\ UNCHANGED <<pending, frame, shutdown_reply>>
        /\ reply' = [reply EXCEPT ![c] = [is |-> "failed", of |-> c]] /\ armed' = [armed EXCEPT ![c] = "failed"]
    BY <1>1, Zenon DEF Refuse
  <2>2. c \in Calls
    BY <1>c, <2>1, Zenon
  <2>3. reply' \in [Calls -> ReplyRecord]
    BY <1>t, <2>1, <2>2, Zenon DEF ReplyRecord
  <2>4. armed' \in [Calls -> {"open", "ok", "failed"}]
    BY <1>t, <2>1, Zenon
  <2> QED
    BY <1>c, <1>s, <1>t, <1>u, <2>1, <2>3, <2>4, Zenon
<1>2. ASSUME NEW c, Request(c) PROVE Types'
  <2>1. /\ Command(c) /\ UNCHANGED <<reply, armed, shutdown_reply>> /\ Encodes(c) /\ Kind(c) # "shutdown"
        /\ pending' = Append(pending, PendingCall(c)) /\ frame' = <<[of |-> c, name |-> Kind(c)]>>
    BY <1>2, Zenon DEF Request, channels
  <2>2. c \in Callers /\ c \in Calls /\ Kind(c) \in Names
    BY <1>c, <1>t, <2>1, Zenon DEF Names
  <2>3. PendingCall(c) \in Entry /\ [of |-> c, name |-> Kind(c)] \in Message
    BY <2>2, Zenon DEF PendingCall, Entry, Message
  <2>4. pending' \in Seq(Entry) /\ frame' \in Seq(Message) /\ Len(frame') <= 1
    BY SMTT(30), <1>t, <2>1, <2>3
  <2>5. Entries'
    <3>1. \A k \in DOMAIN pending' : (k \in DOMAIN pending /\ pending'[k] = pending[k]) \/ pending'[k] = PendingCall(c)
      BY SMTT(30), <1>t, <2>1, <2>3
    <3>2. PendingCall(c).of = c /\ PendingCall(c).name = Kind(c)
      BY Zenon DEF PendingCall
    <3> QED
      BY <1>0, <2>1, <2>2, <3>1, <3>2 DEF Types, Entries, Kind
  <2> QED
    BY <1>c, <1>s, <1>t, <2>1, <2>4, <2>5, Zenon
<1>3. ASSUME NEW c, Shut(c) PROVE Types'
  <2>1. Command(c) /\ UNCHANGED <<reply, armed, pending, frame>> /\ shutdown_reply' = c
    BY <1>3, Zenon DEF Shut, channels
  <2> QED
    BY <1>c, <1>s, <1>t, <1>u, <2>1, Zenon
<1>4. CASE Written
  <2>1. /\ Running /\ Same /\ UNCHANGED <<events, reply, armed, pending, shutdown_reply>>
        /\ frame # <<>> /\ Len(to_server) < SocketCap /\ to_server' = Append(to_server, Head(frame)) /\ frame' = <<>>
    BY <1>4, Zenon DEF Written, others, channels
  <2>2. to_server' \in Seq(Message) /\ Len(to_server') <= SocketCap /\ frame' \in Seq(Message) /\ Len(frame') <= 1
    BY <1>t, <2>1
  <2> QED
    BY <1>s, <1>t, <1>u, <2>1, <2>2, Zenon
<1>5. ASSUME NEW r, NEW p, AckTaken(r, p) PROVE Types'
  <2>1. /\ Take("response") /\ pending # <<>> /\ p = Head(pending) /\ Same /\ UNCHANGED <<to_server, reply, frame, shutdown_reply>>
        /\ pending' = KeepPending(p) /\ armed' = [armed EXCEPT ![p.of] = "ok"] /\ events' = Tail(events)
    BY <1>5, Zenon DEF AckTaken, Response, others
  <2>2. p \in Entry /\ Tail(pending) \in Seq(Entry) /\ 1 \in DOMAIN pending /\ p = pending[1]
    BY <1>t, <2>1
  <2>3. [p EXCEPT !.armed = FALSE] \in Entry
    BY <2>2, Zenon DEF Entry
  <2> DEFINE p2 == [p EXCEPT !.armed = FALSE]
  <2>4. p2.of = p.of /\ p2.name = p.name /\ p2.reply = p.reply
    BY <2>2, Zenon DEF Entry
  <2>5. pending' = <<p2>> \o Tail(pending)
    BY <2>1, Zenon DEF KeepPending
  <2> HIDE DEF p2
  <2>6. /\ pending' \in Seq(Entry) /\ DOMAIN pending' = DOMAIN pending
        /\ \A k \in DOMAIN pending : pending'[k] = IF k = 1 THEN p2 ELSE pending[k]
    <3>1. p2 \in Entry /\ pending \in Seq(Entry) /\ pending # <<>>
      BY <1>t, <2>1, <2>3, Zenon DEF p2
    <3> DEFINE t == <<p2>> \o Tail(pending)
    <3>2. t \in Seq(Entry) /\ DOMAIN t = DOMAIN pending /\ \A k \in DOMAIN pending : t[k] = IF k = 1 THEN p2 ELSE pending[k]
      BY <3>1, Replaces
    <3>3. pending' = t
      BY <2>5, Zenon
    <3> HIDE DEF t
    <3> QED
      BY <3>2, <3>3, Zenon
  <2>7. Entries'
    BY <1>0, <2>2, <2>4, <2>6 DEF Types, Entries, Kind
  <2>8. armed' \in [Calls -> {"open", "ok", "failed"}]
    BY <1>t, <2>1, Zenon
  <2> QED
    BY <1>e, <1>s, <1>t, <2>1, <2>6, <2>7, <2>8, Zenon
<1>6. ASSUME NEW r, NEW p, AnswerTaken(r, p) PROVE Types'
  <2>1. /\ Take("response") /\ pending # <<>> /\ Response(r, p) /\ Same /\ UNCHANGED <<to_server, shutdown_reply>>
        /\ ~AcceptArmed(p, r) /\ validate_response(p, r)
        /\ reply' = Answered(p, r) /\ armed' = IF p.armed THEN [armed EXCEPT ![p.of] = "ok"] ELSE armed
        /\ events' = Tail(events)
    BY <1>6, Zenon DEF AnswerTaken, Response, others
  <2>2. reply' \in [Calls -> ReplyRecord] /\ p \in Entry /\ r.of \in Calls /\ p.of \in Calls
    BY <2>1, AnsweredTypes, Zenon
  <2>3. armed' \in [Calls -> {"open", "ok", "failed"}]
    BY <1>t, <2>1, Zenon
  <2>4. Tail(pending) \in Seq(Entry) /\ \A k \in DOMAIN Tail(pending) : k + 1 \in DOMAIN pending /\ Tail(pending)[k] = pending[k + 1]
    BY <1>t, <2>1
  <2>5. discard(p.of) \in Entry /\ discard(p.of).reply = FALSE /\ [of |-> r.of, name |-> "unsubscribe"] \in Message
    BY <2>2, Zenon DEF discard, Entry, Message, Names
  <2>6. CASE pending' = Append(Tail(pending), discard(p.of)) /\ frame' = <<[of |-> r.of, name |-> "unsubscribe"]>>
    <3>1. pending' \in Seq(Entry) /\ frame' \in Seq(Message) /\ Len(frame') <= 1
      BY <2>4, <2>5, <2>6
    <3>2. \A k \in DOMAIN pending' : (k + 1 \in DOMAIN pending /\ pending'[k] = pending[k + 1]) \/ pending'[k] = discard(p.of)
      <4>1. \A k \in DOMAIN pending' : (k \in DOMAIN Tail(pending) /\ pending'[k] = Tail(pending)[k]) \/ pending'[k] = discard(p.of)
        BY <2>4, <2>5, <2>6
      <4> QED
        BY <2>4, <4>1, Zenon
    <3>3. Entries'
      BY <1>0, <2>5, <3>2, Zenon DEF Types, Entries, Kind
    <3> QED
      BY <1>e, <1>s, <1>t, <2>1, <2>2, <2>3, <3>1, <3>3, Zenon
  <2>7. CASE pending' = Tail(pending) /\ frame' = frame
    <3>1. Entries'
      BY <1>0, <2>4, <2>7 DEF Types, Entries, Kind
    <3> QED
      BY <1>e, <1>s, <1>t, <2>1, <2>2, <2>3, <2>4, <2>7, <3>1, Zenon
  <2> QED
    BY <1>6, <2>6, <2>7, Zenon DEF AnswerTaken
<1>7. ASSUME NEW r, NEW p, LastAnswer(r, p) PROVE Types'
  <2>1. Answered(p, r) \in [Calls -> ReplyRecord] /\ End(Answered(p, r))
    BY <1>7, AnsweredTypes, Zenon DEF LastAnswer
  <2> QED
    BY <1>0, <2>1, EndTypes, Zenon
<1>8. ASSUME End(reply) PROVE Types'
  BY <1>0, <1>8, <1>t, EndTypes
<1>9. CASE ShutDone
  <2>1. /\ shutdown_reply # None
        /\ End([reply EXCEPT ![shutdown_reply] = [is |-> "shutdown", of |-> shutdown_reply]])
    BY <1>9, Zenon DEF ShutDone, ShutdownIsComplete
  <2>2. [is |-> "shutdown", of |-> shutdown_reply] \in ReplyRecord
    BY <1>t, <2>1, Zenon DEF ReplyRecord, Kinds
  <2>3. [reply EXCEPT ![shutdown_reply] = [is |-> "shutdown", of |-> shutdown_reply]] \in [Calls -> ReplyRecord]
    BY <1>t, <2>2, Zenon
  <2> QED
    BY <1>0, <2>1, <2>3, EndTypes, Zenon
<1>10. CASE Noted
  <2>1. Take("closed") /\ Same /\ events' = Tail(events) /\ UNCHANGED <<to_server, reply, armed, pending, frame, shutdown_reply>>
    BY <1>10, Zenon DEF Noted, others, channels
  <2> QED
    BY <1>e, <1>s, <1>t, <1>u, <2>1, Zenon
<1>11. CASE HandleCommand
  BY <1>1, <1>2, <1>3, <1>8, <1>11, CommandCases, Zenon DEF Fails
<1>12. CASE HandleResponse
  BY <1>5, <1>6, <1>7, <1>8, <1>12, ResponseCases, Zenon DEF Misfit
<1>13. CASE write_frame \/ HandleEof \/ HandleClosed \/ AbortActor
  BY <1>4, <1>8, <1>9, <1>10, <1>13, OtherCases, Zenon DEF Fails
<1> QED
  BY <1>11, <1>12, <1>13, Zenon DEF ActorStep


(***************************************************************************)
(* The requests without an answer, as they move to the daemon.             *)
(***************************************************************************)

LEMMA StreamMoves ==
    ASSUME NEW S, NEW a \in Seq(S), NEW b \in Seq(S)
    PROVE  /\ a \o b \in Seq(S)
           /\ a # <<>> => a \o b # <<>> /\ (a \o b)[1] = Head(a) /\ Tail(a) \o b = Tail(a \o b)
           /\ b # <<>> => Append(a, Head(b)) \o Tail(b) = a \o b
           /\ \A e \in S : a \o Append(b, e) = Append(a \o b, e)
<1>1. a \o b \in Seq(S) /\ Len(a \o b) = Len(a) + Len(b) /\ Len(a) \in Nat /\ Len(b) \in Nat
      /\ \A i \in 1 .. (Len(a) + Len(b)) : (a \o b)[i] = IF i <= Len(a) THEN a[i] ELSE b[i - Len(a)]
  OBVIOUS
<1>2. ASSUME a # <<>> PROVE a \o b # <<>> /\ (a \o b)[1] = Head(a)
  BY <1>2
<1>3. ASSUME a # <<>> PROVE Tail(a) \o b = Tail(a \o b)
  BY <1>3
<1>4. ASSUME b # <<>> PROVE Append(a, Head(b)) \o Tail(b) = a \o b
  BY <1>4
<1>5. ASSUME NEW e \in S PROVE a \o Append(b, e) = Append(a \o b, e)
  OBVIOUS
<1> QED
  BY <1>1, <1>2, <1>3, <1>4, <1>5, Zenon

LEMMA RestAppend ==
    ASSUME NEW n \in Nat, NEW S, NEW pend \in Seq(S), NEW e \in S, NEW wait, NEW M, NEW out \in Seq(M), NEW m,
           Rest(n, pend, wait, out, <<>>), Asked(m, e)
    PROVE  Rest(n, Append(pend, e), wait, out, <<m>>)
<1> DEFINE w == Working(wait)
           t == Append(pend, e)
<1>1. w \in Nat /\ (wait # None => w = 1)
  BY Zenon DEF Working
<1>2. Len(pend) = n + w + Len(out) /\ Len(out) \in Nat /\ \A i \in DOMAIN out : i \in 1 .. Len(out)
  BY <1>1 DEF Rest
<1>3. Len(t) = Len(pend) + 1 /\ t[Len(pend) + 1] = e /\ \A k \in 1 .. Len(pend) : t[k] = pend[k]
  OBVIOUS
<1>4. /\ wait # None => pend[n + 1].of = wait /\ pend[n + 1].name = "wait"
      /\ \A i \in DOMAIN out : Asked(out[i], pend[n + w + i])
  BY Zenon DEF Rest
<1> HIDE DEF t, w
<1>5. wait # None => t[n + 1] = pend[n + 1]
  BY <1>1, <1>2, <1>3
<1>6. \A i \in DOMAIN out : t[n + w + i] = pend[n + w + i]
  BY <1>1, <1>2, <1>3
<1>7. <<m>>[1] = m /\ DOMAIN <<m>> = {1} /\ Len(<<m>>) = 1
  OBVIOUS
<1>8. t[n + w + Len(out) + 1] = e
  BY <1>2, <1>3, Zenon
<1> QED
  BY <1>2, <1>3, <1>4, <1>5, <1>6, <1>7, <1>8, Zenon DEF Rest, t, w

LEMMA RestWritten ==
    ASSUME NEW n \in Nat, NEW pend, NEW wait, NEW M, NEW out \in Seq(M), NEW fr \in Seq(M), fr # <<>>, Len(fr) <= 1,
           Rest(n, pend, wait, out, fr)
    PROVE  Rest(n, pend, wait, Append(out, Head(fr)), <<>>)
<1> DEFINE w == Working(wait)
           t == Append(out, Head(fr))
<1>1. w \in Nat
  BY Zenon DEF Working
<1>a. Len(fr) \in Nat /\ Len(fr) > 0 /\ 1 \in DOMAIN fr /\ Head(fr) = fr[1]
  BY Tails, Zenon
<1>b. Len(out) \in Nat
  OBVIOUS
<1>c. Len(fr) = 1
  <2>1. \A l \in Nat : l > 0 /\ l <= 1 => l = 1
    OBVIOUS
  <2> QED
    BY <1>a, <2>1, Zenon
<1>2. Len(fr) = 1 /\ 1 \in DOMAIN fr /\ Head(fr) = fr[1] /\ Len(out) \in Nat
  BY <1>a, <1>b, <1>c, Zenon
<1>3. Len(t) = Len(out) + 1 /\ DOMAIN t = (DOMAIN out) \cup {Len(out) + 1} /\ t[Len(out) + 1] = fr[1] /\ \A i \in DOMAIN out : t[i] = out[i]
  <2>1. Head(fr) \in M
    BY Tails, Zenon
  <2> QED
    BY <1>2, <2>1, Appends
<1>4. Asked(fr[1], pend[n + w + Len(out) + 1]) /\ \A i \in DOMAIN out : Asked(out[i], pend[n + w + i])
  BY <1>2, Zenon DEF Rest
<1>5. Len(pend) = n + w + Len(t) + 0 /\ (wait # None => pend[n + 1].of = wait /\ pend[n + 1].name = "wait")
  BY <1>1, <1>2, <1>3 DEF Rest
<1> HIDE DEF t, w
<1>6. n + w + Len(out) + 1 = n + w + (Len(out) + 1)
  BY <1>1, <1>2
<1>7. \A i \in DOMAIN t : Asked(t[i], pend[n + w + i])
  BY <1>3, <1>4, <1>6, Zenon
<1> QED
  BY <1>5, <1>7 DEF Rest, t, w

LEMMA RestTail ==
    ASSUME NEW n \in Nat, NEW S, NEW pend \in Seq(S), pend # <<>>, NEW wait, NEW M, NEW out \in Seq(M), NEW fr \in Seq(M),
           Rest(n + 1, pend, wait, out, fr)
    PROVE  Rest(n, Tail(pend), wait, out, fr)
<1> DEFINE w == Working(wait)
           t == Tail(pend)
<1>1. w \in Nat /\ (wait # None => w = 1)
  BY Zenon DEF Working
<1>2. Len(out) \in Nat /\ (\A i \in DOMAIN out : i \in 1 .. Len(out)) /\ Len(fr) \in Nat /\ \A i \in DOMAIN fr : i \in 1 .. Len(fr)
  OBVIOUS
<1>3. Len(t) = Len(pend) - 1 /\ Len(pend) \in Nat /\ \A k \in 1 .. (Len(pend) - 1) : t[k] = pend[k + 1]
  OBVIOUS
<1>4. /\ Len(pend) = n + 1 + w + Len(out) + Len(fr)
      /\ wait # None => pend[(n + 1) + 1].of = wait /\ pend[(n + 1) + 1].name = "wait"
      /\ \A i \in DOMAIN out : Asked(out[i], pend[n + 1 + w + i])
      /\ \A i \in DOMAIN fr : Asked(fr[i], pend[n + 1 + w + Len(out) + i])
  BY <1>1, <1>2, Zenon DEF Rest
<1> HIDE DEF t, w
<1>a. Len(t) = n + w + Len(out) + Len(fr)
  BY SMTT(30), <1>1, <1>2, <1>3, <1>4
<1>b. ASSUME wait # None PROVE t[n + 1] = pend[(n + 1) + 1]
  <2>1. n + 1 \in 1 .. (Len(pend) - 1)
    BY <1>1, <1>2, <1>3, <1>4, <1>b
  <2> QED
    BY <1>3, <2>1, Zenon
<1>5. Len(t) = n + w + Len(out) + Len(fr) /\ (wait # None => t[n + 1] = pend[(n + 1) + 1])
  BY <1>a, <1>b, Zenon
<1>6. \A i \in DOMAIN out : t[n + w + i] = pend[n + 1 + w + i]
  <2> SUFFICES ASSUME NEW i \in DOMAIN out PROVE t[n + w + i] = pend[n + 1 + w + i]
    BY Zenon
  <2>0. w \in Nat /\ Len(out) \in Nat /\ Len(fr) \in Nat /\ i \in 1 .. Len(out) /\ Len(pend) = n + 1 + w + Len(out) + Len(fr)
    BY <1>1, <1>2, <1>4, Zenon
  <2>1. n + w + i \in 1 .. (Len(pend) - 1) /\ (n + w + i) + 1 = n + 1 + w + i
    BY <2>0
  <2> QED
    BY <1>3, <2>1, Zenon
<1>7. \A i \in DOMAIN fr : t[n + w + Len(out) + i] = pend[n + 1 + w + Len(out) + i]
  <2> SUFFICES ASSUME NEW i \in DOMAIN fr PROVE t[n + w + Len(out) + i] = pend[n + 1 + w + Len(out) + i]
    BY Zenon
  <2>0. w \in Nat /\ Len(out) \in Nat /\ Len(fr) \in Nat /\ i \in 1 .. Len(fr) /\ Len(pend) = n + 1 + w + Len(out) + Len(fr)
    BY <1>1, <1>2, <1>4, Zenon
  <2>1. n + w + Len(out) + i \in 1 .. (Len(pend) - 1) /\ (n + w + Len(out) + i) + 1 = n + 1 + w + Len(out) + i
    BY <2>0
  <2> QED
    BY <1>3, <2>1, Zenon
<1> QED
  BY <1>4, <1>5, <1>6, <1>7, Zenon DEF Rest, t, w

(* The daemon takes a request: it is answered, or it is the wait the       *)
(* daemon works on.                                                        *)
LEMMA RestServed ==
    ASSUME NEW n \in Nat, NEW pend, NEW M, NEW out \in Seq(M), out # <<>>, NEW fr \in Seq(M),
           Rest(n, pend, None, out, fr)
    PROVE  /\ n + 1 \in 1 .. Len(pend) /\ Asked(Head(out), pend[n + 1])
           /\ Rest(n + 1, pend, None, Tail(out), fr)
           /\ Head(out).name = "wait" /\ Head(out).of # None => Rest(n, pend, Head(out).of, Tail(out), fr)
<1> DEFINE t == Tail(out)
<1>1. Len(out) \in Nat /\ Len(out) # 0 /\ 1 \in DOMAIN out /\ Head(out) = out[1] /\ Len(t) = Len(out) - 1 /\ Len(fr) \in Nat
      /\ \A i \in DOMAIN t : i \in Nat /\ i + 1 \in DOMAIN out /\ t[i] = out[i + 1]
  OBVIOUS
<1>2. /\ Len(pend) = n + Len(out) + Len(fr)
      /\ \A i \in DOMAIN out : Asked(out[i], pend[n + i])
      /\ \A i \in DOMAIN fr : i \in Nat /\ Asked(fr[i], pend[n + Len(out) + i])
  BY <1>1 DEF Rest, Working
<1> HIDE DEF t
<1>3. n + 1 \in 1 .. Len(pend) /\ Asked(Head(out), pend[n + 1])
  BY <1>1, <1>2, SMTT(30)
<1>4. /\ Len(pend) = n + 1 + Len(t) + Len(fr)
      /\ \A i \in DOMAIN t : Asked(t[i], pend[n + 1 + i])
      /\ \A i \in DOMAIN fr : Asked(fr[i], pend[n + 1 + Len(t) + i])
  <2>1. n + 1 + Len(t) = n + Len(out)
    BY <1>1
  <2>2. \A i \in DOMAIN t : Asked(t[i], pend[n + 1 + i])
    <3> SUFFICES ASSUME NEW i \in DOMAIN t PROVE Asked(t[i], pend[n + 1 + i])
      BY Zenon
    <3>1. n + 1 + i = n + (i + 1)
      BY <1>1
    <3> QED
      BY <1>1, <1>2, <3>1, Zenon
  <2> QED
    BY <1>1, <1>2, <2>1, <2>2, Zenon
<1>5. Rest(n + 1, pend, None, t, fr)
  <2>1. Working(None) = 0 /\ n + 1 + 0 = n + 1
    BY DEF Working
  <2> QED
    BY <1>4, <2>1, Zenon DEF Rest
<1>6. ASSUME Head(out).name = "wait", Head(out).of # None PROVE Rest(n, pend, Head(out).of, t, fr)
  <2>1. Working(Head(out).of) = 1
    BY <1>6, Zenon DEF Working
  <2>2. pend[n + 1].of = Head(out).of /\ pend[n + 1].name = "wait"
    BY <1>3, <1>6, Zenon DEF Asked
  <2> QED
    BY <1>4, <2>1, <2>2, Zenon DEF Rest
<1> QED
  BY <1>3, <1>5, <1>6, Zenon DEF t

LEMMA RestFinished ==
    ASSUME NEW n \in Nat, NEW pend, NEW wait, wait # None, NEW M, NEW out \in Seq(M), NEW fr \in Seq(M), Rest(n, pend, wait, out, fr)
    PROVE  n + 1 \in 1 .. Len(pend) /\ pend[n + 1].of = wait /\ pend[n + 1].name = "wait" /\ Rest(n + 1, pend, None, out, fr)
<1>1. Working(wait) = 1 /\ Working(None) = 0 /\ n + 1 + 0 = n + 1 /\ Len(out) \in Nat /\ Len(fr) \in Nat
  BY DEF Working
<1> QED
  BY <1>1 DEF Rest

(* The first pending call is no longer armed.                              *)
LEMMA RestKept ==
    ASSUME NEW n \in Nat, NEW pend, NEW wait, NEW M, NEW out \in Seq(M), NEW fr \in Seq(M), Rest(n, pend, wait, out, fr),
           n + Working(wait) > 0,
           NEW pend2, Len(pend2) = Len(pend), \A k \in 1 .. Len(pend) : k # 1 => pend2[k] = pend[k],
           pend2[1].of = pend[1].of, pend2[1].name = pend[1].name
    PROVE  Rest(n, pend2, wait, out, fr)
<1> DEFINE w == Working(wait)
<1>1. w \in Nat /\ (wait # None => w = 1)
  BY Zenon DEF Working
<1>2. Len(out) \in Nat /\ (\A i \in DOMAIN out : i \in 1 .. Len(out)) /\ Len(fr) \in Nat /\ \A i \in DOMAIN fr : i \in 1 .. Len(fr)
  OBVIOUS
<1>4. /\ Len(pend) = n + w + Len(out) + Len(fr)
      /\ wait # None => pend[n + 1].of = wait /\ pend[n + 1].name = "wait"
      /\ \A i \in DOMAIN out : Asked(out[i], pend[n + w + i])
      /\ \A i \in DOMAIN fr : Asked(fr[i], pend[n + w + Len(out) + i])
  BY Zenon DEF Rest
<1>0. n + w > 0
  BY Zenon
<1> HIDE DEF w
<1>5. wait # None => pend2[n + 1].of = wait /\ pend2[n + 1].name = "wait"
  BY <1>1, <1>2, <1>4
<1>6. \A i \in DOMAIN out : pend2[n + w + i] = pend[n + w + i]
  BY SMTT(30), <1>0, <1>1, <1>2, <1>4
<1>7. \A i \in DOMAIN fr : pend2[n + w + Len(out) + i] = pend[n + w + Len(out) + i]
  BY <1>0, <1>1, <1>2, <1>4
<1> QED
  BY <1>4, <1>5, <1>6, <1>7 DEF Rest, w


(***************************************************************************)
(* Answers stay aligned with the calls they are for.                       *)
(***************************************************************************)

LEMMA StreamTypes ==
    ASSUME Types
    PROVE  /\ events \in Seq(Event) /\ to_client \in Seq(Event) /\ Stream \in Seq(Event) /\ Completed(Stream) \in Nat
           /\ Len(Stream) = Len(events) + Len(to_client) /\ Len(events) \in Nat /\ Len(to_client) \in Nat
           /\ pending \in Seq(Entry) /\ to_server \in Seq(Message) /\ frame \in Seq(Message) /\ Len(frame) <= 1
<1>1. events \in Seq(Event) /\ to_client \in Seq(Event)
  BY DEF Types, WireTypes, Event
<1>2. pending \in Seq(Entry) /\ to_server \in Seq(Message) /\ frame \in Seq(Message) /\ Len(frame) <= 1
  BY Zenon DEF Types, WireTypes, Capacities
<1> HIDE DEF Event
<1>3. /\ Stream \in Seq(Event) /\ Len(Stream) = Len(events) + Len(to_client)
      /\ Len(events) \in Nat /\ Len(to_client) \in Nat /\ Len(Stream) + 1 \in Nat \ {0}
  BY <1>1 DEF Stream
<1>4. Completed(Stream) \in Nat
  BY <1>3, BeforeIsNat, Zenon DEF Completed
<1> QED
  BY <1>1, <1>2, <1>3, <1>4, Zenon

LEMMA CallerAlignment ==
    ASSUME Alignment, (\E c \in Calls : CallerStep(c)) \/ Abort \/ DropHandle
    PROVE  Alignment'
<1>1. UNCHANGED <<events, actor, pending, frame, to_server, to_client, server>>
  BY CallerLeavesWire, Zenon DEF wireVars
<1>2. Stream' = Stream /\ Running' = Running
  BY <1>1, Zenon DEF Stream, Running
<1> QED
  BY <1>1, <1>2, Zenon DEF Alignment

LEMMA EmptyAlignment == ASSUME Stream' = <<>>, pending' = <<>>, ~Running' PROVE Alignment'
<1>1. DOMAIN Stream' = {}
  OBVIOUS
<1>2. Fits(Stream', pending') /\ Once(Stream')
  BY <1>1, Zenon DEF Fits, Once
<1> QED
  BY <1>2, Zenon DEF Alignment

(* An item that is no answer.                                              *)
LEMMA InsertAlignment ==
    ASSUME Types, Alignment, NEW e \in Event, ~IsAnswer(e), events' = Append(events, e),
           UNCHANGED <<to_client, actor, pending, frame, to_server, server>>
    PROVE  Alignment'
<1> HIDE DEF Event
<1>0. events \in Seq(Event) /\ to_client \in Seq(Event)
  BY StreamTypes, Zenon
<1>1. Stream' = Append(events, e) \o to_client /\ Stream = events \o to_client /\ Running' = Running
  BY Zenon DEF Stream, Running
<1>2. Fits(Stream, pending) /\ Once(Stream)
  BY Zenon DEF Alignment
<1>3. /\ Fits(Stream', pending) /\ Once(Stream') /\ Completed(Stream') = Completed(Stream)
      /\ \A n : AcksBelow(Stream, n) => AcksBelow(Stream', n)
  BY <1>0, <1>1, <1>2, FitsInsert
<1> QED
  BY <1>1, <1>3, Zenon DEF Alignment

LEMMA ForwarderAlignment == ASSUME Types, Alignment, ForwarderStep \/ forward_responses PROVE Alignment'
<1>0. UNCHANGED <<actor, pending, frame, to_server, server>>
  BY Zenon DEF ForwarderStep, forward_commands, ForwardClosed, forward_responses, actorVars, wire
<1>1. CASE forward_commands
  <2>1. events' = Append(events, [is |-> "command", of |-> Head(commands)]) /\ to_client' = to_client /\ commands # <<>>
    BY <1>1, Zenon DEF forward_commands, wire
  <2>2. Head(commands) \in Callers
    BY <2>1 DEF Types, CallTypes
  <2>3. [is |-> "command", of |-> Head(commands)] \in Event /\ ~IsAnswer([is |-> "command", of |-> Head(commands)])
    BY <2>2, Zenon DEF Event, IsAnswer
  <2> QED
    BY <1>0, <2>1, <2>3, InsertAlignment, Zenon
<1>2. CASE ForwardClosed
  <2>1. events' = Append(events, [is |-> "closed", of |-> None]) /\ to_client' = to_client
    BY <1>2, Zenon DEF ForwardClosed, wire
  <2>2. [is |-> "closed", of |-> None] \in Event /\ ~IsAnswer([is |-> "closed", of |-> None])
    BY Zenon DEF Event, IsAnswer
  <2> QED
    BY <1>0, <2>1, <2>2, InsertAlignment, Zenon
<1>3. CASE events' = Append(events, [is |-> "eof", of |-> None]) /\ to_client' = to_client
  <2>2. [is |-> "eof", of |-> None] \in Event /\ ~IsAnswer([is |-> "eof", of |-> None])
    BY Zenon DEF Event, IsAnswer
  <2> QED
    BY <1>0, <1>3, <2>2, InsertAlignment
<1>4. CASE to_client # <<>> /\ events' = Append(events, Head(to_client)) /\ to_client' = Tail(to_client)
  <2>1. events \in Seq(Event) /\ to_client \in Seq(Event)
    BY StreamTypes, Zenon
  <2>2. Append(events, Head(to_client)) \o Tail(to_client) = events \o to_client
    BY <1>4, <2>1, StreamMoves, Zenon
  <2>3. Stream' = Stream /\ Running' = Running
    BY <1>0, <1>4, <2>2, Zenon DEF Stream, Running
  <2> QED
    BY <1>0, <2>3, Zenon DEF Alignment
<1> QED
  BY <1>1, <1>2, <1>3, <1>4, Zenon DEF ForwarderStep, forward_responses

LEMMA DaemonAlignment == ASSUME Types, Alignment, DaemonStep PROVE Alignment'
<1> DEFINE n == Completed(Stream)
<1>0. UNCHANGED <<events, actor, pending, frame>> /\ Running' = Running
  BY DaemonLeavesCallers, Zenon DEF daemonVars, queues, actorVars, Running
<1>t. /\ events \in Seq(Event) /\ to_client \in Seq(Event) /\ Stream \in Seq(Event) /\ n \in Nat
      /\ pending \in Seq(Entry) /\ to_server \in Seq(Message) /\ frame \in Seq(Message)
  BY StreamTypes, Zenon
<1>a. Fits(Stream, pending) /\ Once(Stream)
  BY Zenon DEF Alignment
<1>1. CASE ServerEnds
  <2>1. to_client' = to_client /\ server' = [server EXCEPT !.open = FALSE, !.wait = None, !.subscriptions = {}]
    BY <1>1, Zenon DEF ServerEnds
  <2>2. Stream' = Stream /\ server'.open = FALSE
    BY <1>0, <2>1, Zenon DEF Stream, Types, WireTypes
  <2> QED
    BY <1>0, <1>a, <2>2, Zenon DEF Alignment
<1>2. ASSUME ~Running, NEW name, NEW c, Respond(name, c) PROVE Alignment'
  <2>1. events = <<>> /\ pending = <<>>
    BY <1>2, Zenon DEF Types, WireTypes, GoneIsEmpty, Running
  <2>2. to_client' = <<>>
    BY <1>2, Zenon DEF Respond
  <2>3. Stream' = <<>> /\ pending' = <<>> /\ ~Running'
    BY <1>0, <1>2, <2>1, <2>2 DEF Stream
  <2> QED
    BY <2>3, EmptyAlignment, Zenon
<1>3. ASSUME Running, server.open PROVE Rest(n, pending, server.wait, to_server, frame) /\ (server.wait = None => AcksBelow(Stream, n))
  BY <1>3, Zenon DEF Alignment
<1>4. ASSUME Running, NEW name \in Names \cup {"ack", "error", "stray"}, NEW c \in Calls \cup {None}, Respond(name, c)
      PROVE  LET e == [is |-> "response", of |-> c, name |-> name] IN e \in Event /\ Stream' = Append(Stream, e)
  <2> DEFINE e == [is |-> "response", of |-> c, name |-> name]
  <2>1. e \in Event
    BY <1>4, Zenon DEF Event, Answer
  <2>2. to_client' = Append(to_client, e)
    BY <1>4, Zenon DEF Respond
  <2> HIDE DEF e
  <2>3. events \o Append(to_client, e) = Append(events \o to_client, e)
    BY SMTT(30), <1>t, <2>1, StreamMoves
  <2> QED
    BY <1>0, <2>1, <2>2, <2>3, Zenon DEF Stream, e
<1> HIDE DEF n
<1>5. CASE FinishWait /\ Running
  <2>1. /\ server.open /\ server.wait # None /\ Respond("wait", server.wait) /\ server' = [server EXCEPT !.wait = None]
        /\ to_server' = to_server
    BY <1>5, Zenon DEF FinishWait
  <2>2. server'.open = TRUE /\ server'.wait = None /\ server.wait \in Calls \cup {None}
    BY <2>1, Zenon DEF Types, WireTypes
  <2> DEFINE e == [is |-> "response", of |-> server.wait, name |-> "wait"]
  <2>3. e \in Event /\ Stream' = Append(Stream, e)
    BY <1>4, <1>5, <2>1, <2>2 DEF Names, Kinds
  <2>4. /\ n + 1 \in 1 .. Len(pending) /\ pending[n + 1].of = server.wait /\ pending[n + 1].name = "wait"
        /\ Rest(n + 1, pending, None, to_server, frame)
    BY <1>3, <1>5, <1>t, <2>1, RestFinished
  <2>5. n + 1 \in DOMAIN pending
    BY <1>t, <2>4
  <2>6. IsAnswer(e) /\ Completes(e) /\ ~IsAck(e) /\ Matches(e, pending[n + 1]) /\ One(e) = 1
    BY <2>4, Zenon DEF IsAnswer, Completes, IsAck, Matches, One
  <2> HIDE DEF e
  <2>7. Fits(Stream', pending) /\ Once(Stream') /\ Completed(Stream') = n + 1 /\ AcksBelow(Stream', Completed(Stream'))
    BY <1>a, <1>t, <2>3, <2>5, <2>6, FitsAppend DEF n
  <2> QED
    BY <1>0, <2>1, <2>2, <2>4, <2>7, Zenon DEF Alignment
<1>6. CASE Stray /\ Running
  <2>1. Respond("stray", None) /\ server' = [server EXCEPT !.began = @ \cup {None}] /\ to_server' = to_server
    BY <1>6, Zenon DEF Stray
  <2>2. server'.open = server.open /\ server'.wait = server.wait
    BY <2>1, Zenon DEF Types, WireTypes
  <2> DEFINE e == [is |-> "response", of |-> None, name |-> "stray"]
  <2>3. e \in Event /\ Stream' = Append(Stream, e)
    BY <1>4, <1>6, <2>1, Zenon
  <2>4. ~IsAnswer(e) /\ ~IsAck(e) /\ One(e) = 0 /\ n + 0 = n
    BY <1>t DEF IsAnswer, IsAck, One, Completes
  <2> HIDE DEF e
  <2>5. /\ Fits(Stream', pending) /\ Once(Stream') /\ Completed(Stream') = n
        /\ AcksBelow(Stream, n) => AcksBelow(Stream', Completed(Stream'))
    BY <1>a, <1>t, <2>3, <2>4, FitsAppend DEF n
  <2> QED
    BY <1>0, <2>1, <2>2, <2>5, Zenon DEF Alignment, n
<1>7. CASE Serve /\ Running
  <2> DEFINE m == Head(to_server)
             e(name) == [is |-> "response", of |-> m.of, name |-> name]
  <2>1. server.open /\ server.wait = None /\ to_server # <<>> /\ to_server' = Tail(to_server)
    BY <1>7, Zenon DEF Serve
  <2>2. m \in Message
    BY <1>t, <2>1
  <2>3. m.of \in Calls /\ m.name \in Names /\ m.of # None
    BY <2>2, CallsAssumption, Zenon DEF Message, None
  <2>4. Rest(n, pending, None, to_server, frame) /\ AcksBelow(Stream, n)
    BY <1>3, <1>7, <2>1
  <2>5. /\ n + 1 \in 1 .. Len(pending) /\ Asked(m, pending[n + 1])
        /\ Rest(n + 1, pending, None, Tail(to_server), frame)
        /\ m.name = "wait" /\ m.of # None => Rest(n, pending, m.of, Tail(to_server), frame)
    BY <1>t, <2>1, <2>4, RestServed
  <2>6. n + 1 \in DOMAIN pending
    BY <1>t, <2>5
  <2>7. ASSUME NEW name \in {"error", m.name}, Respond(name, m.of), server'.open, server'.wait = None
        PROVE  Alignment'
    <3>1. name # "ack" /\ name # "stray" /\ name \in Names \cup {"ack", "error", "stray"}
      BY <2>3, <2>7, Zenon DEF Names, Kinds
    <3>2. e(name) \in Event /\ Stream' = Append(Stream, e(name))
      BY <1>4, <1>7, <2>3, <2>7, <3>1
    <3>3. /\ IsAnswer(e(name)) /\ Completes(e(name)) /\ ~IsAck(e(name)) /\ Matches(e(name), pending[n + 1]) /\ One(e(name)) = 1
      BY <2>5, <2>7, <3>1, Zenon DEF IsAnswer, Completes, IsAck, Matches, One, Asked
    <3> HIDE DEF e
    <3>4. Fits(Stream', pending) /\ Once(Stream') /\ Completed(Stream') = n + 1 /\ AcksBelow(Stream', Completed(Stream'))
      BY <1>a, <1>t, <2>6, <3>2, <3>3, FitsAppend DEF n
    <3> QED
      BY <1>0, <2>1, <2>5, <2>7, <3>4, Zenon DEF Alignment
  <2>8. ASSUME m.name = "wait", Respond("ack", m.of), server'.open, server'.wait = m.of
        PROVE  Alignment'
    <3>2. e("ack") \in Event /\ Stream' = Append(Stream, e("ack"))
      BY <1>4, <1>7, <2>3, <2>8
    <3>3. /\ IsAnswer(e("ack")) /\ Matches(e("ack"), pending[n + 1]) /\ One(e("ack")) = 0
      BY <2>5, <2>8, Zenon DEF IsAnswer, Completes, Matches, One, Asked
    <3> HIDE DEF e
    <3>4. Fits(Stream', pending) /\ Once(Stream') /\ Completed(Stream') = n + 0
      BY <1>a, <1>t, <2>4, <2>6, <3>2, <3>3, FitsAppend DEF n
    <3>5. Completed(Stream') = n
      BY <1>t, <3>4
    <3> QED
      BY <1>0, <2>1, <2>3, <2>5, <2>8, <3>4, <3>5, Zenon DEF Alignment
  <2>9. \/ Respond("error", m.of) /\ server'.open /\ server'.wait = None
        \/ m.name # "wait" /\ Respond(m.name, m.of) /\ server'.open /\ server'.wait = None
        \/ m.name = "wait" /\ Respond("ack", m.of) /\ server'.open /\ server'.wait = m.of
    <3>1. \/ Respond("error", m.of) /\ server' = [server EXCEPT !.began = @ \cup {m.of}]
          \/ /\ Respond(IF m.name = "wait" THEN "ack" ELSE m.name, m.of)
             /\ server' = [server EXCEPT
                 !.wait = IF m.name = "wait" THEN m.of ELSE @,
                 !.began = @ \cup {m.of},
                 !.subscriptions = CASE m.name = "subscribe" -> @ \cup {m.of}
                                     [] m.name = "unsubscribe" -> @ \ {m.of}
                                     [] OTHER -> @]
      BY <1>7, Zenon DEF Serve
    <3>2. server \in [open : BOOLEAN, wait : Calls \cup {None}, subscriptions : SUBSET Calls, began : SUBSET (Calls \cup {None})]
      BY Zenon DEF Types, WireTypes
    <3> HIDE DEF m
    <3>3. CASE Respond("error", m.of) /\ server' = [server EXCEPT !.began = @ \cup {m.of}]
      BY <2>1, <3>2, <3>3, Zenon
    <3>4. CASE /\ Respond(IF m.name = "wait" THEN "ack" ELSE m.name, m.of)
               /\ server' = [server EXCEPT
                   !.wait = IF m.name = "wait" THEN m.of ELSE @,
                   !.began = @ \cup {m.of},
                   !.subscriptions = CASE m.name = "subscribe" -> @ \cup {m.of}
                                       [] m.name = "unsubscribe" -> @ \ {m.of}
                                       [] OTHER -> @]
      <4>1. server'.open = server.open /\ server'.wait = IF m.name = "wait" THEN m.of ELSE server.wait
        BY <3>2, <3>4, Zenon
      <4> QED
        BY <2>1, <3>4, <4>1, Zenon
    <3> QED
      BY <3>1, <3>3, <3>4, Zenon DEF m
  <2> QED
    BY <2>7, <2>8, <2>9
<1>8. CASE ~Running /\ (Serve \/ FinishWait \/ Stray)
  BY <1>2, <1>8, Zenon DEF Serve, FinishWait, Stray
<1> QED
  BY <1>1, <1>5, <1>6, <1>7, <1>8, Zenon DEF DaemonStep, ServerStep, CloseConnection, ResponseTimesOut, Crash


LEMMA PopStream ==
    ASSUME Types, Alignment, events # <<>>, events' = Tail(events), to_client' = to_client
    PROVE  /\ Stream' = Tail(Stream) /\ Stream # <<>> /\ Stream[1] = Head(events) /\ Stream \in Seq(Event)
           /\ ~Completes(Head(events)) =>
                /\ Fits(Stream', pending) /\ Once(Stream') /\ Completed(Stream') = Completed(Stream)
                /\ \A n : AcksBelow(Stream, n) => AcksBelow(Stream', n)
<1> HIDE DEF Event
<1>0. events \in Seq(Event) /\ to_client \in Seq(Event) /\ Stream \in Seq(Event)
  BY StreamTypes, Zenon
<1>1. events \o to_client # <<>> /\ (events \o to_client)[1] = Head(events) /\ Tail(events) \o to_client = Tail(events \o to_client)
  BY <1>0, StreamMoves, Zenon
<1>2. Stream' = Tail(Stream) /\ Stream # <<>> /\ Stream[1] = Head(events)
  BY <1>1, Zenon DEF Stream
<1>3. Fits(Stream, pending) /\ Once(Stream)
  BY Zenon DEF Alignment
<1> QED
  BY <1>0, <1>2, <1>3, FitsTail, Zenon

LEMMA ExtendPending ==
    ASSUME NEW q, NEW S, NEW pend \in Seq(S), NEW e \in S, Fits(q, pend)
    PROVE  Fits(q, Append(pend, e))
<1>1. \A n \in DOMAIN pend : n \in DOMAIN Append(pend, e) /\ Append(pend, e)[n] = pend[n]
  BY Appends
<1>2. \A i \in DOMAIN q : IsAck(q[i]) => Before(q, i) + 1 \in DOMAIN pend /\ pend[Before(q, i) + 1].armed
  BY Zenon DEF Fits, IsAck, Matches
<1> QED
  BY <1>1, <1>2, FitsPending, Zenon

LEMMA ActorAlignment == ASSUME Types, Alignment, ActorStep PROVE Alignment'
<1> DEFINE n == Completed(Stream)
<1>0. UNCHANGED server
  BY TransportLeavesCallers, Zenon DEF TransportStep
<1>t. /\ Stream \in Seq(Event) /\ n \in Nat /\ to_client \in Seq(Event)
      /\ pending \in Seq(Entry) /\ to_server \in Seq(Message) /\ frame \in Seq(Message) /\ Len(frame) <= 1
  BY StreamTypes, Zenon
<1>a. Fits(Stream, pending) /\ Once(Stream)
  BY Zenon DEF Alignment
<1>b. ASSUME Running, server.open PROVE Rest(n, pending, server.wait, to_server, frame) /\ (server.wait = None => AcksBelow(Stream, n))
  BY <1>b, Zenon DEF Alignment
<1>p. ASSUME NEW is, Take(is), is # "response", events' = Tail(events), UNCHANGED to_client
      PROVE  /\ events # <<>> /\ frame = <<>> /\ Running
             /\ Fits(Stream', pending) /\ Once(Stream') /\ Completed(Stream') = Completed(Stream)
             /\ \A k : AcksBelow(Stream, k) => AcksBelow(Stream', k)
  <2>1. events # <<>> /\ frame = <<>> /\ Running /\ Head(events).is # "response"
    BY <1>p, Zenon DEF Take
  <2>2. ~Completes(Head(events))
    BY <2>1, Zenon DEF Completes, IsAnswer
  <2> QED
    BY <1>p, <2>1, <2>2, PopStream, Zenon
<1>q. ASSUME NEW is, Take(is), is # "response", events' = Tail(events), UNCHANGED <<to_client, actor, pending, frame, to_server>>
      PROVE  Alignment'
  <2>1. /\ Fits(Stream', pending) /\ Once(Stream') /\ Completed(Stream') = Completed(Stream)
        /\ \A k : AcksBelow(Stream, k) => AcksBelow(Stream', k)
    BY <1>p, <1>q, Zenon
  <2>2. Running' = Running
    BY <1>q, Zenon DEF Running
  <2> QED
    BY <1>0, <1>q, <2>1, <2>2, Zenon DEF Alignment
<1>1. ASSUME NEW c, Refuse(c) \/ Shut(c) PROVE Alignment'
  <2>1. Take("command") /\ events' = Tail(events) /\ UNCHANGED <<to_client, actor, pending, frame, to_server>>
    BY <1>1, Zenon DEF Refuse, Shut, Command, others
  <2> QED
    BY <1>q, <2>1, Zenon
<1>2. CASE Noted
  <2>1. Take("closed") /\ events' = Tail(events) /\ UNCHANGED <<to_client, actor, pending, frame, to_server>>
    BY <1>2, Zenon DEF Noted, others
  <2> QED
    BY <1>q, <2>1, Zenon
<1> HIDE DEF n
<1>3. ASSUME NEW c, Request(c) PROVE Alignment'
  <2> DEFINE e == PendingCall(c)
             m == [of |-> c, name |-> Kind(c)]
  <2>1. /\ Take("command") /\ c = Head(events).of /\ events' = Tail(events) /\ UNCHANGED <<to_client, actor, to_server>>
        /\ pending' = Append(pending, e) /\ frame' = <<m>>
    BY <1>3, Zenon DEF Request, Command, others
  <2>2. /\ events # <<>> /\ frame = <<>> /\ Running
        /\ Fits(Stream', pending) /\ Once(Stream') /\ Completed(Stream') = n
        /\ \A k : AcksBelow(Stream, k) => AcksBelow(Stream', k)
    BY <1>p, <2>1, Zenon DEF n
  <2>3. c \in Callers
    <3>1. Head(events) \in Event /\ Head(events).is = "command"
      <4>1. events \in Seq(Event) /\ Head(events).is = "command"
        BY <2>1, StreamTypes, Zenon DEF Take
      <4> HIDE DEF Event
      <4> QED
        BY <2>2, <4>1
    <3> QED
      BY <2>1, <3>1, Zenon DEF Event, Answer
  <2>4. e \in Entry /\ Asked(m, e)
    <3>1. c \in Calls /\ Kind(c) \in Names
      BY <2>3, CallersAreCalls, Zenon DEF Types, Names
    <3> QED
      BY <3>1, Zenon DEF PendingCall, Entry, Asked
  <2> HIDE DEF e
  <2> HIDE DEF m
  <2>5. Fits(Stream', pending') /\ Running' = Running
    BY <1>t, <2>1, <2>2, <2>4, ExtendPending DEF Running
  <2>6. server.open => Rest(n, pending', server.wait, to_server, frame')
    <3>1. server.open => Rest(n, pending, server.wait, to_server, <<>>)
      BY <1>b, <2>2, Zenon
    <3> QED
      BY <1>t, <2>1, <2>4, <3>1, RestAppend
  <2>7. server.open => (server.wait = None => AcksBelow(Stream', n))
    BY <1>b, <2>2, Zenon
  <2> QED
    BY <1>0, <2>1, <2>2, <2>5, <2>6, <2>7, Zenon DEF Alignment
<1>4. CASE Written
  <2>1. Running /\ frame # <<>> /\ to_server' = Append(to_server, Head(frame)) /\ frame' = <<>> /\ UNCHANGED <<events, to_client, actor, pending>>
    BY <1>4, Zenon DEF Written, others
  <2>2. Stream' = Stream /\ Running' = Running
    BY <2>1, Zenon DEF Stream, Running
  <2>3. Running /\ server.open => Rest(n, pending, server.wait, to_server', <<>>)
    BY <1>b, <1>t, <2>1, RestWritten
  <2> QED
    BY <1>0, <2>1, <2>2, <2>3, Zenon DEF Alignment, n
<1>5. ASSUME NEW r, NEW p, AckTaken(r, p) PROVE Alignment'
  <2> DEFINE p2 == [p EXCEPT !.armed = FALSE]
             pend == <<p2>> \o Tail(pending)
  <2>1. /\ Take("response") /\ r = Head(events) /\ pending # <<>> /\ p = Head(pending) /\ r.name = "ack"
        /\ events' = Tail(events) /\ UNCHANGED <<to_client, actor, to_server, frame>> /\ events # <<>> /\ Running
        /\ pending' = pend
    BY <1>5, Zenon DEF AckTaken, AcceptArmed, Response, others, Take, KeepPending
  <2>2. r.is = "response" /\ 1 \in DOMAIN Stream /\ IsAck(Stream[1]) /\ ~Completes(r)
    <3>1. r = Stream[1] /\ r.is = "response" /\ 1 \in DOMAIN Stream
      BY <2>1, HeadFits, Zenon
    <3> QED
      BY <2>1, <3>1, Zenon DEF IsAck, IsAnswer, Completes
  <2>3. /\ Stream' = Tail(Stream) /\ Stream # <<>>
        /\ Fits(Stream', pending) /\ Once(Stream') /\ Completed(Stream') = n
        /\ \A k : AcksBelow(Stream, k) => AcksBelow(Stream', k)
    BY <2>1, <2>2, PopStream, Zenon DEF n
  <2>4. p \in Entry /\ p2 \in Entry /\ p2.of = p.of /\ p2.name = p.name /\ p = pending[1] /\ 1 \in DOMAIN pending
    <3>1. p \in Entry /\ p = pending[1] /\ 1 \in DOMAIN pending
      BY <1>t, <2>1, Tails, Zenon
    <3> QED
      BY <3>1, Zenon DEF Entry
  <2> HIDE DEF p2
  <2>5. /\ pend \in Seq(Entry) /\ Len(pend) = Len(pending) /\ DOMAIN pend = DOMAIN pending
        /\ \A k \in DOMAIN pending : pend[k] = IF k = 1 THEN p2 ELSE pending[k]
    BY <1>t, <2>1, <2>4, Replaces
  <2> HIDE DEF pend
  <2>6. \A i \in DOMAIN Stream' : IsAck(Stream'[i]) => Before(Stream', i) # 0
    <3> SUFFICES ASSUME NEW i \in DOMAIN Stream', IsAck(Stream'[i]) PROVE Before(Stream', i) # 0
      BY Zenon
    <3>1. i + 1 \in DOMAIN Stream /\ Stream'[i] = Stream[i + 1] /\ i \in Nat \ {0} /\ i \in 1 .. Len(Stream) /\ 1 < i + 1
      BY <1>t, <2>3
    <3>2. Before(Stream, 1) < Before(Stream, i + 1)
      BY <1>a, <2>2, <3>1, Zenon DEF Once
    <3>3. Before(Stream, i + 1) = Before(Stream', i) + One(Stream[1])
      BY <1>t, <2>3, <3>1, BeforeTail
    <3>4. One(Stream[1]) = 0 /\ Before(Stream, 1) = 0 /\ Before(Stream', i) \in Nat
      BY <2>2, <3>1, BeforeFirst, BeforeIsNat DEF One, Completes, IsAck
    <3> QED
      BY <3>2, <3>3, <3>4
  <2>7. Fits(Stream', pend)
    <3>1. \A k \in DOMAIN pending : k \in DOMAIN pend /\ pend[k].of = pending[k].of /\ pend[k].name = pending[k].name
      BY <2>4, <2>5, Zenon
    <3>2. \A i \in DOMAIN Stream' : IsAck(Stream'[i]) => pend[Before(Stream', i) + 1].armed
      <4> SUFFICES ASSUME NEW i \in DOMAIN Stream', IsAck(Stream'[i]) PROVE pend[Before(Stream', i) + 1].armed
        BY Zenon
      <4>1. Before(Stream', i) + 1 \in DOMAIN pending /\ pending[Before(Stream', i) + 1].armed
        BY <2>3, Zenon DEF Fits, IsAck, Matches
      <4>2. Before(Stream', i) # 0 /\ i \in Nat \ {0}
        BY <1>t, <2>3, <2>6
      <4>3. Before(Stream', i) \in Nat
        BY <4>2, BeforeIsNat, Zenon
      <4> QED
        BY <2>5, <4>1, <4>2, <4>3
    <3> QED
      BY <2>3, <3>1, <3>2, FitsPending, Zenon
  <2>8. ASSUME server.open PROVE Rest(n, pend, server.wait, to_server, frame) /\ (server.wait = None => AcksBelow(Stream', n))
    <3>1. Rest(n, pending, server.wait, to_server, frame) /\ (server.wait = None => AcksBelow(Stream, n))
      BY <1>b, <2>1, <2>8
    <3>2. n + Working(server.wait) > 0
      <4>1. CASE server.wait = None
        BY <1>t, <2>2, <3>1, <4>1, BeforeFirst DEF AcksBelow, Working
      <4>2. CASE server.wait # None
        BY <1>t, <4>2 DEF Working
      <4> QED
        BY <4>1, <4>2, Zenon
    <3>3. /\ Len(pend) = Len(pending) /\ \A k \in 1 .. Len(pending) : k # 1 => pend[k] = pending[k]
          /\ pend[1].of = pending[1].of /\ pend[1].name = pending[1].name
      <4>1. DOMAIN pending = 1 .. Len(pending)
        BY <1>t
      <4> QED
        BY <2>4, <2>5, <4>1
    <3>4. Rest(n, pend, server.wait, to_server, frame)
      BY SMTT(30), <1>t, <3>1, <3>2, <3>3, RestKept
    <3> QED
      BY <2>3, <3>1, <3>4, Zenon
  <2>9. Running' = Running
    BY <2>1, Zenon DEF Running
  <2> QED
    BY <1>0, <2>1, <2>3, <2>7, <2>8, <2>9, Zenon DEF Alignment
<1>6. ASSUME NEW r, NEW p, AnswerTaken(r, p) PROVE Alignment'
  <2>1. /\ Take("response") /\ r = Head(events) /\ pending # <<>> /\ p = Head(pending) /\ Response(r, p)
        /\ ~AcceptArmed(p, r) /\ validate_response(p, r)
        /\ events' = Tail(events) /\ UNCHANGED <<to_client, actor, to_server>> /\ events # <<>> /\ Running /\ frame = <<>>
    BY <1>6, Zenon DEF AnswerTaken, Response, others, Take
  <2>2. Completes(r) /\ r.of = p.of /\ p \in Entry /\ r.of \in Calls
    BY <2>1, AnsweredTypes, Zenon
  <2>3. Stream' = Tail(Stream) /\ Stream # <<>> /\ Stream[1] = r
    BY <2>1, PopStream, Zenon
  <2> DEFINE pend == Tail(pending)
             k == Completed(Stream')
  <2>4. /\ Fits(Stream', pend) /\ Once(Stream') /\ k + 1 = n
        /\ AcksBelow(Stream, n) => AcksBelow(Stream', k)
    BY SMTT(30), <1>a, <1>t, <2>1, <2>2, <2>3, FitsTails DEF n
  <2>5. pend \in Seq(Entry) /\ Stream' \in Seq(Event) /\ Running' = Running
    <3> HIDE DEF Event
    <3> QED
      BY <1>t, <2>1, <2>3, Tails DEF Running
  <2>6. k \in Nat
    <3>1. Len(Stream') + 1 \in Nat \ {0}
      <4> HIDE DEF Event
      <4> QED
        BY <2>5
    <3> QED
      BY <3>1, BeforeIsNat, Zenon DEF Completed
  <2>7. server.open => Rest(k, pend, server.wait, to_server, frame) /\ (server.wait = None => AcksBelow(Stream', k))
    <3>1. server.open => Rest(k + 1, pending, server.wait, to_server, frame) /\ (server.wait = None => AcksBelow(Stream, n))
      BY <1>b, <2>1, <2>4, Zenon
    <3> HIDE DEF k
    <3>2. server.open => Rest(k, pend, server.wait, to_server, frame)
      BY <1>t, <2>1, <2>6, <3>1, RestTail, Zenon
    <3> QED
      BY <2>4, <3>1, <3>2 DEF k
  <2> HIDE DEF k
  <2>8. CASE pending' = Tail(pending) /\ frame' = frame
    <3>1. Fits(Stream', pending') /\ (server.open => Rest(k, pending', server.wait, to_server, frame'))
      BY <2>4, <2>7, <2>8, Zenon
    <3> QED
      BY <1>0, <2>1, <2>4, <2>5, <2>7, <3>1, Zenon DEF Alignment, k
  <2>9. CASE pending' = Append(Tail(pending), discard(p.of)) /\ frame' = <<[of |-> r.of, name |-> "unsubscribe"]>>
    <3> DEFINE e == discard(p.of)
               m == [of |-> r.of, name |-> "unsubscribe"]
    <3>1. e \in Entry /\ Asked(m, e)
      BY <2>2, Zenon DEF discard, Entry, Names, Asked
    <3> HIDE DEF e
    <3> HIDE DEF m
    <3>2. pending' = Append(pend, e) /\ frame' = <<m>>
      BY <2>9, Zenon DEF e, m
    <3> HIDE DEF pend
    <3>3. Fits(Stream', pending')
      BY <2>4, <2>5, <3>1, <3>2, ExtendPending
    <3>4. server.open => Rest(k, pend, server.wait, to_server, <<>>)
      BY <2>1, <2>7, Zenon
    <3>5. server.open => Rest(k, Append(pend, e), server.wait, to_server, <<m>>)
      BY <1>t, <2>5, <2>6, <3>1, <3>4, RestAppend
    <3>6. server.open => Rest(k, pending', server.wait, to_server, frame')
      BY <3>2, <3>5, Zenon
    <3> QED
      BY <1>0, <2>1, <2>4, <2>5, <2>7, <3>3, <3>6, Zenon DEF Alignment, k
  <2> QED
    BY <1>6, <2>8, <2>9, Zenon DEF AnswerTaken
<1>7. ASSUME NEW a, End(a) PROVE Alignment'
  <2>1. events' = <<>> /\ to_client' = <<>> /\ pending' = <<>> /\ actor' = "gone"
    BY <1>7, Zenon DEF End
  <2>2. Stream' = <<>> /\ ~Running'
    BY <2>1 DEF Stream, Running
  <2> QED
    BY <2>1, <2>2, EmptyAlignment, Zenon
<1>8. CASE HandleCommand
  BY <1>1, <1>3, <1>7, <1>8, CommandCases, Zenon DEF Fails
<1>9. CASE HandleResponse
  BY <1>5, <1>6, <1>7, <1>9, ResponseCases, Zenon DEF Misfit, LastAnswer
<1>10. CASE write_frame \/ HandleEof \/ HandleClosed \/ AbortActor
  BY <1>2, <1>4, <1>7, <1>10, OtherCases, Zenon DEF Fails, ShutDone
<1> QED
  BY <1>8, <1>9, <1>10, Zenon DEF ActorStep


(***************************************************************************)
(* Strays, and what the callers are told.                                  *)
(***************************************************************************)

(* An item on its way was there before, is no answer, or is an answer the  *)
(* daemon just gave.                                                       *)
Known(e) ==
    \/ \E j \in DOMAIN Stream : Stream[j] = e
    \/ e.is # "response"
    \/ e.is = "response" /\ e.name = "stray" /\ May("stray")
    \/ IsAnswer(e) /\ e.of \in server'.began

LEMMA StreamItems ==
    ASSUME Types, Channels, Next
    PROVE  /\ \A i \in DOMAIN Stream' : Known(Stream'[i])
           /\ server.began \subseteq server'.began /\ (server'.wait # None => server'.wait \in server'.began)
<1>t. /\ events \in Seq(Event) /\ to_client \in Seq(Event) /\ Stream \in Seq(Event)
      /\ to_server \in Seq(Message)
  BY StreamTypes, Zenon
<1>s. server \in [open : BOOLEAN, wait : Calls \cup {None}, subscriptions : SUBSET Calls, began : SUBSET (Calls \cup {None})]
  BY Zenon DEF Types, WireTypes
<1>w. server.wait # None => server.wait \in server.began
  BY Zenon DEF Channels
<1>0. ASSUME Stream' = Stream PROVE \A i \in DOMAIN Stream' : Known(Stream'[i])
  BY <1>0, Zenon DEF Known
<1>1. ASSUME NEW e \in Event, Known(e), Stream' = Append(Stream, e) PROVE \A i \in DOMAIN Stream' : Known(Stream'[i])
  <2> HIDE DEF Event
  <2>1. \A i \in DOMAIN Append(Stream, e) : (i \in DOMAIN Stream /\ Append(Stream, e)[i] = Stream[i]) \/ Append(Stream, e)[i] = e
    BY <1>t, <1>1
  <2> QED
    BY <1>1, <2>1, Zenon DEF Known
<1>2. ASSUME NEW e \in Event, e.is # "response", events' = Append(events, e), to_client' = to_client
      PROVE  \A i \in DOMAIN Stream' : Known(Stream'[i])
  <2> HIDE DEF Event
  <2> DEFINE s == events \o to_client
             t == Append(events, e) \o to_client
  <2>1. \A i \in DOMAIN t : (\E j \in DOMAIN s : t[i] = s[j]) \/ t[i] = e
    <3> SUFFICES ASSUME NEW i \in DOMAIN t PROVE (\E j \in DOMAIN s : t[i] = s[j]) \/ t[i] = e
      BY Zenon
    <3>1. CASE i <= Len(events)
      BY <1>t, <1>2, <3>1
    <3>2. CASE i = Len(events) + 1
      BY <1>t, <1>2, <3>2
    <3>3. CASE i > Len(events) + 1
      <4>1. i - 1 \in DOMAIN s /\ t[i] = s[i - 1]
        BY <1>t, <1>2, <3>3
      <4> QED
        BY <4>1, Zenon
    <3>4. i \in Nat /\ Len(events) \in Nat
      BY <1>t, <1>2
    <3> QED
      BY <3>1, <3>2, <3>3, <3>4
  <2>2. s = Stream /\ t = Stream'
    BY <1>2, Zenon DEF Stream
  <2> HIDE DEF s
  <2> HIDE DEF t
  <2> QED
    BY <1>2, <2>1, <2>2, Zenon DEF Known
<1>3. ASSUME events # <<>>, events' = Tail(events), to_client' = to_client PROVE \A i \in DOMAIN Stream' : Known(Stream'[i])
  <2> HIDE DEF Event
  <2>1. events \o to_client # <<>> /\ Tail(events) \o to_client = Tail(events \o to_client)
    BY <1>3, <1>t, StreamMoves, Zenon
  <2>2. Stream' = Tail(Stream) /\ Stream # <<>>
    BY <1>3, <2>1, Zenon DEF Stream
  <2>3. \A i \in DOMAIN Tail(Stream) : i + 1 \in DOMAIN Stream /\ Tail(Stream)[i] = Stream[i + 1]
    BY <1>t, <2>2, Tails, Zenon
  <2> QED
    BY <2>2, <2>3, Zenon DEF Known
<1>4. ASSUME events' = <<>>, to_client' = <<>> PROVE \A i \in DOMAIN Stream' : Known(Stream'[i])
  BY <1>4 DEF Stream
<1>5. CASE (\E c \in Calls : CallerStep(c)) \/ Abort \/ DropHandle
  <2>1. UNCHANGED <<events, to_client, server>>
    BY <1>5, CallerLeavesWire, Zenon DEF wireVars
  <2> QED
    BY <1>0, <1>w, <2>1 DEF Stream
<1>6. CASE DaemonStep
  <2>0. UNCHANGED <<events, actor>>
    BY <1>6, DaemonLeavesCallers, Zenon DEF daemonVars, queues, actorVars
  <2>1. ASSUME NEW name \in Names \cup {"ack", "error", "stray"}, NEW c \in Calls \cup {None}, Respond(name, c),
               Known([is |-> "response", of |-> c, name |-> name])
        PROVE  \A i \in DOMAIN Stream' : Known(Stream'[i])
    <3> DEFINE e == [is |-> "response", of |-> c, name |-> name]
    <3>1. e \in Event
      BY <2>1, Zenon DEF Event, Answer
    <3>2. CASE Running /\ to_client' = Append(to_client, e)
      <4> HIDE DEF e
      <4>1. events \o Append(to_client, e) = Append(events \o to_client, e)
        BY <1>t, <3>1, StreamMoves
      <4>2. Stream' = Append(Stream, e)
        BY <2>0, <3>2, <4>1, Zenon DEF Stream
      <4>3. Known(e)
        BY <2>1, Zenon DEF e
      <4> QED
        BY <1>1, <3>1, <4>2, <4>3
    <3>3. CASE ~Running /\ to_client' = <<>>
      <4>1. events = <<>>
        BY <3>3, Zenon DEF Types, WireTypes, GoneIsEmpty, Running
      <4> QED
        BY <1>4, <2>0, <3>3, <4>1
    <3> QED
      BY <2>1, <3>2, <3>3, Zenon DEF Respond
  <2>2. CASE Serve
    <3> DEFINE m == Head(to_server)
    <3>1. \/ Respond("error", m.of) /\ server' = [server EXCEPT !.began = @ \cup {m.of}]
          \/ /\ Respond(IF m.name = "wait" THEN "ack" ELSE m.name, m.of)
             /\ server' = [server EXCEPT
                 !.wait = IF m.name = "wait" THEN m.of ELSE @,
                 !.began = @ \cup {m.of},
                 !.subscriptions = CASE m.name = "subscribe" -> @ \cup {m.of}
                                     [] m.name = "unsubscribe" -> @ \ {m.of}
                                     [] OTHER -> @]
      BY <2>2, Zenon DEF Serve
    <3>2. m \in Message
      <4>1. to_server # <<>>
        BY <2>2, Zenon DEF Serve
      <4> QED
        BY <1>t, <4>1
    <3>3. m.of \in Calls /\ m.name \in Names
      BY <3>2, Zenon DEF Message
    <3> HIDE DEF m
    <3>a. server.wait = None
      BY <2>2, Zenon DEF Serve
    <3>4. server'.began = server.began \cup {m.of} /\ server'.wait \in {None, m.of}
      BY <1>s, <3>1, <3>a, Zenon
    <3>5. ASSUME NEW name \in (Names \cup {"ack", "error"}), Respond(name, m.of)
          PROVE  \A i \in DOMAIN Stream' : Known(Stream'[i])
      <4>1. name # "stray" /\ name \in Names \cup {"ack", "error", "stray"} /\ m.of \in Calls \cup {None}
        BY <3>3, <3>5, Zenon DEF Names, Kinds
      <4>2. Known([is |-> "response", of |-> m.of, name |-> name])
        BY <3>4, <4>1, Zenon DEF Known, IsAnswer
      <4> QED
        BY <2>1, <3>5, <4>1, <4>2
    <3>6. "error" \in Names \cup {"ack", "error"} /\ (IF m.name = "wait" THEN "ack" ELSE m.name) \in Names \cup {"ack", "error"}
      BY <3>3, Zenon
    <3> QED
      BY <3>1, <3>4, <3>5, <3>6
  <2>3. CASE FinishWait
    <3>1. server.wait # None /\ Respond("wait", server.wait) /\ server' = [server EXCEPT !.wait = None]
      BY <2>3, Zenon DEF FinishWait
    <3>2. server.wait \in Calls \cup {None} /\ server'.began = server.began /\ server'.wait = None
      BY <1>s, <3>1, Zenon
    <3>3. Known([is |-> "response", of |-> server.wait, name |-> "wait"])
      BY <1>w, <3>1, <3>2, Zenon DEF Known, IsAnswer
    <3> QED
      BY <2>1, <3>1, <3>2, <3>3 DEF Names, Kinds
  <2>4. CASE ServerEnds
    <3>1. to_client' = to_client /\ server' = [server EXCEPT !.open = FALSE, !.wait = None, !.subscriptions = {}]
      BY <2>4, Zenon DEF ServerEnds
    <3>2. Stream' = Stream /\ server'.began = server.began /\ server'.wait = None
      BY <1>s, <2>0, <3>1, Zenon DEF Stream
    <3> QED
      BY <1>0, <3>2, Zenon
  <2>5. CASE Stray
    <3>1. May("stray") /\ Respond("stray", None) /\ server' = [server EXCEPT !.began = @ \cup {None}]
      BY <2>5, Zenon DEF Stray
    <3>2. server.began \subseteq server'.began /\ server'.wait = server.wait
      BY <1>s, <3>1, Zenon
    <3>3. Known([is |-> "response", of |-> None, name |-> "stray"])
      BY <3>1, Zenon DEF Known
    <3> QED
      BY <1>w, <2>1, <3>1, <3>2, <3>3
  <2> QED
    BY <1>6, <2>2, <2>3, <2>4, <2>5, Zenon DEF DaemonStep, ServerStep, CloseConnection, ResponseTimesOut, Crash
<1>7. CASE TransportStep
  <2>0. UNCHANGED server /\ (server.wait # None => server.wait \in server.began)
    BY <1>7, <1>w, TransportLeavesCallers, Zenon
  <2>1. CASE forward_commands
    <3>1. events' = Append(events, [is |-> "command", of |-> Head(commands)]) /\ to_client' = to_client /\ commands # <<>>
      BY <2>1, Zenon DEF forward_commands, wire
    <3>2. Head(commands) \in Callers
      BY <3>1 DEF Types, CallTypes
    <3>3. [is |-> "command", of |-> Head(commands)] \in Event
      BY <3>2, Zenon DEF Event
    <3> QED
      BY <1>2, <2>0, <3>1, <3>3, Zenon
  <2>2. CASE ForwardClosed
    <3>1. events' = Append(events, [is |-> "closed", of |-> None]) /\ to_client' = to_client
      BY <2>2, Zenon DEF ForwardClosed, wire
    <3>2. [is |-> "closed", of |-> None] \in Event
      BY Zenon DEF Event
    <3> QED
      BY <1>2, <2>0, <3>1, <3>2, Zenon
  <2>3. CASE events' = Append(events, [is |-> "eof", of |-> None]) /\ to_client' = to_client
    <3>1. [is |-> "eof", of |-> None] \in Event
      BY Zenon DEF Event
    <3> QED
      BY <1>2, <2>0, <2>3, <3>1
  <2>4. CASE to_client # <<>> /\ events' = Append(events, Head(to_client)) /\ to_client' = Tail(to_client)
    <3>1. Append(events, Head(to_client)) \o Tail(to_client) = events \o to_client
      BY SMTT(30), <1>t, <2>4, StreamMoves
    <3> QED
      BY <1>0, <2>0, <2>4, <3>1, Zenon DEF Stream
  <2>5. CASE ForwarderStep \/ forward_responses
    BY <2>1, <2>2, <2>3, <2>4, <2>5, Zenon DEF ForwarderStep, forward_responses
  <2>6. ASSUME NEW a, End(a) PROVE \A i \in DOMAIN Stream' : Known(Stream'[i])
    BY <1>4, <2>6, Zenon DEF End
  <2>7. ASSUME events # <<>>, events' = Tail(events), to_client' = to_client PROVE \A i \in DOMAIN Stream' : Known(Stream'[i])
    BY <1>3, <2>7, Zenon
  <2>8. CASE HandleCommand
    BY <2>0, <2>6, <2>7, <2>8, CommandCases, Zenon DEF Fails, Refuse, Request, Shut, Command, others, Take
  <2>9. CASE HandleResponse
    BY <2>0, <2>6, <2>7, <2>9, ResponseCases, ZenonT(30) DEF Misfit, AckTaken, AnswerTaken, LastAnswer, Response, others, Take
  <2>10. CASE Written
    BY <1>0, <2>0, <2>10, Zenon DEF Written, others, Stream
  <2>11. CASE write_frame \/ HandleEof \/ HandleClosed \/ AbortActor
    BY <2>0, <2>6, <2>7, <2>10, <2>11, OtherCases, Zenon DEF Fails, ShutDone, Noted, others, Take
  <2> QED
    BY <1>7, <2>5, <2>8, <2>9, <2>11, Zenon DEF TransportStep, ActorStep
<1> QED
  BY <1>5, <1>6, <1>7, Zenon DEF Next, CallerStep, DaemonStep, TransportStep


(* An answer that does not fit is a stray.                                 *)
LEMMA MisfitsAreStrays == ASSUME Types, Alignment, NEW r, Misfit(r) PROVE r.name = "stray" /\ r.is = "response" /\ 1 \in DOMAIN Stream /\ Stream[1] = r
<1>1. Take("response") /\ r = Head(events)
  BY Zenon DEF Misfit
<1>2. r = Stream[1] /\ r.is = "response" /\ 1 \in DOMAIN Stream
  BY <1>1, HeadFits, Zenon
<1>3. ASSUME r.name # "stray" PROVE FALSE
  <2>1. pending # <<>> /\ Matches(r, Head(pending)) /\ r.of = Head(pending).of
    BY <1>1, <1>3, HeadFits, Zenon
  <2> QED
    BY <2>1, Zenon DEF Misfit, AcceptArmed, validate_response, Matches
<1> QED
  BY <1>2, <1>3, Zenon

LEMMA StraysStep == ASSUME Types, Alignment, Channels, Strays, Next PROVE Strays'
<1>0. May("stray")' = May("stray")
  BY ScenarioIsFixed, Zenon DEF May
<1>1. \A i \in DOMAIN Stream' : Stream'[i].is = "response" /\ Stream'[i].name = "stray" => May("stray")
  BY StreamItems, Zenon DEF Known, Strays, IsAnswer
<1>2. ASSUME ~May("stray"), terminal_failure' = terminal_failure \/ terminal_failure' \notin {"unsolicited", "mismatched"}
      PROVE  terminal_failure' \notin {"unsolicited", "mismatched"}
  BY <1>2, Zenon DEF Strays
<1>3. ASSUME ~May("stray") PROVE terminal_failure' = terminal_failure \/ terminal_failure' \notin {"unsolicited", "mismatched"}
  <2>1. CASE (\E c \in Calls : CallerStep(c)) \/ Abort \/ DropHandle
    <3>1. ASSUME NEW f \in {"timed_out", "cancelled", "actor_closed"}, abort_with(f)
          PROVE  terminal_failure' = terminal_failure \/ terminal_failure' \notin {"unsolicited", "mismatched"}
      BY <3>1, Zenon DEF abort_with, set_terminal_failure
    <3>2. ASSUME NEW c \in Calls, CallerStep(c) PROVE terminal_failure' = terminal_failure \/ abort_with("timed_out") \/ abort_with("cancelled")
      <4>1. CASE Start(c)
        BY <4>1, Zenon DEF Start
      <4>2. CASE Send(c) \/ Armed(c) \/ Finish(c)
        BY <4>2, Zenon DEF Send, Armed, Finish
      <4>3. CASE Timeout(c) \/ Drop(c)
        BY <4>3, Zenon DEF Timeout, Drop
      <4> QED
        BY <3>2, <4>1, <4>2, <4>3, Zenon DEF CallerStep, CallStep
    <3>3. CASE Abort \/ DropHandle
      <4>1. terminal_failure' = terminal_failure \/ abort_with("actor_closed")
        BY <3>3, Zenon DEF Abort, DropHandle
      <4> QED
        BY <3>1, <4>1, Zenon
    <3> QED
      BY <2>1, <3>1, <3>2, <3>3, Zenon
  <2>2. CASE DaemonStep
    BY <2>2, DaemonLeavesCallers, Zenon DEF daemonVars
  <2>3. CASE ForwarderStep \/ forward_responses
    BY <2>3, Zenon DEF ForwarderStep, forward_commands, ForwardClosed, forward_responses
  <2>4. CASE Fails
    BY <2>4, Zenon DEF Fails
  <2>5. CASE HandleCommand
    BY <2>4, <2>5, CommandCases, Zenon DEF Refuse, Request, Shut, Command, others
  <2>6. ASSUME NEW r, Misfit(r) PROVE FALSE
    BY <1>3, <2>6, MisfitsAreStrays, Zenon DEF Strays
  <2>7. CASE HandleResponse
    BY <2>6, <2>7, ResponseCases, Zenon DEF AckTaken, AnswerTaken, LastAnswer, others
  <2>8. CASE write_frame \/ HandleEof \/ HandleClosed \/ AbortActor
    BY <2>4, <2>8, OtherCases, Zenon DEF Written, ShutDone, Noted, others
  <2> QED
    BY <2>1, <2>2, <2>3, <2>5, <2>7, <2>8, Zenon DEF Next, CallerStep, DaemonStep, ActorStep
<1> QED
  BY <1>0, <1>1, <1>2, <1>3, Zenon DEF Strays

(***************************************************************************)
(* Commands are handled once, in the order they were sent.                 *)
(***************************************************************************)

LEMMA CallerOrder == ASSUME Types, Channels, Order, (\E c \in Calls : CallerStep(c)) \/ Abort \/ DropHandle PROVE Order'
<1>t. commands \in Seq(Callers) /\ sent \in Seq(Callers) /\ Len(commands) \in Nat /\ Len(sent) \in Nat
  BY DEF Types, CallTypes
<1>e. events' = events
  BY CallerLeavesWire, Zenon DEF wireVars
<1>0. ASSUME UNCHANGED <<commands, sent>>, \A c \in Calls : call'[c].pc \in {"idle", "sending"} => call[c].pc \in {"idle", "sending"}
      PROVE  Order'
  <2>1. Taken' = Taken
    BY <1>0, Zenon DEF Taken
  <2> QED
    BY <1>0, <1>e, <2>1 DEF Order
<1>1. CASE Abort \/ DropHandle
  <2>1. UNCHANGED <<call, commands, sent>>
    BY <1>1, Zenon DEF Abort, DropHandle, queues
  <2> QED
    BY <1>0, <2>1, Zenon
<1>2. ASSUME NEW c \in Calls, CallerStep(c) PROVE Order'
  <2>1. /\ \A d \in Calls : d # c => call'[d] = call[d]
        /\ c \in Callers /\ call'[c].pc # "idle" /\ (call'[c].pc = "sending" => call[c].pc = "idle")
        /\ \/ UNCHANGED <<commands, sent>>
           \/ /\ call[c].pc = "sending" /\ call'[c].pc # "sending"
              /\ commands' = Append(commands, c) /\ sent' = Append(sent, c)
    BY <1>2, CallerMove, Zenon
  <2>2. \A d \in Calls : call'[d].pc \in {"idle", "sending"} => call[d].pc \in {"idle", "sending"}
    BY <2>1, Zenon
  <2>3. CASE UNCHANGED <<commands, sent>>
    BY <1>0, <2>2, <2>3, Zenon
  <2>4. CASE call[c].pc = "sending" /\ call'[c].pc # "sending" /\ commands' = Append(commands, c) /\ sent' = Append(sent, c)
    <3>1. \A n \in DOMAIN sent : sent[n] # c
      BY <2>4, Zenon DEF Order
    <3>2. /\ Len(sent') = Len(sent) + 1 /\ DOMAIN sent' = (DOMAIN sent) \cup {Len(sent) + 1}
          /\ sent'[Len(sent) + 1] = c /\ \A n \in DOMAIN sent : sent'[n] = sent[n]
      BY <1>t, <2>1, <2>4, Appends
    <3>3. /\ Len(commands') = Len(commands) + 1 /\ DOMAIN commands' = (DOMAIN commands) \cup {Len(commands) + 1}
          /\ commands'[Len(commands) + 1] = c /\ \A n \in DOMAIN commands : commands'[n] = commands[n]
      BY <1>t, <2>1, <2>4, Appends
    <3>4. Taken' = Taken /\ Taken \in Int
      BY <1>t, <3>2, <3>3 DEF Taken
    <3>5. \A n, m \in DOMAIN sent' : sent'[n] = sent'[m] => n = m
      BY <3>1, <3>2 DEF Order
    <3>6. \A d \in Calls : call'[d].pc \in {"idle", "sending"} => \A n \in DOMAIN sent' : sent'[n] # d
      BY <2>1, <2>2, <2>4, <3>2 DEF Order
    <3>7. Len(commands') <= Len(sent') /\ \A i \in DOMAIN commands' : commands'[i] = sent'[Taken' + i]
      <4>1. Len(commands) <= Len(sent) /\ \A i \in DOMAIN commands : commands[i] = sent[Taken + i]
        BY Zenon DEF Order
      <4>2. \A i \in DOMAIN commands : Taken + i \in DOMAIN sent
        BY <1>t, <4>1 DEF Taken
      <4>3. Taken + (Len(commands) + 1) = Len(sent) + 1
        BY <1>t DEF Taken
      <4> QED
        BY <1>t, <3>2, <3>3, <3>4, <4>1, <4>2, <4>3
    <3>8. \A i \in DOMAIN events : IsCommand(events[i]) => \E n \in 1 .. Taken : n \in DOMAIN sent /\ sent[n] = events[i].of
      <4>1. \A n \in 1 .. Taken : n \in DOMAIN sent
        BY <1>t DEF Taken
      <4> QED
        BY <4>1, Zenon DEF Order
    <3>9. \A i, j \in DOMAIN events : i < j /\ IsCommand(events[i]) /\ IsCommand(events[j]) =>
            \A n, m \in DOMAIN sent' : sent'[n] = events[i].of /\ sent'[m] = events[j].of => n < m
      <4> SUFFICES ASSUME NEW i \in DOMAIN events, NEW j \in DOMAIN events, i < j, IsCommand(events[i]), IsCommand(events[j]),
                          NEW n \in DOMAIN sent', NEW m \in DOMAIN sent', sent'[n] = events[i].of, sent'[m] = events[j].of
                   PROVE  n < m
        BY Zenon
      <4>1. events[i].of # c /\ events[j].of # c
        BY <3>1, <3>8, Zenon
      <4>2. n \in DOMAIN sent /\ m \in DOMAIN sent /\ sent[n] = events[i].of /\ sent[m] = events[j].of
        BY <3>2, <4>1, Zenon
      <4> QED
        BY <4>2, Zenon DEF Order
    <3>10. \A i \in DOMAIN events : IsCommand(events[i]) => \E n \in 1 .. Taken : sent'[n] = events[i].of
      BY <3>2, <3>8, Zenon
    <3> QED
      BY <1>e, <3>4, <3>5, <3>6, <3>7, <3>9, <3>10 DEF Order
  <2> QED
    BY <2>1, <2>3, <2>4
<1> QED
  BY <1>1, <1>2, Zenon

LEMMA DaemonOrder == ASSUME Order, DaemonStep PROVE Order'
<1>1. UNCHANGED <<call, commands, events, sent>>
  BY DaemonLeavesCallers, Zenon DEF daemonVars, queues
<1>2. Taken' = Taken
  BY <1>1, Zenon DEF Taken
<1> QED
  BY <1>1, <1>2 DEF Order

LEMMA TransportOrder == ASSUME Types, Order, TransportStep PROVE Order'
<1>t. /\ commands \in Seq(Callers) /\ sent \in Seq(Callers) /\ Len(commands) \in Nat /\ Len(sent) \in Nat
      /\ events \in Seq(Event) /\ to_client \in Seq(Event) /\ to_client \in Seq(Answer)
  BY StreamTypes DEF Types, CallTypes, WireTypes
<1>0. UNCHANGED <<call, sent>>
  BY TransportLeavesCallers, Zenon
<1>a. ASSUME NEW a, End(a) PROVE Order'
  <2>1. commands' = <<>> /\ events' = <<>>
    BY <1>a, Zenon DEF End
  <2>2. DOMAIN commands' = {} /\ DOMAIN events' = {} /\ Len(commands') <= Len(sent')
    BY SMTT(30), <1>0, <1>t, <2>1
  <2> QED
    BY <1>0, <2>2, Zenon DEF Order
<1>b. ASSUME NEW e \in Event, ~IsCommand(e), events' = Append(events, e), UNCHANGED commands PROVE Order'
  <2> HIDE DEF Event
  <2>1. Taken' = Taken
    BY <1>0, <1>b, Zenon DEF Taken
  <2>2. \A i \in DOMAIN events' : IsCommand(events'[i]) => i \in DOMAIN events /\ events'[i] = events[i]
    BY SMTT(30), <1>b, <1>t
  <2> QED
    BY SMTT(30), <1>0, <1>b, <2>1, <2>2 DEF Order
<1>c. ASSUME events # <<>>, events' = Tail(events), UNCHANGED commands PROVE Order'
  <2> HIDE DEF Event
  <2>1. Taken' = Taken
    BY <1>0, <1>c, Zenon DEF Taken
  <2>2. \A i \in DOMAIN events' : i + 1 \in DOMAIN events /\ events'[i] = events[i + 1] /\ i \in Nat
    BY <1>c, <1>t
  <2>3. \A i, j \in DOMAIN events' : i < j => i + 1 < j + 1
    BY <2>2
  <2> QED
    BY <1>0, <1>c, <2>1, <2>2, <2>3 DEF Order
<1>d. ASSUME UNCHANGED <<events, commands>> PROVE Order'
  <2>1. Taken' = Taken
    BY <1>0, <1>d, Zenon DEF Taken
  <2> QED
    BY <1>0, <1>d, <2>1 DEF Order
<1>1. CASE forward_commands
  <2> DEFINE c == Head(commands)
             e == [is |-> "command", of |-> c]
  <2>1. events' = Append(events, e) /\ commands' = Tail(commands) /\ commands # <<>>
    BY <1>1, Zenon DEF forward_commands
  <2>2. /\ c \in Callers /\ c = commands[1] /\ 1 \in DOMAIN commands /\ Len(commands') = Len(commands) - 1 /\ Len(commands) > 0
        /\ \A i \in DOMAIN commands' : i + 1 \in DOMAIN commands /\ commands'[i] = commands[i + 1] /\ i \in Nat
    BY <1>t, <2>1
  <2>3. e \in Event /\ IsCommand(e) /\ e.of = c
    BY <2>2, Zenon DEF Event, IsCommand
  <2> HIDE DEF Event, e, c
  <2>4. /\ DOMAIN events' = (DOMAIN events) \cup {Len(events) + 1} /\ events'[Len(events) + 1] = e /\ Len(events) \in Nat
        /\ \A i \in DOMAIN events : events'[i] = events[i] /\ i \in 1 .. Len(events)
    BY <1>t, <2>1, <2>3
  <2>5. Taken' = Taken + 1 /\ Taken \in Nat /\ Taken + 1 \in DOMAIN sent /\ sent[Taken + 1] = c
    <3>1. Len(commands) <= Len(sent) /\ commands[1] = sent[Taken + 1]
      BY <2>2, Zenon DEF Order
    <3> QED
      BY <1>0, <1>t, <2>2, <3>1 DEF Taken
  <2>6. Len(commands') <= Len(sent) /\ \A i \in DOMAIN commands' : commands'[i] = sent[Taken' + i]
    <3>1. Len(commands) <= Len(sent) /\ \A i \in DOMAIN commands : commands[i] = sent[Taken + i]
      BY Zenon DEF Order
    <3>2. \A i \in Nat : Taken + (i + 1) = Taken' + i
      BY <2>5
    <3>3. Len(commands') <= Len(sent)
      BY <1>t, <2>2, <3>1
    <3> QED
      BY <2>2, <3>1, <3>2, <3>3, Zenon
  <2>7. \A i \in DOMAIN events' : IsCommand(events'[i]) => \E n \in 1 .. Taken' : sent[n] = events'[i].of
    <3>1. \A i \in DOMAIN events : IsCommand(events[i]) => \E n \in 1 .. Taken : sent[n] = events[i].of
      BY Zenon DEF Order
    <3>2. Taken + 1 \in 1 .. Taken' /\ \A n \in 1 .. Taken : n \in 1 .. Taken'
      BY <2>5
    <3> QED
      BY <2>3, <2>4, <2>5, <3>1, <3>2, Zenon
  <2>8. \A i, j \in DOMAIN events' : i < j /\ IsCommand(events'[i]) /\ IsCommand(events'[j]) =>
          \A n, m \in DOMAIN sent : sent[n] = events'[i].of /\ sent[m] = events'[j].of => n < m
    <3> SUFFICES ASSUME NEW i \in DOMAIN events', NEW j \in DOMAIN events', i < j, IsCommand(events'[i]), IsCommand(events'[j]),
                        NEW n \in DOMAIN sent, NEW m \in DOMAIN sent, sent[n] = events'[i].of, sent[m] = events'[j].of
                 PROVE  n < m
      BY Zenon
    <3>1. i \in DOMAIN events /\ events'[i] = events[i]
      BY SMTT(30), <2>4
    <3>2. CASE j \in DOMAIN events
      BY <2>4, <3>1, <3>2 DEF Order
    <3>3. CASE j = Len(events) + 1
      <4>1. PICK k \in 1 .. Taken : sent[k] = events[i].of
        BY <3>1, Zenon DEF Order
      <4>2. k \in DOMAIN sent
        BY <1>t, <2>5
      <4>3. \A x, y \in DOMAIN sent : sent[x] = sent[y] => x = y
        BY Zenon DEF Order
      <4>4. k = n
        BY <3>1, <4>1, <4>2, <4>3, Zenon
      <4>5. m = Taken + 1
        BY <2>3, <2>4, <2>5, <3>3, <4>3, Zenon
      <4> QED
        BY <2>5, <4>4, <4>5
    <3> QED
      BY <2>4, <3>2, <3>3, Zenon
  <2> QED
    BY <1>0, <2>6, <2>7, <2>8 DEF Order
<1>2. CASE ForwardClosed
  <2>1. events' = Append(events, [is |-> "closed", of |-> None]) /\ commands' = commands
    BY <1>2, Zenon DEF ForwardClosed
  <2>2. [is |-> "closed", of |-> None] \in Event /\ ~IsCommand([is |-> "closed", of |-> None])
    BY Zenon DEF Event, IsCommand
  <2> QED
    BY <1>b, <2>1, <2>2, Zenon
<1>3. CASE forward_responses
  <2>1. /\ commands' = commands
        /\ \/ to_client # <<>> /\ events' = Append(events, Head(to_client))
           \/ events' = Append(events, [is |-> "eof", of |-> None])
    BY <1>3, Zenon DEF forward_responses
  <2>2. [is |-> "eof", of |-> None] \in Event /\ ~IsCommand([is |-> "eof", of |-> None])
    BY Zenon DEF Event, IsCommand
  <2>3. to_client # <<>> => Head(to_client) \in Event /\ ~IsCommand(Head(to_client))
    <3>1. to_client # <<>> => Head(to_client) \in Answer
      BY <1>t, Tails, Zenon
    <3> QED
      BY <3>1, Zenon DEF Event, IsCommand, Answer
  <2> QED
    BY <1>b, <2>1, <2>2, <2>3
<1>4. CASE HandleCommand
  BY <1>a, <1>c, <1>4, CommandCases, Zenon DEF Fails, Refuse, Request, Shut, Command, others, Take
<1>5. CASE HandleResponse
  BY <1>a, <1>c, <1>5, ResponseCases, Zenon DEF Misfit, AckTaken, AnswerTaken, LastAnswer, Response, others, Take
<1>6. CASE Written
  BY <1>d, <1>6, Zenon DEF Written, others
<1>7. CASE write_frame \/ HandleEof \/ HandleClosed \/ AbortActor
  BY <1>a, <1>c, <1>6, <1>7, OtherCases, Zenon DEF Fails, ShutDone, Noted, others, Take
<1> QED
  BY <1>1, <1>2, <1>3, <1>4, <1>5, <1>7, Zenon DEF TransportStep, ForwarderStep, ActorStep

LEMMA OrderStep == ASSUME Types, Channels, Order, Next PROVE Order'
BY CallerOrder, DaemonOrder, TransportOrder, Zenon DEF Next, CallerStep, DaemonStep, TransportStep


LEMMA ActorCases ==
    ASSUME ActorStep
    PROVE  \/ Fails \/ ShutDone \/ Noted \/ Written
           \/ \E c : Refuse(c) \/ Request(c) \/ Shut(c)
           \/ \E r, p : Misfit(r) \/ AckTaken(r, p) \/ AnswerTaken(r, p) \/ LastAnswer(r, p)
BY CommandCases, ResponseCases, OtherCases, Zenon DEF ActorStep

(* The call whose command is handled is not fresh any more.                *)
LEMMA Handled ==
    ASSUME Types, Order, NEW c, Command(c), TransportStep
    PROVE  /\ c \in Callers /\ c \in Calls /\ Queued(c) /\ Fresh(c) /\ ~Fresh(c)' /\ ~Queued(c)'
           /\ Taken' = Taken /\ \E n \in 1 .. Taken : n \in DOMAIN sent /\ sent[n] = c
<1>t. /\ commands \in Seq(Callers) /\ sent \in Seq(Callers) /\ Len(commands) \in Nat /\ Len(sent) \in Nat
      /\ events \in Seq(Event) /\ Callers \subseteq Calls
  BY StreamTypes, CallersAreCalls DEF Types, CallTypes
<1>0. UNCHANGED <<call, sent, commands>>
  BY TransportLeavesCallers, Zenon DEF Command, others
<1>1. events # <<>> /\ Head(events).is = "command" /\ c = Head(events).of /\ events' = Tail(events)
  BY Zenon DEF Command, Take
<1>2. Head(events) \in Event /\ Head(events) = events[1] /\ 1 \in DOMAIN events
  BY <1>1, <1>t, Tails, Zenon
<1>3. c \in Callers
  BY <1>1, <1>2, Zenon DEF Event, Answer
<1>4. Queued(c) /\ Fresh(c)
  BY <1>1, <1>2, Zenon DEF Queued, Fresh, IsCommand
<1>5. Taken' = Taken
  BY <1>0, Zenon DEF Taken
<1>6. PICK n \in 1 .. Taken : sent[n] = c
  <2>1. \A i \in DOMAIN events : IsCommand(events[i]) => \E k \in 1 .. Taken : sent[k] = events[i].of
    BY Zenon DEF Order
  <2>2. IsCommand(events[1]) /\ events[1].of = c
    BY <1>1, <1>2, Zenon DEF IsCommand
  <2> QED
    BY <1>2, <2>1, <2>2, Zenon
<1>7. n \in DOMAIN sent
  BY <1>t, <1>6 DEF Taken
<1>o. /\ \A x, y \in DOMAIN sent : sent[x] = sent[y] => x = y
      /\ \A d \in Calls : call[d].pc \in {"idle", "sending"} => \A k \in DOMAIN sent : sent[k] # d
      /\ Len(commands) <= Len(sent) /\ \A i \in DOMAIN commands : commands[i] = sent[Taken + i]
  BY Zenon DEF Order
<1>8. call'[c].pc \notin {"idle", "sending"}
  BY <1>0, <1>3, <1>6, <1>7, <1>o, <1>t
<1>9. \A i \in DOMAIN commands : commands[i] # c
  <2> SUFFICES ASSUME NEW i \in DOMAIN commands, commands[i] = c PROVE FALSE
    BY Zenon
  <2>1. Taken + i \in DOMAIN sent /\ Taken + i # n
    BY SMTT(30), <1>t, <1>o, <1>6 DEF Taken
  <2> QED
    BY <1>o, <1>6, <1>7, <2>1, Zenon
<1>10. ~Queued(c)'
  <2> SUFFICES ASSUME NEW i \in DOMAIN events', IsCommand(events'[i]), events'[i].of = c PROVE FALSE
    BY Zenon DEF Queued, IsCommand
  <2>1. i + 1 \in DOMAIN events /\ events'[i] = events[i + 1] /\ 1 < i + 1
    <3> HIDE DEF Event
    <3> QED
      BY <1>1, <1>t
  <2>2. IsCommand(events[1])
    BY <1>1, <1>2, Zenon DEF IsCommand
  <2>3. n < n
    <3>1. \A i0, j \in DOMAIN events : i0 < j /\ IsCommand(events[i0]) /\ IsCommand(events[j]) =>
            \A x, m \in DOMAIN sent : sent[x] = events[i0].of /\ sent[m] = events[j].of => x < m
      BY Zenon DEF Order
    <3>2. events[1].of = c /\ IsCommand(events[i + 1]) /\ events[i + 1].of = c
      BY <1>1, <1>2, <2>1, Zenon
    <3> QED
      BY <1>2, <1>6, <1>7, <2>1, <2>2, <3>1, <3>2, Zenon
  <2> QED
    BY <1>6, <2>3
<1> QED
  BY <1>0, <1>3, <1>4, <1>5, <1>6, <1>7, <1>8, <1>9, <1>10, <1>t, Zenon DEF Fresh

(* A call is never fresh again.                                            *)
LEMMA FreshFalls == ASSUME Types, Channels, Next PROVE \A c \in Calls : Fresh(c)' => Fresh(c)
<1>t. /\ commands \in Seq(Callers) /\ Len(commands) \in Nat /\ events \in Seq(Event)
      /\ events \in Seq(Event) /\ to_client \in Seq(Event) /\ to_client \in Seq(Answer)
  BY StreamTypes DEF Types, CallTypes, WireTypes
<1>0. ASSUME UNCHANGED <<events, commands, call>> PROVE \A c \in Calls : Fresh(c)' => Fresh(c)
  BY <1>0, Zenon DEF Fresh, Queued
<1>1. CASE (\E c \in Calls : CallerStep(c)) \/ Abort \/ DropHandle
  <2>0. events' = events
    BY <1>1, CallerLeavesWire, Zenon DEF wireVars
  <2>1. CASE Abort \/ DropHandle
    <3>1. UNCHANGED <<call, commands>>
      BY <2>1, Zenon DEF Abort, DropHandle, queues
    <3> QED
      BY <1>0, <2>0, <3>1, Zenon
  <2>2. ASSUME NEW c \in Calls, CallerStep(c) PROVE \A d \in Calls : Fresh(d)' => Fresh(d)
    <3>1. /\ \A d \in Calls : d # c => call'[d] = call[d]
          /\ c \in Callers /\ call'[c].pc # "idle" /\ (call'[c].pc = "sending" => call[c].pc = "idle")
          /\ \/ UNCHANGED <<commands, sent>>
             \/ call[c].pc = "sending" /\ commands' = Append(commands, c)
      BY <2>2, CallerMove, Zenon
    <3>2. \A d \in Calls : call'[d].pc \in {"idle", "sending"} => call[d].pc \in {"idle", "sending"}
      BY <3>1, Zenon
    <3>3. CASE UNCHANGED commands
      BY <2>0, <3>2, <3>3, Zenon DEF Fresh, Queued
    <3>4. CASE call[c].pc = "sending" /\ commands' = Append(commands, c)
      <4>1. \A i \in DOMAIN commands' : commands'[i] = c \/ (i \in DOMAIN commands /\ commands'[i] = commands[i])
        BY <1>t, <3>1, <3>4
      <4>2. Fresh(c)
        BY <3>4, Zenon DEF Fresh
      <4> QED
        BY <2>0, <3>2, <4>1, <4>2, Zenon DEF Fresh, Queued
    <3> QED
      BY <3>1, <3>3, <3>4, Zenon
  <2> QED
    BY <1>1, <2>1, <2>2, Zenon
<1>2. CASE DaemonStep
  <2>1. UNCHANGED <<events, commands, call>>
    BY <1>2, DaemonLeavesCallers, Zenon DEF daemonVars, queues
  <2> QED
    BY <1>0, <2>1, Zenon
<1>3. CASE TransportStep
  <2>0. call' = call
    BY <1>3, TransportLeavesCallers, Zenon
  <2>a. ASSUME NEW a, End(a) PROVE \A c \in Calls : Fresh(c)' => Fresh(c)
    <3>1. DOMAIN commands' = {} /\ DOMAIN events' = {}
      BY <2>a DEF End
    <3> QED
      BY <2>0, <3>1, Zenon DEF Fresh, Queued
  <2>b. ASSUME NEW e \in Event, ~IsCommand(e), events' = Append(events, e), UNCHANGED commands PROVE \A c \in Calls : Fresh(c)' => Fresh(c)
    <3> HIDE DEF Event
    <3>1. \A i \in DOMAIN events' : IsCommand(events'[i]) => i \in DOMAIN events /\ events'[i] = events[i]
      BY <2>b, <1>t
    <3> QED
      BY <2>0, <2>b, <3>1, Zenon DEF Fresh, Queued
  <2>c. ASSUME events # <<>>, events' = Tail(events), UNCHANGED commands PROVE \A c \in Calls : Fresh(c)' => Fresh(c)
    <3> HIDE DEF Event
    <3>1. \A i \in DOMAIN events' : i + 1 \in DOMAIN events /\ events'[i] = events[i + 1]
      BY <2>c, <1>t
    <3> QED
      BY <2>0, <2>c, <3>1, Zenon DEF Fresh, Queued
  <2>1. CASE forward_commands
    <3> DEFINE h == Head(commands)
               e == [is |-> "command", of |-> h]
    <3>1. events' = Append(events, e) /\ commands' = Tail(commands) /\ commands # <<>>
      BY <2>1, Zenon DEF forward_commands
    <3>2. /\ h \in Callers /\ h = commands[1] /\ 1 \in DOMAIN commands
          /\ \A i \in DOMAIN commands' : i + 1 \in DOMAIN commands /\ commands'[i] = commands[i + 1]
      BY <1>t, <3>1
    <3>3. e \in Event /\ e.of = h
      BY <3>2, Zenon DEF Event
    <3> HIDE DEF Event, e, h
    <3>4. \A i \in DOMAIN events' : events'[i] = e \/ (i \in DOMAIN events /\ events'[i] = events[i])
      BY <1>t, <3>1, <3>3
    <3>5. Fresh(h)
      BY <3>2, Zenon DEF Fresh
    <3>6. \A c : Queued(c)' => Queued(c) \/ c = h
      BY <3>3, <3>4, Zenon DEF Queued
    <3>7. \A c : (\E i \in DOMAIN commands' : commands'[i] = c) => \E i \in DOMAIN commands : commands[i] = c
      BY <3>2, Zenon
    <3> QED
      BY <2>0, <3>5, <3>6, <3>7, Zenon DEF Fresh
  <2>2. CASE ForwardClosed
    <3>1. events' = Append(events, [is |-> "closed", of |-> None]) /\ commands' = commands
      BY <2>2, Zenon DEF ForwardClosed
    <3>2. [is |-> "closed", of |-> None] \in Event /\ ~IsCommand([is |-> "closed", of |-> None])
      BY Zenon DEF Event, IsCommand
    <3> QED
      BY <2>b, <3>1, <3>2
  <2>3. CASE forward_responses
    <3>1. /\ commands' = commands
          /\ \/ to_client # <<>> /\ events' = Append(events, Head(to_client))
             \/ events' = Append(events, [is |-> "eof", of |-> None])
      BY <2>3, Zenon DEF forward_responses
    <3>2. [is |-> "eof", of |-> None] \in Event /\ ~IsCommand([is |-> "eof", of |-> None])
      BY Zenon DEF Event, IsCommand
    <3>3. to_client # <<>> => Head(to_client) \in Event /\ ~IsCommand(Head(to_client))
      <4>1. to_client # <<>> => Head(to_client) \in Answer
        BY <1>t, Tails, Zenon
      <4> QED
        BY <4>1, Zenon DEF Event, IsCommand, Answer
    <3> QED
      BY <2>b, <3>1, <3>2, <3>3
  <2>4. CASE Written
    BY <1>0, <2>0, <2>4, Zenon DEF Written, others
  <2>5. CASE ActorStep
    BY <2>a, <2>c, <2>4, <2>5, ActorCases, Zenon DEF Fails, ShutDone, Noted, Refuse, Request, Shut, Command, Misfit, AckTaken, AnswerTaken, LastAnswer, Response, others, Take
  <2> QED
    BY <1>3, <2>1, <2>2, <2>3, <2>5, Zenon DEF TransportStep, ForwarderStep
<1> QED
  BY <1>1, <1>2, <1>3, Zenon DEF Next, CallerStep, DaemonStep, TransportStep

LEMMA EndIsGone == ASSUME NEW a, End(a) PROVE ~Running'
BY Zenon DEF End, Running

LEMMA UntouchedStep == ASSUME Types, Alignment, Channels, Order, Untouched, Next PROVE Untouched'
<1> SUFFICES ASSUME Running', NEW c \in Calls, Fresh(c)'
             PROVE  armed'[c] = "open" /\ \A k \in DOMAIN pending' : pending'[k].of # c
  BY Zenon DEF Untouched
<1>t. armed \in [Calls -> {"open", "ok", "failed"}] /\ pending \in Seq(Entry)
  BY Zenon DEF Types, CallTypes, WireTypes
<1>r. Running
  <2>1. CASE (\E d \in Calls : CallerStep(d)) \/ Abort \/ DropHandle
    BY <2>1, CallerLeavesWire, Zenon DEF wireVars, Running
  <2>2. CASE DaemonStep
    BY <2>2, DaemonLeavesCallers, Zenon DEF daemonVars, actorVars, Running
  <2>3. CASE ForwarderStep \/ forward_responses
    BY <2>3, Zenon DEF ForwarderStep, forward_commands, ForwardClosed, forward_responses
  <2>4. CASE ActorStep
    BY <2>4, ActorCases, Zenon DEF Fails, ShutDone, Noted, Written, Refuse, Request, Shut, Command, Misfit, AckTaken, AnswerTaken, LastAnswer, Response, Take
  <2> QED
    BY <2>1, <2>2, <2>3, <2>4, Zenon DEF Next, CallerStep, DaemonStep
<1>f. Fresh(c) /\ armed[c] = "open" /\ \A k \in DOMAIN pending : pending[k].of # c
  BY <1>r, FreshFalls, Zenon DEF Untouched
<1>0. ASSUME UNCHANGED <<armed, pending>> PROVE armed'[c] = "open" /\ \A k \in DOMAIN pending' : pending'[k].of # c
  BY <1>0, <1>f, Zenon
<1>1. CASE (\E d \in Calls : CallerStep(d)) \/ Abort \/ DropHandle
  BY <1>0, <1>1, CallerLeavesWire, Zenon DEF wireVars, channels
<1>2. CASE DaemonStep
  BY <1>0, <1>2, DaemonLeavesCallers, Zenon DEF daemonVars, channels, actorVars
<1>3. CASE ForwarderStep \/ forward_responses
  BY <1>0, <1>3, Zenon DEF ForwarderStep, forward_commands, ForwardClosed, forward_responses, channels, actorVars
<1>4. CASE ActorStep
  <2>0. TransportStep
    BY <1>4, Zenon DEF TransportStep
  <2>1. CASE Fails \/ ShutDone \/ (\E r : Misfit(r)) \/ (\E r, p : LastAnswer(r, p))
    BY <2>1, EndIsGone, Zenon DEF Fails, ShutDone, Misfit, LastAnswer
  <2>2. CASE Noted \/ Written \/ \E d : Shut(d)
    BY <1>0, <2>2, Zenon DEF Noted, Written, Shut, channels
  <2>3. ASSUME NEW d, Refuse(d) PROVE armed'[c] = "open" /\ \A k \in DOMAIN pending' : pending'[k].of # c
    <3>1. d # c
      BY <2>0, <2>3, Handled, Zenon DEF Refuse
    <3>2. pending' = pending /\ armed' = [armed EXCEPT ![d] = "failed"]
      BY <2>3, Zenon DEF Refuse
    <3>3. armed'[c] = armed[c]
      BY <1>t, <3>1, <3>2
    <3> QED
      BY <1>f, <3>2, <3>3
  <2>4. ASSUME NEW d, Request(d) PROVE armed'[c] = "open" /\ \A k \in DOMAIN pending' : pending'[k].of # c
    <3>1. d # c /\ d \in Calls /\ d \in Callers
      BY <2>0, <2>4, Handled, Zenon DEF Request
    <3>2. armed' = armed /\ pending' = Append(pending, PendingCall(d)) /\ PendingCall(d).of = d
      BY <2>4, Zenon DEF Request, channels, PendingCall
    <3>3. PendingCall(d) \in Entry
      BY <3>1, CallersAreCalls, Zenon DEF PendingCall, Entry, Types, Names
    <3>4. \A k \in DOMAIN pending' : pending'[k] = PendingCall(d) \/ (k \in DOMAIN pending /\ pending'[k] = pending[k])
      <4> HIDE DEF Entry
      <4> QED
        BY <1>t, <3>2, <3>3
    <3> QED
      BY <1>f, <3>1, <3>2, <3>4
  <2>5. ASSUME NEW r, NEW p, Response(r, p) PROVE p = pending[1] /\ p \in Entry /\ pending # <<>> /\ 1 \in DOMAIN pending /\ p.of # c
    <3>1. pending # <<>> /\ p = Head(pending)
      BY <2>5, Zenon DEF Response
    <3>2. p = pending[1] /\ p \in Entry /\ 1 \in DOMAIN pending
      BY <1>t, <3>1, Tails, Zenon
    <3> QED
      BY <1>f, <3>1, <3>2, Zenon
  <2>6. ASSUME NEW r, NEW p, AckTaken(r, p) PROVE armed'[c] = "open" /\ \A k \in DOMAIN pending' : pending'[k].of # c
    <3>1. pending' = KeepPending(p) /\ armed' = [armed EXCEPT ![p.of] = "ok"] /\ Response(r, p)
      BY <2>6, Zenon DEF AckTaken
    <3>2. p = pending[1] /\ p \in Entry /\ pending # <<>> /\ 1 \in DOMAIN pending /\ p.of # c
      BY <2>5, <3>1, Zenon
    <3>3. [p EXCEPT !.armed = FALSE] \in Entry /\ [p EXCEPT !.armed = FALSE].of = p.of
      BY <3>2, Zenon DEF Entry
    <3>4. \A k \in DOMAIN pending' : pending'[k] = [p EXCEPT !.armed = FALSE] \/ (k \in DOMAIN pending /\ pending'[k] = pending[k])
      <4> DEFINE q == [p EXCEPT !.armed = FALSE]
                 t == <<q>> \o Tail(pending)
      <4>1. pending' = t
        BY <3>1, Zenon DEF KeepPending
      <4>2. q \in Entry
        BY <3>3, Zenon
      <4> HIDE DEF q, Entry
      <4>3. DOMAIN t = DOMAIN pending /\ \A k \in DOMAIN pending : t[k] = IF k = 1 THEN q ELSE pending[k]
        BY <1>t, <3>2, <4>2, Replaces
      <4> HIDE DEF t
      <4>4. \A k \in DOMAIN pending' : pending'[k] = q \/ (k \in DOMAIN pending /\ pending'[k] = pending[k])
        BY <4>1, <4>3, Zenon
      <4> QED
        BY <4>4, Zenon DEF q
    <3>5. armed'[c] = armed[c]
      BY <1>t, <3>1, <3>2
    <3> QED
      BY <1>f, <3>2, <3>3, <3>4, <3>5, Zenon
  <2>7. ASSUME NEW r, NEW p, AnswerTaken(r, p) PROVE armed'[c] = "open" /\ \A k \in DOMAIN pending' : pending'[k].of # c
    <3>1. /\ Response(r, p) /\ armed' = IF p.armed THEN [armed EXCEPT ![p.of] = "ok"] ELSE armed
          /\ pending' = Append(Tail(pending), discard(p.of)) \/ pending' = Tail(pending)
      BY <2>7, Zenon DEF AnswerTaken
    <3>2. p = pending[1] /\ p \in Entry /\ pending # <<>> /\ 1 \in DOMAIN pending /\ p.of # c
      BY <2>5, <3>1, Zenon
    <3>3. discard(p.of) \in Entry /\ discard(p.of).of = p.of
      BY <3>2, Zenon DEF Entry, discard, Names
    <3>4. Tail(pending) \in Seq(Entry) /\ \A k \in DOMAIN Tail(pending) : k + 1 \in DOMAIN pending /\ Tail(pending)[k] = pending[k + 1]
      BY <1>t, <3>2, Tails, Zenon
    <3>5. \A k \in DOMAIN pending' : pending'[k] = discard(p.of) \/ (k \in DOMAIN Tail(pending) /\ pending'[k] = Tail(pending)[k])
      <4>1. CASE pending' = Tail(pending)
        BY <4>1, Zenon
      <4>2. CASE pending' = Append(Tail(pending), discard(p.of))
        <5>1. /\ \A i \in DOMAIN Tail(pending) : pending'[i] = Tail(pending)[i]
              /\ pending'[Len(Tail(pending)) + 1] = discard(p.of) /\ DOMAIN pending' = (DOMAIN Tail(pending)) \cup {Len(Tail(pending)) + 1}
          <6> HIDE DEF Entry
          <6> QED
            BY <3>3, <3>4, <4>2, Appends
        <5> QED
          BY <5>1, Zenon
      <4> QED
        BY <3>1, <4>1, <4>2
    <3>6. armed'[c] = armed[c]
      BY <1>t, <3>1, <3>2, Zenon
    <3> QED
      BY <1>f, <3>2, <3>3, <3>4, <3>5, <3>6
  <2> QED
    BY <1>4, <2>1, <2>2, <2>3, <2>4, <2>6, <2>7, ActorCases, Zenon
<1> QED
  BY <1>1, <1>2, <1>3, <1>4, Zenon DEF Next, CallerStep, DaemonStep


(***************************************************************************)
(* The oneshot channels.                                                   *)
(***************************************************************************)

Labelled(x, c) == x.of = IF x.is \in {"open", "closed"} THEN None ELSE c

LEMMA ChannelMoves ==
    ASSUME Types, Alignment, Channels, Order, Untouched, TransportStep, NEW c \in Calls
    PROVE  /\ armed'[c] = "ok" => armed[c] = "ok" \/ c \in server.began
           /\ armed[c] = "ok" => armed'[c] = "ok"
           /\ Labelled(reply'[c], c)
<1>t. armed \in [Calls -> {"open", "ok", "failed"}] /\ reply \in [Calls -> ReplyRecord] /\ pending \in Seq(Entry)
  BY Zenon DEF Types, CallTypes, WireTypes
<1>l. \A d \in Calls : Labelled(reply[d], d)
  BY Zenon DEF Channels, Labelled
<1>0. ASSUME UNCHANGED channels PROVE armed'[c] = armed[c] /\ Labelled(reply'[c], c)
  <2>1. armed' = armed /\ reply' = reply
    BY <1>0, Zenon DEF channels
  <2> QED
    BY <1>l, <2>1, Zenon
<1>e. ASSUME NEW a, End(a), \A d \in Calls : Labelled(a[d], d)
      PROVE  (armed'[c] = "ok" <=> armed[c] = "ok") /\ Labelled(reply'[c], c)
  <2>1. /\ reply' = [d \in Calls |-> IF a[d] = Open THEN Closed ELSE a[d]]
        /\ armed' = [d \in Calls |-> IF armed[d] = "open" THEN "failed" ELSE armed[d]]
    BY <1>e, Zenon DEF End
  <2>2. Labelled(Closed, c)
    BY Zenon DEF Labelled, Closed
  <2>3. reply'[c] = Closed \/ reply'[c] = a[c]
    BY <2>1, Zenon
  <2>4. armed'[c] = "ok" <=> armed[c] = "ok"
    BY <2>1, Zenon
  <2> QED
    BY <1>e, <2>2, <2>3, <2>4, Zenon
<1>a. ASSUME NEW r, NEW p, Response(r, p), ~AcceptArmed(p, r), validate_response(p, r)
      PROVE  (\A d \in Calls : Labelled(Answered(p, r)[d], d)) /\ p.of \in server.began /\ p.of \in Calls
  <2>1. Completes(r) /\ r.of = p.of /\ r.of \in Calls /\ r \in Answer /\ p \in Entry
    BY <1>a, AnsweredTypes, Zenon
  <2>2. Take("response") /\ r = Head(events)
    BY <1>a, Zenon DEF Response
  <2>3. r = Stream[1] /\ 1 \in DOMAIN Stream
    BY <2>2, HeadFits, Zenon
  <2>4. p.of \in server.began
    BY <2>1, <2>3, Zenon DEF Channels, Completes
  <2>5. r.name \notin {"open", "closed"}
    BY <2>1, Zenon DEF Answer, Names, Kinds
  <2>6. p.reply => \A d \in Calls : Answered(p, r)[d] = IF d = p.of THEN [is |-> r.name, of |-> r.of] ELSE reply[d]
    BY <1>t, <2>1, Zenon DEF Answered
  <2>7. ~p.reply => Answered(p, r) = reply
    BY Zenon DEF Answered
  <2>8. Labelled([is |-> r.name, of |-> r.of], p.of)
    BY <2>1, <2>5, Zenon DEF Labelled
  <2> QED
    BY <1>l, <2>1, <2>4, <2>6, <2>7, <2>8
<1>1. CASE ForwarderStep \/ forward_responses
  BY <1>0, <1>1, Zenon DEF ForwarderStep, forward_commands, ForwardClosed, forward_responses
<1>2. CASE Fails \/ \E r : Misfit(r)
  BY <1>e, <1>l, <1>2, Zenon DEF Fails, Misfit
<1>3. CASE ShutDone
  <2> DEFINE s == shutdown_reply
             a == [reply EXCEPT ![s] = [is |-> "shutdown", of |-> s]]
  <2>1. End(a) /\ s # None
    BY <1>3, Zenon DEF ShutDone, ShutdownIsComplete
  <2>2. s \in Calls
    BY <2>1, CallersAreCalls, Zenon DEF Types, WireTypes
  <2>3. \A d \in Calls : a[d] = IF d = s THEN [is |-> "shutdown", of |-> s] ELSE reply[d]
    BY <1>t, <2>2, Zenon
  <2>4. Labelled([is |-> "shutdown", of |-> s], s)
    BY Zenon DEF Labelled
  <2> HIDE DEF a, s
  <2>5. \A d \in Calls : Labelled(a[d], d)
    BY <1>l, <2>3, <2>4, Zenon
  <2> QED
    BY <1>e, <2>1, <2>5, Zenon
<1>4. CASE Noted \/ Written \/ \E d : Shut(d) \/ Request(d)
  BY <1>0, <1>4, Zenon DEF Noted, Written, Shut, Request
<1>5. ASSUME NEW d, Refuse(d)
      PROVE  /\ armed'[c] = "ok" => armed[c] = "ok"
             /\ armed[c] = "ok" => armed'[c] = "ok"
             /\ Labelled(reply'[c], c)
  <2>1. Running /\ armed' = [armed EXCEPT ![d] = "failed"] /\ reply' = [reply EXCEPT ![d] = [is |-> "failed", of |-> d]]
    BY <1>5, Zenon DEF Refuse, Command, Take
  <2>2. d \in Calls /\ Fresh(d)
    BY <1>5, Handled, Zenon DEF Refuse
  <2>3. armed[d] = "open"
    BY <2>1, <2>2, Zenon DEF Untouched
  <2>4. Labelled([is |-> "failed", of |-> d], d)
    BY Zenon DEF Labelled
  <2>5. /\ armed'[c] = IF c = d THEN "failed" ELSE armed[c]
        /\ reply'[c] = IF c = d THEN [is |-> "failed", of |-> d] ELSE reply[c]
    BY <1>t, <2>1, Zenon
  <2> QED
    BY <1>l, <2>3, <2>4, <2>5
<1>6. ASSUME NEW r, NEW p, AckTaken(r, p)
      PROVE  /\ armed'[c] = "ok" => armed[c] = "ok" \/ c \in server.began
             /\ armed[c] = "ok" => armed'[c] = "ok"
             /\ Labelled(reply'[c], c)
  <2>1. /\ armed' = [armed EXCEPT ![p.of] = "ok"] /\ reply' = reply /\ Take("response") /\ r = Head(events)
        /\ r.of = p.of /\ r.name = "ack"
    BY <1>6, Zenon DEF AckTaken, Response, AcceptArmed
  <2>2. r = Stream[1] /\ 1 \in DOMAIN Stream /\ r.is = "response"
    BY <2>1, HeadFits, Zenon
  <2>3. IsAnswer(r)
    BY <2>1, <2>2, Zenon DEF IsAnswer
  <2>4. p.of \in server.began
    <3>1. \A i \in DOMAIN Stream : IsAnswer(Stream[i]) => Stream[i].of \in server.began
      BY Zenon DEF Channels
    <3> QED
      BY <2>1, <2>2, <2>3, <3>1, Zenon
  <2>5. armed'[c] = IF c = p.of THEN "ok" ELSE armed[c]
    BY <1>t, <2>1, Zenon
  <2> QED
    BY <1>l, <2>1, <2>4, <2>5
<1>7. ASSUME NEW r, NEW p, AnswerTaken(r, p)
      PROVE  /\ armed'[c] = "ok" => armed[c] = "ok" \/ c \in server.began
             /\ armed[c] = "ok" => armed'[c] = "ok"
             /\ Labelled(reply'[c], c)
  <2>1. /\ Response(r, p) /\ ~AcceptArmed(p, r) /\ validate_response(p, r)
        /\ reply' = Answered(p, r) /\ armed' = IF p.armed THEN [armed EXCEPT ![p.of] = "ok"] ELSE armed
    BY <1>7, Zenon DEF AnswerTaken
  <2>2. (\A d \in Calls : Labelled(Answered(p, r)[d], d)) /\ p.of \in server.began
    BY <1>a, <2>1, Zenon
  <2>3. armed'[c] = IF p.armed /\ c = p.of THEN "ok" ELSE armed[c]
    BY <1>t, <2>1, Zenon
  <2> QED
    BY <2>1, <2>2, <2>3
<1>8. ASSUME NEW r, NEW p, LastAnswer(r, p) PROVE (armed'[c] = "ok" <=> armed[c] = "ok") /\ Labelled(reply'[c], c)
  <2>1. /\ Response(r, p) /\ ~AcceptArmed(p, r) /\ validate_response(p, r) /\ End(Answered(p, r))
    BY <1>8, Zenon DEF LastAnswer
  <2> QED
    BY <1>a, <1>e, <2>1, Zenon
<1>9. CASE ActorStep
  BY <1>2, <1>3, <1>4, <1>5, <1>6, <1>7, <1>8, <1>9, ActorCases, Zenon
<1> QED
  BY <1>1, <1>9, Zenon DEF TransportStep

LEMMA ChannelsStep == ASSUME Types, Alignment, Channels, Order, Untouched, Next PROVE Channels'
<1>1. (\A i \in DOMAIN Stream' : IsAnswer(Stream'[i]) => Stream'[i].of \in server'.began) /\ (server'.wait # None => server'.wait \in server'.began)
  <2>1. /\ \A i \in DOMAIN Stream' : Known(Stream'[i])
        /\ server.began \subseteq server'.began /\ (server'.wait # None => server'.wait \in server'.began)
    BY StreamItems, Zenon
  <2>2. \A i \in DOMAIN Stream : IsAnswer(Stream[i]) => Stream[i].of \in server.began
    BY Zenon DEF Channels
  <2>3. ASSUME NEW e, Known(e), IsAnswer(e) PROVE e.of \in server'.began
    BY <2>1, <2>2, <2>3, Zenon DEF Known, IsAnswer
  <2> QED
    BY <2>1, <2>3, Zenon
<1>b. server.began \subseteq server'.began
  BY StreamItems, Zenon
<1>k. Callers' = Callers /\ \A c : Kind(c)' = Kind(c)
  BY ScenarioIsFixed, Zenon DEF Kind
<1>2. ASSUME NEW c \in Calls
      PROVE  /\ armed'[c] = "ok" => c \in server'.began
             /\ call'[c].pc = "holding" => armed'[c] = "ok"
             /\ Labelled(reply'[c], c)
             /\ call'[c].told \in {"ok", "refused"} /\ c \in Callers /\ Kind(c) \notin {"guard", "shutdown"} => call'[c].of = c
  <2>0. /\ armed[c] = "ok" => c \in server.began
        /\ call[c].pc = "holding" => armed[c] = "ok"
        /\ Labelled(reply[c], c)
        /\ call[c].told \in {"ok", "refused"} /\ c \in Callers /\ Kind(c) \notin {"guard", "shutdown"} => call[c].of = c
    BY Zenon DEF Channels, Labelled
  <2>1. CASE (\E d \in Calls : CallerStep(d)) \/ Abort \/ DropHandle
    <3>1. armed' = armed /\ reply' = reply
      BY <2>1, CallerLeavesWire, Zenon DEF wireVars, channels
    <3>2. CASE call'[c] = call[c]
      BY SMTT(30), <1>b, <2>0, <3>1, <3>2
    <3>3. CASE CallerStep(c)
      <4>1. /\ call'[c].pc = "holding" => armed[c] = "ok"
            /\ call'[c].told \in {"ok", "refused"} =>
                \/ call'[c].told = "ok" /\ call[c].pc = "idle" /\ Kind(c) = "shutdown"
                \/ Kind(c) = "guard"
                \/ Final(reply[c]) /\ call'[c].of = reply[c].of
        BY <3>3, CallerMove, Zenon
      <4>2. Final(reply[c]) => reply[c].of = c
        BY <2>0, Zenon DEF Final, Labelled
      <4> QED
        BY <1>b, <2>0, <3>1, <4>1, <4>2
    <3>4. CASE Abort \/ DropHandle
      <4>1. call' = call
        BY <3>4, Zenon DEF Abort, DropHandle
      <4> QED
        BY <3>2, <4>1, Zenon
    <3>5. ASSUME NEW d \in Calls, CallerStep(d), d # c PROVE call'[c] = call[c]
      BY <3>5, CallerMove, Zenon
    <3> QED
      BY <2>1, <3>2, <3>3, <3>4, <3>5
  <2>2. CASE DaemonStep
    <3>1. UNCHANGED <<call, armed, reply>>
      BY <2>2, DaemonLeavesCallers, Zenon DEF daemonVars, channels
    <3> QED
      BY <1>b, <2>0, <3>1
  <2>3. CASE TransportStep
    <3>1. call' = call
      BY <2>3, TransportLeavesCallers, Zenon
    <3>2. /\ armed'[c] = "ok" => armed[c] = "ok" \/ c \in server.began
          /\ armed[c] = "ok" => armed'[c] = "ok"
          /\ Labelled(reply'[c], c)
      BY <2>3, ChannelMoves, Zenon
    <3> QED
      BY <1>b, <2>0, <3>1, <3>2
  <2> QED
    BY <2>1, <2>2, <2>3, Zenon DEF Next, CallerStep, DaemonStep, TransportStep
<1> QED
  BY <1>1, <1>2, <1>k, Zenon DEF Channels, Labelled


(***************************************************************************)
(* What a shutdown has waited for.                                         *)
(***************************************************************************)

LEMMA TransportRuns == ASSUME TransportStep PROVE Running
<1>1. CASE ForwarderStep \/ forward_responses
  BY <1>1, Zenon DEF ForwarderStep, forward_commands, ForwardClosed, forward_responses
<1>2. CASE ActorStep
  BY <1>2, ActorCases, Zenon DEF Fails, ShutDone, Noted, Written, Refuse, Request, Shut, Command, Misfit, AckTaken, AnswerTaken, LastAnswer, Response, Take
<1> QED
  BY <1>1, <1>2, Zenon DEF TransportStep

(* A call that is settled stays settled while the actor runs.              *)
LEMMA SettledStays ==
    ASSUME Types, Alignment, Order, TransportStep, Running', NEW d \in Callers, Settled(d), ~Refuse(d)
    PROVE  Settled(d)'
<1>t. reply \in [Calls -> ReplyRecord] /\ pending \in Seq(Entry) /\ d \in Calls
  BY CallersAreCalls, Zenon DEF Types, CallTypes, WireTypes
<1>k. Kind(d)' = Kind(d) /\ (Encodes(d)' <=> Encodes(d))
  BY TransportLeavesCallers, Zenon DEF Kind, Encodes
<1> SUFFICES ASSUME Final(reply[d]) \/ IsPending(d) PROVE Final(reply'[d]) \/ IsPending(d)'
  BY <1>k, Zenon DEF Settled, Final
<1>0. ASSUME reply'[d] = reply[d], UNCHANGED pending PROVE Final(reply'[d]) \/ IsPending(d)'
  BY <1>0, Zenon DEF IsPending
<1>1. CASE ForwarderStep \/ forward_responses
  BY <1>0, <1>1, Zenon DEF ForwarderStep, forward_commands, ForwardClosed, forward_responses, channels, actorVars
<1>2. CASE Fails \/ ShutDone \/ (\E r : Misfit(r)) \/ (\E r, p : LastAnswer(r, p))
  BY <1>2, EndIsGone, Zenon DEF Fails, ShutDone, Misfit, LastAnswer
<1>3. CASE Noted \/ Written \/ \E e : Shut(e)
  BY <1>0, <1>3, Zenon DEF Noted, Written, Shut, channels
<1>4. ASSUME NEW e, Refuse(e) PROVE Final(reply'[d]) \/ IsPending(d)'
  <2>1. e # d /\ pending' = pending /\ reply' = [reply EXCEPT ![e] = [is |-> "failed", of |-> e]]
    BY <1>4, Zenon DEF Refuse
  <2>2. reply'[d] = reply[d]
    BY <1>t, <2>1, Zenon
  <2> QED
    BY <1>0, <2>1, <2>2, Zenon
<1>5. ASSUME NEW e, Request(e) PROVE Final(reply'[d]) \/ IsPending(d)'
  <2>1. reply' = reply /\ pending' = Append(pending, PendingCall(e)) /\ e \in Calls /\ e \in Callers
    BY <1>5, Handled, Zenon DEF Request, channels
  <2>2. PendingCall(e) \in Entry
    BY <2>1, CallersAreCalls, Zenon DEF PendingCall, Entry, Types, Names
  <2>3. \A k \in DOMAIN pending : k \in DOMAIN pending' /\ pending'[k] = pending[k]
    <3> HIDE DEF Entry
    <3> QED
      BY <1>t, <2>1, <2>2, Appends
  <2> QED
    BY <2>1, <2>3, Zenon DEF IsPending
<1>6. ASSUME NEW r, NEW p, AckTaken(r, p) PROVE Final(reply'[d]) \/ IsPending(d)'
  <2>1. pending' = KeepPending(p) /\ reply' = reply /\ pending # <<>> /\ p = Head(pending)
    BY <1>6, Zenon DEF AckTaken, Response
  <2>2. p = pending[1] /\ p \in Entry
    BY <1>t, <2>1, Tails, Zenon
  <2> DEFINE q == [p EXCEPT !.armed = FALSE]
             t == <<q>> \o Tail(pending)
  <2>3. q \in Entry /\ q.of = p.of /\ q.reply = p.reply /\ pending' = t
    BY <2>1, <2>2, Zenon DEF Entry, KeepPending
  <2> HIDE DEF q, Entry
  <2>4. DOMAIN t = DOMAIN pending /\ \A k \in DOMAIN pending : t[k] = IF k = 1 THEN q ELSE pending[k]
    BY <1>t, <2>1, <2>3, Replaces
  <2> HIDE DEF t
  <2>5. \A k \in DOMAIN pending : k \in DOMAIN pending' /\ pending'[k].of = pending[k].of /\ pending'[k].reply = pending[k].reply
    BY <2>2, <2>3, <2>4, Zenon
  <2> QED
    BY <2>1, <2>5, Zenon DEF IsPending
<1>7. ASSUME NEW r, NEW p, AnswerTaken(r, p) PROVE Final(reply'[d]) \/ IsPending(d)'
  <2>1. /\ Response(r, p) /\ ~AcceptArmed(p, r) /\ validate_response(p, r) /\ reply' = Answered(p, r)
        /\ pending' = Append(Tail(pending), discard(p.of)) \/ pending' = Tail(pending)
        /\ pending # <<>> /\ p = Head(pending)
    BY <1>7, Zenon DEF AnswerTaken, Response
  <2>2. r.of = p.of /\ r.of \in Calls /\ r \in Answer /\ p \in Entry /\ Completes(r)
    BY <2>1, AnsweredTypes, Zenon
  <2>3. r.name \notin {"open", "closed", "failed"}
    BY <2>2, Zenon DEF Answer, Names, Kinds
  <2>4. CASE p.of = d /\ p.reply
    <3>1. reply'[d] = [is |-> r.name, of |-> r.of]
      BY <1>t, <2>1, <2>4 DEF Answered
    <3> QED
      BY <2>3, <3>1 DEF Final
  <2>5. CASE ~(p.of = d /\ p.reply)
    <3>1. reply'[d] = reply[d]
      BY <1>t, <2>1, <2>5 DEF Answered
    <3>2. ASSUME NEW k \in DOMAIN pending, pending[k].of = d, pending[k].reply PROVE IsPending(d)'
      <4>1. k # 1 /\ Tail(pending) \in Seq(Entry) /\ p = pending[1]
        BY <1>t, <2>1, <2>5, <3>2, Tails, Zenon
      <4>2. k - 1 \in DOMAIN Tail(pending) /\ Tail(pending)[k - 1] = pending[k]
        <5> HIDE DEF Entry
        <5> QED
          BY <1>t, <2>1, <4>1
      <4>3. discard(p.of) \in Entry
        BY <2>2, Zenon DEF Entry, discard, Names
      <4>4. k - 1 \in DOMAIN pending' /\ pending'[k - 1] = Tail(pending)[k - 1]
        <5>1. CASE pending' = Tail(pending)
          BY <4>2, <5>1, Zenon
        <5>2. CASE pending' = Append(Tail(pending), discard(p.of))
          <6> HIDE DEF Entry
          <6> QED
            BY <4>1, <4>2, <4>3, <5>2, Appends
        <5> QED
          BY <2>1, <5>1, <5>2
      <4> QED
        BY <3>2, <4>2, <4>4, Zenon DEF IsPending
    <3> QED
      BY <3>1, <3>2, Zenon DEF IsPending
  <2> QED
    BY <2>4, <2>5, Zenon
<1>8. CASE ActorStep
  BY <1>2, <1>3, <1>4, <1>5, <1>6, <1>7, <1>8, ActorCases, Zenon
<1> QED
  BY <1>1, <1>8, Zenon DEF TransportStep

(* A command leaves the queue when it is handled, and enters it when it is *)
(* taken from the channel.                                                 *)
LEMMA QueueMoves ==
    ASSUME Types, Order, TransportStep, Running'
    PROVE  /\ \A d : Queued(d) => Queued(d)' \/ Refuse(d) \/ Request(d) \/ Shut(d)
           /\ \/ Taken' = Taken /\ \A d : Queued(d)' => Queued(d)
              \/ /\ Taken' = Taken + 1 /\ Taken + 1 \in DOMAIN sent
                 /\ UNCHANGED <<pending, reply, shutdown_reply>>
                 /\ \A d : Queued(d)' <=> Queued(d) \/ d = sent[Taken + 1]
<1>t. /\ commands \in Seq(Callers) /\ sent \in Seq(Callers) /\ Len(commands) \in Nat /\ Len(sent) \in Nat
      /\ events \in Seq(Event) /\ to_client \in Seq(Event) /\ to_client \in Seq(Answer)
  BY StreamTypes DEF Types, CallTypes, WireTypes
<1>0. sent' = sent
  BY TransportLeavesCallers, Zenon
<1>s. commands' = commands => Taken' = Taken
  BY <1>0, Zenon DEF Taken
<1>b. ASSUME NEW e \in Event, ~IsCommand(e), events' = Append(events, e), UNCHANGED commands
      PROVE  Taken' = Taken /\ \A d : Queued(d)' <=> Queued(d)
  <2> HIDE DEF Event
  <2>1. \A i \in DOMAIN events' : IsCommand(events'[i]) => i \in DOMAIN events /\ events'[i] = events[i]
    BY <1>b, <1>t
  <2>2. \A i \in DOMAIN events : i \in DOMAIN events' /\ events'[i] = events[i]
    BY <1>b, <1>t, Appends
  <2> QED
    BY SMTT(30), <1>b, <1>s, <2>1, <2>2 DEF Queued
<1>c. ASSUME events # <<>>, events' = Tail(events), UNCHANGED commands
      PROVE  /\ Taken' = Taken /\ \A d : Queued(d)' => Queued(d)
             /\ \A d : Queued(d) => Queued(d)' \/ (Head(events).is = "command" /\ Head(events).of = d)
  <2> HIDE DEF Event
  <2>1. \A i \in DOMAIN events' : i + 1 \in DOMAIN events /\ events'[i] = events[i + 1]
    BY <1>c, <1>t
  <2>2. \A i \in DOMAIN events : i = 1 \/ (i - 1 \in DOMAIN events' /\ events'[i - 1] = events[i])
    BY <1>c, <1>t
  <2>3. Head(events) = events[1]
    BY <1>c, <1>t, Tails, Zenon
  <2>4. \A d : Queued(d)' => Queued(d)
    BY <2>1, Zenon DEF Queued
  <2>5. \A d : Queued(d) => Queued(d)' \/ (Head(events).is = "command" /\ Head(events).of = d)
    BY <2>2, <2>3, Zenon DEF Queued, IsCommand
  <2> QED
    BY <1>c, <1>s, <2>4, <2>5, Zenon
<1>1. CASE forward_commands
  <2> DEFINE h == Head(commands)
             e == [is |-> "command", of |-> h]
  <2>1. events' = Append(events, e) /\ commands' = Tail(commands) /\ commands # <<>>
    BY <1>1, Zenon DEF forward_commands
  <2>2. h \in Callers /\ h = commands[1] /\ 1 \in DOMAIN commands /\ Len(commands') = Len(commands) - 1 /\ Len(commands) > 0
    BY <1>t, <2>1
  <2>3. e \in Event /\ e.of = h /\ IsCommand(e)
    BY <2>2, Zenon DEF Event, IsCommand
  <2>u. UNCHANGED <<pending, reply, shutdown_reply>>
    BY <1>1, Zenon DEF forward_commands, actorVars, channels
  <2> HIDE DEF Event, e, h
  <2>4. /\ DOMAIN events' = (DOMAIN events) \cup {Len(events) + 1} /\ events'[Len(events) + 1] = e
        /\ \A i \in DOMAIN events : events'[i] = events[i]
    BY <1>t, <2>1, <2>3
  <2>5. Taken' = Taken + 1 /\ Taken + 1 \in DOMAIN sent /\ sent[Taken + 1] = h
    <3>1. Len(commands) <= Len(sent) /\ commands[1] = sent[Taken + 1]
      BY <2>2, Zenon DEF Order
    <3> QED
      BY <1>0, <1>t, <2>2, <3>1 DEF Taken
  <2>6. \A d : d = h => Queued(d)'
    BY <2>3, <2>4, Zenon DEF Queued
  <2>7. \A d : Queued(d)' => Queued(d) \/ d = h
    BY <2>3, <2>4, Zenon DEF Queued
  <2>8. \A d : Queued(d) => Queued(d)'
    BY <2>4, Zenon DEF Queued
  <2> QED
    BY <2>5, <2>6, <2>7, <2>8, <2>u, Zenon
<1>2. CASE ForwardClosed
  <2>1. events' = Append(events, [is |-> "closed", of |-> None]) /\ commands' = commands
    BY <1>2, Zenon DEF ForwardClosed
  <2>2. [is |-> "closed", of |-> None] \in Event /\ ~IsCommand([is |-> "closed", of |-> None])
    BY Zenon DEF Event, IsCommand
  <2> QED
    BY <1>b, <2>1, <2>2
<1>3. CASE forward_responses
  <2>1. /\ commands' = commands
        /\ \/ to_client # <<>> /\ events' = Append(events, Head(to_client))
           \/ events' = Append(events, [is |-> "eof", of |-> None])
    BY <1>3, Zenon DEF forward_responses
  <2>2. [is |-> "eof", of |-> None] \in Event /\ ~IsCommand([is |-> "eof", of |-> None])
    BY Zenon DEF Event, IsCommand
  <2>3. to_client # <<>> => Head(to_client) \in Event /\ ~IsCommand(Head(to_client))
    <3>1. to_client # <<>> => Head(to_client) \in Answer
      BY <1>t, Tails, Zenon
    <3> QED
      BY <3>1, Zenon DEF Event, IsCommand, Answer
  <2> QED
    BY <1>b, <2>1, <2>2, <2>3
<1>4. CASE Written
  <2>1. events' = events /\ commands' = commands
    BY <1>4, Zenon DEF Written, others
  <2> QED
    BY <1>s, <2>1, Zenon DEF Queued
<1>5. CASE Fails \/ ShutDone \/ (\E r : Misfit(r)) \/ (\E r, p : LastAnswer(r, p))
  BY <1>5, EndIsGone, Zenon DEF Fails, ShutDone, Misfit, LastAnswer
<1>6. ASSUME Noted \/ \E r, p : AckTaken(r, p) \/ AnswerTaken(r, p)
      PROVE  events # <<>> /\ events' = Tail(events) /\ UNCHANGED commands /\ Head(events).is # "command"
  <2>1. (Take("closed") \/ Take("response")) /\ events' = Tail(events) /\ UNCHANGED commands
    BY <1>6, Zenon DEF Noted, AckTaken, AnswerTaken, Response, others
  <2> QED
    BY <2>1, Zenon DEF Take
<1>7. ASSUME NEW c, Refuse(c) \/ Request(c) \/ Shut(c)
      PROVE  events # <<>> /\ events' = Tail(events) /\ UNCHANGED commands /\ Head(events).of = c
  BY <1>7, Zenon DEF Refuse, Request, Shut, Command, Take, others
<1>8. CASE Noted \/ \E r, p : AckTaken(r, p) \/ AnswerTaken(r, p)
  BY <1>c, <1>6, <1>8, Zenon
<1>9. CASE \E c : Refuse(c) \/ Request(c) \/ Shut(c)
  <2>1. PICK c : Refuse(c) \/ Request(c) \/ Shut(c)
    BY <1>9, Zenon
  <2>2. events # <<>> /\ events' = Tail(events) /\ UNCHANGED commands /\ Head(events).of = c
    BY <1>7, <2>1, Zenon
  <2>3. \A d : Queued(d) => Queued(d)' \/ d = c
    BY <1>c, <2>2, Zenon
  <2>4. Taken' = Taken /\ \A d : Queued(d)' => Queued(d)
    BY <1>c, <2>2, Zenon
  <2>5. \A d : d = c => Refuse(d) \/ Request(d) \/ Shut(d)
    BY <2>1, Zenon
  <2> QED
    BY <2>3, <2>4, <2>5, Zenon
<1>10. CASE ActorStep
  <2>1. \/ Noted \/ Written \/ Fails \/ ShutDone
        \/ (\E r : Misfit(r)) \/ (\E r, p : LastAnswer(r, p)) \/ (\E r, p : AckTaken(r, p) \/ AnswerTaken(r, p))
        \/ \E c : Refuse(c) \/ Request(c) \/ Shut(c)
    BY <1>10, ActorCases, Zenon
  <2> QED
    BY <1>4, <1>5, <1>8, <1>9, <2>1, Zenon
<1> QED
  BY <1>1, <1>2, <1>3, <1>10, Zenon DEF TransportStep, ForwarderStep


LEMMA ShutdownKept ==
    ASSUME TransportStep, Running' PROVE shutdown_reply' = shutdown_reply \/ \E c : Shut(c)
<1>1. CASE ForwarderStep \/ forward_responses
  BY <1>1, Zenon DEF ForwarderStep, forward_commands, ForwardClosed, forward_responses, actorVars
<1>2. CASE Fails \/ ShutDone \/ (\E r : Misfit(r)) \/ (\E r, p : LastAnswer(r, p))
  BY <1>2, EndIsGone, Zenon DEF Fails, ShutDone, Misfit, LastAnswer
<1>3. CASE Noted \/ Written \/ (\E c : Refuse(c) \/ Request(c)) \/ \E r, p : AckTaken(r, p) \/ AnswerTaken(r, p)
  BY <1>3, Zenon DEF Noted, Written, Refuse, Request, AckTaken, AnswerTaken
<1>4. CASE ActorStep
  BY <1>2, <1>3, <1>4, ActorCases, Zenon
<1> QED
  BY <1>1, <1>4, Zenon DEF TransportStep

(* Without a shutdown, a command that was taken is queued or settled.      *)
LEMMA HandledSettle ==
    ASSUME Types, Alignment, Order, Shutdowns, TransportStep, Running', shutdown_reply' = None
    PROVE  \A d : (\E n \in 1 .. Taken' : sent[n] = d) => Queued(d)' \/ Settled(d)'
<1>t. sent \in Seq(Callers) /\ commands \in Seq(Callers) /\ Len(commands) \in Nat /\ Len(sent) \in Nat /\ Len(commands) <= Len(sent)
      /\ pending \in Seq(Entry)
  BY DEF Types, CallTypes, WireTypes, Order
<1>0. Running /\ shutdown_reply = None
  <2>1. ~\E c : Shut(c)
    <3> SUFFICES ASSUME NEW c, Shut(c) PROVE FALSE
      BY Zenon
    <3>1. c \in Callers /\ shutdown_reply' = c
      BY Handled, Zenon DEF Shut
    <3> QED
      BY <3>1, CallersAreCalls, CallsAssumption, Zenon DEF None, Types
  <2> QED
    BY <2>1, TransportRuns, ShutdownKept, Zenon
<1>k. ASSUME NEW d PROVE Kind(d)' = Kind(d) /\ (Encodes(d)' <=> Encodes(d))
  BY TransportLeavesCallers, Zenon DEF Kind, Encodes
<1>1. \A n \in 1 .. Taken : Queued(sent[n]) \/ Settled(sent[n])
  BY <1>0, Zenon DEF Shutdowns
<1>2. ASSUME NEW d, Refuse(d) PROVE Settled(d)'
  <2>1. ~Encodes(d)
    BY <1>0, <1>2, Zenon DEF Refuse
  <2> QED
    BY <1>k, <2>1, Zenon DEF Settled
<1>3. ASSUME NEW d, Request(d) PROVE Settled(d)'
  <2>1. pending' = Append(pending, PendingCall(d)) /\ d \in Calls /\ d \in Callers
    BY <1>3, Handled, Zenon DEF Request
  <2>2. PendingCall(d) \in Entry /\ PendingCall(d).of = d /\ PendingCall(d).reply = (Kind(d) # "guard")
    BY <2>1, CallersAreCalls, Zenon DEF PendingCall, Entry, Types, Names
  <2>3. Len(pending) + 1 \in DOMAIN pending' /\ pending'[Len(pending) + 1] = PendingCall(d)
    <3> HIDE DEF Entry
    <3> QED
      BY <1>t, <2>1, <2>2, Appends
  <2>4. Kind(d) # "guard" => IsPending(d)'
    BY <2>2, <2>3, Zenon DEF IsPending
  <2> QED
    BY <1>k, <2>4, Zenon DEF Settled
<1>4. ASSUME NEW d, Shut(d) PROVE FALSE
  <2>1. d \in Callers /\ shutdown_reply' = d
    BY <1>4, Handled, Zenon DEF Shut
  <2> QED
    BY <2>1, CallersAreCalls, CallsAssumption DEF None, Types
<1>5. ASSUME NEW n \in 1 .. Taken, NEW d, d = sent[n] PROVE Queued(d)' \/ Settled(d)'
  <2>1. d \in Callers
    BY <1>t, <1>5 DEF Taken
  <2>2. CASE Queued(d)
    BY <1>2, <1>3, <1>4, <2>2, QueueMoves, Zenon
  <2>3. CASE Settled(d)
    BY <1>2, <2>1, <2>3, SettledStays, Zenon
  <2> QED
    BY <1>1, <1>5, <2>2, <2>3, Zenon
<1> SUFFICES ASSUME NEW n \in 1 .. Taken', NEW d, d = sent[n] PROVE Queued(d)' \/ Settled(d)'
  BY Zenon
<1>6. CASE n \in 1 .. Taken
  BY <1>5, <1>6, Zenon
<1>7. CASE n \notin 1 .. Taken
  <2>1. Taken \in Nat
    BY SMTT(30), <1>t DEF Taken
  <2>2. n = Taken + 1 /\ \A x : Queued(x)' <=> Queued(x) \/ x = sent[Taken + 1]
    BY <1>7, <2>1, QueueMoves
  <2> QED
    BY <2>2, Zenon
<1> QED
  BY <1>6, <1>7, ZenonT(30)

(* The calls before a shutdown were handled before it, and stay settled.   *)
LEMMA ShutdownWaits ==
    ASSUME Types, Alignment, Order, Shutdowns, TransportStep, Running', shutdown_reply' # None
    PROVE  /\ Kind(shutdown_reply') = "shutdown"
           /\ \E n \in 1 .. Taken' :
                /\ sent[n] = shutdown_reply'
                /\ \A d : (\E k \in 1 .. (n - 1) : sent[k] = d) => Settled(d)'
                /\ \A i \in DOMAIN events' : IsCommand(events'[i]) =>
                     \A m \in DOMAIN sent : sent[m] = events'[i].of => n < m
<1>t. sent \in Seq(Callers) /\ commands \in Seq(Callers) /\ Len(commands) \in Nat /\ Len(sent) \in Nat /\ Len(commands) <= Len(sent)
      /\ Taken \in Nat /\ (\A n \in 1 .. Taken : n \in DOMAIN sent /\ sent[n] \in Callers)
  BY DEF Types, CallTypes, Order, Taken
<1>q. \A d : Queued(d)' <=> \E i \in DOMAIN events' : IsCommand(events'[i]) /\ events'[i].of = d
  BY Zenon DEF Queued, IsCommand
<1>j. \A x, y \in DOMAIN sent : sent[x] = sent[y] => x = y
  BY Zenon DEF Order
<1>0. Running
  BY TransportRuns, Zenon
<1>1. ASSUME NEW c, Shut(c)
      PROVE  /\ shutdown_reply' = c /\ Kind(c) = "shutdown"
             /\ \E n \in 1 .. Taken' :
                  /\ sent[n] = c
                  /\ \A d : (\E k \in 1 .. (n - 1) : sent[k] = d) => Settled(d)'
                  /\ \A d : Queued(d)' => \A m \in DOMAIN sent : sent[m] = d => n < m
  <2>1. shutdown_reply = None /\ shutdown_reply' = c /\ Kind(c) = "shutdown" /\ Command(c) /\ ~Refuse(c)
    <3>1. shutdown_reply = None /\ shutdown_reply' = c /\ Kind(c) = "shutdown" /\ Command(c)
      BY <1>1, Zenon DEF Shut
    <3>2. Encodes(c)
      BY <3>1, Zenon DEF Encodes
    <3> QED
      BY <3>1, <3>2, Zenon DEF Refuse
  <2>2. PICK n \in 1 .. Taken : n \in DOMAIN sent /\ sent[n] = c
    BY <2>1, Handled, Zenon
  <2>3. Taken' = Taken /\ ~Queued(c)'
    BY <2>1, Handled, Zenon
  <2>4. events # <<>> /\ Head(events).is = "command" /\ c = Head(events).of /\ events' = Tail(events)
    BY <2>1, Zenon DEF Command, Take
  <2>5. /\ Head(events) = events[1] /\ 1 \in DOMAIN events
        /\ \A i \in DOMAIN events : i = 1 \/ 1 < i
    <3>1. events \in Seq(Event)
      BY StreamTypes, Zenon
    <3> HIDE DEF Event
    <3> QED
      BY <2>4, <3>1
  <2>6. IsCommand(events[1]) /\ events[1].of = c
    BY <2>4, <2>5, Zenon DEF IsCommand
  <2>7. ASSUME NEW d, Queued(d), d # c, NEW m \in DOMAIN sent, sent[m] = d PROVE n < m
    <3>1. PICK i \in DOMAIN events : IsCommand(events[i]) /\ events[i].of = d
      BY <2>7, Zenon DEF Queued
    <3>2. 1 < i
      BY <2>5, <2>6, <2>7, <3>1, Zenon
    <3>3. \A i0, j0 \in DOMAIN events : i0 < j0 /\ IsCommand(events[i0]) /\ IsCommand(events[j0]) =>
            \A x, y \in DOMAIN sent : sent[x] = events[i0].of /\ sent[y] = events[j0].of => x < y
      BY Zenon DEF Order
    <3> QED
      BY <2>2, <2>5, <2>6, <2>7, <3>1, <3>2, <3>3, Zenon
  <2>8. \A d : Queued(d)' => \A m \in DOMAIN sent : sent[m] = d => n < m
    <3>1. \A d : Queued(d)' => Queued(d)
      BY <2>3, <1>t, QueueMoves
    <3> QED
      BY <2>3, <2>7, <3>1, ZenonT(30)
  <2>9. ASSUME NEW k \in 1 .. (n - 1), NEW d, sent[k] = d PROVE Settled(d)'
    <3>1. k \in 1 .. Taken /\ k \in DOMAIN sent /\ k < n /\ ~(n < k) /\ k # n
      BY <1>t, <2>2
    <3>2. d # c /\ d \in Callers
      BY <1>j, <1>t, <2>2, <2>9, <3>1, Zenon
    <3>3. Queued(d) \/ Settled(d)
      BY <1>0, <2>1, <2>9, <3>1, Zenon DEF Shutdowns
    <3>4. ~Queued(d)
      BY <2>7, <2>9, <3>1, <3>2, Zenon
    <3>5. ~Refuse(d)
      BY <2>4, <3>2, Zenon DEF Refuse, Command
    <3> QED
      BY <3>2, <3>3, <3>4, <3>5, SettledStays, Zenon
  <2> QED
    BY <2>1, <2>2, <2>3, <2>8, <2>9, Zenon
<1>2. ASSUME shutdown_reply' = shutdown_reply
      PROVE  /\ Kind(shutdown_reply) = "shutdown"
             /\ \E n \in 1 .. Taken' :
                  /\ sent[n] = shutdown_reply
                  /\ \A d : (\E k \in 1 .. (n - 1) : sent[k] = d) => Settled(d)'
                  /\ \A d : Queued(d)' => \A m \in DOMAIN sent : sent[m] = d => n < m
  <2>1. /\ Kind(shutdown_reply) = "shutdown"
        /\ \E n \in 1 .. Taken :
             /\ sent[n] = shutdown_reply
             /\ \A k \in 1 .. (n - 1) : Settled(sent[k])
             /\ \A i \in DOMAIN events : IsCommand(events[i]) => \A m \in DOMAIN sent : sent[m] = events[i].of => n < m
    BY <1>2, Zenon DEF Shutdowns
  <2>2. PICK n \in 1 .. Taken :
             /\ sent[n] = shutdown_reply
             /\ \A k \in 1 .. (n - 1) : Settled(sent[k])
             /\ \A i \in DOMAIN events : IsCommand(events[i]) => \A m \in DOMAIN sent : sent[m] = events[i].of => n < m
    BY <2>1, Zenon
  <2>3. \A d : Queued(d) => \A m \in DOMAIN sent : sent[m] = d => n < m
    BY <2>2, Zenon DEF Queued
  <2>4. n \in 1 .. Taken'
    BY <1>t, <2>2, QueueMoves
  <2>5. ASSUME NEW d, Queued(d)', NEW m \in DOMAIN sent, sent[m] = d PROVE n < m
    <3>1. CASE Queued(d)
      BY <2>3, <2>5, <3>1, Zenon
    <3>2. CASE ~Queued(d)
      <4>1. Taken + 1 \in DOMAIN sent /\ d = sent[Taken + 1]
        BY <2>5, <3>2, QueueMoves, Zenon
      <4>2. m = Taken + 1
        BY <1>j, <2>5, <4>1, Zenon
      <4> QED
        BY <1>t, <2>2, <4>2
    <3> QED
      BY <3>1, <3>2, Zenon
  <2>6. ASSUME NEW k \in 1 .. (n - 1), NEW d, sent[k] = d PROVE Settled(d)'
    <3>1. k \in 1 .. Taken /\ k \in DOMAIN sent /\ ~(n < k)
      BY <1>t, <2>2
    <3>2. d \in Callers /\ Settled(d)
      BY <1>t, <2>2, <2>6, <3>1, Zenon
    <3>3. ~Queued(d)
      BY <2>3, <2>6, <3>1, Zenon
    <3>4. ~Refuse(d)
      BY <3>3, Handled, Zenon DEF Refuse
    <3> QED
      BY <3>2, <3>4, SettledStays, Zenon
  <2> QED
    BY <2>1, <2>2, <2>4, <2>5, <2>6, Zenon
<1>3. /\ Kind(shutdown_reply') = "shutdown"
      /\ \E n \in 1 .. Taken' :
           /\ sent[n] = shutdown_reply'
           /\ \A d : (\E k \in 1 .. (n - 1) : sent[k] = d) => Settled(d)'
           /\ \A d : Queued(d)' => \A m \in DOMAIN sent : sent[m] = d => n < m
  BY <1>1, <1>2, ShutdownKept
<1> QED
  BY <1>q, <1>3, Zenon


(* The transport completes a shutdown when nothing is pending.             *)
LEMMA ShutdownCompletes ==
    ASSUME Types, Alignment, Order, Shutdowns, TransportStep, NEW c \in Callers, Kind(c) = "shutdown", Final(reply'[c])
    PROVE  ~Running' /\ \A n \in DOMAIN sent : sent[n] = c => \A k \in 1 .. (n - 1) : \A d : d = sent[k] => Settled(d)'
<1>t. /\ reply \in [Calls -> ReplyRecord] /\ pending \in Seq(Entry) /\ c \in Calls /\ sent \in Seq(Callers)
      /\ shutdown_reply \in Callers \cup {None} /\ Callers \subseteq Calls
  BY CallersAreCalls, Zenon DEF Types, CallTypes, WireTypes
<1>0. ~Final(reply[c])
  BY TransportRuns, Zenon DEF Shutdowns, Running
<1>1. reply'[c] # reply[c]
  BY <1>0, Zenon
<1>2. CASE ForwarderStep \/ forward_responses
  BY <1>1, <1>2, Zenon DEF ForwarderStep, forward_commands, ForwardClosed, forward_responses, channels
<1>3. CASE Noted \/ Written \/ (\E d : Shut(d) \/ Request(d)) \/ \E r, p : AckTaken(r, p)
  BY <1>1, <1>3, Zenon DEF Noted, Written, Shut, Request, AckTaken, channels
<1>4. ASSUME NEW d, Refuse(d) PROVE FALSE
  <2>1. reply' = [reply EXCEPT ![d] = [is |-> "failed", of |-> d]]
    BY <1>4, Zenon DEF Refuse
  <2>2. reply'[c] = [is |-> "failed", of |-> d]
    BY SMTT(30), <1>t, <1>1, <2>1
  <2> QED
    BY <2>2 DEF Final
<1>e. ASSUME NEW a, End(a), NEW d \in Calls PROVE Final(reply'[d]) <=> Final(a[d])
  <2>1. reply'[d] = IF a[d] = Open THEN Closed ELSE a[d]
    BY <1>e, Zenon DEF End
  <2> QED
    BY <2>1 DEF Final, Open, Closed
<1>5. CASE Fails \/ \E r : Misfit(r)
  BY <1>0, <1>e, <1>t, <1>5, Zenon DEF Fails, Misfit
<1>6. ASSUME NEW r, NEW p, Response(r, p) PROVE Answered(p, r)[c] = reply[c]
  <2>1. pending # <<>> /\ p = Head(pending)
    BY <1>6, Zenon DEF Response
  <2>2. p = pending[1] /\ 1 \in DOMAIN pending
    BY <1>t, <2>1, Tails, Zenon
  <2>3. p.reply => p.of # c
    BY <2>2, Zenon DEF Types, Entries
  <2> QED
    BY <1>t, <2>3, Zenon DEF Answered
<1>7. ASSUME NEW r, NEW p, AnswerTaken(r, p) \/ LastAnswer(r, p) PROVE FALSE
  BY <1>0, <1>1, <1>6, <1>e, <1>t, <1>7, Zenon DEF AnswerTaken, LastAnswer
<1>8. CASE ShutDone
  <2> DEFINE a == [reply EXCEPT ![shutdown_reply] = [is |-> "shutdown", of |-> shutdown_reply]]
  <2>1. End(a) /\ shutdown_reply # None /\ pending = <<>>
    BY <1>8, Zenon DEF ShutDone, ShutdownIsComplete
  <2>2. shutdown_reply \in Calls
    BY <1>t, <2>1, Zenon
  <2>3. \A d \in Calls : Final(a[d]) <=> Final(reply[d]) \/ d = shutdown_reply
    BY <1>t, <2>2, Zenon DEF Final
  <2> HIDE DEF a
  <2>4. \A d \in Calls : Final(reply'[d]) <=> Final(reply[d]) \/ d = shutdown_reply
    BY <1>e, <2>1, <2>3, Zenon
  <2>5. c = shutdown_reply
    BY <1>0, <1>t, <2>4, Zenon
  <2>6. PICK n \in 1 .. Taken : sent[n] = c /\ \A k \in 1 .. (n - 1) : Settled(sent[k])
    BY <2>1, <2>5, Zenon DEF Shutdowns
  <2>7. n \in DOMAIN sent /\ \A m \in DOMAIN sent : sent[m] = c => m = n
    <3>1. n \in DOMAIN sent
      <4>1. commands \in Seq(Callers) /\ Len(commands) <= Len(sent)
        BY Zenon DEF Order, Types, CallTypes
      <4>2. Len(commands) \in Nat /\ Len(sent) \in Nat /\ DOMAIN sent = 1 .. Len(sent)
        BY <1>t, <4>1
      <4>3. n \in 1 .. (Len(sent) - Len(commands))
        BY <2>6, Zenon DEF Taken
      <4> QED
        BY <4>1, <4>2, <4>3
    <3> QED
      BY <2>6, <3>1, ZenonT(30) DEF Order
  <2>8. ASSUME NEW d \in Calls, Settled(d) PROVE Settled(d)'
    <3>1. ~IsPending(d)
      BY <2>1 DEF IsPending
    <3>2. Kind(d)' = Kind(d) /\ (Encodes(d)' <=> Encodes(d))
      BY TransportLeavesCallers, Zenon DEF Kind, Encodes
    <3>3. Final(reply[d]) => Final(reply'[d])
      BY <2>4, Zenon
    <3> QED
      BY <2>8, <3>1, <3>2, <3>3, Zenon DEF Settled, Final
  <2>9. \A k \in 1 .. (n - 1) : sent[k] \in Calls
    BY <1>t, <2>7
  <2> QED
    BY <2>1, <2>6, <2>7, <2>8, <2>9, EndIsGone, Zenon
<1>9. CASE ActorStep
  BY <1>3, <1>4, <1>5, <1>7, <1>8, <1>9, <1>0, ActorCases, EndIsGone, Zenon DEF Fails, Misfit
<1> QED
  BY <1>2, <1>9, Zenon DEF TransportStep


(* What holds of a named call holds of the call at a place of the history. *)
LEMMA Named ==
    ASSUME NEW S \in SUBSET Nat, \A n \in S : sent'[n] = sent[n]
    PROVE  /\ (\A d : (\E n \in S : sent[n] = d) => Settled(d)') => (\A n \in S : Settled(sent[n]))'
           /\ (\A d : (\E n \in S : sent[n] = d) => Queued(d)' \/ Settled(d)') => (\A n \in S : Queued(sent[n]) \/ Settled(sent[n]))'
<1>1. ASSUME \A d : (\E n \in S : sent[n] = d) => Settled(d)' PROVE (\A n \in S : Settled(sent[n]))'
  BY <1>1, Zenon DEF Settled, IsPending, Final, Kind, Encodes
<1>2. ASSUME \A d : (\E n \in S : sent[n] = d) => Queued(d)' \/ Settled(d)' PROVE (\A n \in S : Queued(sent[n]) \/ Settled(sent[n]))'
  BY <1>2, Zenon DEF Queued, IsCommand, Settled, IsPending, Final, Kind, Encodes
<1> QED
  BY <1>1, <1>2, Zenon


LEMMA ActorShutdowns == ASSUME Types, Alignment, Order, Shutdowns, TransportStep, Types' PROVE Shutdowns'
<1>0. sent' = sent /\ call' = call /\ scenario' = scenario
  BY TransportLeavesCallers, Zenon
<1>c. Callers' = Callers /\ \A c : Kind(c)' = Kind(c)
  BY <1>0, Zenon DEF Callers, Kind
<1>t. shutdown_reply' \in Callers \cup {None}
  BY <1>c, Zenon DEF Types, WireTypes
<1>g. ~Running' => shutdown_reply' = None
  BY Zenon DEF Types, GoneIsEmpty, Running, WireTypes
<1>1. (Running /\ shutdown_reply = None => \A n \in 1 .. Taken : Queued(sent[n]) \/ Settled(sent[n]))'
  <2>1. ASSUME Running', shutdown_reply' = None PROVE \A d : (\E n \in 1 .. Taken' : sent[n] = d) => Queued(d)' \/ Settled(d)'
    BY <2>1, HandledSettle, Zenon
  <2>2. ASSUME NEW S \in SUBSET Nat, \A d : (\E n \in S : sent[n] = d) => Queued(d)' \/ Settled(d)'
        PROVE  (\A n \in S : Queued(sent[n]) \/ Settled(sent[n]))'
    BY <1>0, <2>2, Named, Zenon
  <2>3. 1 .. Taken' \in SUBSET Nat
    OBVIOUS
  <2> QED
    BY <2>1, <2>2, <2>3, Zenon
<1>2. (shutdown_reply # None =>
         /\ Kind(shutdown_reply) = "shutdown"
         /\ \E n \in 1 .. Taken :
              /\ sent[n] = shutdown_reply
              /\ \A k \in 1 .. (n - 1) : Settled(sent[k])
              /\ \A i \in DOMAIN events : IsCommand(events[i]) =>
                   \A m \in DOMAIN sent : sent[m] = events[i].of => n < m)'
  <2> SUFFICES ASSUME shutdown_reply' # None
               PROVE  /\ (Kind(shutdown_reply) = "shutdown")'
                      /\ (\E n \in 1 .. Taken :
                           /\ sent[n] = shutdown_reply
                           /\ \A k \in 1 .. (n - 1) : Settled(sent[k])
                           /\ \A i \in DOMAIN events : IsCommand(events[i]) =>
                                \A m \in DOMAIN sent : sent[m] = events[i].of => n < m)'
    BY Zenon
  <2>1. /\ Kind(shutdown_reply') = "shutdown"
        /\ \E n \in 1 .. Taken' :
             /\ sent[n] = shutdown_reply'
             /\ \A d : (\E k \in 1 .. (n - 1) : sent[k] = d) => Settled(d)'
             /\ \A i \in DOMAIN events' : IsCommand(events'[i]) =>
                  \A m \in DOMAIN sent : sent[m] = events'[i].of => n < m
    BY <1>g, ShutdownWaits, Zenon
  <2>2. PICK n \in 1 .. Taken' :
             /\ sent[n] = shutdown_reply'
             /\ \A d : (\E k \in 1 .. (n - 1) : sent[k] = d) => Settled(d)'
             /\ \A i \in DOMAIN events' : IsCommand(events'[i]) =>
                  \A m \in DOMAIN sent : sent[m] = events'[i].of => n < m
    BY <2>1, Zenon
  <2>3. 1 .. (n - 1) \in SUBSET Nat
    BY <2>2
  <2>4. (\A k \in 1 .. (n - 1) : Settled(sent[k]))'
    BY <1>0, <2>2, <2>3, Named, Zenon
  <2>5. (Kind(shutdown_reply) = "shutdown")'
    BY <1>0, <2>1, Zenon DEF Kind
  <2> QED
    BY <1>0, <2>2, <2>4, <2>5, Zenon DEF IsCommand
<1>3. ASSUME NEW c \in Callers, Kind(c) = "shutdown"
      PROVE  /\ Final(reply'[c]) =>
                /\ actor' = "gone"
                /\ (\A n \in DOMAIN sent : sent[n] = c => \A k \in 1 .. (n - 1) : Settled(sent[k]))'
             /\ call'[c].told = "ok" /\ IsSent(c)' => Final(reply'[c])
  <2>1. ASSUME Final(reply'[c])
        PROVE  /\ actor' = "gone"
               /\ (\A n \in DOMAIN sent : sent[n] = c => \A k \in 1 .. (n - 1) : Settled(sent[k]))'
    <3>1. ~Running' /\ \A n \in DOMAIN sent : sent[n] = c => \A k \in 1 .. (n - 1) : \A d : d = sent[k] => Settled(d)'
      BY <1>3, <2>1, ShutdownCompletes, Zenon
    <3>2. actor' = "gone"
      BY <3>1, Zenon DEF Running, Types, WireTypes
    <3>3. ASSUME NEW n \in DOMAIN sent, sent[n] = c PROVE (\A k \in 1 .. (n - 1) : Settled(sent[k]))'
      <4>1. \A d : (\E k \in 1 .. (n - 1) : sent[k] = d) => Settled(d)'
        BY <3>1, <3>3, Zenon
      <4>2. 1 .. (n - 1) \in SUBSET Nat
        OBVIOUS
      <4> QED
        BY <1>0, <4>1, <4>2, Named, Zenon
    <3> QED
      BY <1>0, <3>2, <3>3, Zenon
  <2>2. call'[c].told = "ok" /\ IsSent(c)' => FALSE
    <3>1. IsSent(c)' => IsSent(c)
      BY <1>0, Zenon DEF IsSent
    <3>2. call[c].told = "ok" /\ IsSent(c) => actor = "gone"
      BY <1>3, Zenon DEF Shutdowns
    <3>3. actor # "gone"
      BY TransportRuns, Zenon DEF Running
    <3> QED
      BY <1>0, <3>1, <3>2, <3>3, Zenon
  <2> QED
    BY <2>1, <2>2, Zenon
<1>4. (\A c \in Callers : Kind(c) = "shutdown" =>
         /\ Final(reply[c]) =>
              /\ actor = "gone"
              /\ \A n \in DOMAIN sent : sent[n] = c => \A k \in 1 .. (n - 1) : Settled(sent[k])
         /\ call[c].told = "ok" /\ IsSent(c) => Final(reply[c]))'
  BY <1>3, <1>c, Zenon DEF Final
<1> QED
  BY <1>1, <1>2, <1>4, Zenon DEF Shutdowns


LEMMA QuietShutdowns ==
    ASSUME Types, Order, Shutdowns, UNCHANGED <<scenario, reply, events, actor, pending, shutdown_reply>>, Taken' = Taken,
           sent' = sent \/ (Running /\ \E e \in Callers : sent' = Append(sent, e)),
           \A c \in Callers : Kind(c) = "shutdown" /\ call'[c].told = "ok" /\ IsSent(c)' => Final(reply[c])
    PROVE  Shutdowns'
<1>t. sent \in Seq(Callers) /\ commands \in Seq(Callers) /\ Len(commands) \in Nat /\ Len(sent) \in Nat /\ Len(commands) <= Len(sent)
      /\ Taken \in Nat /\ (\A n \in 1 .. Taken : n \in DOMAIN sent)
  BY DEF Types, CallTypes, Order, Taken
<1>c. Callers' = Callers /\ \A c : Kind(c)' = Kind(c)
  BY Zenon DEF Callers, Kind
<1>s. \A d : (Settled(d)' <=> Settled(d)) /\ (Queued(d)' <=> Queued(d))
  BY <1>c, Zenon DEF Settled, IsPending, Encodes, Final, Queued, IsCommand
<1>n. \A n \in DOMAIN sent : n \in DOMAIN sent' /\ sent'[n] = sent[n]
  <2>1. ASSUME NEW e \in Callers, sent' = Append(sent, e) PROVE \A n \in DOMAIN sent : n \in DOMAIN sent' /\ sent'[n] = sent[n]
    BY <1>t, <2>1, Appends
  <2> QED
    BY <2>1, ZenonT(30)
<1>d. \A d \in Callers : \A m \in DOMAIN sent' : sent'[m] = d => m \in DOMAIN sent \/ m = Len(sent) + 1
  <2>1. ASSUME NEW e \in Callers, sent' = Append(sent, e) PROVE DOMAIN sent' = (DOMAIN sent) \cup {Len(sent) + 1}
    BY <1>t, <2>1, Appends
  <2> QED
    BY <2>1, Zenon
<1>1. (Running /\ shutdown_reply = None => \A n \in 1 .. Taken : Queued(sent[n]) \/ Settled(sent[n]))'
  <2> SUFFICES ASSUME Running', shutdown_reply' = None PROVE (\A n \in 1 .. Taken : Queued(sent[n]) \/ Settled(sent[n]))'
    BY Zenon
  <2>1. Running /\ shutdown_reply = None
    BY Zenon DEF Running
  <2>2. \A d : (\E n \in 1 .. Taken : sent[n] = d) => Queued(d)' \/ Settled(d)'
    BY <1>s, <2>1, Zenon DEF Shutdowns
  <2>3. 1 .. Taken \in SUBSET Nat /\ \A n \in 1 .. Taken : sent'[n] = sent[n]
    BY <1>t, <1>n
  <2>4. \A n \in 1 .. Taken : (Queued(sent[n]) \/ Settled(sent[n]))'
    BY <2>2, <2>3, Named, Zenon
  <2> QED
    BY <2>4, Zenon
<1>2. (shutdown_reply # None =>
         /\ Kind(shutdown_reply) = "shutdown"
         /\ \E n \in 1 .. Taken :
              /\ sent[n] = shutdown_reply
              /\ \A k \in 1 .. (n - 1) : Settled(sent[k])
              /\ \A i \in DOMAIN events : IsCommand(events[i]) =>
                   \A m \in DOMAIN sent : sent[m] = events[i].of => n < m)'
  <2> SUFFICES ASSUME shutdown_reply' # None
               PROVE  /\ (Kind(shutdown_reply) = "shutdown")'
                      /\ (\E n \in 1 .. Taken :
                           /\ sent[n] = shutdown_reply
                           /\ \A k \in 1 .. (n - 1) : Settled(sent[k])
                           /\ \A i \in DOMAIN events : IsCommand(events[i]) =>
                                \A m \in DOMAIN sent : sent[m] = events[i].of => n < m)'
    BY Zenon
  <2>1. /\ Kind(shutdown_reply) = "shutdown"
        /\ \E n \in 1 .. Taken :
             /\ sent[n] = shutdown_reply
             /\ \A k \in 1 .. (n - 1) : Settled(sent[k])
             /\ \A i \in DOMAIN events : IsCommand(events[i]) =>
                  \A m \in DOMAIN sent : sent[m] = events[i].of => n < m
    BY Zenon DEF Shutdowns
  <2>2. PICK n \in 1 .. Taken :
             /\ sent[n] = shutdown_reply
             /\ \A k \in 1 .. (n - 1) : Settled(sent[k])
             /\ \A i \in DOMAIN events : IsCommand(events[i]) =>
                  \A m \in DOMAIN sent : sent[m] = events[i].of => n < m
    BY <2>1, Zenon
  <2>3. 1 .. (n - 1) \in SUBSET Nat /\ \A k \in 1 .. (n - 1) : sent'[k] = sent[k]
    BY <1>t, <1>n, <2>2
  <2>4. \A d : (\E k \in 1 .. (n - 1) : sent[k] = d) => Settled(d)'
    BY <1>s, <2>2, Zenon
  <2>5. (\A k \in 1 .. (n - 1) : Settled(sent[k]))'
    BY <2>3, <2>4, Named, Zenon
  <2>6. (Kind(shutdown_reply) = "shutdown")'
    BY <2>1, Zenon DEF Kind
  <2>7. sent'[n] = shutdown_reply' /\ n \in 1 .. Taken'
    BY <1>t, <1>n, <2>2, Zenon
  <2>8. ASSUME NEW i \in DOMAIN events', IsCommand(events'[i]), NEW m \in DOMAIN sent', sent'[m] = events'[i].of PROVE n < m
    <3>1. CASE m \in DOMAIN sent
      <4>1. sent[m] = events[i].of /\ IsCommand(events[i]) /\ i \in DOMAIN events
        BY <1>n, <2>8, <3>1, Zenon
      <4> QED
        BY <2>2, <3>1, <4>1, Zenon
    <3>2. CASE m \notin DOMAIN sent
      <4>1. m = Len(sent) + 1 /\ n \in DOMAIN sent
        BY <1>t, <1>d, <2>2, <2>8, <3>2 DEF Types, CallTypes
      <4> QED
        BY SMTT(30), <1>t, <4>1
    <3> QED
      BY <3>1, <3>2, Zenon
  <2> QED
    BY <2>5, <2>6, <2>7, <2>8, Zenon DEF IsCommand
<1>3. ASSUME NEW c \in Callers, Kind(c) = "shutdown", Final(reply'[c])
      PROVE  /\ actor' = "gone"
             /\ (\A n \in DOMAIN sent : sent[n] = c => \A k \in 1 .. (n - 1) : Settled(sent[k]))'
  <2>0. Final(reply[c])
    BY <1>3, Zenon
  <2>1. actor = "gone" /\ \A n \in DOMAIN sent : sent[n] = c => \A k \in 1 .. (n - 1) : Settled(sent[k])
    BY <1>3, <2>0, Zenon DEF Shutdowns
  <2>2. sent' = sent
    BY <2>1, Zenon DEF Running
  <2>3. ASSUME NEW n \in DOMAIN sent, sent[n] = c PROVE (\A k \in 1 .. (n - 1) : Settled(sent[k]))'
    <3>1. \A d : (\E k \in 1 .. (n - 1) : sent[k] = d) => Settled(d)'
      BY <1>s, <2>1, <2>3, Zenon
    <3>2. 1 .. (n - 1) \in SUBSET Nat /\ \A k \in 1 .. (n - 1) : sent'[k] = sent[k]
      BY <2>2
    <3> QED
      BY <3>1, <3>2, Named, Zenon
  <2> QED
    BY <2>1, <2>2, <2>3, Zenon
<1>4. (\A c \in Callers : Kind(c) = "shutdown" =>
         /\ Final(reply[c]) =>
              /\ actor = "gone"
              /\ \A n \in DOMAIN sent : sent[n] = c => \A k \in 1 .. (n - 1) : Settled(sent[k])
         /\ call[c].told = "ok" /\ IsSent(c) => Final(reply[c]))'
  BY <1>3, <1>c, Zenon DEF Final
<1> QED
  BY <1>1, <1>2, <1>4, ZenonT(30) DEF Shutdowns

LEMMA ShutdownsStep == ASSUME Types, Alignment, Channels, Order, Shutdowns, Next, Types' PROVE Shutdowns'
<1>t. sent \in Seq(Callers) /\ commands \in Seq(Callers) /\ Len(commands) \in Nat /\ Len(sent) \in Nat /\ Callers \subseteq Calls
  BY CallersAreCalls DEF Types, CallTypes
<1>w. \A c \in Callers : Kind(c) = "shutdown" /\ call[c].told = "ok" /\ IsSent(c) => Final(reply[c])
  BY Zenon DEF Shutdowns
<1>1. CASE (\E c \in Calls : CallerStep(c)) \/ Abort \/ DropHandle
  <2>0. UNCHANGED <<scenario, reply, events, actor, pending, shutdown_reply>>
    BY <1>1, CallerLeavesWire, Zenon DEF wireVars, channels
  <2>1. CASE Abort \/ DropHandle
    <3>1. UNCHANGED <<call, commands, sent>>
      BY <2>1, Zenon DEF Abort, DropHandle, queues
    <3>2. Taken' = Taken /\ \A c : IsSent(c)' => IsSent(c)
      BY <3>1, Zenon DEF Taken, IsSent
    <3> QED
      BY <1>w, <2>0, <3>1, <3>2, QuietShutdowns, Zenon
  <2>2. ASSUME NEW c \in Calls, CallerStep(c) PROVE Shutdowns'
    <3>1. /\ \A d \in Calls : d # c => call'[d] = call[d]
          /\ c \in Callers
          /\ call'[c].told \in {"ok", "refused"} =>
                \/ call'[c].told = "ok" /\ call[c].pc = "idle" /\ Kind(c) = "shutdown"
                \/ Kind(c) = "guard"
                \/ Final(reply[c]) /\ call'[c].of = reply[c].of
          /\ \/ UNCHANGED <<commands, sent>>
             \/ /\ Running /\ call[c].pc = "sending"
                /\ commands' = Append(commands, c) /\ sent' = Append(sent, c)
      BY <2>2, CallerMove, Zenon
    <3>2. Taken' = Taken
      <4>1. CASE UNCHANGED <<commands, sent>>
        BY <4>1, Zenon DEF Taken
      <4>2. CASE commands' = Append(commands, c) /\ sent' = Append(sent, c)
        <5>1. Len(commands') = Len(commands) + 1 /\ Len(sent') = Len(sent) + 1
          BY <1>t, <3>1, <4>2
        <5>2. Len(commands) \in Nat /\ Len(sent) \in Nat
          BY <1>t
        <5>3. (Len(sent) + 1) - (Len(commands) + 1) = Len(sent) - Len(commands)
          BY <5>2
        <5> QED
          BY <5>1, <5>3, ZenonT(30) DEF Taken
      <4> QED
        BY <3>1, <4>1, <4>2, Zenon
    <3>3. sent' = sent \/ (Running /\ \E e \in Callers : sent' = Append(sent, e))
      BY <3>1, Zenon
    <3>4. ASSUME NEW d \in Callers, Kind(d) = "shutdown", call'[d].told = "ok", IsSent(d)' PROVE Final(reply[d])
      <4>1. CASE d = c
        <5>1. call[c].pc = "idle" => sent' = sent
          BY <3>1, Zenon
        <5>2. call[c].pc = "idle" => ~IsSent(c)
          BY Zenon DEF Order, IsSent
        <5>3. call[c].pc = "idle" => ~IsSent(c)'
          BY <5>1, <5>2, Zenon DEF IsSent
        <5> QED
          BY <3>1, <3>4, <4>1, <5>3
      <4>2. CASE d # c
        <5>1. call'[d] = call[d]
          BY <1>t, <3>1, <4>2, Zenon
        <5>2. IsSent(d)
          <6>1. CASE sent' = sent
            BY <3>4, <6>1, Zenon DEF IsSent
          <6>2. CASE sent' = Append(sent, c)
            <7>1. \A i \in DOMAIN sent' : sent'[i] = c \/ (i \in DOMAIN sent /\ sent'[i] = sent[i])
              BY <1>t, <3>1, <6>2
            <7> QED
              BY <3>4, <4>2, <7>1, Zenon DEF IsSent
          <6> QED
            BY <3>1, <6>1, <6>2, Zenon
        <5> QED
          BY <1>w, <3>4, <5>1, <5>2, Zenon
      <4> QED
        BY <4>1, <4>2, ZenonT(30)
    <3> QED
      BY <2>0, <3>2, <3>3, <3>4, QuietShutdowns, Zenon
  <2> QED
    BY <1>1, <2>1, <2>2, Zenon
<1>2. CASE DaemonStep
  <2>1. UNCHANGED <<scenario, call, reply, commands, events, actor, pending, shutdown_reply, sent>>
    BY <1>2, DaemonLeavesCallers, Zenon DEF daemonVars, channels, queues, actorVars
  <2>2. Taken' = Taken /\ \A c : IsSent(c)' => IsSent(c)
    BY <2>1, Zenon DEF Taken, IsSent
  <2> QED
    BY <1>w, <2>1, <2>2, QuietShutdowns, Zenon
<1>3. CASE TransportStep
  BY <1>3, ActorShutdowns, Zenon
<1> QED
  BY <1>1, <1>2, <1>3, Zenon DEF Next, CallerStep, DaemonStep, TransportStep


(***************************************************************************)
(* The inductive invariant.                                                *)
(***************************************************************************)

LEMMA InitInv == ASSUME Init PROVE TransportInv
<1>1. Stream = <<>> /\ DOMAIN Stream = {} /\ Len(Stream) = 0
  BY DEF Init, Stream
<1>2. Completed(Stream) = 0
  BY SMTT(30), <1>1, BeforeFirst DEF Completed
<1>3. CallTypes
  BY SMTT(30) DEF Init, CallTypes, CallRecord, CallStates, ReplyRecord, Open, None
<1>4. WireTypes
  BY DEF Init, WireTypes
<1>5. Capacities
  <2>1. commands = <<>> /\ events = <<>> /\ to_server = <<>> /\ to_client = <<>> /\ frame = <<>>
    BY Zenon DEF Init
  <2>2. CommandCap \in Nat /\ SocketCap \in Nat
    BY CallsAssumption, Zenon
  <2>3. Len(<<>>) = 0
    OBVIOUS
  <2>4. 0 <= CommandCap /\ 0 <= 2 * CommandCap /\ 0 <= SocketCap /\ 0 <= 1
    BY <2>2
  <2> QED
    BY <2>1, <2>3, <2>4, Zenon DEF Capacities
<1>6. GoneIsEmpty /\ Entries
  <2>1. actor # "gone" /\ pending = <<>>
    BY DEF Init
  <2>2. DOMAIN pending = {}
    BY <2>1
  <2> QED
    BY <2>1, <2>2, Zenon DEF GoneIsEmpty, Entries
<1>7. Alignment
  <2>1. Fits(Stream, pending) /\ Once(Stream) /\ AcksBelow(Stream, 0)
    BY <1>1, Zenon DEF Fits, Once, AcksBelow
  <2>2. Rest(0, <<>>, None, <<>>, <<>>)
    BY DEF Rest, Working
  <2>3. pending = <<>> /\ server.wait = None /\ to_server = <<>> /\ frame = <<>>
    BY Zenon DEF Init
  <2> QED
    BY <1>2, <2>1, <2>2, <2>3, Zenon DEF Alignment
<1>8. Strays
  BY <1>1, Zenon DEF Init, Strays, None
<1>9. Channels
  <2>1. server.wait = None
    BY Zenon DEF Init
  <2> QED
    BY <1>1, <2>1, Zenon DEF Init, Channels, Open, None
<1>10. Order
  BY DEF Init, Order
<1>11. Untouched
  BY DEF Init, Untouched
<1>12. Shutdowns
  <2>1. Taken = 0 /\ sent = <<>> /\ shutdown_reply = None
    BY DEF Init, Taken
  <2>2. \A c \in Callers : ~Final(reply[c]) /\ call[c].told # "ok"
    BY <1>3, CallersAreCalls, Zenon DEF Init, Final, Open, None
  <2>3. 1 .. Taken = {}
    BY <2>1
  <2> QED
    BY <2>1, <2>2, <2>3, Zenon DEF Shutdowns
<1> QED
  BY <1>3, <1>4, <1>5, <1>6, <1>7, <1>8, <1>9, <1>10, <1>11, <1>12, ZenonT(30) DEF TransportInv

LEMMA StutterInv == ASSUME TransportInv, UNCHANGED vars PROVE TransportInv'
<1>1. UNCHANGED <<scenario, call, reply, armed, commands, events, actor, pending, frame, shutdown_reply, terminal_failure>>
  BY Zenon DEF vars, channels, queues, actorVars
<1>2. UNCHANGED <<to_server, to_client, server, sent>>
  BY Zenon DEF vars, wire
<1>3. Stream' = Stream /\ Taken' = Taken /\ Callers' = Callers /\ (Running' <=> Running) /\ (\A c : Kind(c)' = Kind(c)) /\ (\A f : May(f)' <=> May(f))
  BY <1>1, <1>2, Zenon DEF Stream, Taken, Callers, Running, Kind, May
<1>4. CallTypes' /\ Capacities' /\ GoneIsEmpty'
  BY SMTT(30), <1>1, <1>2, <1>3 DEF TransportInv, CallTypes, Capacities, GoneIsEmpty
<1>5. WireTypes' /\ Entries'
  BY ZenonT(30), <1>1, <1>2, <1>3 DEF TransportInv, WireTypes, Entries, Event
<1>6. Alignment'
  BY <1>1, <1>2, <1>3, ZenonT(30) DEF TransportInv, Alignment
<1>7. Strays' /\ Channels'
  BY <1>1, <1>2, <1>3 DEF TransportInv, Strays, Channels
<1>8. Order'
  <2>1. sent' = sent /\ call' = call /\ commands' = commands /\ events' = events /\ Taken' = Taken /\ Order
    BY <1>1, <1>2, <1>3, Zenon DEF TransportInv
  <2>2. (\A n, m \in DOMAIN sent : sent[n] = sent[m] => n = m)' /\ (\A c \in Calls : call[c].pc \in {"idle", "sending"} => \A n \in DOMAIN sent : sent[n] # c)'
    BY <2>1, Zenon DEF Order
  <2>3. (Len(commands) <= Len(sent) /\ \A i \in DOMAIN commands : commands[i] = sent[Taken + i])'
    BY <2>1, Zenon DEF Order
  <2>4. (\A i \in DOMAIN events : IsCommand(events[i]) => \E n \in 1 .. Taken : sent[n] = events[i].of)'
    BY <2>1, Zenon DEF Order, IsCommand
  <2>5. (\A i, j \in DOMAIN events : i < j /\ IsCommand(events[i]) /\ IsCommand(events[j]) =>
           \A n, m \in DOMAIN sent : sent[n] = events[i].of /\ sent[m] = events[j].of => n < m)'
    <3> SUFFICES ASSUME NEW i \in DOMAIN events', NEW j \in DOMAIN events', i < j, IsCommand(events'[i]), IsCommand(events'[j]),
                        NEW n \in DOMAIN sent', NEW m \in DOMAIN sent', sent'[n] = events'[i].of, sent'[m] = events'[j].of
                 PROVE  n < m
      BY Zenon DEF IsCommand
    <3>1. /\ i \in DOMAIN events /\ j \in DOMAIN events /\ n \in DOMAIN sent /\ m \in DOMAIN sent
          /\ events'[i] = events[i] /\ events'[j] = events[j] /\ sent'[n] = sent[n] /\ sent'[m] = sent[m]
      BY <2>1, Zenon
    <3>2. IsCommand(events[i]) /\ IsCommand(events[j]) /\ sent[n] = events[i].of /\ sent[m] = events[j].of
      BY <3>1, Zenon
    <3> QED
      BY <2>1, <3>1, <3>2, Zenon DEF Order
  <2> QED
    BY <2>2, <2>3, <2>4, <2>5, Zenon DEF Order
<1>9. Untouched'
  BY <1>1, <1>2, <1>3, Zenon DEF TransportInv, Untouched, Fresh, Queued
<1>10. Shutdowns'
  <2>1. \A c : IsSent(c)' => IsSent(c)
    BY <1>2, Zenon DEF IsSent
  <2>2. \A c \in Callers : Kind(c) = "shutdown" /\ call[c].told = "ok" /\ IsSent(c) => Final(reply[c])
    BY Zenon DEF TransportInv, Shutdowns
  <2>3. Types /\ Order /\ Shutdowns
    BY Zenon DEF TransportInv, Types
  <2> QED
    BY <1>1, <1>2, <1>3, <2>1, <2>2, <2>3, QuietShutdowns, Zenon
<1> QED
  BY <1>4, <1>5, <1>6, <1>7, <1>8, <1>9, <1>10, Zenon DEF TransportInv

LEMMA NextInv == ASSUME TransportInv, Next PROVE TransportInv'
<1>0. Types /\ Alignment /\ Strays /\ Channels /\ Order /\ Untouched /\ Shutdowns
  BY Zenon DEF TransportInv, Types
<1>1. \/ (\E c \in Calls : CallerStep(c)) \/ Abort \/ DropHandle
      \/ DaemonStep \/ ForwarderStep \/ forward_responses \/ ActorStep
  BY Zenon DEF Next, CallerStep, DaemonStep
<1>2. Types'
  BY <1>0, <1>1, CallerTypes, DaemonTypes, ForwarderTypes, ActorTypes, Zenon
<1>3. Alignment'
  BY <1>0, <1>1, CallerAlignment, DaemonAlignment, ForwarderAlignment, ActorAlignment, Zenon
<1>4. Strays' /\ Channels' /\ Order' /\ Untouched' /\ Shutdowns'
  BY <1>0, <1>2, StraysStep, ChannelsStep, OrderStep, UntouchedStep, ShutdownsStep, Zenon
<1> QED
  BY <1>2, <1>3, <1>4, Zenon DEF TransportInv, Types

(* The invariant of the transport: its queues are typed and within their   *)
(* capacities, the answers on their way match the calls that are pending,  *)
(* commands are handled in the order they were sent, and a shutdown waits  *)
(* for what was sent before it.                                            *)
THEOREM TransportIsSafe == Spec => []TransportInv
<1>1. Init => TransportInv
  BY InitInv, Zenon
<1>2. TransportInv /\ [Next]_vars => TransportInv'
  BY NextInv, StutterInv, Zenon
<1> QED
  BY <1>1, <1>2, PTL DEF Spec

LEMMA Joins ==
    ASSUME NEW S, NEW a \in Seq(S), NEW b \in Seq(S)
    PROVE  /\ a \o b \in Seq(S) /\ Len(a \o b) = Len(a) + Len(b)
           /\ \A i \in DOMAIN (a \o b) :
                (i \in DOMAIN a /\ (a \o b)[i] = a[i]) \/ (i - Len(a) \in DOMAIN b /\ (a \o b)[i] = b[i - Len(a)])
OBVIOUS

LEMMA InvAligned == ASSUME TransportInv PROVE AnswersStayAligned
<1>t. Types /\ Alignment /\ Strays /\ Channels
  BY Zenon DEF TransportInv, Types
<1>1. TypeOK
  BY <1>t, CallsAssumption, Zenon DEF Types, CallTypes, CallRecord, CallStates, WireTypes, Capacities, TypeOK
<1>2. \A i \in DOMAIN Stream : IsAnswer(Stream[i]) => IsFor(Stream[i], Before(Stream, i) + 1)
  BY <1>t, ZenonT(30) DEF Alignment, Fits, Matches, IsFor
<1>3. ASSUME Running, server.open
      PROVE  /\ Len(pending) = Completed(Stream) + Len(Unanswered)
             /\ \A i \in DOMAIN Unanswered : IsFor(Unanswered[i], Completed(Stream) + i)
  <2> DEFINE n == Completed(Stream)
             w == IF server.wait = None THEN <<>> ELSE <<[of |-> server.wait, name |-> "wait"]>>
  <2>1. n \in Nat /\ to_server \in Seq(Message) /\ frame \in Seq(Message) /\ Len(pending) \in Nat /\ DOMAIN pending = 1 .. Len(pending)
    BY <1>t, StreamTypes
  <2>2. Rest(n, pending, server.wait, to_server, frame)
    BY <1>3, <1>t, Zenon DEF Alignment
  <2>3. w \in Seq(Message) /\ Len(w) = Working(server.wait)
    <3>1. CASE server.wait = None
      BY <3>1 DEF Working
    <3>2. CASE server.wait # None
      <4>1. [of |-> server.wait, name |-> "wait"] \in Message
        BY <1>t, <3>2, Zenon DEF Types, WireTypes, Message, Names, Kinds
      <4> HIDE DEF Message
      <4> QED
        BY <3>2, <4>1 DEF Working
    <3> QED
      BY <3>1, <3>2, Zenon
  <2>4. Unanswered = w \o to_server \o frame
    BY Zenon DEF Unanswered
  <2>5. /\ Len(pending) = n + Len(w) + Len(to_server) + Len(frame)
        /\ \A i \in DOMAIN w : w[i].of = pending[n + i].of
        /\ \A i \in DOMAIN to_server : to_server[i].of = pending[n + Len(w) + i].of
        /\ \A i \in DOMAIN frame : frame[i].of = pending[n + Len(w) + Len(to_server) + i].of
    <3>1. \A i \in DOMAIN w : w[i].of = pending[n + i].of
      <4>1. CASE server.wait = None
        BY <4>1
      <4>2. CASE server.wait # None
        <5>1. pending[n + 1].of = server.wait
          BY <2>2, <4>2, Zenon DEF Rest
        <5>2. DOMAIN w = {1} /\ w[1].of = server.wait
          BY <4>2
        <5> QED
          BY <5>1, <5>2, Zenon
      <4> QED
        BY <4>1, <4>2, Zenon
    <3> HIDE DEF w, n
    <3> QED
      BY <2>2, <2>3, <3>1 DEF Rest, Asked
  <2> HIDE DEF w, n, Message
  <2>6. /\ Len(Unanswered) = Len(w) + Len(to_server) + Len(frame) /\ Unanswered \in Seq(Message)
        /\ \A i \in DOMAIN Unanswered :
             \/ i \in DOMAIN w /\ Unanswered[i] = w[i]
             \/ i - Len(w) \in DOMAIN to_server /\ Unanswered[i] = to_server[i - Len(w)]
             \/ i - Len(w) - Len(to_server) \in DOMAIN frame /\ Unanswered[i] = frame[i - Len(w) - Len(to_server)]
    <3> DEFINE u == w \o to_server
    <3>1. u \in Seq(Message) /\ Len(u) = Len(w) + Len(to_server)
          /\ \A i \in DOMAIN u : (i \in DOMAIN w /\ u[i] = w[i]) \/ (i - Len(w) \in DOMAIN to_server /\ u[i] = to_server[i - Len(w)])
      BY <2>1, <2>3, Joins, Zenon
    <3>2. Unanswered = u \o frame
      BY <2>4, Zenon
    <3> HIDE DEF u
    <3>3. /\ Unanswered \in Seq(Message) /\ Len(Unanswered) = Len(u) + Len(frame)
          /\ \A i \in DOMAIN Unanswered :
               (i \in DOMAIN u /\ Unanswered[i] = u[i]) \/ (i - Len(u) \in DOMAIN frame /\ Unanswered[i] = frame[i - Len(u)])
      <4>1. /\ u \o frame \in Seq(Message) /\ Len(u \o frame) = Len(u) + Len(frame)
            /\ \A i \in DOMAIN (u \o frame) :
                 (i \in DOMAIN u /\ (u \o frame)[i] = u[i]) \/ (i - Len(u) \in DOMAIN frame /\ (u \o frame)[i] = frame[i - Len(u)])
        <5>1. u \in Seq(Message) /\ frame \in Seq(Message)
          BY <2>1, <3>1, Zenon
        <5> QED
          BY <5>1, Joins, Zenon
      <4> QED
        BY <3>2, <4>1, Zenon
    <3>4. \A i \in DOMAIN Unanswered : i - Len(u) = i - Len(w) - Len(to_server)
      <4>1. \A i \in DOMAIN Unanswered : i \in Nat
        BY <3>3
      <4>2. Len(w) \in Nat /\ Len(to_server) \in Nat
        BY <2>1, <2>3
      <4> QED
        BY SMTT(30), <3>1, <4>1, <4>2
    <3>5. Len(Unanswered) = Len(w) + Len(to_server) + Len(frame)
      BY <3>1, <3>3, Zenon
    <3>6. ASSUME NEW i \in DOMAIN Unanswered
          PROVE  \/ i \in DOMAIN w /\ Unanswered[i] = w[i]
                 \/ i - Len(w) \in DOMAIN to_server /\ Unanswered[i] = to_server[i - Len(w)]
                 \/ i - Len(w) - Len(to_server) \in DOMAIN frame /\ Unanswered[i] = frame[i - Len(w) - Len(to_server)]
      <4>1. CASE i \in DOMAIN u /\ Unanswered[i] = u[i]
        BY <3>1, <4>1, Zenon
      <4>2. CASE i - Len(u) \in DOMAIN frame /\ Unanswered[i] = frame[i - Len(u)]
        BY <3>4, <4>2, Zenon
      <4> QED
        BY <3>3, <4>1, <4>2, Zenon
    <3> QED
      BY <3>3, <3>5, <3>6, Zenon
  <2>7. Len(w) \in Nat /\ Len(to_server) \in Nat /\ Len(frame) \in Nat /\ DOMAIN Unanswered = 1 .. Len(Unanswered)
    BY SMTT(30), <2>1, <2>3, <2>6
  <2>8. ASSUME NEW i \in DOMAIN Unanswered PROVE Unanswered[i].of = pending[n + i].of /\ n + i \in DOMAIN pending
    <3>1. i \in Nat /\ n + i \in DOMAIN pending
      BY SMTT(30), <2>1, <2>5, <2>6, <2>7
    <3>2. n + Len(w) + (i - Len(w)) = n + i /\ n + Len(w) + Len(to_server) + (i - Len(w) - Len(to_server)) = n + i
      BY <2>1, <2>7, <3>1
    <3> QED
      BY SMTT(30), <2>5, <2>6, <3>1, <3>2
  <2> QED
    BY <2>1, <2>5, <2>6, <2>7, <2>8 DEF n, IsFor
<1>4. ~May("stray") => terminal_failure \notin {"unsolicited", "mismatched"}
  BY <1>t, Zenon DEF Strays
<1>5. \A c \in Callers : call[c].told \in {"ok", "refused"} /\ Kind(c) \notin {"guard", "shutdown"} => call[c].of = c
  BY <1>t, CallersAreCalls, Zenon DEF Types, Channels
<1> QED
  BY <1>1, <1>2, <1>3, <1>4, <1>5, Zenon DEF AnswersStayAligned

(* Answers are matched by order, and for any callers, capacities and       *)
(* faults the calls that are pending are those with an answer on its way,  *)
(* in that order: handle_response never gives a caller another's answer.   *)
THEOREM AnswersAreAligned == Spec => []AnswersStayAligned
BY TransportIsSafe, InvAligned, PTL

(* A wait that armed_request returned was begun by the daemon.             *)
THEOREM WaitsAreArmed == Spec => []ArmedIsArmed
<1>1. TransportInv => ArmedIsArmed
  BY Zenon DEF TransportInv, Channels, ArmedIsArmed
<1> QED
  BY <1>1, TransportIsSafe, PTL

LEMMA InvShutdown == ASSUME TransportInv PROVE ShutdownLosesNothing
<1> SUFFICES ASSUME NEW c \in Callers, Kind(c) = "shutdown", call[c].told = "ok", IsSent(c),
                    NEW d \in Callers, IsSent(d), Position(d) < Position(c), Kind(d) # "guard", Encodes(d)
             PROVE  Final(reply[d])
  BY Zenon DEF ShutdownLosesNothing, Final
<1>1. ASSUME NEW x, IsSent(x) PROVE Position(x) \in DOMAIN sent /\ sent[Position(x)] = x
  BY <1>1, Zenon DEF IsSent, Position
<1>2. actor = "gone" /\ \A n \in DOMAIN sent : sent[n] = c => \A k \in 1 .. (n - 1) : Settled(sent[k])
  BY Zenon DEF TransportInv, Shutdowns
<1>3. sent \in Seq(Callers)
  BY Zenon DEF TransportInv, CallTypes
<1>4. Position(d) \in 1 .. (Position(c) - 1)
  <2>1. Position(d) \in DOMAIN sent /\ Position(c) \in DOMAIN sent
    BY <1>1, Zenon
  <2> HIDE DEF Position
  <2> QED
    BY <1>3, <2>1
<1>5. Settled(d)
  BY <1>1, <1>2, <1>4, ZenonT(30)
<1>6. ~IsPending(d)
  BY <1>2 DEF TransportInv, GoneIsEmpty, IsPending
<1> QED
  BY <1>5, <1>6, Zenon DEF Settled

(* A shutdown that succeeds has lost nothing: every call sent before it    *)
(* was answered by the daemon, or could not be encoded.                    *)
THEOREM ShutdownsLoseNothing == Spec => []ShutdownLosesNothing
BY TransportIsSafe, InvShutdown, PTL
=============================================================================
