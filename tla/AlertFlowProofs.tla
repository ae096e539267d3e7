----------------------------- MODULE AlertFlowProofs -----------------------------
(***************************************************************************)
(* Proofs about the flow from alerts to runs, for any alerts, sources,      *)
(* durations and capacities, and for any hash.                              *)
(***************************************************************************)
EXTENDS AlertFlow, FiniteSetTheorems, SequenceTheorems, TLAPS

(* The goroutine has an alert in hand.                                      *)
HandOK == gpc # "recv" => evt \in Alerts

(* A run is remembered under its alert's key until its window is over, or   *)
(* a later run of an alert with the same key is.                            *)
Over(a) == started[a] = Never \/ now >= started[a] + Duration

RemembersOK ==
    \A a \in Alerts :
        /\ started[a] # Never => started[a] <= now
        /\ \/ Over(a)
           \/ \E r \in lastRuns : r[1] = KeyOf[a] /\ r[2] >= started[a] + Duration

(* What got past IsSuppressed may run.                                      *)
PassedOK == gpc = "start" => Over(evt)

FlowInv == TypeOK /\ HandOK /\ RemembersOK /\ PassedOK

-------------------------------------------------------------------------------
(* A range visits every label.                                              *)
LEMMA RangeVisitsAll ==
  ASSUME NEW keys, IsFiniteSet(keys), NEW s \in RangeOrders(keys)
  PROVE  {s[i] : i \in DOMAIN s} = keys
<1> DEFINE n == Cardinality(keys)
<1>1. /\ s \in [1 .. n -> keys] /\ DOMAIN s = 1 .. n
      /\ \A i, j \in 1 .. n : s[i] = s[j] => i = j
  BY DEF RangeOrders
<1>2. s \in Injection(1 .. n, keys)
  BY <1>1 DEF Injection, IsInjective
<1>3. IsFiniteSet(1 .. n) /\ Cardinality(1 .. n) = n
  BY FS_CardinalityType, FS_Interval
<1>4. s \in Surjection(1 .. n, keys)
  BY <1>2, <1>3, FS_Injection
<1>5. \A k \in keys : \E i \in 1 .. n : s[i] = k
  BY <1>4 DEF Surjection
<1> HIDE DEF n
<1>6. \A k \in {s[i] : i \in 1 .. n} : k \in keys
  BY <1>1
<1>7. \A k \in keys : k \in {s[i] : i \in 1 .. n}
  BY <1>5
<1> QED
  BY <1>1, <1>6, <1>7

(* sort.Strings undoes the order of the range: whichever order the map's    *)
(* keys come in, Event.Key is the same.                                     *)
LEMMA KeyIsStable ==
  ASSUME NEW a \in Alerts, NEW order \in RangeOrders(DOMAIN a)
  PROVE  Key(ToEvent(a), order) = KeyOf[a]
<1> DEFINE keys == DOMAIN a
           other == CHOOSE o \in RangeOrders(keys) : TRUE
<1>1. IsFiniteSet(keys)
  BY FlowAssumption
<1>2. other \in RangeOrders(keys)
  OBVIOUS
<1>3. SortStrings(order) = SortStrings(other)
  BY <1>1, <1>2, RangeVisitsAll DEF SortStrings
<1> QED
  BY <1>3 DEF Key, KeyOf, HashedText

-------------------------------------------------------------------------------
LEMMA Bounds ==
  Duration \in Nat \ {0} /\ Cap \in Nat \ {0} /\ MaxTime \in Nat /\ Steady \subseteq Alerts
  BY FlowAssumption

(* Nothing has run when the goroutine starts.                               *)
LEMMA InitInv == Init => FlowInv
<1> SUFFICES ASSUME Init PROVE FlowInv
  OBVIOUS
<1> USE Bounds
<1>1. Never \in 0 .. Never /\ now \in 0 .. MaxTime /\ Len(buf) <= Cap
  BY DEF Init, Never
<1>2. TypeOK
  BY <1>1 DEF Init, TypeOK
<1> QED
  BY <1>2 DEF Init, FlowInv, HandOK, RemembersOK, PassedOK, Over

(* Every step preserves it.                                                 *)
LEMMA StepInv == FlowInv /\ [Next]_vars => FlowInv'
<1> SUFFICES ASSUME FlowInv, [Next]_vars PROVE FlowInv'
  OBVIOUS
<1> USE Bounds DEF FlowInv, goVars
<1>0. /\ now \in Nat /\ \A a \in Alerts : started[a] \in Nat
      /\ \A r \in lastRuns : r[2] \in Nat
      /\ Never \in Nat
  BY DEF TypeOK, Never
<1>1. ASSUME UNCHANGED <<goVars, now>>, TypeOK' PROVE FlowInv'
  BY <1>1 DEF HandOK, RemembersOK, PassedOK, Over
<1>2. ASSUME NEW a \in Alerts, AlertChanges(a) \/ Deliver(a) PROVE FlowInv'
  <2>1. TypeOK'
    <3>1. CASE AlertChanges(a)
      BY <3>1 DEF AlertChanges, TypeOK
    <3>2. CASE Deliver(a)
      <4>1. /\ buf' \in Seq(Alerts) /\ Len(buf') <= Cap
        BY <3>2 DEF Deliver, TypeOK
      <4>2. bus' \subseteq Alerts
        BY <3>2 DEF Deliver, TypeOK
      <4> QED
        BY <3>2, <4>1, <4>2 DEF Deliver, TypeOK
    <3> QED
      BY <1>2, <3>1, <3>2
  <2> QED
    BY <1>1, <1>2, <2>1 DEF AlertChanges, Deliver
<1>3. ASSUME NEW s \in Sources, Poll(s) PROVE FlowInv'
  <2>1. TypeOK'
    BY <1>3 DEF Poll, TypeOK
  <2> QED
    BY <1>1, <1>3, <2>1 DEF Poll
<1>4. ASSUME NEW s \in Sources, NEW a \in Alerts, Publish(s, a) PROVE FlowInv'
  <2>1. TypeOK'
    BY <1>4 DEF Publish, TypeOK
  <2> QED
    BY <1>1, <1>4, <2>1 DEF Publish
<1>5. ASSUME Tick PROVE FlowInv'
  <2>1. now' = now + 1 /\ now' \in 0 .. MaxTime
    BY <1>5 DEF Tick, TypeOK
  <2>2. TypeOK'
    BY <1>5, <2>1 DEF Tick, TypeOK
  <2>3. RemembersOK'
    BY <1>0, <1>5, <2>1 DEF Tick, RemembersOK, Over
  <2>4. PassedOK' /\ HandOK'
    BY <1>0, <1>5, <2>1 DEF Tick, PassedOK, HandOK, Over
  <2> QED
    BY <2>2, <2>3, <2>4
<1>6. ASSUME Receive PROVE FlowInv'
  <2>1. Head(buf) \in Alerts /\ Tail(buf) \in Seq(Alerts) /\ Len(Tail(buf)) <= Cap
    BY <1>6 DEF Receive, TypeOK
  <2>2. TypeOK'
    BY <1>6, <2>1 DEF Receive, TypeOK
  <2> QED
    BY <1>6, <2>1, <2>2 DEF Receive, HandOK, RemembersOK, PassedOK, Over
<1>7. ASSUME GetCounterMeasure PROVE FlowInv'
  <2>1. TypeOK'
    BY <1>7 DEF GetCounterMeasure, TypeOK
  <2>2. RemembersOK'
    BY <1>0, <1>7 DEF GetCounterMeasure, RemembersOK, Over
  <2> QED
    BY <1>7, <2>1, <2>2 DEF GetCounterMeasure, HandOK, PassedOK
<1>8. ASSUME Check PROVE FlowInv'
  <2>1. evt \in Alerts /\ UNCHANGED <<firing, unsent, bus, buf, lastRuns, now, started>>
    BY <1>8 DEF Check, HandOK
  <2>2. PICK order \in RangeOrders(DOMAIN evt) :
           IF IsSuppressed(Key(ToEvent(evt), order))
           THEN gpc' = "recv" /\ evt' = NoAlert
           ELSE gpc' = "start" /\ UNCHANGED evt
    BY <1>8 DEF Check
  <2>3. Key(ToEvent(evt), order) = KeyOf[evt]
    BY <2>1, KeyIsStable
  <2>4. TypeOK' /\ HandOK'
    BY <2>1, <2>2 DEF TypeOK, HandOK
  <2>5. RemembersOK'
    BY <2>1 DEF RemembersOK, Over
  <2>6. PassedOK'
    <3> SUFFICES ASSUME gpc' = "start" PROVE Over(evt) /\ evt' = evt
      BY <2>1 DEF PassedOK, Over
    <3>1. ~IsSuppressed(KeyOf[evt]) /\ evt' = evt
      BY <2>2, <2>3
    <3> QED
      BY <1>0, <2>1, <3>1 DEF IsSuppressed, RemembersOK, Over
  <2> QED
    BY <2>4, <2>5, <2>6
<1>9. ASSUME CounterMeasureStart PROVE FlowInv'
  <2>1. /\ evt \in Alerts /\ started' = [started EXCEPT ![evt] = now]
        /\ gpc' = "run" /\ UNCHANGED <<firing, unsent, bus, buf, evt, now>>
    BY <1>9 DEF CounterMeasureStart, HandOK
  <2>2. PICK order \in RangeOrders(DOMAIN evt) :
           lastRuns' = {r \in lastRuns : r[1] # Key(ToEvent(evt), order)}
                       \union {<<Key(ToEvent(evt), order), now + Duration>>}
    BY <1>9 DEF CounterMeasureStart
  <2> DEFINE k == KeyOf[evt]
  <2>3. lastRuns' = {r \in lastRuns : r[1] # k} \union {<<k, now + Duration>>}
    BY <2>1, <2>2, KeyIsStable
  <2> HIDE DEF k
  <2>4. TypeOK'
    <3>1. now + Duration \in 0 .. MaxTime + Duration /\ now \in 0 .. Never
      BY DEF TypeOK, Never
    <3>2. started' \in [Alerts -> 0 .. Never]
      BY <2>1, <3>1 DEF TypeOK
    <3>3. \A r \in lastRuns' : r[2] \in 0 .. MaxTime + Duration
      BY <2>3, <3>1 DEF TypeOK
    <3>4. \A r, s \in lastRuns' : r[1] = s[1] => r = s
      BY <2>3 DEF TypeOK
    <3> QED
      BY <2>1, <3>2, <3>3, <3>4 DEF TypeOK
  <2>5. RemembersOK'
    <3> SUFFICES ASSUME NEW a \in Alerts
                 PROVE  /\ started'[a] # Never => started'[a] <= now
                        /\ \/ started'[a] = Never
                           \/ now >= started'[a] + Duration
                           \/ \E r \in lastRuns' : /\ r[1] = KeyOf[a]
                                                   /\ r[2] >= started'[a] + Duration
      BY <2>1 DEF RemembersOK, Over
    <3>1. <<k, now + Duration>> \in lastRuns'
      BY <2>3
    <3>2. CASE a = evt
      <4>1. started'[a] = now
        BY <2>1, <3>2 DEF TypeOK
      <4> QED
        BY <1>0, <3>1, <3>2, <4>1 DEF k
    <3>3. CASE a # evt
      <4>1. started'[a] = started[a]
        BY <2>1, <3>3 DEF TypeOK
      <4>2. CASE KeyOf[a] = k
        BY <1>0, <3>1, <4>1, <4>2 DEF RemembersOK
      <4>3. CASE KeyOf[a] # k
        BY <2>3, <4>1, <4>3 DEF RemembersOK, Over
      <4> QED
        BY <4>2, <4>3
    <3> QED
      BY <3>2, <3>3
  <2> QED
    BY <2>1, <2>4, <2>5 DEF HandOK, PassedOK
<1>10. ASSUME Run PROVE FlowInv'
  <2>1. TypeOK'
    BY <1>10 DEF Run, TypeOK
  <2> QED
    BY <1>10, <2>1 DEF Run, HandOK, RemembersOK, PassedOK, Over
<1>11. ASSUME UNCHANGED vars PROVE FlowInv'
  BY <1>11 DEF vars, TypeOK, HandOK, RemembersOK, PassedOK, Over
<1> QED
  BY <1>2, <1>3, <1>4, <1>5, <1>6, <1>7, <1>8, <1>9, <1>10, <1>11
  DEF Next, GoStep, SourceStep

(* It holds throughout.                                                     *)
LEMMA Invariance == Spec => []FlowInv
  BY InitInv, StepInv, PTL DEF Spec

-------------------------------------------------------------------------------
(* The flow's state is well typed, and Entry.lastRuns has one time per key. *)
THEOREM TypeCorrect == Spec => []TypeOK
  BY Invariance, PTL DEF FlowInv

(* However often, from however many sources and in whatever order of its    *)
(* labels an alert arrives, it does not start a second run before its       *)
(* suppression is over; not even if the hash makes its key another's.       *)
THEOREM NotTwiceInWindow == Spec => OncePerWindow
<1>1. FlowInv /\ [Next]_vars =>
        [gpc = "start" /\ gpc' = "run"
         => started[evt] = Never \/ now >= started[evt] + Duration]_vars
  BY DEF FlowInv, PassedOK, Over
<1> QED
  BY <1>1, Invariance, PTL DEF Spec, OncePerWindow

-------------------------------------------------------------------------------
(* Induction over the natural numbers, as a fact about sets.                *)

LEMMA LeastElement ==
  ASSUME NEW T \in SUBSET Nat, T # {}
  PROVE  \E x \in T : \A y \in T : x <= y
<1> DEFINE R == OpToRel(<, Nat)
<1>1. IsWellFoundedOn(R, Nat)
  BY NatLessThanWellFounded
<1>2. PICK x \in T : \A y \in T : ~(<<y, x>> \in R)
  <2> HIDE DEF R
  <2> QED
    BY <1>1, WFMin
<1>3. \A y \in T : ~(y < x)
  BY <1>2 DEF OpToRel
<1> QED
  BY <1>3

LEMMA SetInduction ==
  ASSUME NEW T, 0 \in T, \A n \in Nat : n \in T => n + 1 \in T
  PROVE  \A n \in Nat : n \in T
<1> SUFFICES ASSUME Nat \ T # {} PROVE FALSE
  OBVIOUS
<1>1. PICK x \in Nat \ T : \A y \in Nat \ T : x <= y
  BY LeastElement
<1>2. x # 0
  OBVIOUS
<1>3. x - 1 \in Nat /\ x - 1 \notin Nat \ T
  BY <1>1, <1>2
<1> QED
  BY <1>3

-------------------------------------------------------------------------------
(* sort.Strings succeeds: a finite set of labels has a sorted order, the    *)
(* least label before the sorted others.                                    *)
Sorted(t) == \A i, j \in DOMAIN t : i < j => t[i] < t[j]

LEMMA SortedOrder ==
  ASSUME NEW S \in SUBSET Nat, IsFiniteSet(S)
  PROVE  \E t \in [1 .. Cardinality(S) -> S] : Sorted(t)
<1> DEFINE T == {n \in Nat : \A U \in SUBSET Nat :
                    IsFiniteSet(U) /\ Cardinality(U) = n => \E t \in [1 .. n -> U] : Sorted(t)}
<1>1. 0 \in T
  <2> SUFFICES ASSUME NEW U \in SUBSET Nat PROVE \E t \in [1 .. 0 -> U] : Sorted(t)
    OBVIOUS
  <2> DEFINE t == [i \in 1 .. 0 |-> 0]
  <2>1. t \in [1 .. 0 -> U] /\ Sorted(t)
    BY DEF Sorted
  <2> QED
    BY <2>1
<1>2. ASSUME NEW n \in Nat, n \in T PROVE n + 1 \in T
  <2> SUFFICES ASSUME NEW U \in SUBSET Nat, IsFiniteSet(U), Cardinality(U) = n + 1
               PROVE  \E t \in [1 .. n + 1 -> U] : Sorted(t)
    OBVIOUS
  <2>1. U # {}
    BY FS_EmptySet
  <2>2. PICK x \in U : \A y \in U : x <= y
    BY <2>1, LeastElement
  <2>3. IsFiniteSet(U \ {x}) /\ Cardinality(U \ {x}) = n
    <3>1. Cardinality(U \ {x}) = Cardinality(U) - 1 /\ IsFiniteSet(U \ {x})
      BY FS_RemoveElement
    <3> QED
      BY <3>1
  <2>4. PICK t \in [1 .. n -> U \ {x}] : Sorted(t)
    BY <1>2, <2>3
  <2> DEFINE u == [i \in 1 .. n + 1 |-> IF i = 1 THEN x ELSE t[i - 1]]
  <2>5. \A i \in 1 .. n : t[i] \in U /\ t[i] \in Nat /\ x < t[i]
    <3> SUFFICES ASSUME NEW i \in 1 .. n PROVE t[i] \in U /\ t[i] \in Nat /\ x < t[i]
      OBVIOUS
    <3>1. t[i] \in U /\ t[i] # x
      BY <2>4
    <3>2. t[i] \in Nat /\ x \in Nat /\ x <= t[i]
      BY <2>2, <3>1
    <3> QED
      BY <3>1, <3>2
  <2>6. \A i \in 1 .. n + 1 : i = 1 \/ (i - 1 \in 1 .. n /\ u[i] = t[i - 1])
    OBVIOUS
  <2>7. u[1] = x /\ DOMAIN u = 1 .. n + 1
    OBVIOUS
  <2>8. u \in [1 .. n + 1 -> U]
    BY <2>5
  <2> HIDE DEF u
  <2>9. ASSUME NEW i \in 1 .. n + 1, NEW j \in 1 .. n + 1, i < j PROVE u[i] < u[j]
    <3>1. j - 1 \in 1 .. n /\ u[j] = t[j - 1]
      BY <2>6, <2>9
    <3>2. CASE i = 1
      BY <2>5, <2>7, <3>1, <3>2
    <3>3. CASE i # 1
      <4>1. i - 1 \in 1 .. n /\ u[i] = t[i - 1] /\ i - 1 < j - 1
        BY <2>6, <2>9, <3>3
      <4>2. DOMAIN t = 1 .. n
        BY <2>4
      <4> QED
        BY <2>4, <3>1, <4>1, <4>2 DEF Sorted
    <3> QED
      BY <3>2, <3>3
  <2> QED
    BY <2>7, <2>8, <2>9 DEF Sorted
<1>3. Cardinality(S) \in Nat
  BY FS_CardinalityType
<1>4. Cardinality(S) \in T
  <2> HIDE DEF T
  <2> QED
    BY <1>1, <1>2, <1>3, SetInduction
<1> QED
  BY <1>4

(* Hence it returns each label once.                                        *)
LEMMA SortStringsVisitsAll ==
  ASSUME NEW keys \in SUBSET Nat, IsFiniteSet(keys), NEW order \in RangeOrders(keys)
  PROVE  SortStrings(order) \in RangeOrders(keys)
<1>1. {order[i] : i \in DOMAIN order} = keys
  BY RangeVisitsAll
<1>2. PICK t \in [1 .. Cardinality(keys) -> keys] : Sorted(t)
  BY SortedOrder
<1>3. Cardinality(keys) \in Nat
  BY FS_CardinalityType
<1>4. \A i, j \in DOMAIN t : t[i] = t[j] => i = j
  <2> SUFFICES ASSUME NEW i \in DOMAIN t, NEW j \in DOMAIN t, i # j PROVE t[i] # t[j]
    OBVIOUS
  <2>1. i \in Nat /\ j \in Nat /\ t[i] \in Nat /\ t[j] \in Nat
    <3>1. i \in 1 .. Cardinality(keys) /\ j \in 1 .. Cardinality(keys)
      BY <1>2
    <3>2. t[i] \in keys /\ t[j] \in keys
      BY <1>2, <3>1
    <3>3. \A k \in keys : k \in Nat
      OBVIOUS
    <3>4. i \in Nat /\ j \in Nat
      BY <1>3, <3>1
    <3> QED
      BY <3>2, <3>3, <3>4
  <2>2. i < j \/ j < i
    BY <2>1
  <2>3. t[i] < t[j] \/ t[j] < t[i]
    BY <1>2, <2>2 DEF Sorted
  <2> QED
    BY <2>1, <2>3
<1>5. t \in RangeOrders(keys) /\ \A i, j \in DOMAIN t : i < j => t[i] < t[j]
  BY <1>2, <1>4 DEF RangeOrders, Sorted
<1>6. SortStrings(order) = CHOOSE u \in RangeOrders(keys) :
                               \A i, j \in DOMAIN u : i < j => u[i] < u[j]
  BY <1>1 DEF SortStrings
<1> QED
  BY <1>5, <1>6, Zenon

-------------------------------------------------------------------------------
(* The loop over the keys has a solution: WriteValues is what its equation  *)
(* says.                                                                    *)
Written(data, keys, g, n) == IF n = 0 THEN <<>> ELSE g[n - 1] \o data[keys[n]]

LEMMA WriteEquation ==
  ASSUME NEW data, NEW keys, Len(keys) \in Nat
  PROVE  \E m : /\ m = [n \in 0 .. Len(keys) |-> Written(data, keys, m, n)]
                /\ WriteValues(data, keys) = m[Len(keys)]
<1> DEFINE T == {k \in Nat : \E g : g = [n \in 0 .. k |-> Written(data, keys, g, n)]}
<1>1. 0 \in T
  <2> DEFINE g == [n \in 0 .. 0 |-> <<>>]
  <2>1. g = [n \in 0 .. 0 |-> Written(data, keys, g, n)]
    BY DEF Written
  <2> QED
    BY <2>1
<1>2. ASSUME NEW k \in Nat, k \in T PROVE k + 1 \in T
  <2>1. PICK g : g = [n \in 0 .. k |-> Written(data, keys, g, n)]
    BY <1>2
  <2> DEFINE h == [n \in 0 .. k + 1 |-> Written(data, keys, g, n)]
  <2>2. \A n \in 0 .. k : h[n] = g[n]
    <3>1. \A n \in 0 .. k : g[n] = Written(data, keys, g, n)
      BY <2>1
    <3> QED
      BY <3>1
  <2>3. \A n \in 0 .. k + 1 : Written(data, keys, g, n) = Written(data, keys, h, n)
    <3> HIDE DEF h
    <3> SUFFICES ASSUME NEW n \in 0 .. k + 1, n # 0
                 PROVE  g[n - 1] = h[n - 1]
      BY DEF Written
    <3>1. n - 1 \in 0 .. k
      OBVIOUS
    <3> QED
      BY <2>2, <3>1
  <2>4. h = [n \in 0 .. k + 1 |-> Written(data, keys, h, n)]
    BY <2>3, Zenon
  <2> HIDE DEF h
  <2> QED
    BY <2>4
<1>3. Len(keys) \in T
  <2> HIDE DEF T
  <2> QED
    BY <1>1, <1>2, SetInduction
<1> DEFINE m == CHOOSE g : g = [n \in 0 .. Len(keys) |-> Written(data, keys, g, n)]
<1>4. m = [n \in 0 .. Len(keys) |-> Written(data, keys, m, n)]
  BY <1>3, Zenon
<1>5. WriteValues(data, keys) = m[Len(keys)]
  BY Zenon DEF WriteValues, Written
<1> QED
  BY <1>4, <1>5, Zenon

(* The values of one key tell two maps apart that agree on the other keys:  *)
(* what is written before and after it is the same.                         *)
LEMMA OneValueApart ==
  ASSUME NEW a, NEW b, NEW s, Len(s) \in Nat, NEW p \in 1 .. Len(s),
         \A i \in 1 .. Len(s) : a[s[i]] \in Seq(STRING) /\ b[s[i]] \in Seq(STRING),
         a[s[p]] # b[s[p]],
         \A i \in 1 .. Len(s) : i # p => a[s[i]] = b[s[i]]
  PROVE  /\ WriteValues(a, s) \in Seq(STRING) /\ WriteValues(b, s) \in Seq(STRING)
         /\ WriteValues(a, s) # WriteValues(b, s)
<1>1. PICK u : /\ u = [n \in 0 .. Len(s) |-> Written(a, s, u, n)]
               /\ WriteValues(a, s) = u[Len(s)]
  BY WriteEquation
<1>2. PICK v : /\ v = [n \in 0 .. Len(s) |-> Written(b, s, v, n)]
               /\ WriteValues(b, s) = v[Len(s)]
  BY WriteEquation
<1>3. ASSUME NEW k \in Nat, k + 1 <= Len(s)
      PROVE  u[k + 1] = u[k] \o a[s[k + 1]] /\ v[k + 1] = v[k] \o b[s[k + 1]]
  <2>1. k + 1 \in 0 .. Len(s) /\ k + 1 # 0 /\ (k + 1) - 1 = k
    BY <1>3
  <2>2. u[k + 1] = Written(a, s, u, k + 1) /\ v[k + 1] = Written(b, s, v, k + 1)
    BY <1>1, <1>2, <2>1
  <2> QED
    BY <2>1, <2>2 DEF Written
<1>4. u[0] = <<>> /\ v[0] = <<>>
  <2>1. 0 \in 0 .. Len(s)
    OBVIOUS
  <2>2. u[0] = Written(a, s, u, 0) /\ v[0] = Written(b, s, v, 0)
    BY <1>1, <1>2, <2>1
  <2> QED
    BY <2>2 DEF Written
<1> DEFINE T == {k \in Nat : k <= Len(s) =>
                    /\ u[k] \in Seq(STRING) /\ v[k] \in Seq(STRING)
                    /\ u[k] = v[k] <=> k < p}
<1>5. 0 \in T
  <2>1. <<>> \in Seq(STRING) /\ 0 < p
    BY EmptySeq
  <2> QED
    BY <1>4, <2>1
<1>6. ASSUME NEW k \in Nat, k \in T PROVE k + 1 \in T
  <2> SUFFICES ASSUME k + 1 <= Len(s)
               PROVE  /\ u[k + 1] \in Seq(STRING) /\ v[k + 1] \in Seq(STRING)
                      /\ u[k + 1] = v[k + 1] <=> k + 1 < p
    OBVIOUS
  <2> DEFINE x == a[s[k + 1]]
             y == b[s[k + 1]]
             f == u[k]
             g == v[k]
  <2>1. f \in Seq(STRING) /\ g \in Seq(STRING) /\ (f = g <=> k < p)
    BY <1>6
  <2>2. x \in Seq(STRING) /\ y \in Seq(STRING) /\ (x = y <=> k + 1 # p)
    <3>1. k + 1 \in 1 .. Len(s)
      OBVIOUS
    <3> QED
      BY <3>1
  <2>3. u[k + 1] = f \o x /\ v[k + 1] = g \o y
    BY <1>3
  <2> HIDE DEF x, y, f, g, T
  <2>4. u[k + 1] \in Seq(STRING) /\ v[k + 1] \in Seq(STRING)
    BY <2>1, <2>2, <2>3, ConcatProperties
  <2>5. CASE k + 1 < p
    <3>1. f = g /\ x = y
      BY <2>1, <2>2, <2>5
    <3> QED
      BY <2>3, <2>4, <2>5, <3>1
  <2>6. CASE k + 1 = p
    <3>1. f = g /\ x # y
      BY <2>1, <2>2, <2>6
    <3>2. f \o x = f \o y => x = y
      BY <2>1, <2>2, ConcatSimplifications, Zenon
    <3>3. u[k + 1] # v[k + 1]
      BY <2>3, <3>1, <3>2, Zenon
    <3>4. ~(k + 1 < p)
      BY <2>6
    <3> QED
      BY <2>4, <3>3, <3>4
  <2>7. CASE k + 1 > p
    <3>1. f # g /\ x = y
      BY <2>1, <2>2, <2>7
    <3>2. f \o x = g \o x => f = g
      BY <2>1, <2>2, ConcatSimplifications, Zenon
    <3>3. u[k + 1] # v[k + 1]
      BY <2>3, <3>1, <3>2, Zenon
    <3>4. ~(k + 1 < p)
      BY <2>7
    <3> QED
      BY <2>4, <3>3, <3>4
  <2> QED
    BY <2>5, <2>6, <2>7
<1>7. Len(s) \in T
  <2> HIDE DEF T
  <2> QED
    BY <1>5, <1>6, SetInduction
<1>8. ~(Len(s) < p)
  OBVIOUS
<1> QED
  BY <1>1, <1>2, <1>7, <1>8

-------------------------------------------------------------------------------
(* The alerts the countermeasure is subscribed to.                          *)
Named == {a \in Alerts : ToEvent(a).name = EventName}

(* The text that is hashed for an alert.                                    *)
TextOf(a) == HashedText(ToEvent(a), CHOOSE order \in RangeOrders(DOMAIN a) : TRUE)

(* They have the same labels and differ in the value of one: another pod,   *)
(* node or instance.                                                        *)
OneLabelApart(a, b) ==
    /\ DOMAIN a = DOMAIN b
    /\ \E l \in DOMAIN a : a[l] # b[l] /\ \A k \in DOMAIN a \ {l} : a[k] = b[k]

(* Event.Key writes the values one after the other with nothing between     *)
(* them, and still writes different texts for alerts of the event that have *)
(* the same labels and differ in one of them.  Their keys differ unless the *)
(* hash itself collides on the two texts.                                   *)
THEOREM OneLabelTellsApart ==
  \A a, b \in Named : OneLabelApart(a, b) => TextOf(a) # TextOf(b)
<1> SUFFICES ASSUME NEW a \in Named, NEW b \in Named, OneLabelApart(a, b)
             PROVE  TextOf(a) # TextOf(b)
  OBVIOUS
<1> DEFINE keys == DOMAIN a
           o == CHOOSE order \in RangeOrders(keys) : TRUE
           s == SortStrings(o)
           c == Cardinality(keys)
<1>1. a \in Alerts /\ b \in Alerts /\ ToEvent(a).name = EventName /\ ToEvent(b).name = EventName
  BY DEF Named
<1>2. DOMAIN b = keys
  BY DEF OneLabelApart
<1>3. PICK l \in keys : a[l] # b[l] /\ \A k \in keys \ {l} : a[k] = b[k]
  BY DEF OneLabelApart
<1>4. /\ IsFiniteSet(keys) /\ keys \in SUBSET Nat
      /\ \A k \in keys : a[k] \in Seq(STRING) /\ b[k] \in Seq(STRING)
  BY <1>1, <1>2, FlowAssumption
<1>5. c \in Nat
  BY <1>4, FS_CardinalityType
<1>6. s \in RangeOrders(keys)
  <2>1. PICK t \in [1 .. c -> keys] : Sorted(t)
    BY <1>4, SortedOrder
  <2>2. ASSUME NEW i \in DOMAIN t, NEW j \in DOMAIN t, t[i] = t[j] PROVE i = j
    <3>1. i \in 1 .. c /\ j \in 1 .. c /\ DOMAIN t = 1 .. c
      BY <2>1
    <3>2. i \in Nat /\ j \in Nat
      BY <1>5, <3>1
    <3>3. t[i] \in Nat /\ t[j] \in Nat
      <4>1. t[i] \in keys /\ t[j] \in keys
        BY <2>1, <3>1
      <4> QED
        BY <1>4, <4>1
    <3>4. ~(t[i] < t[j]) /\ ~(t[j] < t[i])
      BY <2>2, <3>3
    <3>5. ~(i < j) /\ ~(j < i)
      BY <2>1, <3>4 DEF Sorted
    <3> QED
      BY <3>2, <3>5
  <2>3. t \in RangeOrders(keys)
    BY <2>1, <2>2 DEF RangeOrders
  <2>4. o \in RangeOrders(keys)
    BY <2>3
  <2> QED
    BY <1>4, <2>4, SortStringsVisitsAll
<1>7. /\ TextOf(a) = EventName \o WriteValues(a, s)
      /\ TextOf(b) = EventName \o WriteValues(b, s)
  BY <1>1, <1>2 DEF TextOf, HashedText, ToEvent
<1> HIDE DEF o, s, c, keys
<1>8. /\ s \in [1 .. c -> keys] /\ DOMAIN s = 1 .. c
      /\ \A i, j \in 1 .. c : s[i] = s[j] => i = j
  BY <1>6 DEF RangeOrders, c
<1>9. Len(s) = c
  <2>1. s \in Seq(keys)
    BY <1>5, <1>8, SeqDef
  <2>2. Len(s) \in Nat /\ DOMAIN s = 1 .. Len(s)
    BY <2>1, LenProperties
  <2> QED
    BY <1>5, <1>8, <2>2
<1>10. PICK p \in 1 .. c : s[p] = l
  <2>1. {s[i] : i \in DOMAIN s} = keys
    BY <1>4, <1>6, RangeVisitsAll
  <2> QED
    BY <1>3, <1>8, <2>1
<1>11. /\ \A i \in 1 .. Len(s) : a[s[i]] \in Seq(STRING) /\ b[s[i]] \in Seq(STRING)
       /\ \A i \in 1 .. Len(s) : i # p => a[s[i]] = b[s[i]]
  <2> SUFFICES ASSUME NEW i \in 1 .. c
               PROVE  /\ a[s[i]] \in Seq(STRING) /\ b[s[i]] \in Seq(STRING)
                      /\ i # p => a[s[i]] = b[s[i]]
    BY <1>9
  <2>1. s[i] \in keys /\ (i # p => s[i] # l)
    BY <1>8, <1>10
  <2> QED
    BY <1>3, <1>4, <2>1
<1>12. /\ WriteValues(a, s) \in Seq(STRING) /\ WriteValues(b, s) \in Seq(STRING)
       /\ WriteValues(a, s) # WriteValues(b, s)
  <2>1. Len(s) \in Nat /\ p \in 1 .. Len(s)
    BY <1>5, <1>9
  <2>2. a[s[p]] # b[s[p]]
    BY <1>3, <1>10
  <2> QED
    BY <1>11, <2>1, <2>2, OneValueApart
<1>13. EventName \in Seq(STRING)
  <2>1. EventName = IF AlertName \in keys THEN a[AlertName] ELSE <<>>
    BY <1>1 DEF ToEvent, keys
  <2> QED
    BY <1>4, <2>1, EmptySeq
<1>14. EventName \o WriteValues(a, s) # EventName \o WriteValues(b, s)
  BY <1>12, <1>13, ConcatSimplifications, Zenon
<1> QED
  BY <1>7, <1>14

-------------------------------------------------------------------------------
(* Only alerts of the event's name get to the goroutine.                    *)
NamedOK ==
    /\ bus \subseteq Named
    /\ buf \in Seq(Named)
    /\ gpc # "recv" => evt \in Named

(* An entry of lastRuns is the last start of an alert with that key.        *)
TracedOK ==
    \A r \in lastRuns : \E a \in Named :
        started[a] # Never /\ r = <<KeyOf[a], started[a] + Duration>>

SkipInv == FlowInv /\ NamedOK /\ TracedOK

LEMMA InitSkip == Init => SkipInv
<1> SUFFICES ASSUME Init PROVE SkipInv
  OBVIOUS
<1>1. NamedOK /\ TracedOK
  BY EmptySeq DEF Init, NamedOK, TracedOK
<1> QED
  BY <1>1, InitInv DEF SkipInv

LEMMA StepSkip == SkipInv /\ [Next]_vars => SkipInv'
<1> SUFFICES ASSUME SkipInv, [Next]_vars PROVE SkipInv'
  OBVIOUS
<1>1. FlowInv'
  BY StepInv DEF SkipInv
<1> SUFFICES NamedOK' /\ TracedOK'
  BY <1>1 DEF SkipInv
<1> USE DEF SkipInv, goVars
<1>2. ASSUME NEW a \in Alerts, AlertChanges(a) PROVE NamedOK' /\ TracedOK'
  BY <1>2 DEF AlertChanges, NamedOK, TracedOK
<1>3. ASSUME NEW a \in Alerts, Deliver(a) PROVE NamedOK' /\ TracedOK'
  <2>1. a \in Named /\ buf' = Append(buf, a) /\ bus' \subseteq bus /\ UNCHANGED goVars
    BY <1>3 DEF Deliver, NamedOK
  <2>2. buf' \in Seq(Named)
    BY <2>1, AppendProperties DEF NamedOK
  <2> QED
    BY <2>1, <2>2 DEF NamedOK, TracedOK
<1>4. ASSUME NEW s \in Sources, Poll(s) PROVE NamedOK' /\ TracedOK'
  BY <1>4 DEF Poll, NamedOK, TracedOK
<1>5. ASSUME NEW s \in Sources, NEW a \in Alerts, Publish(s, a) PROVE NamedOK' /\ TracedOK'
  <2> DEFINE name == ToEvent(a).name
             topic == FullyQualifiedTopicName(name, s)
  <2>1. /\ bus' = IF SubSeq(topic, 1, 1) = <<EventName>> THEN bus \union {a} ELSE bus
        /\ UNCHANGED <<buf, goVars>>
    BY <1>5 DEF Publish
  <2>2. SubSeq(topic, 1, 1) = <<name>>
    <3>1. s \in Seq(Seq(STRING)) /\ name \in Seq(STRING)
      <4>1. name = IF AlertName \in DOMAIN a THEN a[AlertName] ELSE <<>>
        BY DEF ToEvent
      <4> QED
        BY <4>1, FlowAssumption, EmptySeq
    <3> HIDE DEF name
    <3>2. <<name>> \in Seq(Seq(STRING)) /\ Len(<<name>>) = 1
      BY <3>1
    <3>3. 1 \in 1 .. Len(<<name>>)
      BY <3>2
    <3>4. SubSeq(<<name>> \o s, 1, 1) = SubSeq(<<name>>, 1, 1)
      BY <3>1, <3>2, <3>3, SubSeqOfConcat1
    <3>5. SubSeq(<<name>>, 1, 1) = <<name>>
      BY <3>2, SubSeqFull
    <3> QED
      BY <3>4, <3>5 DEF FullyQualifiedTopicName
  <2>3. SubSeq(topic, 1, 1) = <<EventName>> => a \in Named
    BY <2>2 DEF Named
  <2> HIDE DEF topic
  <2>4. bus' \subseteq Named
    BY <2>1, <2>3 DEF NamedOK
  <2> QED
    BY <2>1, <2>4 DEF NamedOK, TracedOK
<1>6. ASSUME Tick PROVE NamedOK' /\ TracedOK'
  BY <1>6 DEF Tick, NamedOK, TracedOK
<1>7. ASSUME Receive PROVE NamedOK' /\ TracedOK'
  <2>1. Head(buf) \in Named /\ Tail(buf) \in Seq(Named)
    BY <1>7, HeadTailProperties DEF Receive, NamedOK
  <2> QED
    BY <1>7, <2>1 DEF Receive, NamedOK, TracedOK
<1>8. ASSUME GetCounterMeasure PROVE NamedOK' /\ TracedOK'
  BY <1>8 DEF GetCounterMeasure, NamedOK, TracedOK
<1>9. ASSUME Check PROVE NamedOK' /\ TracedOK'
  BY <1>9 DEF Check, NamedOK, TracedOK
<1>10. ASSUME CounterMeasureStart PROVE NamedOK' /\ TracedOK'
  <2>1. /\ evt \in Named /\ evt \in Alerts /\ gpc' = "run"
        /\ started' = [started EXCEPT ![evt] = now]
        /\ UNCHANGED <<bus, buf, evt, now>>
    BY <1>10 DEF CounterMeasureStart, NamedOK, Named
  <2>2. PICK order \in RangeOrders(DOMAIN evt) :
           lastRuns' = {r \in lastRuns : r[1] # Key(ToEvent(evt), order)}
                       \union {<<Key(ToEvent(evt), order), now + Duration>>}
    BY <1>10 DEF CounterMeasureStart
  <2> DEFINE k == KeyOf[evt]
  <2>3. lastRuns' = {r \in lastRuns : r[1] # k} \union {<<k, now + Duration>>}
    BY <2>1, <2>2, KeyIsStable
  <2>4. NamedOK'
    BY <2>1 DEF NamedOK
  <2>5. started \in [Alerts -> 0 .. Never] /\ now \in 0 .. MaxTime
    BY DEF FlowInv, TypeOK
  <2>6. now # Never
    BY <2>5, Bounds DEF Never
  <2>7. TracedOK'
    <3> SUFFICES ASSUME NEW r \in lastRuns'
                 PROVE  \E a \in Named :
                            started'[a] # Never /\ r = <<KeyOf[a], started'[a] + Duration>>
      BY DEF TracedOK
    <3>1. CASE r = <<k, now + Duration>>
      <4>1. started'[evt] = now
        BY <2>1, <2>5
      <4> QED
        BY <2>1, <2>6, <3>1, <4>1
    <3>2. CASE r \in lastRuns /\ r[1] # k
      <4>1. PICK a \in Named : started[a] # Never /\ r = <<KeyOf[a], started[a] + Duration>>
        BY <3>2 DEF TracedOK
      <4>2. a # evt
        BY <3>2, <4>1
      <4>3. started'[a] = started[a]
        BY <2>1, <2>5, <4>2 DEF Named
      <4> QED
        BY <4>1, <4>3
    <3> QED
      BY <2>3, <3>1, <3>2
  <2> QED
    BY <2>4, <2>7
<1>11. ASSUME Run PROVE NamedOK' /\ TracedOK'
  BY <1>11 DEF Run, NamedOK, TracedOK
<1>12. ASSUME UNCHANGED vars PROVE NamedOK' /\ TracedOK'
  BY <1>12 DEF vars, NamedOK, TracedOK
<1> QED
  BY <1>2, <1>3, <1>4, <1>5, <1>6, <1>7, <1>8, <1>9, <1>10, <1>11, <1>12
  DEF Next, GoStep, SourceStep

(* The suppression policy skips an event only because an alert with its key *)
(* started a run less than the duration ago: clearExpiredLastRuns, the      *)
(* window's end and runs under other keys never make it skip, whichever     *)
(* alerts the hash gives one key.                                           *)
THEOREM SkippedForAKey == Spec => SkippedForItsKey
<1> DEFINE Recent(a) == /\ KeyOf[a] = KeyOf[evt]
                        /\ started[a] # Never
                        /\ now < started[a] + Duration
<1>1. Spec => []SkipInv
  BY InitSkip, StepSkip, PTL DEF Spec
<1>2. ASSUME SkipInv, [Next]_vars, gpc = "check", gpc' = "recv"
      PROVE  \E a \in Alerts : Recent(a)
  <2>1. evt \in Named /\ evt \in Alerts
    BY <1>2 DEF SkipInv, NamedOK, Named
  <2>2. Check
    BY <1>2 DEF Next, GoStep, SourceStep, Tick, AlertChanges, Deliver, Poll, Publish, goVars,
              Receive, GetCounterMeasure, CounterMeasureStart, Run, vars
  <2>3. PICK order \in RangeOrders(DOMAIN evt) : IsSuppressed(Key(ToEvent(evt), order))
    BY <1>2, <2>2 DEF Check
  <2>4. PICK r \in lastRuns : r[1] = KeyOf[evt] /\ r[2] > now
    BY <2>1, <2>3, KeyIsStable DEF IsSuppressed
  <2>5. PICK a \in Named : started[a] # Never /\ r = <<KeyOf[a], started[a] + Duration>>
    BY <1>2 DEF SkipInv, TracedOK
  <2>6. a \in Alerts /\ KeyOf[a] = KeyOf[evt] /\ started[a] + Duration > now
    BY <2>4, <2>5 DEF Named
  <2>7. now \in Nat /\ started[a] \in Nat /\ Duration \in Nat
    BY <1>2, <2>6, Bounds DEF SkipInv, FlowInv, TypeOK, Never
  <2> QED
    BY <2>5, <2>6, <2>7
<1>3. SkipInv /\ [Next]_vars =>
        [gpc = "check" /\ gpc' = "recv" => \E a \in Alerts : Recent(a)]_vars
  BY <1>2
<1> QED
  BY <1>1, <1>3, PTL DEF Spec, SkippedForItsKey
===============================================================================
