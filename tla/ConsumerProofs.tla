------------------------------ MODULE ConsumerProofs ------------------------------
(***************************************************************************)
(* Proofs about subscription matching and merged consumers, for any topics  *)
(* and any number of subscriptions and events.  The recursion of            *)
(* SubscriberMatch is dealt with by induction on the number of segments.    *)
(***************************************************************************)
EXTENDS MergedConsumers, SequenceTheorems, FiniteSetTheorems, TLAPS

(* The slices of the map: a topic's slice holds the open channels of that   *)
(* topic, in the order in which Subscribe made them.                        *)
SubsTypeOK ==
    /\ subs \in [Topics -> Seq(Nat)]
    /\ topicOf \in Seq(Topics \union {<<>>})
    /\ Len(topicOf) <= MaxSubs

SlicesOK ==
    \A t \in Topics :
        /\ \A c : (\E i \in DOMAIN subs[t] : subs[t][i] = c)
                     <=> c \in DOMAIN topicOf /\ topicOf[c] = t
        /\ \A i, j \in DOMAIN subs[t] : i < j => subs[t][i] < subs[t][j]

SubsInv == SubsTypeOK /\ SlicesOK

-------------------------------------------------------------------------------
(* Induction over the natural numbers, as a fact about sets.                *)

LEMMA LeastElement ==
  ASSUME NEW T \in SUBSET Nat, T # {}
  PROVE  \E x \in T : \A y \in T : x <= y
<1> DEFINE R == OpToRel(<, Nat)
<1>1. IsWellFoundedOn(R, Nat)
  BY NatLessThanWellFounded
<1>2. PICK x \in T : \A y \in T : ~(<<y, x>> \in R)
  <2> HIDE DEF R
  <2> QED
    BY <1>1, WFMin
<1>3. \A y \in T : ~(y < x)
  BY <1>2 DEF OpToRel
<1> QED
  BY <1>3

LEMMA SetInduction ==
  ASSUME NEW T, 0 \in T, \A n \in Nat : n \in T => n + 1 \in T
  PROVE  \A n \in Nat : n \in T
<1> SUFFICES ASSUME Nat \ T # {} PROVE FALSE
  OBVIOUS
<1>1. PICK x \in Nat \ T : \A y \in Nat \ T : x <= y
  BY LeastElement
<1>2. x # 0
  OBVIOUS
<1>3. x - 1 \in Nat /\ x - 1 \notin Nat \ T
  BY <1>1, <1>2
<1> QED
  BY <1>3

-------------------------------------------------------------------------------
(* The recursion has a solution: SubscriberMatch is what its equation says. *)
Level(t, g, n) == IF n = 0 THEN <<>> ELSE subs[Join(t, n)] \o g[n - 1]

LEMMA MatchEquation ==
  ASSUME NEW t, Len(t) \in Nat
  PROVE  \E m : /\ m = [n \in 0 .. Len(t) |-> Level(t, m, n)]
                /\ SubscriberMatch(t) = m[Len(t)]
<1> DEFINE T == {k \in Nat : \E g : g = [n \in 0 .. k |-> Level(t, g, n)]}
<1>1. 0 \in T
  <2> DEFINE g == [n \in 0 .. 0 |-> <<>>]
  <2>1. g = [n \in 0 .. 0 |-> Level(t, g, n)]
    BY DEF Level
  <2> QED
    BY <2>1
<1>2. ASSUME NEW k \in Nat, k \in T PROVE k + 1 \in T
  <2>1. PICK g : g = [n \in 0 .. k |-> Level(t, g, n)]
    BY <1>2
  <2> DEFINE h == [n \in 0 .. k + 1 |-> Level(t, g, n)]
  <2>2. \A n \in 0 .. k : h[n] = g[n]
    <3>1. \A n \in 0 .. k : g[n] = Level(t, g, n)
      BY <2>1
    <3> QED
      BY <3>1
  <2>3. \A n \in 0 .. k + 1 : Level(t, g, n) = Level(t, h, n)
    <3> HIDE DEF h
    <3> SUFFICES ASSUME NEW n \in 0 .. k + 1, n # 0
                 PROVE  g[n - 1] = h[n - 1]
      BY DEF Level
    <3>1. n - 1 \in 0 .. k
      OBVIOUS
    <3> QED
      BY <2>2, <3>1
  <2>4. h = [n \in 0 .. k + 1 |-> Level(t, h, n)]
    BY <2>3, Zenon
  <2> HIDE DEF h
  <2> QED
    BY <2>4
<1>3. Len(t) \in T
  <2> HIDE DEF T
  <2> QED
    BY <1>1, <1>2, SetInduction
<1> DEFINE m == CHOOSE g : g = [n \in 0 .. Len(t) |-> Level(t, g, n)]
<1>4. m = [n \in 0 .. Len(t) |-> Level(t, m, n)]
  BY <1>3, Zenon
<1>5. SubscriberMatch(t) = m[Len(t)]
  BY Zenon DEF SubscriberMatch, Level
<1> QED
  BY <1>4, <1>5, Zenon

-------------------------------------------------------------------------------
(* What the recursion has gathered of the prefixes of t up to length k.     *)
Gathered(t, s, k) ==
    /\ s \in Seq(Nat)
    /\ \A c : (\E i \in DOMAIN s : s[i] = c)
                <=> c \in DOMAIN topicOf /\ \E d \in 1 .. k : topicOf[c] = Join(t, d)
    /\ \A i, j \in DOMAIN s : i < j => Before(s[i], s[j])

LEMMA PrefixTopics ==
  ASSUME NEW t \in Topics
  PROVE  /\ t \in Seq(STRING) /\ Len(t) \in Nat \ {0} /\ DOMAIN t = 1 .. Len(t)
         /\ \A d \in 1 .. Len(t) : Join(t, d) \in Topics /\ Len(Join(t, d)) = d
<1>1. t \in Seq(STRING) /\ Len(t) \in Nat \ {0} /\ DOMAIN t = 1 .. Len(t)
  BY MatcherAssumption, EmptySeq, LenProperties
<1>2. ASSUME NEW d \in 1 .. Len(t)
      PROVE  Join(t, d) \in Topics /\ Len(Join(t, d)) = d
  <2>1. \A i \in 1 .. d : t[i] \in STRING
    BY <1>1
  <2>2. Len(SubSeq(t, 1, d)) = d
    BY <1>1, <2>1, SubSeqProperties
  <2> QED
    BY <1>1, <2>2, MatcherAssumption DEF Join
<1> QED
  BY <1>1, <1>2

(* One more level: the slice of the longer prefix goes in front.            *)
LEMMA GatherLevel ==
  ASSUME SubsInv, NEW t \in Topics, NEW k \in Nat, k + 1 <= Len(t),
         NEW s, Gathered(t, s, k)
  PROVE  Gathered(t, subs[Join(t, k + 1)] \o s, k + 1)
<1> DEFINE u == Join(t, k + 1)
           r == subs[u]
           m == r \o s
<1>1. u \in Topics /\ Len(u) = k + 1 /\ Len(t) \in Nat
  BY PrefixTopics
<1>2. \A d \in 1 .. k : Len(Join(t, d)) = d
  BY PrefixTopics
<1>3. r \in Seq(Nat) /\ s \in Seq(Nat)
  BY <1>1 DEF SubsInv, SubsTypeOK, Gathered
<1>4. /\ \A c : (\E i \in DOMAIN r : r[i] = c)
                   <=> c \in DOMAIN topicOf /\ topicOf[c] = u
      /\ \A i, j \in DOMAIN r : i < j => r[i] < r[j]
  BY <1>1 DEF SubsInv, SlicesOK
<1>5. /\ \A c : (\E i \in DOMAIN s : s[i] = c)
                   <=> c \in DOMAIN topicOf /\ \E d \in 1 .. k : topicOf[c] = Join(t, d)
      /\ \A i, j \in DOMAIN s : i < j => Before(s[i], s[j])
  BY DEF Gathered
<1> HIDE DEF u
<1> HIDE DEF r
<1>6. /\ m \in Seq(Nat) /\ DOMAIN m = 1 .. Len(r) + Len(s)
      /\ DOMAIN r = 1 .. Len(r) /\ DOMAIN s = 1 .. Len(s)
      /\ Len(r) \in Nat /\ Len(s) \in Nat
      /\ \A i \in 1 .. Len(r) + Len(s) :
            m[i] = IF i <= Len(r) THEN r[i] ELSE s[i - Len(r)]
  BY <1>3, ConcatProperties, LenProperties
<1> HIDE DEF m
<1>6a. \A i \in DOMAIN r : i \in DOMAIN m /\ m[i] = r[i]
  <2> SUFFICES ASSUME NEW i \in DOMAIN r PROVE i \in DOMAIN m /\ m[i] = r[i]
    OBVIOUS
  <2>1. i \in 1 .. Len(r) + Len(s) /\ i <= Len(r)
    BY <1>6
  <2> QED
    BY <1>6, <2>1
<1>6b. \A i \in DOMAIN m : ~(i <= Len(r)) =>
            i - Len(r) \in DOMAIN s /\ m[i] = s[i - Len(r)]
  <2> SUFFICES ASSUME NEW i \in DOMAIN m, ~(i <= Len(r))
               PROVE  i - Len(r) \in DOMAIN s /\ m[i] = s[i - Len(r)]
    OBVIOUS
  <2>1. i \in 1 .. Len(r) + Len(s)
    BY <1>6
  <2>2. m[i] = s[i - Len(r)]
    BY <1>6, <2>1
  <2>3. i - Len(r) \in 1 .. Len(s)
    BY <1>6, <2>1
  <2> QED
    BY <1>6, <2>2, <2>3
<1>6c. \A i \in DOMAIN m : i <= Len(r) => i \in DOMAIN r
  BY <1>6
<1>7. ASSUME NEW c
      PROVE  (\E i \in DOMAIN m : m[i] = c)
                <=> (\E i \in DOMAIN r : r[i] = c) \/ (\E i \in DOMAIN s : s[i] = c)
  <2>1. ASSUME NEW i \in DOMAIN m
        PROVE  (\E j \in DOMAIN r : r[j] = m[i]) \/ (\E j \in DOMAIN s : s[j] = m[i])
    <3>1. CASE i <= Len(r)
      BY <1>6a, <1>6c, <3>1
    <3>2. CASE ~(i <= Len(r))
      BY <1>6b, <3>2
    <3> QED
      BY <3>1, <3>2
  <2>2. ASSUME NEW i \in DOMAIN r PROVE \E j \in DOMAIN m : m[j] = r[i]
    BY <1>6a
  <2>3. ASSUME NEW i \in DOMAIN s PROVE \E j \in DOMAIN m : m[j] = s[i]
    <3>1. /\ i + Len(r) \in 1 .. Len(r) + Len(s)
          /\ ~(i + Len(r) <= Len(r)) /\ (i + Len(r)) - Len(r) = i
      BY <1>6
    <3>2. i + Len(r) \in DOMAIN m
      BY <1>6, <3>1
    <3>3. m[i + Len(r)] = s[(i + Len(r)) - Len(r)]
      BY <1>6b, <3>1, <3>2
    <3> QED
      BY <3>1, <3>2, <3>3
  <2> QED
    BY <2>1, <2>2, <2>3
<1>8. ASSUME NEW c
      PROVE  (\E i \in DOMAIN m : m[i] = c)
                <=> c \in DOMAIN topicOf /\ \E d \in 1 .. k + 1 : topicOf[c] = Join(t, d)
  <2>1. (\E d \in 1 .. k + 1 : topicOf[c] = Join(t, d))
           <=> topicOf[c] = u \/ \E d \in 1 .. k : topicOf[c] = Join(t, d)
    BY DEF u
  <2> QED
    BY <1>4, <1>5, <1>7, <2>1
<1>9. ASSUME NEW i \in DOMAIN m, NEW j \in DOMAIN m, i < j
      PROVE  Before(m[i], m[j])
  <2>0. i \in Nat /\ j \in Nat /\ Len(r) \in Nat
    BY <1>6
  <2>1. CASE j <= Len(r)
    <3>1. i <= Len(r)
      BY <1>9, <2>0, <2>1
    <3>2. i \in DOMAIN r /\ j \in DOMAIN r /\ m[i] = r[i] /\ m[j] = r[j]
      BY <1>6a, <1>6c, <2>1, <3>1
    <3>3. topicOf[m[i]] = u /\ topicOf[m[j]] = u /\ m[i] < m[j]
      BY <1>4, <1>9, <3>2
    <3> QED
      BY <3>3, <1>1 DEF Before
  <2>2. CASE i <= Len(r) /\ ~(j <= Len(r))
    <3>1. /\ i \in DOMAIN r /\ m[i] = r[i]
          /\ j - Len(r) \in DOMAIN s /\ m[j] = s[j - Len(r)]
      BY <1>6a, <1>6c, <1>6b, <2>2
    <3>2. topicOf[m[i]] = u
      BY <1>4, <3>1
    <3>3. PICK d \in 1 .. k : topicOf[m[j]] = Join(t, d)
      BY <1>5, <3>1
    <3> QED
      BY <3>2, <3>3, <1>1, <1>2 DEF Before
  <2>3. CASE ~(i <= Len(r))
    <3>1. ~(j <= Len(r)) /\ i - Len(r) < j - Len(r)
      BY <1>9, <2>0, <2>3
    <3>2. /\ i - Len(r) \in DOMAIN s /\ m[i] = s[i - Len(r)]
          /\ j - Len(r) \in DOMAIN s /\ m[j] = s[j - Len(r)]
      BY <1>6b, <2>3, <3>1
    <3> QED
      BY <1>5, <3>1, <3>2
  <2> QED
    BY <2>1, <2>2, <2>3
<1>10. Gathered(t, m, k + 1)
  BY <1>6, <1>8, <1>9 DEF Gathered
<1> QED
  BY <1>10 DEF m, r, u

(* SubscriberMatch gathers all the prefixes.                                *)
LEMMA MatchGathers ==
  ASSUME SubsInv, NEW t \in Topics
  PROVE  Gathered(t, SubscriberMatch(t), Len(t))
<1>1. Len(t) \in Nat
  BY PrefixTopics
<1>2. PICK m : /\ m = [n \in 0 .. Len(t) |-> Level(t, m, n)]
               /\ SubscriberMatch(t) = m[Len(t)]
  BY <1>1, MatchEquation
<1>3. \A n \in 0 .. Len(t) : m[n] = Level(t, m, n)
  BY <1>2
<1> DEFINE T == {k \in Nat : k <= Len(t) => Gathered(t, m[k], k)}
<1>4. 0 \in T
  <2>1. m[0] = <<>>
    BY <1>1, <1>3 DEF Level
  <2>2. <<>> \in Seq(Nat) /\ DOMAIN <<>> = {}
    BY EmptySeq
  <2>3. Gathered(t, <<>>, 0)
    BY <2>2 DEF Gathered
  <2> QED
    BY <2>1, <2>3
<1>5. ASSUME NEW k \in Nat, k \in T PROVE k + 1 \in T
  <2> SUFFICES ASSUME k + 1 <= Len(t) PROVE Gathered(t, m[k + 1], k + 1)
    OBVIOUS
  <2>1. Gathered(t, m[k], k)
    BY <1>1, <1>5
  <2>2. m[k + 1] = subs[Join(t, k + 1)] \o m[k]
    <3>1. k + 1 \in 0 .. Len(t) /\ k + 1 # 0 /\ (k + 1) - 1 = k
      BY <1>1
    <3> QED
      BY <1>3, <3>1 DEF Level
  <2> QED
    BY <2>1, <2>2, GatherLevel
<1>6. Len(t) \in T
  <2> HIDE DEF T
  <2> QED
    BY <1>1, <1>4, <1>5, SetInduction
<1> QED
  BY <1>1, <1>2, <1>6

(* The topics that SubscriberMatch cuts out of t are its prefixes, and so   *)
(* it returns what MatchIsOrderedPrefixes says.                             *)
LEMMA MatchCorrect ==
  ASSUME SubsInv
  PROVE  MatchIsOrderedPrefixes
<1> SUFFICES ASSUME NEW t \in Topics
             PROVE  LET chs == SubscriberMatch(t)
                    IN  /\ Range(chs) = {c \in DOMAIN topicOf : /\ topicOf[c] # <<>>
                                                                /\ IsPrefix(topicOf[c], t)}
                        /\ \A i, j \in DOMAIN chs : i < j => Before(chs[i], chs[j])
  BY DEF MatchIsOrderedPrefixes
<1>1. Gathered(t, SubscriberMatch(t), Len(t))
  BY MatchGathers
<1>2. ASSUME NEW c \in DOMAIN topicOf
      PROVE  topicOf[c] # <<>> /\ IsPrefix(topicOf[c], t)
                <=> \E d \in 1 .. Len(t) : topicOf[c] = Join(t, d)
  <2>1. topicOf[c] \in Topics \union {<<>>}
    BY DEF SubsInv, SubsTypeOK
  <2>2. \A u \in Topics : SubSeq(u, 1, Len(u)) = u /\ Len(u) \in Nat \ {0}
    BY PrefixTopics, SubSeqFull
  <2>3. <<>> \notin Topics
    BY MatcherAssumption
  <2>4. ASSUME topicOf[c] # <<>>, IsPrefix(topicOf[c], t)
        PROVE  \E d \in 1 .. Len(t) : topicOf[c] = Join(t, d)
    <3>1. Len(topicOf[c]) \in 1 .. Len(t) /\ topicOf[c] = Join(t, Len(topicOf[c]))
      BY <2>1, <2>2, <2>4 DEF IsPrefix, Join
    <3> QED
      BY <3>1
  <2>5. ASSUME NEW d \in 1 .. Len(t), topicOf[c] = Join(t, d)
        PROVE  topicOf[c] # <<>> /\ IsPrefix(topicOf[c], t)
    <3>1. topicOf[c] \in Topics /\ Len(topicOf[c]) = d
      BY <2>5, PrefixTopics
    <3> QED
      BY <2>2, <2>3, <2>5, <3>1 DEF IsPrefix, Join
  <2> QED
    BY <2>4, <2>5
<1> QED
  BY <1>1, <1>2 DEF Gathered, Range

(* Hence a match is an open channel.                                        *)
LEMMA MatchIsOpen ==
  ASSUME SubsInv, NEW t \in Topics
  PROVE  Range(SubscriberMatch(t)) \subseteq {c \in Chans : c \in DOMAIN topicOf /\ ~Closed(c)}
<1>1. \A c \in Range(SubscriberMatch(t)) : c \in DOMAIN topicOf /\ topicOf[c] # <<>>
  BY MatchCorrect, Zenon DEF MatchIsOrderedPrefixes
<1>2. DOMAIN topicOf \subseteq Chans
  <2>1. DOMAIN topicOf = 1 .. Len(topicOf) /\ Len(topicOf) \in Nat
    BY LenProperties DEF SubsInv, SubsTypeOK
  <2> QED
    BY <2>1, MatcherAssumption DEF SubsInv, SubsTypeOK, Chans
<1> QED
  BY <1>1, <1>2 DEF Closed

-------------------------------------------------------------------------------
(* What removing one entry of a slice leaves.                               *)
LEMMA RemoveIndexProperties ==
  ASSUME NEW s \in Seq(Nat), NEW idx \in DOMAIN s,
         \A i, j \in DOMAIN s : i < j => s[i] < s[j]
  PROVE  LET r == RemoveIndex(s, idx)
         IN  /\ r \in Seq(Nat)
             /\ \A c : (\E i \in DOMAIN r : r[i] = c)
                         <=> c # s[idx] /\ \E i \in DOMAIN s : s[i] = c
             /\ \A i, j \in DOMAIN r : i < j => r[i] < r[j]
<1> DEFINE r == RemoveIndex(s, idx)
           a == SubSeq(s, 1, idx - 1)
           b == SubSeq(s, idx + 1, Len(s))
<1>1. Len(s) \in Nat /\ DOMAIN s = 1 .. Len(s) /\ idx \in 1 .. Len(s)
  BY LenProperties
<1>2. \A i \in 1 .. Len(s) : s[i] \in Nat
  BY <1>1
<1>3. /\ a \in Seq(Nat) /\ Len(a) = idx - 1
      /\ \A i \in 1 .. idx - 1 : a[i] = s[i]
  <2>1. \A i \in 1 .. idx - 1 : s[i] \in Nat
    BY <1>1, <1>2
  <2>2. /\ a \in Seq(Nat) /\ Len(a) = IF 1 <= idx - 1 THEN (idx - 1) - 1 + 1 ELSE 0
        /\ \A i \in 1 .. (idx - 1) - 1 + 1 : a[i] = s[1 + i - 1]
    BY <1>1, <2>1, SubSeqProperties
  <2> QED
    BY <1>1, <2>2
<1>4. /\ b \in Seq(Nat) /\ Len(b) = Len(s) - idx
      /\ \A i \in 1 .. Len(s) - idx : b[i] = s[idx + i]
  <2> DEFINE p == idx + 1
             q == Len(s)
  <2>1. p \in Int /\ q \in Int /\ \A i \in p .. q : s[i] \in Nat
    BY <1>1, <1>2
  <2> HIDE DEF p, q
  <2>2. /\ SubSeq(s, p, q) \in Seq(Nat)
        /\ Len(SubSeq(s, p, q)) = IF p <= q THEN q - p + 1 ELSE 0
        /\ \A i \in 1 .. q - p + 1 : SubSeq(s, p, q)[i] = s[p + i - 1]
    BY <2>1, SubSeqProperties
  <2>3. b = SubSeq(s, p, q)
    BY DEF p, q
  <2> HIDE DEF b
  <2>4. b \in Seq(Nat) /\ Len(b) = Len(s) - idx
    BY <1>1, <2>2, <2>3 DEF p, q
  <2>5. ASSUME NEW i \in 1 .. Len(s) - idx PROVE b[i] = s[idx + i]
    <3>1. i \in 1 .. q - p + 1 /\ p + i - 1 = idx + i
      BY <1>1 DEF p, q
    <3> QED
      BY <2>2, <2>3, <3>1
  <2> QED
    BY <2>4, <2>5
<1> HIDE DEF a, b
<1>5. /\ r \in Seq(Nat) /\ DOMAIN r = 1 .. Len(s) - 1
      /\ \A i \in 1 .. Len(s) - 1 : r[i] = IF i < idx THEN s[i] ELSE s[i + 1]
  <2>1. r = a \o b
    BY DEF RemoveIndex, a, b
  <2> HIDE DEF r
  <2>2. /\ r \in Seq(Nat) /\ Len(r) = Len(a) + Len(b)
        /\ \A i \in 1 .. Len(a) + Len(b) : r[i] = IF i <= Len(a) THEN a[i] ELSE b[i - Len(a)]
    BY <1>3, <1>4, <2>1, ConcatProperties
  <2>3. Len(a) + Len(b) = Len(s) - 1
    BY <1>1, <1>3, <1>4
  <2>4. DOMAIN r = 1 .. Len(s) - 1
    BY <2>2, <2>3, LenProperties
  <2>5. ASSUME NEW i \in 1 .. Len(s) - 1 PROVE r[i] = IF i < idx THEN s[i] ELSE s[i + 1]
    <3>1. CASE i < idx
      BY <1>1, <1>3, <2>2, <2>3, <3>1
    <3>2. CASE ~(i < idx)
      <4>1. i - Len(a) \in 1 .. Len(s) - idx /\ ~(i <= Len(a)) /\ idx + (i - Len(a)) = i + 1
        BY <1>1, <1>3, <3>2
      <4> QED
        BY <1>4, <2>2, <2>3, <3>2, <4>1
    <3> QED
      BY <3>1, <3>2
  <2> QED
    BY <2>2, <2>4, <2>5
<1> HIDE DEF r
<1>6. \A i, j \in DOMAIN s : s[i] = s[j] => i = j
  BY <1>1, <1>2
<1>7. ASSUME NEW i \in DOMAIN r
      PROVE  r[i] # s[idx] /\ \E j \in DOMAIN s : s[j] = r[i]
  <2>1. CASE i < idx
    <3>1. i \in DOMAIN s /\ i # idx /\ r[i] = s[i]
      BY <1>1, <1>5, <2>1
    <3> QED
      BY <1>6, <3>1
  <2>2. CASE ~(i < idx)
    <3>1. i + 1 \in DOMAIN s /\ i + 1 # idx /\ r[i] = s[i + 1]
      BY <1>1, <1>5, <2>2
    <3> QED
      BY <1>6, <3>1
  <2> QED
    BY <2>1, <2>2
<1>8. ASSUME NEW j \in DOMAIN s, j # idx PROVE \E i \in DOMAIN r : r[i] = s[j]
  <2>1. CASE j < idx
    <3>1. j \in DOMAIN r /\ r[j] = s[j]
      BY <1>1, <1>5, <2>1
    <3> QED
      BY <3>1
  <2>2. CASE j > idx
    <3>1. j - 1 \in 1 .. Len(s) - 1 /\ ~(j - 1 < idx) /\ (j - 1) + 1 = j
      BY <1>1, <2>2
    <3>2. j - 1 \in DOMAIN r /\ r[j - 1] = s[j]
      BY <1>5, <3>1
    <3> QED
      BY <3>2
  <2> QED
    BY <1>1, <1>8, <2>1, <2>2
<1>9. ASSUME NEW i \in DOMAIN r, NEW j \in DOMAIN r, i < j PROVE r[i] < r[j]
  <2>1. i \in 1 .. Len(s) - 1 /\ j \in 1 .. Len(s) - 1
    BY <1>5
  <2>2. i \in DOMAIN s /\ j \in DOMAIN s /\ i + 1 \in DOMAIN s /\ j + 1 \in DOMAIN s
    BY <1>1, <2>1
  <2>3. s[i] < s[j] /\ s[i] < s[j + 1] /\ s[i + 1] < s[j + 1]
    <3>1. i < j + 1 /\ i + 1 < j + 1
      BY <1>9, <2>1, <1>1
    <3> QED
      BY <1>9, <2>2, <3>1
  <2>4. r[i] \in {s[i], s[i + 1]} /\ r[j] \in {s[j], s[j + 1]}
    BY <1>5, <2>1
  <2>5. CASE i < idx
    <3>1. r[i] = s[i]
      BY <1>5, <2>1, <2>5
    <3> QED
      BY <2>3, <2>4, <3>1
  <2>6. CASE ~(i < idx)
    <3>1. ~(j < idx)
      BY <1>1, <1>9, <2>1, <2>6
    <3>2. r[i] = s[i + 1] /\ r[j] = s[j + 1]
      BY <1>5, <2>1, <2>6, <3>1
    <3> QED
      BY <2>3, <3>2
  <2> QED
    BY <2>5, <2>6
<1>10. \A c : (\E i \in DOMAIN r : r[i] = c) <=> c # s[idx] /\ \E i \in DOMAIN s : s[i] = c
  BY <1>7, <1>8
<1> QED
  BY <1>5, <1>9, <1>10 DEF r

-------------------------------------------------------------------------------
(* Subscribe appends the new channel, whose number is the highest.          *)
LEMMA SubscribeKeeps ==
  ASSUME SubsInv, NEW t \in Topics, Subscribe(t)
  PROVE  SubsInv'
<1> DEFINE n == Len(topicOf) + 1
<1>1. /\ Len(topicOf) \in Nat /\ DOMAIN topicOf = 1 .. Len(topicOf)
      /\ topicOf \in Seq(Topics \union {<<>>}) /\ subs \in [Topics -> Seq(Nat)]
  BY LenProperties DEF SubsInv, SubsTypeOK
<1>2. /\ topicOf' \in Seq(Topics \union {<<>>}) /\ Len(topicOf') = n
      /\ DOMAIN topicOf' = 1 .. n
      /\ \A c \in DOMAIN topicOf : topicOf'[c] = topicOf[c]
      /\ topicOf'[n] = t
  BY <1>1, AppendProperties, LenProperties DEF Subscribe
<1>3. /\ subs' \in [Topics -> Seq(Nat)]
      /\ \A u \in Topics \ {t} : subs'[u] = subs[u]
      /\ subs'[t] = Append(subs[t], n)
  <2>1. n \in Nat /\ subs[t] \in Seq(Nat)
    BY <1>1
  <2>2. Append(subs[t], n) \in Seq(Nat)
    BY <2>1, AppendProperties
  <2> QED
    BY <1>1, <2>2 DEF Subscribe
<1>4. SubsTypeOK'
  BY <1>1, <1>2, <1>3, MatcherAssumption DEF SubsTypeOK, Subscribe
<1>5. ASSUME NEW u \in Topics
      PROVE  /\ \A c : (\E i \in DOMAIN subs'[u] : subs'[u][i] = c)
                          <=> c \in DOMAIN topicOf' /\ topicOf'[c] = u
             /\ \A i, j \in DOMAIN subs'[u] : i < j => subs'[u][i] < subs'[u][j]
  <2>1. /\ \A c : (\E i \in DOMAIN subs[u] : subs[u][i] = c)
                     <=> c \in DOMAIN topicOf /\ topicOf[c] = u
        /\ \A i, j \in DOMAIN subs[u] : i < j => subs[u][i] < subs[u][j]
    BY DEF SubsInv, SlicesOK
  <2>2. \A c : c \in DOMAIN topicOf' /\ topicOf'[c] = u
                  <=> (c \in DOMAIN topicOf /\ topicOf[c] = u) \/ (c = n /\ u = t)
    BY <1>1, <1>2
  <2>3. CASE u # t
    BY <1>3, <2>1, <2>2, <2>3
  <2>4. CASE u = t
    <3> DEFINE s == subs[t]
               r == subs'[t]
    <3>1. s \in Seq(Nat) /\ n \in Nat /\ r = Append(s, n)
      BY <1>1, <1>3
    <3>2. DOMAIN s = 1 .. Len(s) /\ Len(s) \in Nat /\ \A i \in 1 .. Len(s) : s[i] \in 1 .. Len(topicOf)
      BY <1>1, <2>1, <2>4, <3>1, LenProperties
    <3> HIDE DEF s, r
    <3>3. /\ DOMAIN r = 1 .. Len(s) + 1
          /\ \A i \in 1 .. Len(s) : r[i] = s[i]
          /\ r[Len(s) + 1] = n
      BY <3>1, AppendProperties, LenProperties
    <3>4. \A i, j \in DOMAIN r : i < j => r[i] < r[j]
      <4> SUFFICES ASSUME NEW i \in DOMAIN r, NEW j \in DOMAIN r, i < j
                   PROVE  r[i] < r[j]
        OBVIOUS
      <4>1. i \in 1 .. Len(s) /\ r[i] = s[i] /\ s[i] < n
        BY <1>1, <3>2, <3>3
      <4>2. CASE j \in 1 .. Len(s)
        BY <2>1, <2>4, <3>2, <3>3, <4>1, <4>2 DEF s
      <4>3. CASE j = Len(s) + 1
        BY <3>3, <4>1, <4>3
      <4> QED
        BY <3>2, <3>3, <4>2, <4>3
    <3>5. ASSUME NEW c
          PROVE  (\E i \in DOMAIN r : r[i] = c) <=> (\E i \in DOMAIN s : s[i] = c) \/ c = n
      <4>1. DOMAIN r = DOMAIN s \union {Len(s) + 1}
        BY <3>2, <3>3
      <4> QED
        BY <3>2, <3>3, <4>1
    <3>6. \A c : (\E i \in DOMAIN r : r[i] = c) <=> c \in DOMAIN topicOf' /\ topicOf'[c] = u
      BY <2>1, <2>2, <2>4, <3>5 DEF s
    <3> QED
      BY <2>4, <3>4, <3>6 DEF r
  <2> QED
    BY <2>3, <2>4
<1> QED
  BY <1>4, <1>5 DEF SubsInv, SlicesOK

(* unsubscribe takes the channel out of its topic's slice and no other.     *)
LEMMA UnsubscribeKeeps ==
  ASSUME SubsInv, NEW c \in DOMAIN topicOf, Unsubscribe(c)
  PROVE  SubsInv'
<1> DEFINE t == topicOf[c]
<1>1. /\ Len(topicOf) \in Nat /\ DOMAIN topicOf = 1 .. Len(topicOf)
      /\ topicOf \in Seq(Topics \union {<<>>}) /\ subs \in [Topics -> Seq(Nat)]
  BY LenProperties DEF SubsInv, SubsTypeOK
<1>2. t \in Topics /\ <<>> \notin Topics
  BY <1>1, MatcherAssumption DEF Unsubscribe
<1>3. PICK idx \in DOMAIN subs[t] :
          /\ subs[t][idx] = c
          /\ subs' = [subs EXCEPT ![t] = RemoveIndex(@, idx)]
  BY DEF Unsubscribe
<1>4. /\ \A d : (\E i \in DOMAIN subs[t] : subs[t][i] = d)
                   <=> d \in DOMAIN topicOf /\ topicOf[d] = t
      /\ \A i, j \in DOMAIN subs[t] : i < j => subs[t][i] < subs[t][j]
  BY <1>2 DEF SubsInv, SlicesOK
<1> HIDE DEF t
<1> DEFINE r == RemoveIndex(subs[t], idx)
<1>5. /\ r \in Seq(Nat)
      /\ \A d : (\E i \in DOMAIN r : r[i] = d)
                  <=> d # c /\ \E i \in DOMAIN subs[t] : subs[t][i] = d
      /\ \A i, j \in DOMAIN r : i < j => r[i] < r[j]
  <2>1. subs[t] \in Seq(Nat)
    BY <1>1, <1>2
  <2>2. /\ r \in Seq(Nat)
        /\ \A d : (\E i \in DOMAIN r : r[i] = d)
                    <=> d # subs[t][idx] /\ \E i \in DOMAIN subs[t] : subs[t][i] = d
        /\ \A i, j \in DOMAIN r : i < j => r[i] < r[j]
    BY <1>4, <2>1, RemoveIndexProperties, Zenon
  <2> QED
    BY <1>3, <2>2, Zenon
<1> HIDE DEF r
<1>6. /\ subs' \in [Topics -> Seq(Nat)] /\ subs'[t] = r
      /\ \A u \in Topics \ {t} : subs'[u] = subs[u]
  BY <1>1, <1>2, <1>3, <1>5 DEF r
<1>7. /\ topicOf' \in Seq(Topics \union {<<>>}) /\ Len(topicOf') = Len(topicOf)
      /\ DOMAIN topicOf' = DOMAIN topicOf
      /\ \A d \in DOMAIN topicOf : topicOf'[d] = IF d = c THEN <<>> ELSE topicOf[d]
  <2>1. topicOf' = [topicOf EXCEPT ![c] = <<>>] /\ c \in 1 .. Len(topicOf)
    BY <1>1 DEF Unsubscribe
  <2>2. topicOf' \in Seq(Topics \union {<<>>}) /\ Len(topicOf') = Len(topicOf)
    BY <1>1, <2>1, ExceptSeq
  <2> QED
    BY <1>1, <2>1, <2>2
<1>8. SubsTypeOK'
  BY <1>6, <1>7 DEF SubsInv, SubsTypeOK
<1>9. ASSUME NEW u \in Topics
      PROVE  /\ \A d : (\E i \in DOMAIN subs'[u] : subs'[u][i] = d)
                          <=> d \in DOMAIN topicOf' /\ topicOf'[d] = u
             /\ \A i, j \in DOMAIN subs'[u] : i < j => subs'[u][i] < subs'[u][j]
  <2>1. CASE u = t
    <3>1. ASSUME NEW d
          PROVE  d \in DOMAIN topicOf' /\ topicOf'[d] = t
                   <=> d # c /\ d \in DOMAIN topicOf /\ topicOf[d] = t
      <4>1. t # <<>>
        BY <1>2
      <4> QED
        BY <1>7, <4>1
    <3>2. \A d : (\E i \in DOMAIN r : r[i] = d) <=> d \in DOMAIN topicOf' /\ topicOf'[d] = t
      BY <1>4, <1>5, <3>1
    <3> QED
      BY <1>5, <1>6, <2>1, <3>2
  <2>2. CASE u # t
    <3>1. /\ \A d : (\E i \in DOMAIN subs[u] : subs[u][i] = d)
                       <=> d \in DOMAIN topicOf /\ topicOf[d] = u
          /\ \A i, j \in DOMAIN subs[u] : i < j => subs[u][i] < subs[u][j]
      BY DEF SubsInv, SlicesOK
    <3>2. ASSUME NEW d
          PROVE  d \in DOMAIN topicOf' /\ topicOf'[d] = u
                   <=> d \in DOMAIN topicOf /\ topicOf[d] = u
      <4>1. u # <<>> /\ topicOf[c] # u
        BY <1>2, <2>2 DEF t
      <4> QED
        BY <1>7, <4>1
    <3> QED
      BY <1>6, <2>2, <3>1, <3>2
  <2> QED
    BY <2>1, <2>2
<1> QED
  BY <1>8, <1>9 DEF SubsInv, SlicesOK

-------------------------------------------------------------------------------
(* The inductive invariant of merging.                                      *)
InHand(c) == IF hand[1] = c THEN {hand[2]} ELSE {}

MergeTypeOK ==
    /\ buf \in [Chans -> Seq(Nat)]
    /\ sent \in [Chans -> SUBSET Nat] /\ got \in [Chans -> SUBSET Nat]
    /\ inputs \subseteq Chans /\ inputs \subseteq DOMAIN topicOf
    /\ mpc \in {"off", "select", "send", "ended"}
    /\ hand \in (Chans \X Nat) \union {Zero}
    /\ mpc # "send" => hand = Zero

(* S was sent: G is with the readers, H in the goroutine's hand and b in    *)
(* the channel, each event in one place and once.                           *)
Once(S, G, H, b) ==
    /\ S = G \union H \union Range(b)
    /\ G \intersect H = {} /\ G \intersect Range(b) = {} /\ H \intersect Range(b) = {}
    /\ \A i, j \in DOMAIN b : b[i] = b[j] => i = j

AllOnce == \A c \in Chans : Once(sent[c], got[c], InHand(c), buf[c])

(* Publish numbers its events, so the next number is a new one.             *)
Numbered == \E k \in Nat : Published = 1 .. k

(* The goroutine has the empty event, or has ended, only when an input is   *)
(* closed and empty, and what is closed stays so.                           *)
EmptyOK ==
    /\ empties = IF mpc = "ended" THEN 1 ELSE 0
    /\ mpc = "ended" \/ (mpc = "send" /\ hand = Zero)
          => \E c \in inputs : Closed(c) /\ buf[c] = <<>>

MergeInv == MergeTypeOK /\ AllOnce /\ Numbered /\ EmptyOK

ConsumerInv == SubsInv /\ MergeInv

-------------------------------------------------------------------------------
(* What sending to a channel and receiving from it do to the bookkeeping.   *)
LEMMA OnceAppend ==
  ASSUME NEW S, NEW G, NEW H, NEW b \in Seq(Nat), NEW n \in Nat, n \notin S,
         Once(S, G, H, b)
  PROVE  Append(b, n) \in Seq(Nat) /\ Once(S \union {n}, G, H, Append(b, n))
<1> DEFINE r == Append(b, n)
<1>1. /\ r \in Seq(Nat) /\ DOMAIN r = 1 .. Len(b) + 1
      /\ DOMAIN b = 1 .. Len(b) /\ Len(b) \in Nat
      /\ \A i \in 1 .. Len(b) : r[i] = b[i]
      /\ r[Len(b) + 1] = n
  BY AppendProperties, LenProperties
<1> HIDE DEF r
<1>2. DOMAIN r = DOMAIN b \union {Len(b) + 1}
  BY <1>1
<1>3. Range(r) = Range(b) \union {n}
  BY <1>1, <1>2 DEF Range
<1>4. \A i \in DOMAIN b : b[i] # n
  BY DEF Once, Range
<1>5. \A i, j \in DOMAIN r : r[i] = r[j] => i = j
  BY <1>1, <1>2, <1>4 DEF Once
<1>6. Once(S \union {n}, G, H, r)
  BY <1>3, <1>5 DEF Once
<1> QED
  BY <1>1, <1>6 DEF r

LEMMA TailOfOnce ==
  ASSUME NEW b \in Seq(Nat), b # <<>>, \A i, j \in DOMAIN b : b[i] = b[j] => i = j
  PROVE  /\ Tail(b) \in Seq(Nat) /\ Head(b) \in Nat
         /\ Range(b) = {Head(b)} \union Range(Tail(b))
         /\ Head(b) \notin Range(Tail(b))
         /\ \A i, j \in DOMAIN Tail(b) : Tail(b)[i] = Tail(b)[j] => i = j
<1> DEFINE r == Tail(b)
<1>1. /\ r \in Seq(Nat) /\ Head(b) \in Nat /\ Head(b) = b[1]
      /\ DOMAIN b = 1 .. Len(b) /\ Len(b) \in Nat /\ Len(b) >= 1
      /\ DOMAIN r = 1 .. Len(b) - 1
      /\ \A i \in 1 .. Len(b) - 1 : r[i] = b[i + 1]
  BY HeadTailProperties, LenProperties, EmptySeq
<1> HIDE DEF r
<1>2. \A i \in DOMAIN r : i + 1 \in DOMAIN b /\ i + 1 # 1 /\ r[i] = b[i + 1]
  BY <1>1
<1>3. 1 \in DOMAIN b /\ \A i \in DOMAIN b : i = 1 \/ (i - 1 \in DOMAIN r /\ r[i - 1] = b[i])
  <2> SUFFICES ASSUME NEW i \in DOMAIN b, i # 1
               PROVE  i - 1 \in DOMAIN r /\ r[i - 1] = b[i]
    BY <1>1
  <2>1. i - 1 \in 1 .. Len(b) - 1 /\ (i - 1) + 1 = i
    BY <1>1
  <2> QED
    BY <1>1, <2>1
<1>4. Range(b) = {Head(b)} \union Range(r)
  <2>1. ASSUME NEW i \in DOMAIN b PROVE b[i] = Head(b) \/ \E j \in DOMAIN r : r[j] = b[i]
    BY <1>1, <1>3
  <2>2. ASSUME NEW j \in DOMAIN r PROVE \E i \in DOMAIN b : b[i] = r[j]
    BY <1>2
  <2>3. \E i \in DOMAIN b : b[i] = Head(b)
    BY <1>1, <1>3
  <2>4. ASSUME NEW x PROVE x \in Range(b) <=> x \in {Head(b)} \union Range(r)
    BY <2>1, <2>2, <2>3 DEF Range
  <2> QED
    BY <2>4
<1>5. Head(b) \notin Range(r)
  <2> SUFFICES ASSUME NEW i \in DOMAIN r, r[i] = Head(b) PROVE FALSE
    BY DEF Range
  <2>1. i + 1 \in DOMAIN b /\ i + 1 # 1 /\ b[i + 1] = b[1] /\ 1 \in DOMAIN b
    BY <1>1, <1>2, <1>3
  <2> QED
    BY <2>1
<1>6. ASSUME NEW i \in DOMAIN r, NEW j \in DOMAIN r, r[i] = r[j] PROVE i = j
  <2>1. i + 1 = j + 1
    BY <1>2, <1>6
  <2>2. i \in Nat /\ j \in Nat
    BY <1>1
  <2> QED
    BY <2>1, <2>2
<1> QED
  BY <1>1, <1>4, <1>5, <1>6 DEF r

LEMMA OnceReceive ==
  ASSUME NEW S, NEW G, NEW H, NEW b \in Seq(Nat), b # <<>>, Once(S, G, H, b)
  PROVE  /\ Tail(b) \in Seq(Nat) /\ Head(b) \in Nat
         /\ Once(S, G \union {Head(b)}, H, Tail(b))
         /\ H = {} => Once(S, G, {Head(b)}, Tail(b))
<1>1. /\ Tail(b) \in Seq(Nat) /\ Head(b) \in Nat
      /\ Range(b) = {Head(b)} \union Range(Tail(b))
      /\ Head(b) \notin Range(Tail(b))
      /\ \A i, j \in DOMAIN Tail(b) : Tail(b)[i] = Tail(b)[j] => i = j
  BY TailOfOnce DEF Once
<1> QED
  BY <1>1, Zenon DEF Once

LEMMA OnceDeliver ==
  ASSUME NEW S, NEW G, NEW h, NEW b, Once(S, G, {h}, b)
  PROVE  Once(S, G \union {h}, {}, b)
  BY DEF Once

(* The cardinalities of a channel's events add up.                          *)
LEMMA OnceCounts ==
  ASSUME NEW S, NEW G, NEW H, NEW b \in Seq(Nat), Once(S, G, H, b), IsFiniteSet(S)
  PROVE  Cardinality(S) = Cardinality(G) + Cardinality(H) + Len(b)
<1>1. G \subseteq S /\ H \subseteq S /\ Range(b) \subseteq S
  BY DEF Once
<1>2. IsFiniteSet(G) /\ IsFiniteSet(H) /\ IsFiniteSet(Range(b))
  BY <1>1, FS_Subset
<1>3. Cardinality(Range(b)) = Len(b)
  <2>1. Len(b) \in Nat /\ DOMAIN b = 1 .. Len(b)
    BY LenProperties
  <2>2. b \in Bijection(1 .. Len(b), Range(b))
    <3>1. b \in [1 .. Len(b) -> Range(b)]
      BY <2>1 DEF Range
    <3>2. IsInjective(b)
      BY DEF Once, IsInjective
    <3>3. \A x \in Range(b) : \E i \in 1 .. Len(b) : b[i] = x
      BY <2>1 DEF Range
    <3> QED
      BY <3>1, <3>2, <3>3 DEF Bijection, Injection, Surjection
  <2>3. ExistsBijection(1 .. Len(b), Range(b))
    BY <2>2 DEF ExistsBijection
  <2>4. IsFiniteSet(1 .. Len(b)) /\ Cardinality(1 .. Len(b)) = Len(b)
    <3>1. /\ IsFiniteSet(1 .. Len(b))
          /\ Cardinality(1 .. Len(b)) = IF 1 > Len(b) THEN 0 ELSE Len(b) - 1 + 1
      BY <2>1, FS_Interval
    <3> QED
      BY <2>1, <3>1
  <2>5. Cardinality(Range(b)) = Cardinality(1 .. Len(b))
    BY <2>3, <2>4, FS_Bijection, Zenon
  <2> QED
    BY <2>4, <2>5
<1>4. /\ IsFiniteSet(G \union H)
      /\ Cardinality(G \union H) = Cardinality(G) + Cardinality(H) - Cardinality(G \intersect H)
      /\ Cardinality((G \union H) \union Range(b)) =
             Cardinality(G \union H) + Cardinality(Range(b))
                 - Cardinality((G \union H) \intersect Range(b))
  BY <1>2, FS_Union
<1>5. G \intersect H = {} /\ (G \union H) \intersect Range(b) = {} /\ S = (G \union H) \union Range(b)
  BY DEF Once
<1>6. Cardinality({}) = 0 /\ Cardinality(G) \in Nat /\ Cardinality(H) \in Nat /\ Len(b) \in Nat
  BY <1>2, FS_EmptySet, FS_CardinalityType, LenProperties
<1>7. Cardinality(S) = Cardinality(G \union H) + Len(b) - Cardinality({})
  BY <1>3, <1>4, <1>5
<1>8. Cardinality(G \union H) = Cardinality(G) + Cardinality(H) - Cardinality({})
  BY <1>4, <1>5
<1> QED
  BY <1>6, <1>7, <1>8

-------------------------------------------------------------------------------
LEMMA ChansProperties ==
  /\ 0 \notin Chans
  /\ \A h : h = Zero => h[1] = 0
  BY MatcherAssumption DEF Chans, Zero

LEMMA InitConsumers ==
  ASSUME Init
  PROVE  ConsumerInv
<1> USE DEF Init, SubInit
<1>1. SubsInv
  BY EmptySeq, MatcherAssumption DEF SubsInv, SubsTypeOK, SlicesOK
<1>2. MergeTypeOK
  BY EmptySeq DEF MergeTypeOK
<1>3. AllOnce
  <2>1. Range(<<>>) = {}
    BY DEF Range
  <2> QED
    BY <2>1, ChansProperties DEF AllOnce, Once, InHand
<1>4. Numbered
  <2>1. Published = {}
    BY DEF Published
  <2>2. 1 .. 0 = {} /\ 0 \in Nat
    OBVIOUS
  <2> QED
    BY <2>1, <2>2 DEF Numbered
<1>5. EmptyOK
  BY DEF EmptyOK
<1> QED
  BY <1>1, <1>2, <1>3, <1>4, <1>5 DEF ConsumerInv, MergeInv

(* Subscribe and unsubscribe leave the channels' events alone, and do not   *)
(* open a closed channel again.                                             *)
LEMMA SubscriptionsKeep ==
  ASSUME ConsumerInv, UNCHANGED <<mergeVars, sent>>, SubsInv',
         DOMAIN topicOf \subseteq DOMAIN topicOf',
         \A c \in DOMAIN topicOf : Closed(c) => Closed(c)'
  PROVE  ConsumerInv'
<1> USE DEF mergeVars, ConsumerInv, MergeInv
<1>1. MergeTypeOK'
  BY DEF MergeTypeOK
<1>2. AllOnce'
  BY DEF AllOnce, InHand
<1>3. Numbered'
  BY DEF Numbered, Published
<1>4. EmptyOK'
  BY DEF EmptyOK, MergeTypeOK
<1> QED
  BY <1>1, <1>2, <1>3, <1>4

LEMMA SubscribeKeepsInv ==
  ASSUME ConsumerInv, NEW t \in Topics, Subscribe(t), UNCHANGED <<mergeVars, sent>>
  PROVE  ConsumerInv'
<1>1. SubsInv'
  BY SubscribeKeeps DEF ConsumerInv
<1>2. /\ topicOf \in Seq(Topics \union {<<>>}) /\ t \in Topics \union {<<>>}
      /\ topicOf' = Append(topicOf, t)
  BY DEF ConsumerInv, SubsInv, SubsTypeOK, Subscribe
<1>3. DOMAIN topicOf \subseteq DOMAIN topicOf' /\ \A c \in DOMAIN topicOf : topicOf'[c] = topicOf[c]
  BY <1>2, AppendProperties, LenProperties
<1> QED
  BY <1>1, <1>3, SubscriptionsKeep DEF Closed

LEMMA UnsubscribeKeepsInv ==
  ASSUME ConsumerInv, NEW c \in DOMAIN topicOf, Unsubscribe(c), UNCHANGED <<mergeVars, sent>>
  PROVE  ConsumerInv'
<1>1. SubsInv'
  BY UnsubscribeKeeps DEF ConsumerInv
<1>2. /\ topicOf \in Seq(Topics \union {<<>>})
      /\ topicOf' = [topicOf EXCEPT ![c] = <<>>]
  BY DEF ConsumerInv, SubsInv, SubsTypeOK, Unsubscribe
<1>3. /\ DOMAIN topicOf \subseteq DOMAIN topicOf'
      /\ \A d \in DOMAIN topicOf : topicOf[d] = <<>> => topicOf'[d] = <<>>
  BY <1>2
<1> QED
  BY <1>1, <1>3, SubscriptionsKeep DEF Closed

(* Publish sends a new number, to open channels only.                       *)
LEMMA PublishKeeps ==
  ASSUME ConsumerInv, NEW t \in Topics, Publish(t)
  PROVE  ConsumerInv'
<1> DEFINE n == 1 + Cardinality(Published)
           To == Range(SubscriberMatch(t))
<1>1. SubsInv'
  BY DEF ConsumerInv, SubsInv, SubsTypeOK, SlicesOK, Publish, subVars
<1>2. /\ To # {}
      /\ buf' = [c \in Chans |-> IF c \in To THEN Append(buf[c], n) ELSE buf[c]]
      /\ sent' = [c \in Chans |-> IF c \in To THEN sent[c] \union {n} ELSE sent[c]]
      /\ UNCHANGED <<subVars, inputs, mpc, hand, got, empties>>
  BY DEF Publish
<1>3. \A c \in To : c \in Chans /\ ~Closed(c)
  BY MatchIsOpen DEF ConsumerInv
<1>4. PICK k \in Nat : Published = 1 .. k
  BY DEF ConsumerInv, MergeInv, Numbered
<1>5. n = k + 1
  <2>1. Cardinality(1 .. k) = IF 1 > k THEN 0 ELSE k - 1 + 1
    BY FS_Interval
  <2> QED
    BY <1>4, <2>1
<1> HIDE DEF n, To
<1>6. n \in Nat /\ \A c \in Chans : n \notin sent[c]
  <2>1. n \in Nat /\ n \notin 1 .. k
    BY <1>5
  <2> QED
    BY <1>4, <2>1 DEF Published
<1>7. ASSUME NEW c \in Chans
      PROVE  /\ buf[c] \in Seq(Nat) /\ Once(sent[c], got[c], InHand(c), buf[c])
             /\ Append(buf[c], n) \in Seq(Nat)
             /\ Once(sent[c] \union {n}, got[c], InHand(c), Append(buf[c], n))
  <2>1. buf[c] \in Seq(Nat) /\ Once(sent[c], got[c], InHand(c), buf[c])
    BY DEF ConsumerInv, MergeInv, MergeTypeOK, AllOnce
  <2> QED
    BY <2>1, <1>6, OnceAppend
<1>8. MergeTypeOK'
  <2>1. buf' \in [Chans -> Seq(Nat)]
    BY <1>2, <1>7
  <2>2. sent' \in [Chans -> SUBSET Nat]
    BY <1>2, <1>6 DEF ConsumerInv, MergeInv, MergeTypeOK
  <2> QED
    BY <1>2, <2>1, <2>2 DEF ConsumerInv, MergeInv, MergeTypeOK, subVars
<1>9. AllOnce'
  <2> SUFFICES ASSUME NEW c \in Chans
               PROVE  Once(sent'[c], got'[c], InHand(c)', buf'[c])
    BY DEF AllOnce
  <2>1. got'[c] = got[c] /\ InHand(c)' = InHand(c)
    BY <1>2 DEF InHand
  <2>2. CASE c \in To
    BY <1>2, <1>7, <2>1, <2>2
  <2>3. CASE c \notin To
    BY <1>2, <1>7, <2>1, <2>3
  <2> QED
    BY <2>2, <2>3
<1>10. Numbered'
  <2>1. PICK d : d \in To /\ d \in Chans
    BY <1>2, <1>3
  <2>2. ASSUME NEW x PROVE x \in Published' <=> x \in Published \/ x = n
    BY <1>2, <2>1 DEF Published
  <2>3. \A x : x \in 1 .. k \/ x = k + 1 <=> x \in 1 .. k + 1
    OBVIOUS
  <2>4. Published' = 1 .. k + 1
    BY <1>4, <1>5, <2>2, <2>3
  <2> QED
    BY <2>4 DEF Numbered
<1>11. EmptyOK'
  <2>1. \A c \in Chans : Closed(c) => Closed(c)' /\ buf'[c] = buf[c]
    BY <1>2, <1>3 DEF Closed, subVars
  <2>2. \A c \in inputs : c \in Chans
    BY DEF ConsumerInv, MergeInv, MergeTypeOK
  <2> QED
    BY <1>2, <2>1, <2>2 DEF ConsumerInv, MergeInv, EmptyOK
<1> QED
  BY <1>1, <1>8, <1>9, <1>10, <1>11 DEF ConsumerInv, MergeInv

LEMMA MergeConsumersKeeps ==
  ASSUME ConsumerInv, NEW cs \in SUBSET Chans, MergeConsumers(cs)
  PROVE  ConsumerInv'
<1> USE DEF ConsumerInv, MergeInv, MergeConsumers, subVars
<1>1. SubsInv'
  BY DEF SubsInv, SubsTypeOK, SlicesOK
<1>2. MergeTypeOK'
  BY DEF MergeTypeOK
<1>3. AllOnce'
  BY DEF AllOnce, InHand
<1>4. Numbered'
  BY DEF Numbered, Published
<1>5. EmptyOK'
  BY DEF EmptyOK
<1> QED
  BY <1>1, <1>2, <1>3, <1>4, <1>5

LEMMA MergeKeeps ==
  ASSUME ConsumerInv, NEW c \in Chans, Merge(c)
  PROVE  ConsumerInv'
<1>1. SubsInv'
  BY DEF ConsumerInv, SubsInv, SubsTypeOK, SlicesOK, Merge, subVars
<1>2. /\ mpc = "select" /\ mpc' = "send" /\ buf[c] # <<>>
      /\ hand' = <<c, Head(buf[c])>>
      /\ buf' = [buf EXCEPT ![c] = Tail(@)]
      /\ UNCHANGED <<subVars, inputs, got, empties, sent>>
  BY DEF Merge
<1>3. /\ buf \in [Chans -> Seq(Nat)] /\ hand = Zero
      /\ \A d \in Chans : Once(sent[d], got[d], InHand(d), buf[d]) /\ InHand(d) = {}
  BY <1>2, ChansProperties DEF ConsumerInv, MergeInv, MergeTypeOK, AllOnce, InHand
<1>4. /\ Tail(buf[c]) \in Seq(Nat) /\ Head(buf[c]) \in Nat
      /\ Once(sent[c], got[c], {Head(buf[c])}, Tail(buf[c]))
  BY <1>2, <1>3, OnceReceive
<1>5. MergeTypeOK'
  BY <1>2, <1>3, <1>4 DEF ConsumerInv, MergeInv, MergeTypeOK, subVars
<1>6. AllOnce'
  <2> SUFFICES ASSUME NEW d \in Chans
               PROVE  Once(sent[d], got[d], InHand(d)', buf'[d])
    BY <1>2 DEF AllOnce
  <2>1. CASE d = c
    <3>1. InHand(c)' = {Head(buf[c])} /\ buf'[c] = Tail(buf[c])
      BY <1>2, <1>3 DEF InHand
    <3> QED
      BY <1>4, <2>1, <3>1
  <2>2. CASE d # c
    <3>1. InHand(d)' = {} /\ buf'[d] = buf[d]
      BY <1>2, <1>3, <2>2 DEF InHand
    <3> QED
      BY <1>3, <3>1
  <2> QED
    BY <2>1, <2>2
<1>7. Numbered'
  BY <1>2 DEF ConsumerInv, MergeInv, Numbered, Published
<1>8. EmptyOK'
  <2>1. hand' # Zero
    BY <1>2, ChansProperties DEF Zero
  <2> QED
    BY <1>2, <2>1 DEF ConsumerInv, MergeInv, EmptyOK
<1> QED
  BY <1>1, <1>5, <1>6, <1>7, <1>8 DEF ConsumerInv, MergeInv

LEMMA MergeClosedKeeps ==
  ASSUME ConsumerInv, NEW c \in Chans, MergeClosed(c)
  PROVE  ConsumerInv'
<1> USE DEF ConsumerInv, MergeInv, MergeClosed, subVars
<1>1. SubsInv'
  BY DEF SubsInv, SubsTypeOK, SlicesOK
<1>2. MergeTypeOK' /\ hand' = hand
  BY DEF MergeTypeOK
<1>3. AllOnce'
  BY <1>2 DEF AllOnce, InHand
<1>4. Numbered'
  BY DEF Numbered, Published
<1>5. EmptyOK'
  BY DEF EmptyOK, Closed
<1> QED
  BY <1>1, <1>2, <1>3, <1>4, <1>5

LEMMA OnEventKeeps ==
  ASSUME ConsumerInv, OnEvent
  PROVE  ConsumerInv'
<1>1. SubsInv'
  BY DEF ConsumerInv, SubsInv, SubsTypeOK, SlicesOK, OnEvent, subVars
<1>2. Numbered'
  BY DEF ConsumerInv, MergeInv, Numbered, Published, OnEvent
<1>3. /\ mpc = "send" /\ hand' = Zero
      /\ UNCHANGED <<subVars, buf, inputs, sent>>
  BY DEF OnEvent
<1>4. \A d \in Chans : InHand(d)' = {}
  BY <1>3, ChansProperties DEF InHand
<1>5. CASE hand = Zero
  <2>1. mpc' = "ended" /\ empties' = empties + 1 /\ got' = got
    BY <1>5 DEF OnEvent
  <2>2. MergeTypeOK'
    BY <1>3, <2>1 DEF ConsumerInv, MergeInv, MergeTypeOK, subVars
  <2>3. AllOnce'
    BY <1>3, <1>5, <2>1 DEF ConsumerInv, MergeInv, AllOnce, InHand
  <2>4. EmptyOK'
    BY <1>3, <1>5, <2>1 DEF ConsumerInv, MergeInv, EmptyOK, Closed, subVars
  <2> QED
    BY <1>1, <1>2, <2>2, <2>3, <2>4 DEF ConsumerInv, MergeInv
<1>6. CASE hand # Zero
  <2> DEFINE c == hand[1]
             e == hand[2]
  <2>1. /\ mpc' = "select" /\ empties' = empties
        /\ got' = [got EXCEPT ![c] = @ \union {e}]
    BY <1>6 DEF OnEvent
  <2>2. c \in Chans /\ e \in Nat /\ got \in [Chans -> SUBSET Nat] /\ InHand(c) = {e}
    BY <1>6 DEF ConsumerInv, MergeInv, MergeTypeOK, InHand
  <2>3. \A d \in Chans : Once(sent[d], got[d], InHand(d), buf[d])
    BY DEF ConsumerInv, MergeInv, AllOnce
  <2>4. \A d \in Chans \ {c} : InHand(d) = {}
    BY DEF InHand
  <2> HIDE DEF c, e
  <2>5. MergeTypeOK'
    BY <1>3, <2>1, <2>2 DEF ConsumerInv, MergeInv, MergeTypeOK, subVars
  <2>6. Once(sent[c], got[c] \union {e}, {}, buf[c])
    BY <2>2, <2>3, OnceDeliver
  <2>7. AllOnce'
    BY <1>3, <1>4, <2>1, <2>2, <2>3, <2>4, <2>6 DEF AllOnce
  <2>8. EmptyOK'
    BY <1>3, <2>1 DEF ConsumerInv, MergeInv, EmptyOK
  <2> QED
    BY <1>1, <1>2, <2>5, <2>7, <2>8 DEF ConsumerInv, MergeInv
<1> QED
  BY <1>5, <1>6

LEMMA OnEventSyncKeeps ==
  ASSUME ConsumerInv, NEW c \in Chans, OnEventSync(c)
  PROVE  ConsumerInv'
<1>1. SubsInv'
  BY DEF ConsumerInv, SubsInv, SubsTypeOK, SlicesOK, OnEventSync, subVars
<1>2. /\ buf[c] # <<>>
      /\ got' = [got EXCEPT ![c] = @ \union {Head(buf[c])}]
      /\ buf' = [buf EXCEPT ![c] = Tail(@)]
      /\ UNCHANGED <<subVars, inputs, mpc, hand, empties, sent>>
  BY DEF OnEventSync
<1>3. /\ buf \in [Chans -> Seq(Nat)] /\ got \in [Chans -> SUBSET Nat]
      /\ \A d \in Chans : Once(sent[d], got[d], InHand(d), buf[d])
      /\ \A d \in Chans : InHand(d)' = InHand(d)
  BY <1>2 DEF ConsumerInv, MergeInv, MergeTypeOK, AllOnce, InHand
<1>4. /\ Tail(buf[c]) \in Seq(Nat) /\ Head(buf[c]) \in Nat
      /\ Once(sent[c], got[c] \union {Head(buf[c])}, InHand(c), Tail(buf[c]))
  BY <1>2, <1>3, OnceReceive
<1>5. MergeTypeOK'
  BY <1>2, <1>3, <1>4 DEF ConsumerInv, MergeInv, MergeTypeOK, subVars
<1>6. AllOnce'
  BY <1>2, <1>3, <1>4 DEF AllOnce
<1>7. Numbered'
  BY <1>2 DEF ConsumerInv, MergeInv, Numbered, Published
<1>8. EmptyOK'
  <2>1. \A d \in Chans : Closed(d) /\ buf[d] = <<>> => Closed(d)' /\ buf'[d] = <<>>
    BY <1>2, <1>3 DEF Closed, subVars
  <2> QED
    BY <1>2, <2>1 DEF ConsumerInv, MergeInv, MergeTypeOK, EmptyOK
<1> QED
  BY <1>1, <1>5, <1>6, <1>7, <1>8 DEF ConsumerInv, MergeInv

-------------------------------------------------------------------------------
LEMMA ConsumersInductive ==
  ASSUME ConsumerInv, [Next]_vars
  PROVE  ConsumerInv'
<1>1. CASE UNCHANGED vars
  <2> USE <1>1 DEF vars, subVars, mergeVars, ConsumerInv, MergeInv
  <2>1. SubsInv'
    BY DEF SubsInv, SubsTypeOK, SlicesOK
  <2>2. MergeTypeOK'
    BY DEF MergeTypeOK
  <2>3. AllOnce'
    BY DEF AllOnce, InHand
  <2>4. Numbered'
    BY DEF Numbered, Published
  <2>5. EmptyOK'
    BY DEF EmptyOK, Closed
  <2> QED
    BY <2>1, <2>2, <2>3, <2>4, <2>5
<1>2. CASE \E t \in Topics : Subscribe(t) /\ UNCHANGED <<mergeVars, sent>>
  BY <1>2, SubscribeKeepsInv
<1>3. CASE \E c \in DOMAIN topicOf : Unsubscribe(c) /\ UNCHANGED <<mergeVars, sent>>
  BY <1>3, UnsubscribeKeepsInv
<1>4. CASE \E t \in Topics : Publish(t)
  BY <1>4, PublishKeeps
<1>5. CASE \E cs \in SUBSET Chans \ {{}} : MergeConsumers(cs)
  BY <1>5, MergeConsumersKeeps
<1>6. CASE \E c \in Chans : Merge(c) \/ MergeClosed(c) \/ OnEventSync(c)
  BY <1>6, MergeKeeps, MergeClosedKeeps, OnEventSyncKeeps
<1>7. CASE OnEvent
  BY <1>7, OnEventKeeps
<1> QED
  BY <1>1, <1>2, <1>3, <1>4, <1>5, <1>6, <1>7 DEF Next

(* Subscribing, publishing, merging and reading keep the invariant of the   *)
(* slices and of the merged channels.                                       *)
THEOREM ConsumersInvariant == Spec => []ConsumerInv
<1>1. Init => ConsumerInv
  BY InitConsumers
<1>2. ConsumerInv /\ [Next]_vars => ConsumerInv'
  BY ConsumersInductive
<1> QED
  BY <1>1, <1>2, PTL DEF Spec

(* Whatever Subscribe and UnSubscribe have been called, the recursion of    *)
(* SubscriberMatch returns the open channels of the topic and its prefixes, *)
(* each once, the longest prefix first and in the order of subscription.    *)
THEOREM MatchOrdered == Spec => []MatchIsOrderedPrefixes
<1>1. ConsumerInv => MatchIsOrderedPrefixes
  BY MatchCorrect DEF ConsumerInv
<1> QED
  BY <1>1, ConsumersInvariant, PTL

(* Merged consumers neither lose nor repeat an event, for any number of     *)
(* inputs, events, and readers of OnEvent and OnEventSync.                  *)
THEOREM MergeLosesNothing == Spec => []MergedOnce
<1>1. ASSUME ConsumerInv PROVE MergedOnce
  <2> SUFFICES ASSUME NEW c \in inputs
               PROVE  /\ sent[c] = got[c] \union InHand(c) \union Range(buf[c])
                      /\ Cardinality(sent[c]) =
                             Cardinality(got[c]) + Cardinality(InHand(c)) + Len(buf[c])
    BY DEF MergedOnce, InHand
  <2>1. c \in Chans /\ buf[c] \in Seq(Nat) /\ Once(sent[c], got[c], InHand(c), buf[c])
    BY <1>1 DEF ConsumerInv, MergeInv, MergeTypeOK, AllOnce
  <2>2. IsFiniteSet(sent[c])
    <3>1. PICK k \in Nat : Published = 1 .. k
      BY <1>1 DEF ConsumerInv, MergeInv, Numbered
    <3>2. IsFiniteSet(1 .. k)
      BY FS_Interval
    <3>3. sent[c] \subseteq 1 .. k
      BY <2>1, <3>1 DEF Published
    <3> QED
      BY <3>2, <3>3, FS_Subset
  <2> QED
    BY <2>1, <2>2, OnceCounts DEF Once
<1> QED
  BY <1>1, ConsumersInvariant, PTL

(* The merging goroutine sends one empty event, its last, and only when an  *)
(* input is closed and has been read to its end.                            *)
THEOREM EmptyEventTruthful == Spec => []EmptyMeansClosed
<1>1. ConsumerInv => EmptyMeansClosed
  BY DEF ConsumerInv, MergeInv, EmptyOK, EmptyMeansClosed
<1> QED
  BY <1>1, ConsumersInvariant, PTL
===============================================================================
