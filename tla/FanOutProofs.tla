---------------------------- MODULE FanOutProofs ----------------------------
(***************************************************************************)
(* The Router pushes what is committed, keeps nothing beside its ranges    *)
(* that is not theirs, and, with one batch in flight (the default), pushes *)
(* in order and never persists a frontier above what it has not pushed.    *)
(***************************************************************************)
EXTENDS FanOut, FiniteSetTheorems, WellFoundedInduction, TLAPS

-----------------------------------------------------------------------------
(* Least and greatest numbers *)

\* A set of natural numbers has a least element.
LEMMA LeastOf ==
  ASSUME NEW S \in SUBSET Nat, S # {}
  PROVE  \E m \in S : \A n \in S : m <= n
<1> DEFINE LT == {ss \in Nat \X Nat : ss[1] < ss[2]}
<1>1. OpToRel(<, Nat) = LT
  BY Zenon DEF OpToRel
<1>2. IsWellFoundedOn(LT, Nat)
  BY <1>1, NatLessThanWellFounded, Zenon
<1>3. PICK m \in S : \A y \in S : ~(<<y, m>> \in LT)
  <2> HIDE DEF LT
  <2> QED BY <1>2, WFMin
<1>4. ASSUME NEW n \in S, n < m PROVE FALSE
  <2>1. <<n, m>> \in Nat \X Nat /\ <<n, m>>[1] < <<n, m>>[2]
    BY <1>4
  <2>2. <<n, m>> \in LT
    BY <2>1
  <2> QED BY <1>3, <2>2, Zenon
<1>5. \A n \in S : m <= n
  BY <1>4
<1> QED BY <1>5

\* A bounded one has a greatest.
LEMMA GreatestOf ==
  ASSUME NEW S \in SUBSET Nat, S # {}, NEW b \in Nat, \A n \in S : n <= b
  PROVE  \E m \in S : \A n \in S : n <= m
<1> DEFINE T == {d \in Nat : b - d \in S}
<1>1. T # {}
  <2>1. PICK n \in S : TRUE
    OBVIOUS
  <2>2. b - n \in Nat /\ b - (b - n) = n
    BY <2>1
  <2>3. b - n \in T
    BY <2>1, <2>2
  <2> QED BY <2>3
<1>2. PICK d \in T : \A e \in T : d <= e
  <2> HIDE DEF T
  <2>1. T \in SUBSET Nat
    BY DEF T
  <2> QED BY <1>1, <2>1, LeastOf
<1>3. ASSUME NEW n \in S PROVE n <= b - d
  <2>1. n \in Nat /\ b - n \in Nat /\ b - (b - n) = n
    OBVIOUS
  <2>2. b - n \in T
    BY <2>1
  <2>3. d <= b - n
    BY <1>2, <2>2
  <2> QED BY <2>1, <2>3
<1> QED BY <1>2, <1>3

-----------------------------------------------------------------------------
(* The plan's operators *)

\* Two sequences one after the other.
LEMMA Joined ==
  ASSUME NEW R, NEW a \in Seq(R), NEW b \in Seq(R)
  PROVE  /\ a \o b \in Seq(R) /\ Len(a \o b) = Len(a) + Len(b)
         /\ \A i \in 1..(Len(a) + Len(b)) :
              (a \o b)[i] = IF i <= Len(a) THEN a[i] ELSE b[i - Len(a)]
OBVIOUS

\* A part of a sequence.
LEMMA PartOf ==
  ASSUME NEW R, NEW s \in Seq(R), NEW m \in 1..(Len(s) + 1), NEW n \in 0..Len(s), m <= n + 1
  PROVE  /\ SubSeq(s, m, n) \in Seq(R) /\ Len(SubSeq(s, m, n)) = n - m + 1
         /\ \A i \in 1..(n - m + 1) : SubSeq(s, m, n)[i] = s[m + i - 1]
<1>1. SubSeq(s, m, n) = [i \in 1..(n - m + 1) |-> s[m + i - 1]]
  OBVIOUS
<1>2. \A i \in 1..(n - m + 1) : m + i - 1 \in 1..Len(s)
  OBVIOUS
<1>3. n - m + 1 \in Nat
  OBVIOUS
<1> QED BY <1>1, <1>2, <1>3

\* The sequence s with x after its first k elements, and s without its element k.
Insert(s, k, x) == SubSeq(s, 1, k) \o <<x>> \o SubSeq(s, k + 1, Len(s))
Remove(s, k) == SubSeq(s, 1, k - 1) \o SubSeq(s, k + 1, Len(s))

\* Where the elements of s are after x was inserted.
LEMMA Inserted ==
  ASSUME NEW R, NEW s \in Seq(R), NEW x \in R, NEW k \in Nat, k <= Len(s)
  PROVE  /\ Insert(s, k, x) \in Seq(R) /\ Len(Insert(s, k, x)) = Len(s) + 1
         /\ \A i \in 1..(Len(s) + 1) :
              Insert(s, k, x)[i] = IF i <= k THEN s[i] ELSE IF i = k + 1 THEN x ELSE s[i - 1]
<1> DEFINE a == SubSeq(s, 1, k)
           b == SubSeq(s, k + 1, Len(s))
           o == <<x>>
           c == a \o o
           t == c \o b
<1>1. Len(s) \in Nat
  OBVIOUS
<1>2. a \in Seq(R) /\ Len(a) = k /\ \A i \in 1..k : a[i] = s[i]
  BY <1>1, PartOf
<1>3. b \in Seq(R) /\ Len(b) = Len(s) - k /\ \A i \in 1..(Len(s) - k) : b[i] = s[k + i]
  <2>1. k + 1 \in 1..(Len(s) + 1) /\ Len(s) \in 0..Len(s) /\ k + 1 <= Len(s) + 1
    BY <1>1
  <2>2. /\ b \in Seq(R) /\ Len(b) = Len(s) - (k + 1) + 1
        /\ \A i \in 1..(Len(s) - (k + 1) + 1) : b[i] = s[k + 1 + i - 1]
    BY <2>1, PartOf
  <2> QED BY <1>1, <2>2
<1>4. o \in Seq(R) /\ Len(o) = 1 /\ o[1] = x
  OBVIOUS
<1> HIDE DEF a, b, o
<1>5. c \in Seq(R) /\ Len(c) = Len(a) + Len(o)
  BY <1>2, <1>4, Joined
<1>6. \A i \in 1..(Len(a) + Len(o)) : c[i] = IF i <= Len(a) THEN a[i] ELSE o[i - Len(a)]
  BY <1>2, <1>4, Joined
<1> HIDE DEF c
<1>7. Len(c) = k + 1
  BY <1>2, <1>4, <1>5
<1>8. \A i \in 1..(k + 1) : c[i] = IF i <= k THEN a[i] ELSE o[i - k]
  BY <1>2, <1>4, <1>6
<1>9. ASSUME NEW i \in 1..(k + 1) PROVE c[i] = IF i <= k THEN s[i] ELSE x
  <2>1. CASE i <= k
    <3>1. i \in 1..k
      BY <2>1
    <3> QED BY <1>2, <1>8, <2>1, <3>1
  <2>2. CASE k < i
    <3>1. i - k = 1
      BY <2>2
    <3>2. c[i] = o[i - k]
      BY <1>8, <2>2
    <3> QED BY <1>4, <2>2, <3>1, <3>2
  <2> QED BY <2>1, <2>2
<1>10. t \in Seq(R) /\ Len(t) = Len(c) + Len(b)
  <2>1. b \in Seq(R) /\ c \in Seq(R)
    BY <1>3, <1>5
  <2> QED BY <2>1, Joined
<1>11. \A i \in 1..(Len(c) + Len(b)) : t[i] = IF i <= Len(c) THEN c[i] ELSE b[i - Len(c)]
  BY <1>3, <1>5, Joined
<1> HIDE DEF t
<1>12. Len(c) + Len(b) = Len(s) + 1
  BY <1>1, <1>3, <1>7
<1>13. \A i \in 1..(Len(s) + 1) : t[i] = IF i <= k + 1 THEN c[i] ELSE b[i - (k + 1)]
  BY <1>7, <1>11, <1>12
<1>14. ASSUME NEW i \in 1..(Len(s) + 1)
      PROVE  t[i] = IF i <= k THEN s[i] ELSE IF i = k + 1 THEN x ELSE s[i - 1]
  <2>1. CASE i <= k + 1
    BY <1>1, <1>9, <1>13, <2>1
  <2>2. CASE k + 1 < i
    <3>1. i - (k + 1) \in 1..(Len(s) - k) /\ k + (i - (k + 1)) = i - 1
      BY <1>1, <2>2
    <3>2. b[i - (k + 1)] = s[k + (i - (k + 1))]
      BY <1>3, <3>1
    <3>3. ~(i <= k + 1)
      BY <1>1, <2>2
    <3>4. t[i] = b[i - (k + 1)]
      BY <1>13, <3>3
    <3> QED BY <1>1, <2>2, <3>1, <3>2, <3>4
  <2> QED BY <1>1, <2>1, <2>2
<1>15. t = Insert(s, k, x)
  BY DEF Insert, t, c, a, b, o
<1> QED BY <1>10, <1>12, <1>14, <1>15

\* Where the elements of s are after its element k was removed.
LEMMA Removed ==
  ASSUME NEW R, NEW s \in Seq(R), NEW k \in 1..Len(s)
  PROVE  /\ Remove(s, k) \in Seq(R) /\ Len(Remove(s, k)) = Len(s) - 1
         /\ \A i \in 1..(Len(s) - 1) : Remove(s, k)[i] = IF i < k THEN s[i] ELSE s[i + 1]
<1> DEFINE a == SubSeq(s, 1, k - 1)
           b == SubSeq(s, k + 1, Len(s))
           t == a \o b
<1>1. Len(s) \in Nat /\ k \in Nat
  OBVIOUS
<1>2. a \in Seq(R) /\ Len(a) = k - 1 /\ \A i \in 1..(k - 1) : a[i] = s[i]
  <2>1. 1 \in 1..(Len(s) + 1) /\ k - 1 \in 0..Len(s)
    BY <1>1
  <2>2. /\ a \in Seq(R) /\ Len(a) = k - 1 - 1 + 1
        /\ \A i \in 1..(k - 1 - 1 + 1) : a[i] = s[1 + i - 1]
    BY <2>1, PartOf
  <2> QED BY <1>1, <2>2
<1>3. b \in Seq(R) /\ Len(b) = Len(s) - k /\ \A i \in 1..(Len(s) - k) : b[i] = s[k + i]
  <2>1. k + 1 \in 1..(Len(s) + 1) /\ Len(s) \in 0..Len(s) /\ k + 1 <= Len(s) + 1
    BY <1>1
  <2>2. /\ b \in Seq(R) /\ Len(b) = Len(s) - (k + 1) + 1
        /\ \A i \in 1..(Len(s) - (k + 1) + 1) : b[i] = s[k + 1 + i - 1]
    BY <2>1, PartOf
  <2> QED BY <1>1, <2>2
<1> HIDE DEF a, b
<1>4. a \in Seq(R) /\ b \in Seq(R)
  BY <1>2, <1>3
<1>5. t \in Seq(R) /\ Len(t) = Len(a) + Len(b)
  BY <1>4, Joined
<1>6. \A i \in 1..(Len(a) + Len(b)) : t[i] = IF i <= Len(a) THEN a[i] ELSE b[i - Len(a)]
  BY <1>4, Joined
<1> HIDE DEF t
<1>7. Len(a) + Len(b) = Len(s) - 1
  BY <1>1, <1>2, <1>3
<1>8. \A i \in 1..(Len(s) - 1) : t[i] = IF i <= k - 1 THEN a[i] ELSE b[i - (k - 1)]
  BY <1>2, <1>6, <1>7
<1>9. ASSUME NEW i \in 1..(Len(s) - 1) PROVE t[i] = IF i < k THEN s[i] ELSE s[i + 1]
  <2>1. CASE i < k
    <3>1. i \in 1..(k - 1) /\ i <= k - 1
      BY <1>1, <2>1
    <3>2. t[i] = a[i]
      BY <1>8, <3>1
    <3> QED BY <1>2, <2>1, <3>1, <3>2
  <2>2. CASE k <= i
    <3>1. i - (k - 1) \in 1..(Len(s) - k) /\ k + (i - (k - 1)) = i + 1 /\ ~(i <= k - 1)
      BY <1>1, <2>2
    <3>2. b[i - (k - 1)] = s[k + (i - (k - 1))]
      BY <1>3, <3>1
    <3>3. t[i] = b[i - (k - 1)]
      BY <1>8, <3>1
    <3> QED BY <1>1, <2>2, <3>1, <3>2, <3>3
  <2> QED BY <1>1, <2>1, <2>2
<1>10. t = Remove(s, k)
  BY DEF Remove, t, a, b
<1> QED BY <1>5, <1>7, <1>9, <1>10

\* The ranges s are sorted by their first GSN.
Sorted(s) == \A i, j \in DOMAIN s : i < j => s[i].from <= s[j].from
IsIn(s, x) == \E i \in DOMAIN s : s[i] = x

\* In sorted ranges there is one place for x.
LEMMA PlaceSplits ==
  ASSUME NEW s \in Seq(RangeType), NEW x \in RangeType, Sorted(s)
  PROVE  /\ Place(s, x) \in 0..Len(s)
         /\ \A i \in DOMAIN s : s[i].from < x.from <=> i <= Place(s, x)
<1> DEFINE S == {i \in DOMAIN s : x.from <= s[i].from}
           Splits(k) == \A i \in DOMAIN s : s[i].from < x.from <=> i <= k
<1>0. Len(s) \in Nat /\ DOMAIN s = 1..Len(s) /\ x.from \in Nat
      /\ \A i \in 1..Len(s) : s[i].from \in Nat
  <2>1. \A y \in RangeType : y.from \in Nat
    BY FeedAssumption DEF RangeType, Gsns
  <2> QED BY <2>1
<1>1. \E k \in 0..Len(s) : Splits(k)
  <2>1. CASE S = {}
    <3>1. Splits(Len(s))
      BY <1>0, <2>1
    <3> QED BY <1>0, <3>1
  <2>2. CASE S # {}
    <3>1. PICK m \in S : \A n \in S : m <= n
      <4>1. S \in SUBSET Nat
        BY <1>0
      <4> HIDE DEF S
      <4> QED BY <2>2, <4>1, LeastOf
    <3>2. m \in 1..Len(s) /\ m - 1 \in 0..Len(s)
      BY <1>0, <3>1
    <3>3. ASSUME NEW i \in DOMAIN s PROVE s[i].from < x.from <=> i <= m - 1
      <4>1. CASE i < m
        BY <1>0, <3>1, <3>2, <4>1
      <4>2. CASE m < i
        BY <1>0, <3>1, <3>2, <4>2 DEF Sorted
      <4>3. CASE i = m
        BY <1>0, <3>1, <3>2, <4>3
      <4> QED BY <1>0, <3>2, <4>1, <4>2, <4>3
    <3>4. Splits(m - 1)
      BY <3>3
    <3> QED BY <3>2, <3>4
  <2> QED BY <2>1, <2>2
<1> QED BY <1>1 DEF Place

PlanType == [pending : Seq(RangeType), acked : SUBSET RangeType, last : 0..MaxGsn]

\* What a plan with the range x claimed holds.
LEMMA PlanClaimHolds ==
  ASSUME NEW p \in PlanType, NEW x \in RangeType, Sorted(p.pending), NoneTwice(p.pending)
  PROVE  /\ PlanClaim(p, x) \in PlanType
         /\ PlanClaim(p, x).acked = p.acked /\ PlanClaim(p, x).last = p.last
         /\ Sorted(PlanClaim(p, x).pending) /\ NoneTwice(PlanClaim(p, x).pending)
         /\ \A y : IsIn(PlanClaim(p, x).pending, y) <=> y = x \/ IsIn(p.pending, y)
<1>1. CASE IsIn(p.pending, x)
  <2>1. PlanClaim(p, x) = p
    BY <1>1 DEF PlanClaim, IsIn
  <2> QED BY <1>1, <2>1
<1>2. CASE ~IsIn(p.pending, x)
  <2>1. PICK s \in Seq(RangeType) : s = p.pending
    BY DEF PlanType
  <2>2. PICK k \in Nat : k = Place(s, x) /\ k <= Len(s) /\ \A i \in 1..Len(s) : s[i].from < x.from <=> i <= k
    <3>1. Sorted(s) /\ DOMAIN s = 1..Len(s) /\ Len(s) \in Nat
      BY <2>1
    <3> QED BY <3>1, PlaceSplits
  <2>3. PICK t : t = Insert(s, k, x)
    OBVIOUS
  <2>4. PlanClaim(p, x) = [p EXCEPT !.pending = t]
    BY <1>2, <2>1, <2>2, <2>3 DEF PlanClaim, IsIn, Insert
  <2>5. /\ t \in Seq(RangeType) /\ Len(t) = Len(s) + 1
        /\ \A i \in 1..(Len(s) + 1) : t[i] = IF i <= k THEN s[i] ELSE IF i = k + 1 THEN x ELSE s[i - 1]
    <3>1. k <= Len(s)
      BY <2>2
    <3>2. /\ Insert(s, k, x) \in Seq(RangeType) /\ Len(Insert(s, k, x)) = Len(s) + 1
          /\ \A i \in 1..(Len(s) + 1) :
               Insert(s, k, x)[i] = IF i <= k THEN s[i] ELSE IF i = k + 1 THEN x ELSE s[i - 1]
      BY <3>1, Inserted
    <3> QED BY <2>3, <3>2
  <2>6. PlanClaim(p, x) \in PlanType
        /\ PlanClaim(p, x).pending = t /\ PlanClaim(p, x).acked = p.acked /\ PlanClaim(p, x).last = p.last
    BY <2>4, <2>5 DEF PlanType
  <2>7. Len(s) \in Nat /\ DOMAIN s = 1..Len(s) /\ DOMAIN t = 1..(Len(s) + 1)
    BY <2>5
  <2>8. x.from \in Nat /\ \A i \in 1..Len(s) : s[i].from \in Nat
    <3>1. \A y \in RangeType : y.from \in Nat
      BY FeedAssumption DEF RangeType, Gsns
    <3> QED BY <2>7, <3>1
  <2>9. \A i \in 1..Len(s) : s[i] # x
    BY <1>2, <2>1, <2>7 DEF IsIn
  <2>10. \A i, j \in 1..Len(s) : (i < j => s[i].from <= s[j].from) /\ (s[i] = s[j] => i = j)
    BY <2>1, <2>7 DEF Sorted, NoneTwice
  <2>11. ASSUME NEW i \in 1..(Len(s) + 1)
         PROVE  \/ i <= k /\ i \in 1..Len(s) /\ t[i] = s[i] /\ s[i].from < x.from
                \/ i = k + 1 /\ t[i] = x
                \/ k + 1 < i /\ i - 1 \in 1..Len(s) /\ t[i] = s[i - 1] /\ x.from <= s[i - 1].from
    <3>1. CASE i <= k
      <4>1. i \in 1..Len(s)
        BY <2>2, <2>7, <3>1
      <4> QED BY <2>2, <2>5, <3>1, <4>1
    <3>2. CASE i = k + 1
      <4>1. ~(i <= k)
        BY <2>2, <3>2
      <4> QED BY <2>5, <3>2, <4>1
    <3>3. CASE k + 1 < i
      <4>1. i - 1 \in 1..Len(s) /\ ~(i - 1 <= k) /\ ~(i <= k) /\ i # k + 1
        BY <2>2, <2>7, <3>3
      <4>2. ~(s[i - 1].from < x.from) /\ s[i - 1].from \in Nat
        BY <2>2, <2>8, <4>1
      <4>3. t[i] = s[i - 1]
        BY <2>5, <4>1
      <4> QED BY <2>8, <3>3, <4>1, <4>2, <4>3
    <3> QED BY <2>2, <2>7, <3>1, <3>2, <3>3
  <2>12. ASSUME NEW i \in 1..(Len(s) + 1), NEW j \in 1..(Len(s) + 1), i < j
         PROVE  t[i].from <= t[j].from /\ t[i] # t[j]
    <3>1. CASE i <= k /\ j <= k
      BY <2>7, <2>8, <2>10, <2>11, <2>12, <3>1
    <3>2. CASE i <= k /\ j = k + 1
      BY <2>7, <2>8, <2>9, <2>11, <2>12, <3>2
    <3>3. CASE i <= k /\ k + 1 < j
      <4>1. i \in 1..Len(s) /\ j - 1 \in 1..Len(s) /\ i < j - 1
        BY <2>7, <2>11, <3>3
      <4>2. t[i] = s[i] /\ t[j] = s[j - 1]
        BY <2>7, <2>11, <3>3
      <4> QED BY <2>7, <2>8, <2>10, <4>1, <4>2
    <3>4. CASE i = k + 1
      <4>1. j - 1 \in 1..Len(s) /\ t[i] = x /\ t[j] = s[j - 1] /\ x.from <= s[j - 1].from
        BY <2>7, <2>11, <2>12, <3>4
      <4> QED BY <2>9, <4>1
    <3>5. CASE k + 1 < i
      <4>1. i - 1 \in 1..Len(s) /\ j - 1 \in 1..Len(s) /\ i - 1 < j - 1
        BY <2>7, <2>11, <2>12, <3>5
      <4>2. t[i] = s[i - 1] /\ t[j] = s[j - 1]
        BY <2>7, <2>11, <2>12, <3>5
      <4> QED BY <2>7, <2>8, <2>10, <4>1, <4>2, SMTT(30)
    <3> QED BY <2>7, <2>12, <3>1, <3>2, <3>3, <3>4, <3>5
  <2>13. Sorted(t) /\ NoneTwice(t)
    BY <2>7, <2>12 DEF Sorted, NoneTwice
  <2>14. ASSUME NEW y PROVE IsIn(t, y) <=> y = x \/ IsIn(s, y)
    <3>1. ASSUME IsIn(t, y) PROVE y = x \/ IsIn(s, y)
      BY <2>7, <2>11, <3>1 DEF IsIn
    <3>2. IsIn(t, x)
      <4>1. k + 1 \in 1..(Len(s) + 1) /\ t[k + 1] = x
        BY <2>2, <2>5, <2>7
      <4> QED BY <2>7, <4>1 DEF IsIn
    <3>3. ASSUME NEW i \in 1..Len(s) PROVE IsIn(t, s[i])
      <4>1. CASE i <= k
        <5>1. i \in 1..(Len(s) + 1) /\ t[i] = s[i]
          BY <2>5, <2>7, <4>1
        <5> QED BY <2>7, <5>1 DEF IsIn
      <4>2. CASE k < i
        <5>1. i + 1 \in 1..(Len(s) + 1) /\ ~(i + 1 <= k) /\ i + 1 # k + 1 /\ i + 1 - 1 = i
          BY <2>7, <4>2
        <5>2. t[i + 1] = s[i + 1 - 1]
          BY <2>5, <5>1
        <5> QED BY <2>7, <5>1, <5>2 DEF IsIn
      <4> QED BY <2>7, <4>1, <4>2
    <3> QED BY <2>7, <3>1, <3>2, <3>3 DEF IsIn
  <2> QED BY <2>1, <2>6, <2>13, <2>14
<1> QED BY <1>1, <1>2

\* What a plan holds from which the range x was dropped.
LEMMA PlanResolveHolds ==
  ASSUME NEW p \in PlanType, NEW x \in RangeType, Sorted(p.pending), NoneTwice(p.pending)
  PROVE  /\ PlanResolve(p, x) \in PlanType /\ PlanResolve(p, x).last = p.last
         /\ Sorted(PlanResolve(p, x).pending) /\ NoneTwice(PlanResolve(p, x).pending)
         /\ \A y : IsIn(PlanResolve(p, x).pending, y) <=> y # x /\ IsIn(p.pending, y)
<1>1. PICK s \in Seq(RangeType) : s = p.pending
  BY DEF PlanType
<1>2. PICK t : t = Without(s, x)
  OBVIOUS
<1>3. PlanResolve(p, x) = [p EXCEPT !.pending = t, !.acked = @ \ {x}]
  BY <1>1, <1>2 DEF PlanResolve
<1>4. Len(s) \in Nat /\ DOMAIN s = 1..Len(s)
  OBVIOUS
<1>5. \A i, j \in 1..Len(s) : (i < j => s[i].from <= s[j].from) /\ (s[i] = s[j] => i = j)
  BY <1>1, <1>4 DEF Sorted, NoneTwice
<1>6. /\ t \in Seq(RangeType) /\ Sorted(t) /\ NoneTwice(t)
      /\ \A y : IsIn(t, y) <=> y # x /\ IsIn(s, y)
  <2>1. CASE ~IsIn(s, x)
    <3>1. t = s
      BY <1>2, <2>1 DEF Without, IsIn
    <3>2. \A y : IsIn(s, y) <=> y # x /\ IsIn(s, y)
      BY <2>1
    <3> QED BY <1>1, <3>1, <3>2
  <2>2. CASE IsIn(s, x)
    <3>1. PICK k \in 1..Len(s) : s[k] = x /\ t = Remove(s, k)
      <4>1. \E k \in DOMAIN s : s[k] = x
        BY <2>2 DEF IsIn
      <4> QED BY <1>2, <1>4, <4>1 DEF Without, Remove
    <3>2. /\ t \in Seq(RangeType) /\ Len(t) = Len(s) - 1
          /\ \A i \in 1..(Len(s) - 1) : t[i] = IF i < k THEN s[i] ELSE s[i + 1]
      BY <3>1, Removed
    <3>3. DOMAIN t = 1..(Len(s) - 1)
      BY <1>4, <3>1, <3>2
    <3>4. ASSUME NEW i \in 1..(Len(s) - 1)
          PROVE  \/ i < k /\ i \in 1..Len(s) /\ t[i] = s[i]
                 \/ k <= i /\ i + 1 \in 1..Len(s) /\ t[i] = s[i + 1]
      BY <1>4, <3>1, <3>2
    <3>5. ASSUME NEW i \in 1..(Len(s) - 1), NEW j \in 1..(Len(s) - 1), i < j
          PROVE  t[i].from <= t[j].from /\ t[i] # t[j]
      <4>1. CASE j < k
        BY <1>4, <1>5, <3>1, <3>4, <3>5, <4>1
      <4>2. CASE i < k /\ k <= j
        <5>1. t[i] = s[i] /\ t[j] = s[j + 1] /\ i \in 1..Len(s) /\ j + 1 \in 1..Len(s) /\ i < j + 1
          BY <1>4, <3>1, <3>4, <3>5, <4>2
        <5>2. i # j + 1
          BY <5>1
        <5> QED BY <1>5, <5>1, <5>2
      <4>3. CASE k <= i
        <5>1. t[i] = s[i + 1] /\ t[j] = s[j + 1] /\ i + 1 \in 1..Len(s) /\ j + 1 \in 1..Len(s)
              /\ i + 1 < j + 1 /\ i + 1 # j + 1
          BY <1>4, <3>1, <3>4, <3>5, <4>3
        <5> QED BY <1>5, <5>1
      <4> QED BY <1>4, <3>1, <3>5, <4>1, <4>2, <4>3
    <3>6. Sorted(t) /\ NoneTwice(t)
      BY <1>4, <3>3, <3>5 DEF Sorted, NoneTwice
    <3>7. ASSUME NEW i \in 1..(Len(s) - 1) PROVE t[i] # x /\ IsIn(s, t[i])
      <4>1. CASE i < k
        <5>1. t[i] = s[i] /\ i \in 1..Len(s) /\ i # k
          BY <1>4, <3>1, <3>4, <4>1
        <5> QED BY <1>4, <1>5, <3>1, <5>1 DEF IsIn
      <4>2. CASE k <= i
        <5>1. t[i] = s[i + 1] /\ i + 1 \in 1..Len(s) /\ i + 1 # k
          BY <1>4, <3>1, <3>4, <4>2
        <5> QED BY <1>4, <1>5, <3>1, <5>1 DEF IsIn
      <4> QED BY <1>4, <3>1, <4>1, <4>2
    <3>8. ASSUME NEW i \in 1..Len(s), s[i] # x PROVE IsIn(t, s[i])
      <4>1. CASE i < k
        <5>1. i \in 1..(Len(s) - 1) /\ t[i] = s[i]
          BY <1>4, <3>1, <3>2, <4>1
        <5> QED BY <3>3, <5>1 DEF IsIn
      <4>2. CASE k < i
        <5>1. i - 1 \in 1..(Len(s) - 1) /\ ~(i - 1 < k) /\ i - 1 + 1 = i
          BY <1>4, <3>1, <4>2
        <5>2. t[i - 1] = s[i - 1 + 1]
          BY <3>2, <5>1
        <5> QED BY <3>3, <5>1, <5>2 DEF IsIn
      <4> QED BY <1>4, <3>1, <3>8, <4>1, <4>2
    <3>9. ASSUME NEW y PROVE IsIn(t, y) <=> y # x /\ IsIn(s, y)
      BY <1>4, <3>3, <3>7, <3>8 DEF IsIn
    <3> QED BY <3>2, <3>6, <3>9
  <2> QED BY <2>1, <2>2
<1>7. PlanResolve(p, x) \in PlanType /\ PlanResolve(p, x).pending = t /\ PlanResolve(p, x).last = p.last
  BY <1>3, <1>6 DEF PlanType
<1> QED BY <1>1, <1>6, <1>7

\* What the drain of the plan p releases and what it leaves.
Drained(p, w, k) ==
  /\ k \in 0..Len(p.pending) /\ router' = "pushing" /\ sent' = 0
  /\ toPush' \in Seq(RangeType) /\ Len(toPush') = k
  /\ \A i \in 1..k : toPush'[i] = p.pending[i] /\ p.pending[i].to <= w
  /\ plan' \in PlanType /\ Len(plan'.pending) = Len(p.pending) - k
  /\ \A i \in 1..(Len(p.pending) - k) : plan'.pending[i] = p.pending[k + i]
  /\ p.last <= plan'.last /\ \A i \in 1..k : p.pending[i].to <= plan'.last
  /\ plan'.last = p.last \/ \E i \in 1..k : plan'.last = p.pending[i].to

\* The drain releases a prefix and advances last_pushed_gsn to the highest end.
LEMMA DrainMoves ==
  ASSUME NEW p \in PlanType, NEW w, Drain(p, w)
  PROVE  \E k \in 0..Len(p.pending) : Drained(p, w, k)
<1>1. PICK s \in Seq(RangeType) : s = p.pending
  BY DEF PlanType
<1>2. PICK k \in 0..Len(s) :
        LET released == SubSeq(s, 1, k)
            ends == {p.last} \cup {released[i].to : i \in 1..k}
        IN  /\ IsReleasedPrefix(p, w, k)
            /\ toPush' = released
            /\ sent' = 0
            /\ plan' = [pending |-> SubSeq(s, k + 1, Len(s)),
                        acked   |-> p.acked \ {released[i] : i \in 1..k},
                        last    |-> CHOOSE m \in ends : \A n \in ends : n <= m]
            /\ router' = "pushing"
  BY <1>1 DEF Drain
<1>3. Len(s) \in Nat /\ DOMAIN s = 1..Len(s) /\ k \in Nat /\ k <= Len(s)
  OBVIOUS
<1> DEFINE released == SubSeq(s, 1, k)
           ends == {p.last} \cup {released[i].to : i \in 1..k}
           m == CHOOSE x \in ends : \A n \in ends : n <= x
           rest == SubSeq(s, k + 1, Len(s))
<1>4. released \in Seq(RangeType) /\ Len(released) = k /\ \A i \in 1..k : released[i] = s[i]
  <2>1. 1 \in 1..(Len(s) + 1) /\ k \in 0..Len(s) /\ 1 <= k + 1
    BY <1>3
  <2>2. /\ released \in Seq(RangeType) /\ Len(released) = k - 1 + 1
        /\ \A i \in 1..(k - 1 + 1) : released[i] = s[1 + i - 1]
    BY <2>1, PartOf
  <2> HIDE DEF released
  <2>3. k - 1 + 1 = k /\ \A i \in 1..k : 1 + i - 1 = i
    BY <1>3
  <2>4. ASSUME NEW i \in 1..k PROVE released[i] = s[i]
    <3>1. i \in 1..(k - 1 + 1)
      BY <2>3
    <3> QED BY <2>2, <2>3, <3>1
  <2> QED BY <2>2, <2>3, <2>4
<1>5. /\ rest \in Seq(RangeType) /\ Len(rest) = Len(s) - k
      /\ \A i \in 1..(Len(s) - k) : rest[i] = s[k + i]
  <2>1. k + 1 \in 1..(Len(s) + 1) /\ Len(s) \in 0..Len(s) /\ k + 1 <= Len(s) + 1
    BY <1>3
  <2>2. /\ rest \in Seq(RangeType) /\ Len(rest) = Len(s) - (k + 1) + 1
        /\ \A i \in 1..(Len(s) - (k + 1) + 1) : rest[i] = s[k + 1 + i - 1]
    BY <2>1, PartOf
  <2> HIDE DEF rest
  <2>3. Len(s) - (k + 1) + 1 = Len(s) - k
    BY <1>3
  <2>4. ASSUME NEW i \in 1..(Len(s) - k) PROVE rest[i] = s[k + i]
    <3>1. k + 1 + i - 1 = k + i
      BY <1>3
    <3>2. i \in 1..(Len(s) - (k + 1) + 1)
      BY <2>3
    <3>3. rest[i] = s[k + 1 + i - 1]
      BY <2>2, <3>2
    <3> QED BY <3>1, <3>3
  <2> QED BY <2>2, <2>3, <2>4
<1>6. /\ toPush' = released /\ sent' = 0 /\ router' = "pushing"
      /\ plan' = [pending |-> rest, acked |-> p.acked \ {released[i] : i \in 1..k}, last |-> m]
  BY <1>2
<1>7. \A i \in 1..k : s[i].to <= w
  BY <1>1, <1>2 DEF IsReleasedPrefix, Releasable
<1> HIDE DEF released, rest
<1>8. p.last \in 0..MaxGsn /\ p.acked \subseteq RangeType /\ \A i \in 1..k : released[i].to \in 0..MaxGsn
  <2>1. \A y \in RangeType : y.to \in 0..MaxGsn
    BY FeedAssumption DEF RangeType, Gsns
  <2> QED BY <1>3, <1>4, <2>1 DEF PlanType
<1>9. m \in ends /\ \A n \in ends : n <= m
  <2>1. ends \subseteq 0..MaxGsn /\ ends # {}
    BY <1>8
  <2>2. MaxGsn \in Nat /\ ends \in SUBSET Nat /\ \A n \in ends : n <= MaxGsn
    BY <2>1, FeedAssumption
  <2> HIDE DEF ends
  <2>3. \E x \in ends : \A n \in ends : n <= x
    BY <2>1, <2>2, GreatestOf
  <2> QED BY <2>3, Zenon
<1> HIDE DEF m
<1>10. p.last <= m /\ (\A i \in 1..k : released[i].to <= m)
       /\ (m = p.last \/ \E i \in 1..k : m = released[i].to) /\ m \in 0..MaxGsn
  BY <1>8, <1>9
<1>11. plan' \in PlanType /\ plan'.pending = rest /\ plan'.last = m
  BY <1>5, <1>6, <1>8, <1>10 DEF PlanType
<1>12. Drained(p, w, k)
  <2>1. \A i \in 1..k : s[i].to <= m
    BY <1>4, <1>10
  <2>2. m = p.last \/ \E i \in 1..k : m = s[i].to
    BY <1>4, <1>10
  <2> QED BY <1>1, <1>4, <1>5, <1>6, <1>7, <1>10, <1>11, <2>1, <2>2 DEF Drained
<1> QED BY <1>1, <1>12

\* The released ranges and the rest are those of the plan, in its order.
LEMMA DrainedHolds ==
  ASSUME NEW p \in PlanType, NEW w, NEW k, Drained(p, w, k), Sorted(p.pending), NoneTwice(p.pending)
  PROVE  /\ Sorted(toPush') /\ Sorted(plan'.pending) /\ NoneTwice(plan'.pending)
         /\ \A y : IsIn(p.pending, y) <=> IsIn(toPush', y) \/ IsIn(plan'.pending, y)
         /\ \A i \in DOMAIN toPush' : toPush'[i].to <= w /\ toPush'[i].to <= plan'.last
<1>1. PICK s \in Seq(RangeType) : s = p.pending
  BY DEF PlanType
<1>2. PICK a \in Seq(RangeType) : a = toPush'
  BY DEF Drained
<1>3. PICK b \in Seq(RangeType) : b = plan'.pending
  BY DEF Drained, PlanType
<1>4. Len(s) \in Nat /\ DOMAIN s = 1..Len(s) /\ k \in Nat /\ k <= Len(s) /\ Len(a) = k /\ Len(b) = Len(s) - k
  <2>1. k \in 0..Len(p.pending) /\ Len(toPush') = k /\ Len(plan'.pending) = Len(p.pending) - k
    BY DEF Drained
  <2>2. k \in 0..Len(s) /\ Len(a) = k /\ Len(b) = Len(s) - k
    BY <1>1, <1>2, <1>3, <2>1
  <2>3. Len(s) \in Nat /\ DOMAIN s = 1..Len(s)
    OBVIOUS
  <2> QED BY <2>2, <2>3
<1>5. DOMAIN a = 1..k /\ DOMAIN b = 1..(Len(s) - k)
  BY <1>4
<1>6. \A i, j \in 1..Len(s) : (i < j => s[i].from <= s[j].from) /\ (s[i] = s[j] => i = j)
  BY <1>1, <1>4 DEF Sorted, NoneTwice
<1>7. \A i \in 1..k : i \in 1..Len(s) /\ a[i] = s[i]
  <2>1. \A i \in 1..k : i \in 1..Len(s)
    BY <1>4
  <2>2. \A i \in 1..k : toPush'[i] = p.pending[i]
    BY DEF Drained
  <2> QED BY <1>1, <1>2, <2>1, <2>2
<1>8. \A i \in 1..(Len(s) - k) : k + i \in 1..Len(s) /\ b[i] = s[k + i]
  <2>1. \A i \in 1..(Len(s) - k) : k + i \in 1..Len(s)
    BY <1>4
  <2>2. \A i \in 1..(Len(p.pending) - k) : plan'.pending[i] = p.pending[k + i]
    BY DEF Drained
  <2> QED BY <1>1, <1>3, <2>1, <2>2
<1>9. Sorted(a)
  BY <1>5, <1>6, <1>7 DEF Sorted
<1>10. ASSUME NEW i \in 1..(Len(s) - k), NEW j \in 1..(Len(s) - k), i < j
       PROVE  b[i].from <= b[j].from /\ b[i] # b[j]
  <2>1. k + i \in 1..Len(s) /\ k + j \in 1..Len(s) /\ k + i < k + j /\ k + i # k + j
    BY <1>4, <1>8, <1>10
  <2> QED BY <1>6, <1>8, <2>1
<1>11. Sorted(b) /\ NoneTwice(b)
  <2>1. Sorted(b)
    BY <1>5, <1>10 DEF Sorted
  <2>2. \A i, j \in 1..(Len(s) - k) : i = j \/ i < j \/ j < i
    BY <1>4
  <2>3. NoneTwice(b)
    BY <1>5, <1>10, <2>2 DEF NoneTwice
  <2> QED BY <2>1, <2>3
<1>12. ASSUME NEW y PROVE IsIn(s, y) <=> IsIn(a, y) \/ IsIn(b, y)
  <2>1. ASSUME IsIn(a, y) \/ IsIn(b, y) PROVE IsIn(s, y)
    <3>1. ASSUME NEW i \in DOMAIN a, a[i] = y PROVE IsIn(s, y)
      <4>1. i \in DOMAIN s /\ s[i] = y
        BY <1>4, <1>5, <1>7, <3>1
      <4> QED BY <4>1 DEF IsIn
    <3>2. ASSUME NEW i \in DOMAIN b, b[i] = y PROVE IsIn(s, y)
      <4>1. k + i \in DOMAIN s /\ s[k + i] = y
        BY <1>4, <1>5, <1>8, <3>2
      <4> QED BY <4>1 DEF IsIn
    <3> QED BY <2>1, <3>1, <3>2 DEF IsIn
  <2>2. ASSUME NEW i \in 1..Len(s) PROVE IsIn(a, s[i]) \/ IsIn(b, s[i])
    <3>1. CASE i <= k
      <4>1. i \in 1..k
        BY <1>4, <3>1
      <4> QED BY <1>5, <1>7, <4>1 DEF IsIn
    <3>2. CASE k < i
      <4>1. i - k \in 1..(Len(s) - k) /\ k + (i - k) = i
        BY <1>4, <3>2
      <4> QED BY <1>5, <1>8, <4>1 DEF IsIn
    <3> QED BY <1>4, <3>1, <3>2
  <2> QED BY <1>4, <2>1, <2>2 DEF IsIn
<1>13. \A i \in 1..k : a[i].to <= w /\ a[i].to <= plan'.last
  BY <1>1, <1>2, <1>7 DEF Drained
<1> QED BY <1>1, <1>2, <1>3, <1>5, <1>9, <1>11, <1>12, <1>13

-----------------------------------------------------------------------------
(* What the recovery reads *)

\* There are finitely many ranges.
LEMMA RangesFinite == IsFiniteSet(RangeType)
<1> DEFINE f == [y \in Gsns \X Gsns |-> GsnRange(y[1], y[2])]
<1>1. IsFiniteSet(Gsns)
  BY FeedAssumption, FS_Interval DEF Gsns
<1>2. IsFiniteSet(Gsns \X Gsns)
  BY <1>1, FS_Product
<1>3. f \in [Gsns \X Gsns -> RangeType]
  BY DEF GsnRange, RangeType
<1>4. ASSUME NEW x \in RangeType PROVE \E y \in Gsns \X Gsns : f[y] = x
  <2>1. <<x.from, x.to>> \in Gsns \X Gsns /\ f[<<x.from, x.to>>] = x
    BY DEF GsnRange, RangeType
  <2> QED BY <2>1
<1>5. f \in Surjection(Gsns \X Gsns, RangeType)
  BY <1>3, <1>4 DEF Surjection
<1> QED BY <1>2, <1>5, FS_Surjection

\* A run lies in the set it is a run of, and every element lies in a run.
LEMMA RunsHold ==
  ASSUME NEW G \in SUBSET Gsns
  PROVE  /\ Runs(G) \subseteq RangeType
         /\ \A x \in Runs(G) : x.from <= x.to /\ GsnsOfRange(x) \subseteq G
         /\ \A g \in G : \E x \in Runs(G) : g \in GsnsOfRange(x)
<1>1. Runs(G) \subseteq RangeType
  BY DEF Runs, RangeType, GsnRange
<1>2. \A x \in Runs(G) : x.from <= x.to /\ GsnsOfRange(x) \subseteq G
  BY DEF Runs
<1>3. ASSUME NEW g \in G PROVE \E x \in Runs(G) : g \in GsnsOfRange(x)
  <2> DEFINE Below == {f \in 1..g : f..g \subseteq G}
             Above == {t \in g..MaxGsn : g..t \subseteq G}
  <2>1. g \in Nat /\ 1 <= g /\ g <= MaxGsn /\ MaxGsn \in Nat
    BY FeedAssumption DEF Gsns
  <2>2. g \in Below /\ g \in Above
    BY <2>1
  <2>3. Below \in SUBSET Nat /\ Above \in SUBSET Nat /\ \A t \in Above : t <= MaxGsn
    BY <2>1
  <2>4. PICK f \in Below : \A n \in Below : f <= n
    <3> HIDE DEF Below
    <3> QED BY <2>2, <2>3, LeastOf
  <2>5. PICK t \in Above : \A n \in Above : n <= t
    <3> HIDE DEF Above
    <3> QED BY <2>1, <2>2, <2>3, GreatestOf
  <2>6. f \in Nat /\ 1 <= f /\ f <= g /\ f..g \subseteq G /\ t \in Nat /\ g <= t /\ t <= MaxGsn /\ g..t \subseteq G
    BY <2>1, <2>4, <2>5
  <2>7. f \in G /\ t \in G
    BY <2>1, <2>6
  <2>8. f..t \subseteq G
    <3>1. \A n \in f..t : n \in f..g \/ n \in g..t
      BY <2>1, <2>6
    <3> QED BY <2>6, <3>1
  <2>9. f - 1 \notin G
    <3> SUFFICES ASSUME f - 1 \in G PROVE FALSE
      OBVIOUS
    <3>1. f - 1 \in 1..g
      BY <2>1, <2>6, FeedAssumption DEF Gsns
    <3>2. \A n \in (f - 1)..g : n = f - 1 \/ n \in f..g
      BY <2>1, <2>6
    <3>3. f - 1 \in Below
      BY <2>6, <3>1, <3>2
    <3>4. f <= f - 1
      BY <2>4, <3>3
    <3> QED BY <2>6, <3>4
  <2>10. t + 1 \notin G
    <3> SUFFICES ASSUME t + 1 \in G PROVE FALSE
      OBVIOUS
    <3>1. t + 1 \in g..MaxGsn
      BY <2>1, <2>6, FeedAssumption DEF Gsns
    <3>2. \A n \in g..(t + 1) : n = t + 1 \/ n \in g..t
      BY <2>1, <2>6
    <3>3. t + 1 \in Above
      BY <2>6, <3>1, <3>2
    <3>4. t + 1 <= t
      BY <2>5, <3>3
    <3> QED BY <2>6, <3>4
  <2>11. PICK x : x = GsnRange(f, t)
    OBVIOUS
  <2>12. x.from = f /\ x.to = t
    BY <2>11 DEF GsnRange
  <2>13. x \in Runs(G)
    <3>1. x \in {GsnRange(a, b) : a \in G, b \in G}
      BY <2>7, <2>11
    <3>2. x.from <= x.to /\ GsnsOfRange(x) \subseteq G /\ x.from - 1 \notin G /\ x.to + 1 \notin G
      BY <2>1, <2>6, <2>8, <2>9, <2>10, <2>12 DEF GsnsOfRange
    <3> QED BY <3>1, <3>2 DEF Runs
  <2>14. g \in GsnsOfRange(x)
    BY <2>1, <2>6, <2>12 DEF GsnsOfRange
  <2> QED BY <2>13, <2>14
<1> QED BY <1>1, <1>2, <1>3

HoldsAll(s, G) == \A g \in G : \E i \in DOMAIN s : g \in GsnsOfRange(s[i])

\* The recovered plan holds every stored GSN above the frontier, and no other.
LEMMA RecoveredHolds ==
  ASSUME NEW G \in SUBSET Gsns, NEW s \in [1..Cardinality(Runs(G)) -> Runs(G)],
         \A i, j \in DOMAIN s : i < j => s[i].to < s[j].from
  PROVE  /\ s \in Seq(RangeType) /\ Sorted(s) /\ NoneTwice(s)
         /\ \A i \in DOMAIN s : s[i].from <= s[i].to /\ GsnsOfRange(s[i]) \subseteq G
         /\ HoldsAll(s, G)
<1>1. PICK R : R = Runs(G)
  OBVIOUS
<1>2. R \in SUBSET RangeType /\ IsFiniteSet(R)
  BY <1>1, RunsHold, RangesFinite, FS_Subset
<1>3. PICK n \in Nat : n = Cardinality(R)
  BY <1>2, FS_CardinalityType
<1>4. s \in [1..n -> R] /\ DOMAIN s = 1..n
  BY <1>1, <1>3
<1>5. \A x \in R : x \in RangeType /\ x.from <= x.to /\ GsnsOfRange(x) \subseteq G
  BY <1>1, RunsHold
<1>6. \A x \in R : x.from \in Nat /\ x.to \in Nat
  BY <1>5, FeedAssumption DEF RangeType, Gsns
<1>7. s \in Seq(RangeType)
  BY <1>4, <1>5
<1>8. ASSUME NEW i \in 1..n, NEW j \in 1..n, i < j PROVE s[i].from <= s[j].from /\ s[i] # s[j]
  <2>1. s[i].to < s[j].from /\ s[i] \in R /\ s[j] \in R
    BY <1>4, <1>8
  <2>2. s[i].from <= s[i].to /\ s[j].from <= s[j].to
    BY <1>5, <2>1
  <2> QED BY <1>6, <2>1, <2>2
<1>9. Sorted(s) /\ NoneTwice(s)
  <2>1. \A i, j \in 1..n : i = j \/ i < j \/ j < i
    OBVIOUS
  <2> QED BY <1>4, <1>8, <2>1 DEF Sorted, NoneTwice
<1>10. s \in Injection(1..n, R)
  BY <1>4, <1>9 DEF Injection, IsInjective, NoneTwice
<1>11. Cardinality(1..n) = n
  BY FS_Interval
<1>12. s \in Surjection(1..n, R)
  BY <1>2, <1>3, <1>10, <1>11, FS_Injection
<1>13. ASSUME NEW g \in G PROVE \E i \in DOMAIN s : g \in GsnsOfRange(s[i])
  <2>1. PICK x \in R : g \in GsnsOfRange(x)
    BY <1>1, RunsHold
  <2>2. PICK i \in 1..n : s[i] = x
    BY <1>12 DEF Surjection
  <2> QED BY <1>4, <2>1, <2>2
<1>14. HoldsAll(s, G)
  BY <1>13 DEF HoldsAll
<1> QED BY <1>4, <1>5, <1>7, <1>9, <1>14

-----------------------------------------------------------------------------
(***************************************************************************)
(* The feed.                                                               *)
(***************************************************************************)
FeedType ==
  /\ up \in BOOLEAN
  /\ counter \in 0..MaxGsn
  /\ watermark \in 0..MaxGsn
  /\ claim \in [Refs -> ClaimType]
  /\ stored \subseteq Refs
  /\ crashes \in Nat

\* What no step of the feed takes back.
FeedGrows ==
  /\ watermark <= watermark' /\ stored \subseteq stored'
  /\ \A r \in Refs : claim[r].state # "none" =>
       /\ claim'[r].first = claim[r].first /\ claim'[r].last = claim[r].last
       /\ claim[r].state \in {"released", "dropped"} => claim'[r].state = claim[r].state
       /\ claim'[r].state # "none"
  /\ \A r \in Refs : claim[r].state = "none" /\ claim'[r].state # "none" => counter < claim'[r].first

\* The held claims R move to the state st, and the watermark follows.
LEMMA FeedMoves ==
  ASSUME FeedType, FeedInv, NEW R \in SUBSET Refs, NEW st \in {"acked", "released", "dropped"},
         \A r \in R : Held(r), Move(R, st)
  PROVE  /\ claim' \in [Refs -> ClaimType] /\ watermark' \in 0..MaxGsn
         /\ \A r \in Refs : /\ claim'[r].first = claim[r].first /\ claim'[r].last = claim[r].last
                            /\ claim'[r].state = IF r \in R THEN st ELSE claim[r].state
                            /\ r \notin R => claim'[r] = claim[r]
         /\ watermark <= watermark' /\ watermark' <= counter
         /\ \A r \in Refs : claim'[r].state = "open" => watermark' < claim[r].first
         /\ \A r \in Refs : /\ claim'[r].state \notin {"none", "open"}
                            /\ \A q \in Refs : q < r => claim'[q].state # "open"
                            => claim[r].last <= watermark'
<1>1. claim' = [r \in Refs |-> IF r \in R THEN [claim[r] EXCEPT !.state = st] ELSE claim[r]]
  BY DEF Move
<1>2. PICK w \in 0..MaxGsn : IsResolvedUpTo(claim', counter, w) /\ watermark' = w
  BY DEF Move
<1>3. counter \in Nat /\ watermark \in Nat /\ w \in Nat /\ MaxGsn \in Nat /\ w <= counter
  BY <1>2, FeedAssumption DEF FeedType, IsResolvedUpTo
<1>4. \A r \in Refs : claim[r] \in ClaimType /\ claim[r].first \in Nat /\ claim[r].last \in Nat
  BY <1>3 DEF FeedType, ClaimType
<1>5. ASSUME NEW r \in Refs
      PROVE  /\ claim'[r] \in ClaimType
             /\ claim'[r].first = claim[r].first /\ claim'[r].last = claim[r].last
             /\ claim'[r].state = IF r \in R THEN st ELSE claim[r].state
             /\ r \notin R => claim'[r] = claim[r]
  BY <1>1, <1>4 DEF ClaimType
<1>6. claim' \in [Refs -> ClaimType]
  BY <1>1, <1>5
<1>7. \A r \in Refs : claim'[r].state = "open" => claim[r].state = "open" /\ w < claim[r].first
  BY <1>2, <1>5 DEF IsResolvedUpTo
<1>8. w < counter => \E q \in Refs : claim'[q].state = "open" /\ claim[q].first = w + 1
  BY <1>2, <1>5 DEF IsResolvedUpTo
<1>9. watermark <= w
  <2>1. CASE w = counter
    BY <2>1 DEF FeedInv
  <2>2. CASE w < counter
    <3>1. PICK q \in Refs : claim'[q].state = "open" /\ claim[q].first = w + 1
      BY <1>8, <2>2
    <3>2. watermark < claim[q].first
      BY <1>7, <3>1 DEF FeedInv
    <3> QED BY <1>3, <3>1, <3>2
  <2> QED BY <1>3, <2>1, <2>2
<1>10. ASSUME NEW r \in Refs, claim'[r].state \notin {"none", "open"},
              \A q \in Refs : q < r => claim'[q].state # "open"
       PROVE  claim[r].last <= w
  <2>1. claim[r].state # "none"
    BY <1>5, <1>10 DEF Held
  <2>2. CASE w = counter
    BY <2>1, <2>2 DEF FeedInv
  <2>3. CASE w < counter
    <3>1. PICK q \in Refs : claim'[q].state = "open" /\ claim[q].first = w + 1
      BY <1>8, <2>3
    <3>2. r < q
      BY <1>10, <3>1 DEF Refs
    <3>3. claim[q].state # "none"
      BY <1>7, <3>1
    <3>4. claim[r].last < claim[q].first
      BY <3>2, <3>3 DEF FeedInv
    <3> QED BY <1>3, <1>4, <3>1, <3>4
  <2> QED BY <1>3, <2>2, <2>3
<1> QED BY <1>2, <1>3, <1>5, <1>6, <1>7, <1>9, <1>10

\* A step that moves held claims keeps the order of the feed.
LEMMA MovedHolds ==
  ASSUME FeedType, FeedInv, NEW R \in SUBSET Refs, NEW st \in {"acked", "released", "dropped"},
         \A r \in R : Held(r), Move(R, st), UNCHANGED <<up, counter, stored, crashes>>,
         st # "dropped" => R \subseteq stored,
         st = "released" => \A r \in R, q \in Refs : q < r => ~Held(q)
  PROVE  FeedType' /\ FeedInv' /\ FeedGrows
<1>1. FeedType'
  BY FeedMoves DEF FeedType
<1>2. /\ \A r \in Refs : /\ claim'[r].first = claim[r].first /\ claim'[r].last = claim[r].last
                         /\ claim'[r].state = IF r \in R THEN st ELSE claim[r].state
                         /\ r \notin R => claim'[r] = claim[r]
      /\ watermark <= watermark' /\ watermark' <= counter
      /\ \A r \in Refs : claim'[r].state = "open" => watermark' < claim[r].first
      /\ \A r \in Refs : /\ claim'[r].state \notin {"none", "open"}
                         /\ \A q \in Refs : q < r => claim'[q].state # "open"
                         => claim[r].last <= watermark'
  BY FeedMoves
<1>3. \A r \in Refs : claim'[r].state = "none" <=> claim[r].state = "none"
  BY <1>2 DEF Held
<1>4. \A r \in Refs : Held(r)' => Held(r)
  BY <1>2 DEF Held
<1>5. \A q, r \in Refs : q < r /\ claim'[r].state = "released" => ~Held(q)
  BY <1>2 DEF FeedInv
<1>6. \A r \in Refs : claim'[r].state = "released" => claim'[r].last <= watermark'
  <2> SUFFICES ASSUME NEW r \in Refs, claim'[r].state = "released" PROVE claim[r].last <= watermark'
    BY <1>2
  <2>1. \A q \in Refs : q < r => claim'[q].state # "open"
    BY <1>4, <1>5 DEF Held
  <2> QED BY <1>2, <2>1
<1>7. \A r \in Refs : claim'[r].state \in {"acked", "released"} => r \in stored'
  BY <1>2 DEF FeedInv
<1>8. \A r \in Refs : claim'[r].state = "none" => claim'[r] = NoClaim /\ r \notin stored'
  BY <1>2, <1>3 DEF FeedInv, Held
<1>9. \A r \in Refs : claim'[r].state # "none" => claim'[r].first <= claim'[r].last /\ claim'[r].last <= counter'
  BY <1>2, <1>3 DEF FeedInv
<1>10. \A q, r \in Refs : q < r /\ claim'[r].state # "none" =>
         claim'[q].state # "none" /\ claim'[q].last < claim'[r].first
  BY <1>2, <1>3 DEF FeedInv
<1>11. FeedInv'
  <2>3. ~up' => \A r \in Refs : ~Held(r)'
    BY <1>4 DEF FeedInv
  <2>1. watermark' <= counter' /\ \A r \in Refs : claim'[r].state = "open" => watermark' < claim'[r].first
    BY <1>2
  <2>2. \A q, r \in Refs : q < r /\ claim'[r].state = "released" => ~Held(q)'
    BY <1>4, <1>5
  <2> QED BY <1>6, <1>7, <1>8, <1>9, <1>10, <2>1, <2>2, <2>3 DEF FeedInv
<1>12. FeedGrows
  BY <1>2, <1>3 DEF FeedGrows, Held
<1> QED BY <1>1, <1>11, <1>12

\* Every step of the feed keeps its invariant and takes nothing back.
LEMMA FeedKept ==
  ASSUME FeedType, FeedInv, FeedNext
  PROVE  FeedType' /\ FeedInv' /\ FeedGrows
<1>0. counter \in Nat /\ watermark \in Nat /\ MaxGsn \in Nat /\ watermark <= counter
      /\ \A r \in Refs : claim[r].first \in Nat /\ claim[r].last \in Nat
  BY FeedAssumption DEF FeedType, FeedInv, ClaimType
<1>1. ASSUME NEW r \in Refs, NEW n \in 1..MaxClaim, Claim(r, n)
      PROVE  FeedType' /\ FeedInv' /\ FeedGrows
  <2>1. n \in Nat /\ 1 <= n /\ counter' = counter + n /\ counter + n <= MaxGsn
    BY <1>1, FeedAssumption DEF Claim
  <2>2. PICK c : c = [first |-> counter + 1, last |-> counter + n, state |-> "open"]
    OBVIOUS
  <2>3. c \in ClaimType
    BY <1>0, <2>1, <2>2 DEF ClaimType
  <2>4. c.first = counter + 1 /\ c.last = counter + n /\ c.state = "open"
    BY <2>2
  <2>5. claim' = [claim EXCEPT ![r] = c]
    BY <1>1, <2>2 DEF Claim
  <2>6. FeedType'
    BY <1>0, <1>1, <2>1, <2>3, <2>5 DEF FeedType, Claim
  <2>7. claim'[r] = c /\ \A q \in Refs : q # r => claim'[q] = claim[q]
    BY <2>5 DEF FeedType
  <2>8. UNCHANGED <<watermark, stored>> /\ claim[r].state = "none" /\ \A q \in Refs : q < r => claim[q].state # "none"
    BY <1>1 DEF Claim
  <2>9. r \notin stored /\ \A q \in Refs : r < q => claim[q].state = "none"
    BY <2>8 DEF FeedInv
  <2>10. /\ watermark' <= counter'
         /\ \A q \in Refs : claim'[q].state = "none" => claim'[q] = NoClaim /\ q \notin stored'
         /\ \A q \in Refs : claim'[q].state # "none" => claim'[q].first <= claim'[q].last /\ claim'[q].last <= counter'
         /\ \A q \in Refs : claim'[q].state = "open" => watermark' < claim'[q].first
         /\ \A q \in Refs : claim'[q].state \in {"acked", "released"} => q \in stored'
         /\ \A q \in Refs : claim'[q].state = "released" => claim'[q].last <= watermark'
    BY <1>0, <2>1, <2>4, <2>7, <2>8 DEF FeedInv
  <2>11. ASSUME NEW q \in Refs, NEW m \in Refs, q < m, claim'[m].state # "none"
         PROVE  claim'[q].state # "none" /\ claim'[q].last < claim'[m].first
    <3>1. CASE m = r
      <4>1. q # r /\ claim[q].state # "none" /\ claim[q].last <= counter
        BY <2>8, <2>11, <3>1 DEF FeedInv, Refs
      <4> QED BY <1>0, <2>4, <2>7, <3>1, <4>1
    <3>2. CASE m # r
      <4>1. claim[m].state # "none" /\ claim[q].state # "none" /\ claim[q].last < claim[m].first
        BY <2>7, <2>11, <3>2 DEF FeedInv
      <4> QED BY <2>7, <2>8, <3>2, <4>1
    <3> QED BY <3>1, <3>2
  <2>12. ASSUME NEW q \in Refs, NEW m \in Refs, q < m, claim'[m].state = "released" PROVE ~Held(q)'
    <3>1. m # r /\ claim[m].state = "released"
      BY <2>4, <2>7, <2>12
    <3>2. claim[q].state # "none" /\ ~Held(q)
      BY <2>12, <3>1 DEF FeedInv
    <3> QED BY <2>7, <2>8, <3>2 DEF Held
  <2>13. FeedInv'
    <3>1. up'
      BY <1>1 DEF Claim
    <3> QED BY <2>10, <2>11, <2>12, <3>1 DEF FeedInv
  <2>14. FeedGrows
    BY <1>0, <2>4, <2>7, <2>8 DEF FeedGrows
  <2> QED BY <2>6, <2>13, <2>14
<1>2. ASSUME NEW r \in Refs, Store(r) PROVE FeedType' /\ FeedInv' /\ FeedGrows
  <2>1. stored' = stored \cup {r} /\ UNCHANGED <<up, counter, watermark, claim, crashes>> /\ claim[r].state # "none"
    BY <1>2 DEF Store
  <2>2. FeedType'
    BY <2>1 DEF FeedType
  <2>3. \A q \in Refs : Held(q)' <=> Held(q)
    BY <2>1 DEF Held
  <2>4. FeedInv'
    BY <2>1, <2>3 DEF FeedInv
  <2> QED BY <1>0, <2>1, <2>2, <2>4 DEF FeedGrows
<1>3. ASSUME NEW r \in Refs, Ack(r) PROVE FeedType' /\ FeedInv' /\ FeedGrows
  <2>1. Held(r) /\ r \in stored /\ Move({r}, "acked") /\ UNCHANGED <<up, counter, stored, crashes>>
    BY <1>3 DEF Ack, Held
  <2> QED BY <2>1, MovedHolds
<1>4. ASSUME NEW r \in Refs, Release(r) PROVE FeedType' /\ FeedInv' /\ FeedGrows
  <2>1. Held(r) /\ r \in stored /\ \A q \in Refs : q < r => ~Held(q)
    BY <1>4 DEF Release, Held, FeedInv
  <2>2. Move({r}, "released") /\ UNCHANGED <<up, counter, stored, crashes>>
    BY <1>4 DEF Release
  <2> QED BY <2>1, <2>2, MovedHolds
<1>5. ASSUME NEW r \in Refs, NEW R \in SUBSET Refs, Drop(r, R) PROVE FeedType' /\ FeedInv' /\ FeedGrows
  <2>1. \A q \in R : Held(q)
    BY <1>5 DEF Drop, Held
  <2>2. Move(R, "dropped") /\ UNCHANGED <<up, counter, stored, crashes>>
    BY <1>5 DEF Drop
  <2> QED BY <2>1, <2>2, MovedHolds
<1>6. ASSUME WriterCrash PROVE FeedType' /\ FeedInv' /\ FeedGrows
  <2>1. /\ up' = FALSE /\ crashes' = crashes + 1 /\ UNCHANGED <<counter, watermark, stored>>
        /\ claim' = [r \in Refs |-> IF Held(r) THEN [claim[r] EXCEPT !.state = "dropped"] ELSE claim[r]]
    BY <1>6 DEF WriterCrash
  <2>2. \A r \in Refs : claim[r] \in ClaimType
    BY DEF FeedType
  <2>3. \A r \in Refs : /\ claim'[r] \in ClaimType
                        /\ claim'[r].first = claim[r].first /\ claim'[r].last = claim[r].last
                        /\ claim'[r].state = IF Held(r) THEN "dropped" ELSE claim[r].state
                        /\ ~Held(r) => claim'[r] = claim[r]
    BY <2>1, <2>2 DEF ClaimType
  <2>4. FeedType'
    <3>1. claim' \in [Refs -> ClaimType]
      <4>1. DOMAIN claim' = Refs
        BY <2>1
      <4> QED BY <2>1, <2>3, <4>1
    <3>2. up' \in BOOLEAN
      BY <2>1, Zenon
    <3>3. crashes' \in Nat
      BY <2>1 DEF FeedType
    <3> QED BY <2>1, <3>1, <3>2, <3>3 DEF FeedType
  <2>5. \A r \in Refs : /\ ~Held(r)'
                        /\ claim'[r].state = "none" <=> claim[r].state = "none"
                        /\ claim'[r].state = "released" <=> claim[r].state = "released"
                        /\ claim'[r].state # "open" /\ claim'[r].state # "acked"
                        /\ claim'[r].state = "none" => claim'[r] = claim[r]
    BY <2>3 DEF Held
  <2>6. FeedInv'
    BY <2>1, <2>3, <2>5 DEF FeedInv
  <2>7. FeedGrows
    BY <1>0, <2>1, <2>3, <2>5 DEF FeedGrows, Held
  <2> QED BY <2>4, <2>6, <2>7
<1>7. ASSUME WriterStart PROVE FeedType' /\ FeedInv' /\ FeedGrows
  <2>1. ~up /\ up' = TRUE /\ watermark' = counter /\ UNCHANGED <<counter, claim, stored, crashes>>
    BY <1>7 DEF WriterStart
  <2>2. FeedType'
    BY <2>1 DEF FeedType
  <2>3. \A r \in Refs : ~Held(r) /\ ~Held(r)' /\ claim[r].state # "open"
    BY <2>1 DEF FeedInv, Held
  <2>4. FeedInv'
    BY <1>0, <2>1, <2>3 DEF FeedInv
  <2>5. FeedGrows
    BY <1>0, <2>1 DEF FeedGrows
  <2> QED BY <2>2, <2>4, <2>5
<1> QED BY <1>1, <1>2, <1>3, <1>4, <1>5, <1>6, <1>7 DEF FeedNext

-----------------------------------------------------------------------------
(***************************************************************************)
(* The messages.                                                           *)
(***************************************************************************)
MessageType == [kind : {"batch_committed", "range_resolved"}, range : RangeType]

\* A message tells what became of a claim.
Tells(m) ==
  \E r \in Refs : /\ IsRangeOf(m.range, r)
                  /\ claim[r].state = IF m.kind = "batch_committed" THEN "released" ELSE "dropped"

\* A released claim has a message in the mailbox.
Told(r) == \E i \in DOMAIN mailbox : mailbox[i].kind = "batch_committed" /\ IsRangeOf(mailbox[i].range, r)

LEMMA MessageOf ==
  ASSUME FeedType, FeedInv, NEW r \in Refs, claim[r].state # "none",
         NEW kind \in {"batch_committed", "range_resolved"}
  PROVE  /\ Message(kind, r) \in MessageType /\ Message(kind, r).kind = kind
         /\ IsRangeOf(Message(kind, r).range, r)
<1>1. claim[r].first \in Gsns /\ claim[r].last \in Gsns
  BY FeedAssumption DEF FeedType, FeedInv, ClaimType, Gsns
<1> QED BY <1>1 DEF Message, MessageType, RangeType, GsnRange, IsRangeOf

\* Messages that were true stay true.
LEMMA StillTells ==
  ASSUME FeedGrows, NEW m, Tells(m)
  PROVE  Tells(m)'
<1>1. PICK r \in Refs : /\ IsRangeOf(m.range, r)
                        /\ claim[r].state = IF m.kind = "batch_committed" THEN "released" ELSE "dropped"
  BY DEF Tells
<1>2. claim'[r].first = claim[r].first /\ claim'[r].last = claim[r].last /\ claim'[r].state = claim[r].state
  BY <1>1 DEF FeedGrows
<1>3. IsRangeOf(m.range, r)'
  BY <1>1, <1>2 DEF IsRangeOf
<1> QED BY <1>1, <1>2, <1>3 DEF Tells

\* Messages appended to the mailbox.
LEMMA MailAppended ==
  ASSUME FeedGrows, mailbox \in Seq(MessageType), NEW ms \in Seq(MessageType), mailbox' = mailbox \o ms,
         \A i \in DOMAIN mailbox : Tells(mailbox[i]), \A i \in DOMAIN ms : Tells(ms[i])'
  PROVE  /\ mailbox' \in Seq(MessageType) /\ Len(mailbox') = Len(mailbox) + Len(ms)
         /\ \A i \in DOMAIN mailbox' : Tells(mailbox[i])'
         /\ \A i \in DOMAIN mailbox : i \in DOMAIN mailbox' /\ mailbox'[i] = mailbox[i]
         /\ \A i \in DOMAIN mailbox' : i \in DOMAIN mailbox
              \/ (i - Len(mailbox) \in DOMAIN ms /\ mailbox'[i] = ms[i - Len(mailbox)])
<1>1. PICK a \in Seq(MessageType) : a = mailbox
  OBVIOUS
<1>2. Len(a) \in Nat /\ Len(ms) \in Nat /\ DOMAIN a = 1..Len(a) /\ DOMAIN ms = 1..Len(ms)
  OBVIOUS
<1>3. PICK b : b = a \o ms
  OBVIOUS
<1>4. b \in Seq(MessageType) /\ Len(b) = Len(a) + Len(ms)
      /\ \A i \in 1..(Len(a) + Len(ms)) : b[i] = IF i <= Len(a) THEN a[i] ELSE ms[i - Len(a)]
  BY <1>3, Joined
<1>5. DOMAIN b = 1..(Len(a) + Len(ms))
  BY <1>4
<1>6. \A i \in DOMAIN a : i \in DOMAIN b /\ b[i] = a[i]
  BY <1>2, <1>4, <1>5
<1>7. \A i \in DOMAIN b : i \in DOMAIN a \/ (i - Len(a) \in DOMAIN ms /\ b[i] = ms[i - Len(a)])
  BY <1>2, <1>4, <1>5
<1>8. \A i \in DOMAIN a : Tells(a[i])'
  BY <1>1, StillTells
<1>9. mailbox' = b
  BY <1>1, <1>3
<1>10. ASSUME NEW i \in DOMAIN b PROVE Tells(mailbox[i])'
  <2>1. PICK m : m = b[i]
    OBVIOUS
  <2>2. Tells(m)'
    BY <1>1, <1>6, <1>7, <1>8, <2>1
  <2> QED BY <1>9, <2>1, <2>2 DEF Tells, IsRangeOf
<1> QED BY <1>1, <1>4, <1>6, <1>7, <1>9, <1>10

\* A step of the feed, as the Router sees it.
LEMMA FeedStepIs ==
  ASSUME FeedStep
  PROVE  /\ FeedNext
         /\ UNCHANGED <<router, plan, groups, meta, toPush, sent, frontier, pushVars,
                        routerCrashes, frontierCrashes>>
BY DEF FeedStep, SilentFeed, Announce, Abandon, FeedNext

\* The messages tell what became of the claims, in the order of the releases, and a
\* release is told while a Router is registered.
LEMMA MailKept ==
  ASSUME FeedType, FeedInv, mailbox \in Seq(MessageType), MailInv, FeedStep
  PROVE  /\ mailbox' \in Seq(MessageType) /\ MailInv'
         /\ router = "down" => mailbox' = mailbox
         /\ \A i \in DOMAIN mailbox : i \in DOMAIN mailbox' /\ mailbox'[i] = mailbox[i]
         /\ \A r \in Refs : claim'[r].state = "released" =>
              claim[r].state = "released" \/ router = "down" \/ Told(r)'
<1>1. FeedType' /\ FeedInv' /\ FeedGrows
  BY FeedStepIs, FeedKept
<1>2. \A i \in DOMAIN mailbox : Tells(mailbox[i])
  BY DEF MailInv, Tells
<1>3. \A i, j \in DOMAIN mailbox :
        i < j /\ mailbox[i].kind = "batch_committed" /\ mailbox[j].kind = "batch_committed" =>
          mailbox[i].range.to < mailbox[j].range.from
  BY DEF MailInv
<1>4. ASSUME mailbox' = mailbox PROVE mailbox' \in Seq(MessageType) /\ MailInv'
  <2>1. \A i \in DOMAIN mailbox : Tells(mailbox[i])'
    <3> SUFFICES ASSUME NEW i \in DOMAIN mailbox PROVE Tells(mailbox[i])'
      OBVIOUS
    <3>1. PICK m : m = mailbox[i]
      OBVIOUS
    <3>2. Tells(m)'
      BY <1>1, <1>2, <3>1, StillTells
    <3> QED BY <1>4, <3>1, <3>2 DEF Tells, IsRangeOf
  <2> QED BY <1>3, <1>4, <2>1 DEF MailInv, Tells
<1>5. CASE SilentFeed
  <2>1. mailbox' = mailbox
    BY <1>5 DEF SilentFeed
  <2>2. ASSUME NEW r \in Refs, claim'[r].state = "released" PROVE claim[r].state = "released"
    <3>1. ASSUME NEW q \in Refs, NEW n \in 1..MaxClaim, Claim(q, n) PROVE claim[r].state = "released"
      BY <2>2, <3>1 DEF Claim, FeedType
    <3>2. ASSUME NEW q \in Refs, Store(q) PROVE claim[r].state = "released"
      BY <2>2, <3>2 DEF Store
    <3>3. ASSUME NEW q \in Refs, Ack(q) PROVE claim[r].state = "released"
      <4>1. claim' = [m \in Refs |-> IF m \in {q} THEN [claim[m] EXCEPT !.state = "acked"] ELSE claim[m]]
        BY <3>3 DEF Ack, Move
      <4> QED BY <2>2, <4>1 DEF FeedType, ClaimType
    <3>4. ASSUME WriterCrash PROVE claim[r].state = "released"
      <4>1. claim' = [m \in Refs |-> IF Held(m) THEN [claim[m] EXCEPT !.state = "dropped"] ELSE claim[m]]
        BY <3>4 DEF WriterCrash
      <4> QED BY <2>2, <4>1 DEF FeedType, ClaimType
    <3>5. ASSUME WriterStart PROVE claim[r].state = "released"
      BY <2>2, <3>5 DEF WriterStart
    <3> QED BY <1>5, <3>1, <3>2, <3>3, <3>4, <3>5 DEF SilentFeed
  <2> QED BY <1>4, <2>1, <2>2
<1>6. ASSUME NEW r \in Refs, Announce(r)
      PROVE  /\ mailbox' \in Seq(MessageType) /\ MailInv'
             /\ router = "down" => mailbox' = mailbox
             /\ \A i \in DOMAIN mailbox : i \in DOMAIN mailbox' /\ mailbox'[i] = mailbox[i]
             /\ \A q \in Refs : claim'[q].state = "released" =>
                  claim[q].state = "released" \/ router = "down" \/ Told(q)'
  <2>1. Release(r) /\ claim[r].state = "acked" /\ Held(r)
    BY <1>6 DEF Announce, Release, Held
  <2>2. \A q \in Refs : claim'[q].state = IF q = r THEN "released" ELSE claim[q].state
    <3>1. claim' = [m \in Refs |-> IF m \in {r} THEN [claim[m] EXCEPT !.state = "released"] ELSE claim[m]]
      BY <2>1 DEF Release, Move
    <3> QED BY <3>1 DEF FeedType, ClaimType
  <2>3. CASE router = "down"
    <3>1. mailbox' = mailbox
      BY <1>6, <2>3 DEF Announce, Notify
    <3> QED BY <1>4, <2>3, <3>1
  <2>4. CASE router # "down"
    <3>1. PICK m : m = Message("batch_committed", r)
      OBVIOUS
    <3>2. m \in MessageType /\ m.kind = "batch_committed" /\ IsRangeOf(m.range, r)
      BY <2>1, <3>1, MessageOf
    <3>3. PICK ms : ms = <<m>>
      OBVIOUS
    <3>4. ms \in Seq(MessageType) /\ Len(ms) = 1 /\ DOMAIN ms = {1} /\ ms[1] = m
      BY <3>2, <3>3
    <3>5. mailbox' = mailbox \o ms
      BY <1>6, <2>4, <3>1, <3>3 DEF Announce, Notify
    <3>6. IsRangeOf(m.range, r)'
      BY <1>1, <2>1, <3>2 DEF FeedGrows, IsRangeOf
    <3>7. \A i \in DOMAIN ms : Tells(ms[i])'
      BY <2>2, <3>2, <3>4, <3>6 DEF Tells
    <3>8. /\ mailbox' \in Seq(MessageType) /\ Len(mailbox') = Len(mailbox) + 1
          /\ \A i \in DOMAIN mailbox' : Tells(mailbox[i])'
          /\ \A i \in DOMAIN mailbox : i \in DOMAIN mailbox' /\ mailbox'[i] = mailbox[i]
          /\ \A i \in DOMAIN mailbox' : i \in DOMAIN mailbox
               \/ (i - Len(mailbox) \in DOMAIN ms /\ mailbox'[i] = ms[i - Len(mailbox)])
      BY <1>1, <1>2, <3>4, <3>5, <3>7, MailAppended
    <3>9. Len(mailbox) \in Nat /\ DOMAIN mailbox = 1..Len(mailbox) /\ DOMAIN mailbox' = 1..(Len(mailbox) + 1)
      BY <3>8
    <3>10. mailbox'[Len(mailbox) + 1] = m
      BY <3>4, <3>8, <3>9
    <3>11. ASSUME NEW i \in DOMAIN mailbox, mailbox[i].kind = "batch_committed"
           PROVE  mailbox[i].range.to < m.range.from
      <4>1. PICK q \in Refs : IsRangeOf(mailbox[i].range, q) /\ claim[q].state = "released"
        BY <1>2, <3>11 DEF Tells
      <4>2. q < r
        BY <2>1, <4>1 DEF FeedInv, Refs, Held
      <4>3. claim[q].last < claim[r].first
        BY <2>1, <4>2 DEF FeedInv
      <4> QED BY <3>2, <4>1, <4>3 DEF IsRangeOf
    <3>12. ASSUME NEW i \in DOMAIN mailbox', NEW j \in DOMAIN mailbox', i < j,
                  mailbox'[i].kind = "batch_committed", mailbox'[j].kind = "batch_committed"
           PROVE  mailbox'[i].range.to < mailbox'[j].range.from
      <4>1. i \in DOMAIN mailbox /\ (j \in DOMAIN mailbox \/ j = Len(mailbox) + 1)
        BY <3>9, <3>12
      <4> QED BY <1>3, <3>8, <3>10, <3>11, <3>12, <4>1
    <3>13. MailInv'
      BY <3>8, <3>12 DEF MailInv, Tells
    <3>14. Told(r)'
      <4>1. Len(mailbox) + 1 \in DOMAIN mailbox'
        BY <3>9
      <4> QED BY <3>2, <3>6, <3>10, <4>1 DEF Told
    <3> QED BY <2>2, <2>4, <3>8, <3>13, <3>14
  <2> QED BY <2>3, <2>4
<1>7. ASSUME NEW r \in Refs, NEW R \in SUBSET Refs, Abandon(r, R)
      PROVE  /\ mailbox' \in Seq(MessageType) /\ MailInv'
             /\ router = "down" => mailbox' = mailbox
             /\ \A i \in DOMAIN mailbox : i \in DOMAIN mailbox' /\ mailbox'[i] = mailbox[i]
             /\ \A q \in Refs : claim'[q].state = "released" => claim[q].state = "released"
  <2>1. Drop(r, R) /\ \A q \in R : claim[q].state = "open"
    BY <1>7 DEF Abandon, Drop
  <2>2. \A q \in Refs : claim'[q].state = IF q \in R THEN "dropped" ELSE claim[q].state
    <3>1. claim' = [m \in Refs |-> IF m \in R THEN [claim[m] EXCEPT !.state = "dropped"] ELSE claim[m]]
      BY <2>1 DEF Drop, Move
    <3> QED BY <3>1 DEF FeedType, ClaimType
  <2>3. CASE router = "down"
    <3>1. mailbox' = mailbox
      BY <1>7, <2>3 DEF Abandon, Notify
    <3> QED BY <1>4, <2>2, <3>1
  <2>4. CASE router # "down"
    <3>1. PICK s \in [1..Cardinality(R) -> R] : Notify([i \in DOMAIN s |-> Message("range_resolved", s[i])])
      BY <1>7 DEF Abandon
    <3>2. PICK n \in Nat : n = Cardinality(R)
      <4>1. IsFiniteSet(Refs)
        BY FeedAssumption, FS_Interval DEF Refs
      <4> QED BY <4>1, FS_Subset, FS_CardinalityType
    <3>3. PICK ms : ms = [i \in 1..n |-> Message("range_resolved", s[i])]
      OBVIOUS
    <3>4. mailbox' = mailbox \o ms
      BY <2>4, <3>1, <3>2, <3>3 DEF Notify
    <3>5. ASSUME NEW i \in 1..n
          PROVE  ms[i] \in MessageType /\ ms[i].kind = "range_resolved" /\ s[i] \in R /\ IsRangeOf(ms[i].range, s[i])
      <4>1. s[i] \in R /\ s[i] \in Refs /\ claim[s[i]].state # "none"
        BY <2>1, <3>1, <3>2
      <4>2. ms[i] = Message("range_resolved", s[i])
        BY <3>3
      <4> QED BY <4>1, <4>2, MessageOf
    <3>6. ms \in Seq(MessageType) /\ Len(ms) = n /\ DOMAIN ms = 1..n
      BY <3>3, <3>5
    <3>7. \A i \in DOMAIN ms : Tells(ms[i])'
      <4> SUFFICES ASSUME NEW i \in 1..n PROVE Tells(ms[i])'
        BY <3>6
      <4>1. IsRangeOf(ms[i].range, s[i])'
        BY <1>1, <2>1, <3>5 DEF FeedGrows, IsRangeOf
      <4> QED BY <2>2, <3>5, <4>1 DEF Tells
    <3>8. /\ mailbox' \in Seq(MessageType)
          /\ \A i \in DOMAIN mailbox' : Tells(mailbox[i])'
          /\ \A i \in DOMAIN mailbox : i \in DOMAIN mailbox' /\ mailbox'[i] = mailbox[i]
          /\ \A i \in DOMAIN mailbox' : i \in DOMAIN mailbox
               \/ (i - Len(mailbox) \in DOMAIN ms /\ mailbox'[i] = ms[i - Len(mailbox)])
      BY <1>1, <1>2, <3>4, <3>6, <3>7, MailAppended
    <3>9. \A i \in DOMAIN mailbox' : mailbox'[i].kind = "batch_committed" => i \in DOMAIN mailbox
      BY <3>5, <3>6, <3>8
    <3>10. MailInv'
      BY <1>3, <3>8, <3>9 DEF MailInv, Tells
    <3> QED BY <2>2, <2>4, <3>8, <3>10
  <2> QED BY <2>3, <2>4
<1> QED BY <1>5, <1>6, <1>7 DEF FeedStep

-----------------------------------------------------------------------------
(***************************************************************************)
(* The Router, at any depth of the commit pipeline.                        *)
(***************************************************************************)
LEMMA InSeq ==
  ASSUME NEW s, NEW g
  PROVE  g \in GsnsOfSeq(s) <=> \E y : IsIn(s, y) /\ g \in GsnsOfRange(y)
BY DEF GsnsOfSeq, IsIn

LEMMA NothingInEmpty == GsnsOfSeq(<<>>) = {} /\ \A y : ~IsIn(<<>>, y)
BY DEF GsnsOfSeq, IsIn

LEMMA InLogIs ==
  ASSUME NEW s
  PROVE  InLog(s) <=> Sorted(s) /\ \A y : IsIn(s, y) => y.from <= y.to /\ GsnsOfRange(y) \subseteq StoredGsns
BY DEF InLog, Sorted, IsIn

\* Stored Actions stay stored, and what was given up stays given up.
LEMMA LogGrows ==
  ASSUME FeedType, FeedInv, FeedGrows
  PROVE  /\ StoredGsns \subseteq StoredGsns'
         /\ GsnsIn("dropped") \subseteq GsnsIn("dropped")'
<1>1. ASSUME NEW r \in Refs, claim[r].state # "none" PROVE RangeOf(claim[r]) = RangeOf(claim[r])'
  BY <1>1 DEF FeedGrows, RangeOf
<1>2. \A r \in stored : r \in Refs /\ claim[r].state # "none" /\ r \in stored'
  BY DEF FeedType, FeedInv, FeedGrows
<1>3. StoredGsns \subseteq StoredGsns'
  BY <1>1, <1>2 DEF StoredGsns
<1>4. \A r \in Refs : claim[r].state = "dropped" => claim'[r].state = "dropped" /\ RangeOf(claim[r]) = RangeOf(claim[r])'
  BY <1>1 DEF FeedGrows
<1>5. GsnsIn("dropped") \subseteq GsnsIn("dropped")'
  BY <1>4 DEF GsnsIn
<1> QED BY <1>3, <1>5

LEMMA TypeParts ==
  ASSUME TypeOK
  PROVE  /\ FeedType /\ mailbox \in Seq(MessageType) /\ plan \in PlanType
         /\ toPush \in Seq(RangeType) /\ sent \in 0..Len(toPush)
         /\ watermark \in Nat /\ frontier \in Int /\ coldAt \in Nat /\ plan.last \in Nat /\ sent \in Nat
BY FeedAssumption DEF TypeOK, FeedType, MessageType, PlanType

\* The feed's steps leave the Router's ranges, groups and pushes right.
LEMMA FeedStepSafe ==
  ASSUME SafeInv, FeedStep
  PROVE  SafeInv'
<1> USE DEF SafeInv, LogInv
<1>1. FeedType /\ FeedInv /\ mailbox \in Seq(MessageType) /\ MailInv
  BY TypeParts
<1>2. FeedType' /\ FeedInv' /\ FeedGrows
  BY <1>1, FeedStepIs, FeedKept
<1>3. UNCHANGED <<router, plan, groups, meta, toPush, sent, frontier, pushed, guessed, coldAt,
                  routerCrashes, frontierCrashes>>
  BY FeedStepIs DEF pushVars
<1>4. mailbox' \in Seq(MessageType) /\ MailInv' /\ (router = "down" => mailbox' = mailbox)
  BY <1>1, MailKept
<1>5. TypeOK'
  BY <1>2, <1>3, <1>4 DEF TypeOK, FeedType, MessageType
<1>6. StoredGsns \subseteq StoredGsns' /\ GsnsIn("dropped") \subseteq GsnsIn("dropped")'
  BY <1>1, <1>2, LogGrows
<1>7. watermark <= watermark' /\ watermark \in Nat /\ watermark' \in Nat
  BY <1>1, <1>2, FeedAssumption DEF FeedGrows, FeedType
<1>8. RouterInv'
  <2>1. (InLog(plan.pending) /\ InLog(toPush))'
    BY <1>3, <1>6 DEF RouterInv, InLog
  <2>2. NoneTwice(plan.pending)'
    BY <1>3 DEF RouterInv, NoneTwice
  <2>3. \A i \in DOMAIN toPush : toPush[i].to \in Nat
    <3>1. \A i \in DOMAIN toPush : toPush[i] \in RangeType
      BY TypeParts
    <3> QED BY <3>1, FeedAssumption DEF RangeType, Gsns
  <2>4. \A i \in DOMAIN toPush' : toPush'[i].to <= watermark'
    BY <1>3, <1>7, <2>3 DEF RouterInv
  <2>5. plan'.last <= watermark' /\ frontier' <= watermark' /\ coldAt' <= watermark'
    BY <1>3, <1>7, TypeParts DEF RouterInv
  <2> QED BY <1>3, <1>4, <2>1, <2>2, <2>4, <2>5 DEF RouterInv
<1>9. PushedIsCommitted'
  <2>1. \A g \in pushed : g \in Nat
    BY FeedAssumption DEF TypeOK, Gsns
  <2> QED BY <1>3, <1>6, <1>7, <2>1 DEF PushedIsCommitted
<1>10. BesideInv'
  <2>1. \A g \in Gsns : Unsent(g)' => Unsent(g)
    BY <1>3 DEF Unsent
  <2> QED BY <1>3, <1>6, <2>1 DEF BesideInv, GsnsOfSeq
<1>11. GroupsFromCommit'
  BY <1>3, <1>6 DEF GroupsFromCommit
<1> QED BY <1>2, <1>4, <1>5, <1>8, <1>9, <1>10, <1>11

\* A plan whose ranges the log holds.
PlanOK(p) ==
  /\ p \in PlanType /\ InLog(p.pending) /\ NoneTwice(p.pending)
  /\ p.last <= watermark

\* The groups G and the payloads M are those of the ranges of p.
Beside(p, G, M) ==
  /\ G \subseteq GsnsOfSeq(p.pending)
  /\ \A x \in M : IsIn(p.pending, x)
  /\ \A g \in GsnsOfSeq(p.pending) : g \in G \cup pushed \cup GsnsIn("dropped")

\* A drained plan and the ranges to push are in the log, and nothing beside them changes.
LEMMA DrainSafe ==
  ASSUME TypeOK, RouterInv, NEW p, PlanOK(p), Drain(p, watermark), Beside(p, groups', meta'),
         groups' \subseteq Gsns, meta' \subseteq RangeType,
         UNCHANGED <<feedVars, frontier, pushVars>>
  PROVE  /\ plan' \in PlanType /\ toPush' \in Seq(RangeType) /\ sent' \in 0..Len(toPush')
         /\ router' = "pushing" /\ RouterInv' /\ BesideInv'
<1>1. p \in PlanType /\ Sorted(p.pending) /\ NoneTwice(p.pending)
  BY InLogIs DEF PlanOK
<1>2. PICK k \in 0..Len(p.pending) : Drained(p, watermark, k)
  BY <1>1, DrainMoves
<1>3. plan' \in PlanType /\ toPush' \in Seq(RangeType) /\ sent' = 0 /\ router' = "pushing"
  BY <1>2 DEF Drained
<1>4. /\ Sorted(toPush') /\ Sorted(plan'.pending) /\ NoneTwice(plan'.pending)
      /\ \A y : IsIn(p.pending, y) <=> IsIn(toPush', y) \/ IsIn(plan'.pending, y)
      /\ \A i \in DOMAIN toPush' : toPush'[i].to <= watermark /\ toPush'[i].to <= plan'.last
  BY <1>1, <1>2, DrainedHolds
<1>5. UNCHANGED <<claim, stored, watermark, frontier, pushed, guessed, coldAt>>
  BY DEF feedVars, pushVars
<1>6. UNCHANGED <<StoredGsns, GsnsIn("dropped")>>
  BY <1>5 DEF StoredGsns, GsnsIn
<1>7. InLog(toPush)' /\ InLog(plan.pending)'
  <2>1. \A y : IsIn(p.pending, y) => y.from <= y.to /\ GsnsOfRange(y) \subseteq StoredGsns
    BY InLogIs DEF PlanOK
  <2>2. \A y : IsIn(toPush', y) => y.from <= y.to /\ GsnsOfRange(y) \subseteq StoredGsns'
    BY <1>4, <1>6, <2>1
  <2>3. \A y : IsIn(plan'.pending, y) => y.from <= y.to /\ GsnsOfRange(y) \subseteq StoredGsns'
    BY <1>4, <1>6, <2>1
  <2> QED BY <1>4, <2>2, <2>3 DEF InLog, Sorted, IsIn
<1>8. plan'.last <= watermark
  <2>1. plan'.last = p.last \/ \E i \in 1..k : plan'.last = p.pending[i].to /\ p.pending[i].to <= watermark
    BY <1>2 DEF Drained
  <2> QED BY <2>1 DEF PlanOK
<1>9. sent' \in 0..Len(toPush')
  BY <1>3
<1>10. RouterInv'
  <2>1. NoneTwice(plan.pending)'
    BY <1>4 DEF NoneTwice
  <2>2. 1..sent' = {}
    BY <1>3
  <2> QED BY <1>3, <1>4, <1>5, <1>7, <1>8, <2>1, <2>2 DEF RouterInv
<1>11. \A g : g \in GsnsOfSeq(p.pending) <=> g \in GsnsOfSeq(plan'.pending) \/ g \in GsnsOfSeq(toPush')
  BY <1>4, InSeq
<1>12. \A g \in Gsns : Unsent(g)' => g \in GsnsOfSeq(toPush')
  <2> SUFFICES ASSUME NEW g \in Gsns, Unsent(g)' PROVE g \in GsnsOfSeq(toPush')
    OBVIOUS
  <2>1. PICK i \in 1..Len(toPush') : g \in GsnsOfRange(toPush'[i])
    BY <1>3 DEF Unsent
  <2>2. i \in DOMAIN toPush'
    BY <1>3
  <2> QED BY <2>1, <2>2 DEF GsnsOfSeq
<1>13. (GsnsOfSeq(plan.pending))' = GsnsOfSeq(plan'.pending) /\ (GsnsOfSeq(toPush))' = GsnsOfSeq(toPush')
  BY DEF GsnsOfSeq
<1>14. BesideInv'
  <2>1. groups' \subseteq GsnsOfSeq(plan'.pending) \cup GsnsOfSeq(toPush')
    BY <1>11 DEF Beside
  <2>2. \A x \in meta' : IsIn(plan'.pending, x) \/ IsIn(toPush', x)
    BY <1>4 DEF Beside
  <2>3. \A g \in Gsns : g \in GsnsOfSeq(plan'.pending) \/ Unsent(g)' =>
          g \in groups' \cup pushed' \cup GsnsIn("dropped")'
    BY <1>5, <1>6, <1>11, <1>12 DEF Beside
  <2> QED BY <1>13, <2>1, <2>2, <2>3 DEF BesideInv, IsIn
<1> QED BY <1>3, <1>9, <1>10, <1>14

\* A handler takes the first message.
LEMMA MailTaken ==
  ASSUME FeedType, FeedInv, mailbox \in Seq(MessageType), MailInv, mailbox # <<>>
  PROVE  /\ Head(mailbox) \in MessageType /\ Tells(Head(mailbox))
         /\ mailbox' = Tail(mailbox) /\ UNCHANGED feedVars => mailbox' \in Seq(MessageType) /\ MailInv'
<1>1. PICK a \in Seq(MessageType) : a = mailbox
  OBVIOUS
<1>2. Len(a) \in Nat /\ 1 <= Len(a) /\ DOMAIN a = 1..Len(a) /\ Head(a) = a[1]
  BY <1>1
<1>3. Tells(a[1]) /\ a[1] \in MessageType
  BY <1>1, <1>2 DEF MailInv, Tells
<1>4. ASSUME mailbox' = Tail(mailbox), UNCHANGED feedVars PROVE mailbox' \in Seq(MessageType) /\ MailInv'
  <2>1. PICK b : b = Tail(a)
    OBVIOUS
  <2>2. b \in Seq(MessageType) /\ Len(b) = Len(a) - 1 /\ \A i \in 1..(Len(a) - 1) : b[i] = a[i + 1]
    BY <1>1, <1>2, <2>1
  <2>3. DOMAIN b = 1..(Len(a) - 1) /\ \A i \in DOMAIN b : i + 1 \in DOMAIN a /\ b[i] = a[i + 1]
    BY <1>2, <2>2
  <2>4. claim' = claim /\ mailbox' = b
    BY <1>1, <1>4, <2>1 DEF feedVars
  <2>5. \A i \in DOMAIN b : Tells(b[i])
    BY <1>1, <2>3 DEF MailInv, Tells
  <2>6. ASSUME NEW i \in DOMAIN b, NEW j \in DOMAIN b, i < j, b[i].kind = "batch_committed",
               b[j].kind = "batch_committed"
        PROVE  b[i].range.to < b[j].range.from
    <3>1. i + 1 \in DOMAIN a /\ j + 1 \in DOMAIN a /\ i + 1 < j + 1
      BY <1>2, <2>3, <2>6
    <3> QED BY <1>1, <2>3, <2>6, <3>1 DEF MailInv
  <2>7. MailInv'
    BY <2>4, <2>5, <2>6 DEF MailInv, Tells, IsRangeOf
  <2> QED BY <2>2, <2>4, <2>7
<1> QED BY <1>1, <1>2, <1>3, <1>4

\* Between two handlers the plan is in order and what is beside it belongs to it.
LEMMA IdlePlan ==
  ASSUME TypeOK, RouterInv, BesideInv, router # "pushing"
  PROVE  PlanOK(plan) /\ Beside(plan, groups, meta)
<1>1. toPush = <<>>
  BY DEF RouterInv
<1>2. GsnsOfSeq(toPush) = {} /\ \A y : ~IsIn(toPush, y)
  BY <1>1, NothingInEmpty
<1>3. PlanOK(plan)
  BY TypeParts DEF RouterInv, PlanOK
<1>4. GsnsOfSeq(plan.pending) \subseteq Gsns
  <2>1. plan.pending \in Seq(RangeType)
    BY TypeParts DEF PlanType
  <2>2. \A i \in DOMAIN plan.pending : plan.pending[i] \in RangeType
    BY <2>1
  <2>3. \A x \in RangeType : GsnsOfRange(x) \subseteq Gsns
    BY FeedAssumption DEF RangeType, Gsns, GsnsOfRange
  <2> QED BY <2>2, <2>3 DEF GsnsOfSeq
<1>5. Beside(plan, groups, meta)
  BY <1>2, <1>4 DEF BesideInv, Beside, IsIn
<1> QED BY <1>3, <1>5

\* The range of a released claim is in the log.
LEMMA ReleasedInLog ==
  ASSUME FeedType, FeedInv, NEW x, NEW r \in Refs, IsRangeOf(x, r), claim[r].state = "released"
  PROVE  /\ x.from <= x.to /\ x.to <= watermark /\ GsnsOfRange(x) = RangeOf(claim[r])
         /\ GsnsOfRange(x) \subseteq StoredGsns
<1>1. r \in stored /\ claim[r].first <= claim[r].last /\ claim[r].last <= watermark
  BY DEF FeedInv
<1> QED BY <1>1 DEF IsRangeOf, GsnsOfRange, RangeOf, StoredGsns

\* A commit message adds a range of the log to the plan.
LEMMA AckedPlan ==
  ASSUME FeedType, FeedInv, NEW p, PlanOK(p), NEW x \in RangeType,
         x.from <= x.to, GsnsOfRange(x) \subseteq StoredGsns
  PROVE  /\ PlanOK(PlanAck(p, x)) /\ PlanAck(p, x).last = p.last
         /\ \A y : IsIn(PlanAck(p, x).pending, y) <=> y = x \/ IsIn(p.pending, y)
<1>1. p \in PlanType /\ Sorted(p.pending) /\ NoneTwice(p.pending)
      /\ \A y : IsIn(p.pending, y) => y.from <= y.to /\ GsnsOfRange(y) \subseteq StoredGsns
  BY InLogIs DEF PlanOK
<1>2. PICK q : q = PlanClaim(p, x)
  OBVIOUS
<1>3. /\ q \in PlanType /\ q.acked = p.acked /\ q.last = p.last
      /\ Sorted(q.pending) /\ NoneTwice(q.pending)
      /\ \A y : IsIn(q.pending, y) <=> y = x \/ IsIn(p.pending, y)
  BY <1>1, <1>2, PlanClaimHolds
<1>4. PICK a : a = PlanAck(p, x)
  OBVIOUS
<1>5. a \in PlanType /\ a.pending = q.pending /\ a.last = q.last
  BY <1>2, <1>3, <1>4 DEF PlanAck, PlanType
<1>6. InLog(a.pending)
  <2>1. \A y : IsIn(a.pending, y) => y.from <= y.to /\ GsnsOfRange(y) \subseteq StoredGsns
    BY <1>1, <1>3, <1>5
  <2> QED BY <1>3, <1>5, <2>1, InLogIs
<1> QED BY <1>3, <1>4, <1>5, <1>6 DEF PlanOK

\* An abandoned range leaves the plan.
LEMMA ResolvedPlan ==
  ASSUME NEW p, PlanOK(p), NEW x \in RangeType
  PROVE  /\ PlanOK(PlanResolve(p, x)) /\ PlanResolve(p, x).last = p.last
         /\ \A y : IsIn(PlanResolve(p, x).pending, y) <=> y # x /\ IsIn(p.pending, y)
<1>1. p \in PlanType /\ Sorted(p.pending) /\ NoneTwice(p.pending)
      /\ \A y : IsIn(p.pending, y) => y.from <= y.to /\ GsnsOfRange(y) \subseteq StoredGsns
  BY InLogIs DEF PlanOK
<1>2. PICK a : a = PlanResolve(p, x)
  OBVIOUS
<1>3. /\ a \in PlanType /\ a.last = p.last /\ Sorted(a.pending) /\ NoneTwice(a.pending)
      /\ \A y : IsIn(a.pending, y) <=> y # x /\ IsIn(p.pending, y)
  BY <1>1, <1>2, PlanResolveHolds
<1>4. InLog(a.pending)
  <2>1. \A y : IsIn(a.pending, y) => y.from <= y.to /\ GsnsOfRange(y) \subseteq StoredGsns
    BY <1>1, <1>3
  <2> QED BY <1>3, <2>1, InLogIs
<1> QED BY <1>2, <1>3, <1>4 DEF PlanOK

LEMMA SafeTyped ==
  ASSUME TypeOK, UNCHANGED <<feedVars, frontier, pushVars, routerCrashes, frontierCrashes>>,
         router' = "pushing", mailbox' \in Seq(MessageType), plan' \in PlanType, groups' \subseteq Gsns,
         meta' \subseteq RangeType, toPush' \in Seq(RangeType), sent' \in 0..Len(toPush')
  PROVE  TypeOK'
BY DEF TypeOK, feedVars, pushVars, MessageType, PlanType

LEMMA FeedSame ==
  ASSUME UNCHANGED feedVars, FeedInv
  PROVE  FeedInv' /\ UNCHANGED <<StoredGsns, GsnsIn("dropped")>>
BY DEF FeedInv, StoredGsns, GsnsIn, feedVars, Held

\* batch_committed
LEMMA CommittedSafe ==
  ASSUME SafeInv, HandleBatchCommitted
  PROVE  SafeInv'
<1> USE DEF SafeInv, LogInv
<1>1. FeedType /\ FeedInv /\ mailbox \in Seq(MessageType) /\ MailInv /\ plan \in PlanType
  BY TypeParts
<1>2. router = "ready" /\ mailbox # <<>> /\ Head(mailbox).kind = "batch_committed" /\ mailbox' = Tail(mailbox)
      /\ UNCHANGED <<feedVars, frontier, pushVars, routerCrashes, frontierCrashes>>
  BY DEF HandleBatchCommitted
<1>3. PICK x : x = Head(mailbox).range
  OBVIOUS
<1>4. groups' = groups \cup GsnsOfRange(x) /\ meta' = meta \cup {x} /\ Drain(PlanAck(plan, x), watermark)
  BY <1>3 DEF HandleBatchCommitted
<1>5. Head(mailbox) \in MessageType /\ Tells(Head(mailbox))
  BY <1>1, <1>2, MailTaken
<1>6. mailbox' \in Seq(MessageType) /\ MailInv'
  BY <1>1, <1>2, MailTaken
<1>7. x \in RangeType
  BY <1>3, <1>5 DEF MessageType
<1>8. PICK r \in Refs : IsRangeOf(x, r) /\ claim[r].state = "released"
  BY <1>2, <1>3, <1>5 DEF Tells
<1>9. x.from <= x.to /\ GsnsOfRange(x) \subseteq StoredGsns
  BY <1>1, <1>8, ReleasedInLog
<1>10. PlanOK(plan) /\ Beside(plan, groups, meta)
  BY <1>2, IdlePlan
<1>11. PICK p : p = PlanAck(plan, x)
  OBVIOUS
<1>12. PlanOK(p) /\ \A y : IsIn(p.pending, y) <=> y = x \/ IsIn(plan.pending, y)
  BY <1>1, <1>7, <1>9, <1>10, <1>11, AckedPlan
<1>13. \A g : g \in GsnsOfSeq(p.pending) <=> g \in GsnsOfRange(x) \/ g \in GsnsOfSeq(plan.pending)
  BY <1>12, InSeq
<1>14. Beside(p, groups', meta')
  BY <1>4, <1>10, <1>12, <1>13 DEF Beside
<1>15. groups' \subseteq Gsns /\ meta' \subseteq RangeType
  <2>1. GsnsOfRange(x) \subseteq Gsns
    BY <1>7, FeedAssumption DEF RangeType, Gsns, GsnsOfRange
  <2> QED BY <1>4, <1>7, <2>1 DEF TypeOK
<1>16. /\ plan' \in PlanType /\ toPush' \in Seq(RangeType) /\ sent' \in 0..Len(toPush')
       /\ router' = "pushing" /\ RouterInv' /\ BesideInv'
  BY <1>2, <1>4, <1>11, <1>12, <1>14, <1>15, DrainSafe
<1>17. TypeOK'
  BY <1>2, <1>6, <1>15, <1>16, SafeTyped
<1>18. FeedInv' /\ PushedIsCommitted' /\ GroupsFromCommit'
  BY <1>2, FeedSame DEF PushedIsCommitted, GroupsFromCommit, pushVars, feedVars
<1> QED BY <1>6, <1>16, <1>17, <1>18

\* range_resolved
LEMMA ResolvedSafe ==
  ASSUME SafeInv, HandleRangeResolved
  PROVE  SafeInv'
<1> USE DEF SafeInv, LogInv
<1>1. FeedType /\ FeedInv /\ mailbox \in Seq(MessageType) /\ MailInv /\ plan \in PlanType
  BY TypeParts
<1>2. router = "ready" /\ mailbox # <<>> /\ Head(mailbox).kind = "range_resolved" /\ mailbox' = Tail(mailbox)
      /\ UNCHANGED <<feedVars, frontier, pushVars, routerCrashes, frontierCrashes>>
  BY DEF HandleRangeResolved
<1>3. PICK x : x = Head(mailbox).range
  OBVIOUS
<1>4. groups' = groups \ GsnsOfRange(x) /\ meta' = meta \ {x} /\ Drain(PlanResolve(plan, x), watermark)
  BY <1>3 DEF HandleRangeResolved
<1>5. Head(mailbox) \in MessageType /\ Tells(Head(mailbox))
  BY <1>1, <1>2, MailTaken
<1>6. mailbox' \in Seq(MessageType) /\ MailInv'
  BY <1>1, <1>2, MailTaken
<1>7. x \in RangeType
  BY <1>3, <1>5 DEF MessageType
<1>8. PICK r \in Refs : IsRangeOf(x, r) /\ claim[r].state = "dropped"
  BY <1>2, <1>3, <1>5 DEF Tells
<1>9. GsnsOfRange(x) \subseteq GsnsIn("dropped")
  BY <1>8 DEF GsnsIn, IsRangeOf, GsnsOfRange, RangeOf
<1>10. PlanOK(plan) /\ Beside(plan, groups, meta)
  BY <1>2, IdlePlan
<1>11. PICK p : p = PlanResolve(plan, x)
  OBVIOUS
<1>12. PlanOK(p) /\ \A y : IsIn(p.pending, y) <=> y # x /\ IsIn(plan.pending, y)
  BY <1>7, <1>10, <1>11, ResolvedPlan
<1>13. \A g : g \in GsnsOfSeq(p.pending) => g \in GsnsOfSeq(plan.pending)
  BY <1>12, InSeq
<1>14. \A g : g \in GsnsOfSeq(plan.pending) /\ g \notin GsnsOfRange(x) => g \in GsnsOfSeq(p.pending)
  BY <1>12, InSeq
<1>15. Beside(p, groups', meta')
  <2>1. groups' \subseteq GsnsOfSeq(p.pending)
    BY <1>4, <1>10, <1>14 DEF Beside
  <2>2. \A z \in meta' : IsIn(p.pending, z)
    BY <1>4, <1>10, <1>12 DEF Beside
  <2>3. \A g \in GsnsOfSeq(p.pending) : g \in groups' \cup pushed \cup GsnsIn("dropped")
    BY <1>4, <1>9, <1>10, <1>13 DEF Beside
  <2> QED BY <2>1, <2>2, <2>3 DEF Beside
<1>16. groups' \subseteq Gsns /\ meta' \subseteq RangeType
  BY <1>4 DEF TypeOK
<1>17. /\ plan' \in PlanType /\ toPush' \in Seq(RangeType) /\ sent' \in 0..Len(toPush')
       /\ router' = "pushing" /\ RouterInv' /\ BesideInv'
  BY <1>2, <1>4, <1>11, <1>12, <1>15, <1>16, DrainSafe
<1>18. TypeOK'
  BY <1>2, <1>6, <1>16, <1>17, SafeTyped
<1>19. FeedInv' /\ PushedIsCommitted' /\ GroupsFromCommit'
  BY <1>2, FeedSame DEF PushedIsCommitted, GroupsFromCommit, pushVars, feedVars
<1> QED BY <1>6, <1>17, <1>18, <1>19

\* resume, the rest.
LEMMA DrainStepSafe ==
  ASSUME SafeInv, RouterDrain
  PROVE  SafeInv'
<1> USE DEF SafeInv, LogInv
<1>1. FeedType /\ FeedInv /\ mailbox \in Seq(MessageType) /\ MailInv /\ plan \in PlanType
  BY TypeParts
<1>2. router = "drain" /\ Drain(plan, watermark) /\ UNCHANGED <<mailbox, groups, meta>>
      /\ UNCHANGED <<feedVars, frontier, pushVars, routerCrashes, frontierCrashes>>
  BY DEF RouterDrain
<1>3. PlanOK(plan) /\ Beside(plan, groups, meta)
  BY <1>2, IdlePlan
<1>4. groups' \subseteq Gsns /\ meta' \subseteq RangeType /\ Beside(plan, groups', meta')
  BY <1>2, <1>3 DEF TypeOK
<1>5. /\ plan' \in PlanType /\ toPush' \in Seq(RangeType) /\ sent' \in 0..Len(toPush')
      /\ router' = "pushing" /\ RouterInv' /\ BesideInv'
  BY <1>2, <1>3, <1>4, DrainSafe
<1>6. TypeOK'
  BY <1>1, <1>2, <1>4, <1>5, SafeTyped
<1>7. FeedInv' /\ PushedIsCommitted' /\ GroupsFromCommit'
  BY <1>2, FeedSame DEF PushedIsCommitted, GroupsFromCommit, pushVars, feedVars
<1>8. MailInv'
  BY <1>2 DEF MailInv, IsRangeOf, feedVars
<1> QED BY <1>5, <1>6, <1>7, <1>8

\* push_gsn_range
LEMMA PushSafe ==
  ASSUME SafeInv, Push
  PROVE  SafeInv'
<1> USE DEF SafeInv, LogInv
<1>1. /\ router = "pushing" /\ sent < Len(toPush) /\ sent' = sent + 1
      /\ pushed' = pushed \cup GsnsOfRange(toPush[sent + 1])
      /\ guessed' = guessed \cup (GsnsOfRange(toPush[sent + 1]) \ (groups \cup pushed))
      /\ UNCHANGED <<feedVars, router, mailbox, plan, groups, meta, toPush, frontier,
                     coldAt, routerCrashes, frontierCrashes>>
  BY DEF Push
<1>2. toPush \in Seq(RangeType) /\ sent \in Nat /\ Len(toPush) \in Nat /\ DOMAIN toPush = 1..Len(toPush)
  BY TypeParts
<1>3. sent + 1 \in DOMAIN toPush /\ sent + 1 \in (sent + 1)..Len(toPush) /\ sent' \in 0..Len(toPush')
  BY <1>1, <1>2
<1>4. PICK x \in RangeType : x = toPush[sent + 1]
  BY <1>2, <1>3
<1>5. x.from \in Nat /\ x.to \in Nat /\ x.to <= watermark /\ GsnsOfRange(x) \subseteq StoredGsns
  BY <1>3, <1>4, FeedAssumption DEF RouterInv, InLog, RangeType, Gsns
<1>6. GsnsOfRange(x) \subseteq Gsns
  BY <1>4, FeedAssumption DEF RangeType, Gsns, GsnsOfRange
<1>7. \A g \in GsnsOfRange(x) : g <= watermark
  BY <1>5, TypeParts DEF GsnsOfRange
<1>8. FeedInv' /\ UNCHANGED <<StoredGsns, GsnsIn("dropped")>>
  BY <1>1, FeedSame
<1>9. TypeOK'
  BY <1>1, <1>3, <1>4, <1>6 DEF TypeOK, feedVars
<1>10. PushedIsCommitted'
  BY <1>1, <1>4, <1>5, <1>7, <1>8 DEF PushedIsCommitted, feedVars
<1>11. RouterInv'
  <2>1. \A i \in 1..(sent + 1) : i \in 1..sent \/ i = sent + 1
    BY <1>2
  <2>2. \A i \in 1..sent' : GsnsOfRange(toPush'[i]) \subseteq pushed'
    BY <1>1, <2>1 DEF RouterInv
  <2> QED BY <1>1, <1>8, <2>2 DEF RouterInv, InLog, NoneTwice, feedVars
<1>12. MailInv'
  BY <1>1 DEF MailInv, IsRangeOf, feedVars
<1>13. \A g \in Gsns : Unsent(g)' => Unsent(g)
  <2>1. \A i \in (sent + 1 + 1)..Len(toPush) : i \in (sent + 1)..Len(toPush)
    BY <1>2
  <2> QED BY <1>1, <2>1 DEF Unsent
<1>14. \A g \in GsnsOfRange(x) : g \in groups \cup pushed \cup GsnsIn("dropped")
  <2>1. \A g \in GsnsOfRange(x) : Unsent(g)
    BY <1>3, <1>4 DEF Unsent
  <2> QED BY <1>6, <2>1 DEF BesideInv
<1>15. BesideInv'
  BY <1>1, <1>8, <1>13 DEF BesideInv, GsnsOfSeq
<1>16. GroupsFromCommit'
  BY <1>1, <1>4, <1>8, <1>14 DEF GroupsFromCommit
<1> QED BY <1>8, <1>9, <1>10, <1>11, <1>12, <1>15, <1>16

\* The frontier is persisted.
LEMMA PersistSafe ==
  ASSUME SafeInv, Persist
  PROVE  SafeInv'
<1> USE DEF SafeInv, LogInv
<1>1. /\ frontier' = Greater(frontier, plan.last)
      /\ groups' = groups \ GsnsOfSeq(toPush) /\ meta' = meta \ {toPush[i] : i \in DOMAIN toPush}
      /\ router' = "ready" /\ toPush' = <<>> /\ sent' = 0
      /\ UNCHANGED <<feedVars, mailbox, plan, pushed, guessed, coldAt, routerCrashes, frontierCrashes>>
  BY DEF Persist, pushVars
<1>2. frontier' = frontier \/ frontier' = plan.last
  BY <1>1 DEF Greater
<1>3. frontier' \in -1..MaxGsn /\ frontier' <= watermark
  <2>1. plan.last \in -1..MaxGsn
    BY FeedAssumption DEF TypeOK
  <2> QED BY <1>2, <2>1 DEF RouterInv, TypeOK
<1>4. toPush' \in Seq(RangeType) /\ Len(toPush') = 0 /\ DOMAIN toPush' = {}
  BY <1>1
<1>5. FeedInv' /\ UNCHANGED <<StoredGsns, GsnsIn("dropped")>>
  BY <1>1, FeedSame
<1>6. TypeOK'
  BY <1>1, <1>3, <1>4 DEF TypeOK, feedVars
<1>7. RouterInv'
  <2>1. 1..sent' = {}
    BY <1>1
  <2> QED BY <1>1, <1>3, <1>4, <1>5, <2>1 DEF RouterInv, InLog, NoneTwice, feedVars
<1>8. MailInv' /\ PushedIsCommitted' /\ GroupsFromCommit'
  BY <1>1, <1>5 DEF MailInv, IsRangeOf, PushedIsCommitted, GroupsFromCommit, feedVars
<1>9. \A g \in Gsns : ~Unsent(g)'
  BY <1>1, <1>4 DEF Unsent
<1>10. BesideInv'
  <2>1. groups' \subseteq GsnsOfSeq(plan'.pending) /\ \A x \in meta' : IsIn(plan'.pending, x)
    BY <1>1 DEF BesideInv, IsIn
  <2>2. \A g \in Gsns : g \in GsnsOfSeq(plan'.pending) => g \in groups' \cup pushed' \cup GsnsIn("dropped")'
    <3> SUFFICES ASSUME NEW g \in Gsns, g \in GsnsOfSeq(plan.pending), g \notin pushed, g \notin GsnsIn("dropped")
                 PROVE  g \notin GsnsOfSeq(toPush) /\ g \in groups
      BY <1>1, <1>5
    <3>1. g \in groups
      BY DEF BesideInv
    <3>2. \A i \in DOMAIN toPush : i \in 1..sent
      BY TypeParts DEF Persist
    <3>3. GsnsOfSeq(toPush) \subseteq pushed
      BY <3>2 DEF RouterInv, GsnsOfSeq
    <3> QED BY <3>1, <3>3
  <2> QED BY <1>9, <2>1, <2>2 DEF BesideInv, IsIn, GsnsOfSeq
<1> QED BY <1>5, <1>6, <1>7, <1>8, <1>10

LEMMA NewPlanIs ==
  ASSUME NEW s \in Seq(RangeType), NEW l \in 0..MaxGsn
  PROVE  NewPlan(s, l) \in PlanType /\ NewPlan(s, l).pending = s /\ NewPlan(s, l).last = l
<1>1. \A i \in DOMAIN s : s[i] \in RangeType
  OBVIOUS
<1> QED BY <1>1 DEF NewPlan, PlanType

LEMMA NoRanges ==
  /\ <<>> \in Seq(RangeType) /\ Len(<<>>) = 0
  /\ InLog(<<>>) /\ NoneTwice(<<>>)
BY DEF InLog, NoneTwice

\* The Router dies, is registered again, and starts without a frontier.
LEMMA RestartSafe ==
  ASSUME SafeInv, RouterCrash \/ RouterRegister \/ RouterColdStart
  PROVE  SafeInv'
<1> USE DEF SafeInv, LogInv
<1>1. /\ UNCHANGED <<feedVars, pushed, guessed, frontierCrashes>> /\ router' \in {"down", "init", "ready"}
      /\ toPush' = <<>> /\ sent' = 0 /\ groups' = {} /\ meta' = {} /\ router # router'
  BY DEF RouterCrash, RouterRegister, RouterColdStart, RouterInv, pushVars
<1>2. plan' \in PlanType /\ plan'.pending = <<>> /\ plan'.last <= watermark
  <2>1. \A l \in 0..MaxGsn : NewPlan(<<>>, l) \in PlanType /\ NewPlan(<<>>, l).pending = <<>> /\ NewPlan(<<>>, l).last = l
    BY NoRanges, NewPlanIs
  <2>2. 0 \in 0..MaxGsn /\ watermark \in 0..MaxGsn /\ 0 <= watermark /\ watermark <= watermark
    BY FeedAssumption DEF TypeOK
  <2>3. CASE RouterCrash
    BY <2>1, <2>2, <2>3 DEF RouterCrash
  <2>4. CASE RouterRegister
    BY <2>4, TypeParts DEF RouterRegister, RouterInv
  <2>5. CASE RouterColdStart
    BY <2>1, <2>2, <2>5 DEF RouterColdStart
  <2> QED BY <2>3, <2>4, <2>5
<1>3. frontier' \in -1..MaxGsn /\ coldAt' \in 0..MaxGsn /\ frontier' <= watermark /\ coldAt' <= watermark
  <2>1. CASE RouterColdStart
    <3>1. frontier' = watermark /\ (coldAt' = coldAt \/ coldAt' = watermark)
      BY <2>1 DEF RouterColdStart, Greater
    <3>2. watermark \in -1..MaxGsn /\ watermark <= watermark
      BY FeedAssumption DEF TypeOK
    <3> QED BY <3>1, <3>2 DEF RouterInv, TypeOK
  <2>2. CASE ~RouterColdStart
    BY <2>2 DEF RouterCrash, RouterRegister, RouterInv, TypeOK, pushVars
  <2> QED BY <2>1, <2>2
<1>4. /\ mailbox' \in Seq(MessageType) /\ MailInv' /\ routerCrashes' \in Nat
      /\ router' = "down" => mailbox' = <<>>
  <2>1. CASE RouterCrash
    <3>1. mailbox' = <<>> /\ routerCrashes' = routerCrashes + 1
      BY <2>1 DEF RouterCrash
    <3>2. MailInv'
      BY <3>1 DEF MailInv
    <3> QED BY <3>1, <3>2 DEF TypeOK
  <2>2. CASE ~RouterCrash
    <3>1. UNCHANGED <<mailbox, routerCrashes, claim>> /\ router' # "down"
      BY <2>2 DEF RouterRegister, RouterColdStart, feedVars
    <3>2. MailInv'
      BY <3>1 DEF MailInv, IsRangeOf
    <3> QED BY <3>1, <3>2, TypeParts DEF TypeOK
  <2> QED BY <2>1, <2>2
<1>5. FeedInv' /\ UNCHANGED <<StoredGsns, GsnsIn("dropped")>>
  BY <1>1, FeedSame
<1>6. TypeOK'
  <2>1. sent' \in 0..Len(toPush') /\ toPush' \in Seq(RangeType)
    BY <1>1, NoRanges
  <2> QED BY <1>1, <1>2, <1>3, <1>4, <2>1 DEF TypeOK, feedVars, MessageType, PlanType
<1>7. RouterInv'
  <2>1. (InLog(plan.pending) /\ NoneTwice(plan.pending) /\ InLog(toPush))'
    BY <1>1, <1>2 DEF InLog, NoneTwice
  <2>2. 1..sent' = {} /\ DOMAIN toPush' = {}
    BY <1>1
  <2>3. watermark' = watermark
    BY <1>1 DEF feedVars
  <2> QED BY <1>1, <1>2, <1>3, <1>4, <2>1, <2>2, <2>3 DEF RouterInv
<1>8. BesideInv'
  <2>1. GsnsOfSeq(plan'.pending) = {} /\ \A g \in Gsns : ~Unsent(g)'
    BY <1>1, <1>2 DEF GsnsOfSeq, Unsent
  <2> QED BY <1>1, <2>1 DEF BesideInv, GsnsOfSeq
<1>9. PushedIsCommitted' /\ GroupsFromCommit'
  BY <1>1, <1>5 DEF PushedIsCommitted, GroupsFromCommit, feedVars
<1> QED BY <1>4, <1>5, <1>6, <1>7, <1>8, <1>9

\* resume, up to the read of the watermark.
LEMMA RecoverSafe ==
  ASSUME SafeInv, RouterRecover
  PROVE  SafeInv'
<1> USE DEF SafeInv, LogInv
<1>1. /\ router = "init" /\ frontier # Empty /\ router' = "drain"
      /\ UNCHANGED <<feedVars, mailbox, meta, toPush, sent, frontier, pushed, guessed, coldAt,
                     routerCrashes, frontierCrashes>>
  BY DEF RouterRecover, pushVars
<1>2. PICK G : G = Recoverable(frontier)
  OBVIOUS
<1>3. PICK s \in [1..Cardinality(Runs(G)) -> Runs(G)] :
        /\ \A i, j \in DOMAIN s : i < j => s[i].to < s[j].from
        /\ plan' = NewPlan(s, frontier) /\ groups' = GsnsOfSeq(s)
  BY <1>2 DEF RouterRecover
<1>4. G \subseteq StoredGsns /\ G \in SUBSET Gsns
  <2>1. \A r \in stored : RangeOf(claim[r]) \subseteq Gsns
    BY FeedAssumption DEF TypeOK, ClaimType, RangeOf, Gsns
  <2> QED BY <1>2, <2>1 DEF Recoverable, StoredGsns
<1>5. /\ s \in Seq(RangeType) /\ Sorted(s) /\ NoneTwice(s)
      /\ \A i \in DOMAIN s : s[i].from <= s[i].to /\ GsnsOfRange(s[i]) \subseteq G
  BY <1>3, <1>4, RecoveredHolds
<1>6. frontier \in 0..MaxGsn /\ frontier <= watermark
  BY <1>1 DEF TypeOK, Empty, RouterInv
<1>7. plan' \in PlanType /\ plan'.pending = s /\ plan'.last = frontier
  BY <1>3, <1>5, <1>6, NewPlanIs
<1>8. toPush = <<>> /\ sent = 0 /\ meta = {}
  BY <1>1 DEF RouterInv
<1>9. FeedInv' /\ UNCHANGED <<StoredGsns, GsnsIn("dropped")>>
  BY <1>1, FeedSame
<1>10. groups' \subseteq Gsns
  BY <1>3, <1>4, <1>5 DEF GsnsOfSeq
<1>11. TypeOK'
  BY <1>1, <1>7, <1>10 DEF TypeOK, feedVars, PlanType
<1>12. RouterInv'
  <2>1. InLog(plan.pending)'
    BY <1>4, <1>5, <1>7, <1>9 DEF InLog, Sorted
  <2>2. NoneTwice(plan.pending)'
    BY <1>5, <1>7 DEF NoneTwice
  <2>3. InLog(toPush)'
    BY <1>1, <1>9 DEF RouterInv, InLog
  <2>4. watermark' = watermark /\ router' = "drain"
    BY <1>1 DEF feedVars
  <2> QED BY <1>1, <1>6, <1>7, <1>8, <2>1, <2>2, <2>3, <2>4 DEF RouterInv
<1>13. BesideInv'
  <2>1. \A g \in Gsns : ~Unsent(g)'
    BY <1>1, <1>8 DEF Unsent
  <2>2. groups' = (GsnsOfSeq(plan.pending))' /\ meta' = {}
    BY <1>1, <1>3, <1>7, <1>8 DEF GsnsOfSeq
  <2> QED BY <2>1, <2>2 DEF BesideInv
<1>14. MailInv' /\ PushedIsCommitted' /\ GroupsFromCommit'
  BY <1>1, <1>9 DEF MailInv, IsRangeOf, PushedIsCommitted, GroupsFromCommit, feedVars
<1> QED BY <1>9, <1>11, <1>12, <1>13, <1>14

\* The owner of the frontier restarts.
LEMMA FrontierCrashSafe ==
  ASSUME SafeInv, FrontierCrash
  PROVE  SafeInv'
<1> USE DEF SafeInv, LogInv
<1>1. /\ frontierCrashes' = frontierCrashes + 1 /\ frontier' = -1
      /\ UNCHANGED <<feedVars, router, mailbox, plan, groups, meta, toPush, sent, pushed, guessed,
                     coldAt, routerCrashes>>
  BY DEF FrontierCrash, Empty, routerVars, pushVars
<1>2. FeedInv' /\ UNCHANGED <<StoredGsns, GsnsIn("dropped")>>
  BY <1>1, FeedSame
<1>3. frontier' \in -1..MaxGsn /\ frontier' <= watermark /\ frontierCrashes' \in Nat
  BY <1>1, FeedAssumption DEF TypeOK
<1>4. TypeOK'
  BY <1>1, <1>3 DEF TypeOK, feedVars
<1>5. RouterInv'
  BY <1>1, <1>2, <1>3 DEF RouterInv, InLog, NoneTwice, feedVars
<1>6. BesideInv'
  BY <1>1, <1>2 DEF BesideInv, Unsent, GsnsOfSeq
<1>7. MailInv' /\ PushedIsCommitted' /\ GroupsFromCommit'
  BY <1>1, <1>2 DEF MailInv, IsRangeOf, PushedIsCommitted, GroupsFromCommit, feedVars
<1> QED BY <1>2, <1>4, <1>5, <1>6, <1>7

\* The initial states.
LEMMA InitSafe ==
  ASSUME Init
  PROVE  SafeInv
<1>1. /\ up = TRUE /\ counter = 0 /\ watermark = 0 /\ stored = {} /\ crashes = 0
      /\ claim = [r \in Refs |-> NoClaim]
      /\ router = "init" /\ mailbox = <<>> /\ plan = NewPlan(<<>>, 0) /\ groups = {} /\ meta = {}
      /\ toPush = <<>> /\ sent = 0 /\ frontier = -1 /\ pushed = {} /\ guessed = {} /\ coldAt = 0
      /\ routerCrashes = 0 /\ frontierCrashes = 0
  BY DEF Init, FeedInit, Empty
<1>2. plan \in PlanType /\ plan.pending = <<>> /\ plan.last = 0
  <2>1. 0 \in 0..MaxGsn
    BY FeedAssumption
  <2> QED BY <1>1, <2>1, NoRanges, NewPlanIs
<1>3. NoClaim \in ClaimType
  BY FeedAssumption DEF NoClaim, ClaimType
<1>4. TypeOK
  <2>1. mailbox \in Seq(MessageType) /\ toPush \in Seq(RangeType) /\ sent \in 0..Len(toPush)
    BY <1>1
  <2>2. claim \in [Refs -> ClaimType]
    BY <1>1, <1>3
  <2>3. 0 \in 0..MaxGsn /\ frontier \in -1..MaxGsn
    BY <1>1, FeedAssumption
  <2>4. up \in BOOLEAN
    BY <1>1, Zenon
  <2> QED BY <1>1, <1>2, <2>1, <2>2, <2>3, <2>4 DEF TypeOK, MessageType, PlanType
<1>5. \A r \in Refs : claim[r] = NoClaim /\ claim[r].state = "none"
  BY <1>1 DEF NoClaim
<1>6. FeedInv
  BY <1>1, <1>5 DEF FeedInv, Held
<1>7. MailInv
  BY <1>1 DEF MailInv
<1>8. RouterInv
  <2>1. 1..sent = {} /\ DOMAIN toPush = {}
    BY <1>1
  <2> QED BY <1>1, <1>2, <2>1, NoRanges DEF RouterInv
<1>9. BesideInv
  <2>1. \A g \in Gsns : ~Unsent(g)
    BY <1>1 DEF Unsent
  <2> QED BY <1>1, <1>2, <2>1, NothingInEmpty DEF BesideInv
<1> QED BY <1>1, <1>4, <1>6, <1>7, <1>8, <1>9 DEF SafeInv, LogInv, PushedIsCommitted, GroupsFromCommit

LEMMA StutterSafe ==
  ASSUME SafeInv, UNCHANGED vars
  PROVE  SafeInv'
<1>1. UNCHANGED <<feedVars, router, mailbox, plan, groups, meta, toPush, sent, frontier, pushed,
                  guessed, coldAt, routerCrashes, frontierCrashes>>
  BY DEF vars, routerVars, pushVars
<1>2. FeedInv' /\ UNCHANGED <<StoredGsns, GsnsIn("dropped")>>
  BY <1>1, FeedSame DEF SafeInv, LogInv
<1>3. TypeOK'
  BY <1>1 DEF TypeOK, SafeInv, LogInv, feedVars
<1>4. RouterInv'
  BY <1>1, <1>2 DEF RouterInv, InLog, NoneTwice, feedVars, SafeInv, LogInv
<1>5. BesideInv'
  BY <1>1, <1>2 DEF BesideInv, Unsent, GsnsOfSeq, SafeInv
<1>6. MailInv' /\ PushedIsCommitted' /\ GroupsFromCommit'
  BY <1>1, <1>2 DEF MailInv, IsRangeOf, PushedIsCommitted, GroupsFromCommit, feedVars, SafeInv, LogInv
<1> QED BY <1>2, <1>3, <1>4, <1>5, <1>6 DEF SafeInv, LogInv

\* SafeInv is inductive.
LEMMA SafeStep ==
  ASSUME SafeInv, [Next]_vars
  PROVE  SafeInv'
<1>1. CASE FeedStep
  BY <1>1, FeedStepSafe
<1>2. CASE RouterHandle
  BY <1>2, CommittedSafe, ResolvedSafe, PushSafe, PersistSafe DEF RouterHandle
<1>3. CASE RouterStart
  BY <1>3, RestartSafe, RecoverSafe, DrainStepSafe DEF RouterStart
<1>4. CASE RouterCrash
  BY <1>4, RestartSafe
<1>5. CASE FrontierCrash
  BY <1>5, FrontierCrashSafe
<1>6. CASE UNCHANGED vars
  BY <1>6, StutterSafe
<1> QED BY <1>1, <1>2, <1>3, <1>4, <1>5, <1>6 DEF Next

LEMMA SafeAlways == Spec => []SafeInv
<1>1. Init => SafeInv
  BY InitSafe
<1>2. SafeInv /\ [Next]_vars => SafeInv'
  BY SafeStep
<1> QED BY <1>1, <1>2, PTL DEF Spec

\* "No payloads or group sets should outlive their claim", and a committed Action is first
\* pushed with the group sets of its commit: for every depth of the pipeline, through every
\* crash of the Writer, of the Router and of the frontier's owner.
THEOREM BesideExact == Spec => []BesideRangesExact
<1>1. SafeInv => BesideRangesExact
  <2> SUFFICES ASSUME SafeInv PROVE BesideRangesExact
    OBVIOUS
  <2> USE DEF SafeInv, LogInv
  <2>1. ASSUME router = "ready" PROVE NothingOutlivesItsClaim
    <3>1. Beside(plan, groups, meta)
      BY <2>1, IdlePlan
    <3> QED BY <3>1 DEF NothingOutlivesItsClaim, Beside, IsIn
  <2>2. NothingOutlivesItsClaim
    BY <2>1 DEF NothingOutlivesItsClaim
  <2> QED BY <2>2 DEF BesideRangesExact
<1> QED BY <1>1, SafeAlways, PTL

-----------------------------------------------------------------------------
(***************************************************************************)
(* The Router at depth one, where no claim is made over a held one.        *)
(***************************************************************************)
LEMMA OneHeldKept ==
  ASSUME MaxInFlight = 1, FeedType, FeedInv, OneHeld, FeedNext
  PROVE  OneHeld'
<1>1. FeedGrows
  BY FeedKept
<1>2. ASSUME NEW r \in Refs, NEW n \in 1..MaxClaim, Claim(r, n) PROVE OneHeld'
  <2>1. {q \in Refs : Held(q)} = {}
    <3>1. IsFiniteSet({q \in Refs : Held(q)})
      <4>1. IsFiniteSet(Refs)
        BY FeedAssumption, FS_Interval DEF Refs
      <4> QED BY <4>1, FS_Subset
    <3>2. Cardinality({q \in Refs : Held(q)}) \in Nat /\ Cardinality({q \in Refs : Held(q)}) < 1
      BY <1>2, <3>1, FS_CardinalityType DEF Claim
    <3>3. Cardinality({q \in Refs : Held(q)}) = 0
      BY <3>2
    <3> QED BY <3>1, <3>3, FS_EmptySet
  <2>2. claim[r].state = "none" /\ \A q \in Refs : q # r => claim'[q] = claim[q]
    BY <1>2 DEF Claim, FeedType
  <2>3. \A q \in Refs : q # r => ~Held(q)'
    BY <2>1, <2>2 DEF Held
  <2>4. \A q \in Refs : r < q => claim'[q].state = "none"
    BY <2>2 DEF FeedInv, Refs
  <2> QED BY <2>3, <2>4 DEF OneHeld
<1>3. ASSUME \A r \in Refs : (claim'[r].state # "none" => claim[r].state # "none") /\ (Held(r)' => Held(r))
      PROVE  OneHeld'
  BY <1>3 DEF OneHeld
<1>4. ASSUME NEW r \in Refs, Store(r) PROVE OneHeld'
  BY <1>3, <1>4 DEF Store, Held
<1>5. ASSUME NEW R, NEW st \in {"acked", "released", "dropped"}, \A r \in R : claim[r].state \in {"open", "acked"}, Move(R, st)
      PROVE  OneHeld'
  <2>1. claim' = [m \in Refs |-> IF m \in R THEN [claim[m] EXCEPT !.state = st] ELSE claim[m]]
    BY <1>5 DEF Move
  <2>2. \A r \in Refs : claim'[r].state = IF r \in R THEN st ELSE claim[r].state
    BY <2>1 DEF FeedType, ClaimType
  <2> QED BY <1>3, <1>5, <2>2 DEF Held
<1>6. ASSUME NEW r \in Refs, Ack(r) \/ Release(r) PROVE OneHeld'
  <2>1. claim[r].state \in {"open", "acked"} /\ \E st \in {"acked", "released", "dropped"} : Move({r}, st)
    BY <1>6 DEF Ack, Release
  <2> QED BY <1>5, <2>1
<1>7. ASSUME NEW r \in Refs, NEW R \in SUBSET Refs, Drop(r, R) PROVE OneHeld'
  BY <1>5, <1>7 DEF Drop
<1>8. ASSUME WriterCrash PROVE OneHeld'
  <2>1. claim' = [m \in Refs |-> IF Held(m) THEN [claim[m] EXCEPT !.state = "dropped"] ELSE claim[m]]
    BY <1>8 DEF WriterCrash
  <2>2. \A r \in Refs : claim'[r].state = IF Held(r) THEN "dropped" ELSE claim[r].state
    BY <2>1 DEF FeedType, ClaimType
  <2> QED BY <1>3, <2>2 DEF Held
<1>9. ASSUME WriterStart PROVE OneHeld'
  BY <1>3, <1>9 DEF WriterStart, Held
<1> QED BY <1>2, <1>4, <1>6, <1>7, <1>8, <1>9 DEF FeedNext

\* Nothing new becomes due below what was claimed.
LEMMA DueGrows ==
  ASSUME FeedType, FeedType', FeedGrows, coldAt' = coldAt, NEW g \in Gsns, Due(g)'
  PROVE  Due(g) \/ counter < g
<1>1. PICK r \in Refs : Live(r)' /\ g \in RangeOf(claim'[r]) /\ coldAt < g
  BY DEF Due
<1>2. claim'[r].state # "none" /\ claim'[r].state # "dropped"
  BY <1>1 DEF Live
<1>3. CASE claim[r].state = "none"
  <2>1. counter < claim'[r].first
    BY <1>2, <1>3 DEF FeedGrows
  <2>2. g \in claim'[r].first..claim'[r].last
    BY <1>1 DEF RangeOf
  <2>3. claim'[r].first \in 1..(MaxGsn + 1) /\ claim'[r].last \in 0..MaxGsn /\ counter \in 0..MaxGsn
    BY DEF FeedType, ClaimType
  <2>4. counter < g
    BY <2>1, <2>2, <2>3, FeedAssumption
  <2> QED BY <2>4
<1>4. CASE claim[r].state # "none"
  <2>1. claim'[r].first = claim[r].first /\ claim'[r].last = claim[r].last /\ claim[r].state # "dropped"
    BY <1>2, <1>4 DEF FeedGrows
  <2>2. Live(r)
    BY <1>4, <2>1 DEF Live, FeedType, ClaimType
  <2> QED BY <1>1, <2>1, <2>2 DEF Due, RangeOf
<1> QED BY <1>3, <1>4

\* What is stored was claimed.
LEMMA StoredClaimed ==
  ASSUME FeedType, FeedInv, NEW g \in StoredGsns
  PROVE  g \in Gsns /\ g <= counter /\ \E r \in stored : r \in Refs /\ g \in RangeOf(claim[r]) /\ claim[r].state # "none"
<1>1. PICK r \in stored : g \in RangeOf(claim[r])
  BY DEF StoredGsns
<1>2. r \in Refs /\ claim[r].state # "none"
  BY DEF FeedType, FeedInv
<1>3. claim[r].last <= counter /\ claim[r].first \in 1..(MaxGsn + 1) /\ claim[r].last \in 0..MaxGsn
  BY <1>2 DEF FeedInv, FeedType, ClaimType
<1>4. g \in Gsns /\ g <= counter
  BY <1>1, <1>3, FeedAssumption DEF RangeOf, Gsns, FeedType
<1> QED BY <1>1, <1>2, <1>4

\* What was told is told, and the releases of a step are told too.
LEMMA HeardKept ==
  ASSUME FeedType, FeedInv, mailbox \in Seq(MessageType), MailInv, FeedStep, router # "down",
         coldAt' = coldAt, NEW p, Heard(p, mailbox)
  PROVE  Heard(p, mailbox)'
<1>1. FeedType' /\ FeedInv' /\ FeedGrows
  BY FeedStepIs, FeedKept
<1>2. /\ \A i \in DOMAIN mailbox : i \in DOMAIN mailbox' /\ mailbox'[i] = mailbox[i]
      /\ \A r \in Refs : claim'[r].state = "released" => claim[r].state = "released" \/ Told(r)'
  BY MailKept
<1>3. PICK a : a = mailbox
  OBVIOUS
<1>4. PICK b : b = mailbox'
  OBVIOUS
<1>5. \A g : Mailed(a, g) => Mailed(b, g)
  BY <1>2, <1>3, <1>4 DEF Mailed
<1>6. ASSUME NEW r \in Refs, claim'[r].state = "released", NEW g \in RangeOf(claim'[r]), coldAt < g, p.last < g
      PROVE  g \in GsnsOfSeq(p.pending) \/ Mailed(b, g)
  <2>1. CASE claim[r].state = "released"
    <3>1. RangeOf(claim'[r]) = RangeOf(claim[r])
      BY <1>1, <2>1 DEF FeedGrows, RangeOf
    <3>2. g \in GsnsOfSeq(p.pending) \/ Mailed(a, g)
      BY <1>3, <1>6, <2>1, <3>1 DEF Heard
    <3> QED BY <1>5, <3>2
  <2>2. CASE Told(r)'
    <3>1. PICK i \in DOMAIN b : b[i].kind = "batch_committed" /\ IsRangeOf(b[i].range, r)'
      BY <1>4, <2>2 DEF Told, IsRangeOf
    <3>2. b[i].range.from = claim'[r].first /\ b[i].range.to = claim'[r].last
      BY <3>1 DEF IsRangeOf
    <3>3. g \in GsnsOfRange(b[i].range)
      BY <1>6, <3>2 DEF GsnsOfRange, RangeOf
    <3> QED BY <3>1, <3>3 DEF Mailed
  <2> QED BY <1>2, <1>6, <2>1, <2>2
<1> QED BY <1>4, <1>6 DEF Heard, Mailed

\* The feed's steps leave nothing due behind the Router.
LEMMA FeedStepOrdered ==
  ASSUME MaxInFlight = 1, SafeInv, SafeInv', OrderInv, FeedStep
  PROVE  OrderInv'
<1> USE DEF SafeInv, LogInv
<1>1. FeedType /\ FeedInv /\ mailbox \in Seq(MessageType) /\ MailInv /\ plan \in PlanType /\ toPush \in Seq(RangeType)
      /\ watermark \in Nat /\ plan.last \in Nat /\ frontier \in Int /\ counter \in Nat /\ watermark <= counter /\ FeedType'
  <2>1. FeedType'
    BY DEF TypeOK, FeedType
  <2>2. counter \in Nat /\ watermark <= counter
    BY FeedAssumption DEF TypeOK, FeedInv
  <2> QED BY <2>1, <2>2, TypeParts
<1>2. FeedGrows
  BY <1>1, FeedStepIs, FeedKept
<1>3. OneHeld'
  BY <1>1, FeedStepIs, OneHeldKept DEF OrderInv
<1>4. UNCHANGED <<router, plan, toPush, sent, frontier, pushed, coldAt>>
  BY FeedStepIs DEF pushVars
<1>5. \A g \in Gsns : Due(g)' => Due(g) \/ counter < g
  BY <1>1, <1>2, <1>4, DueGrows
<1>6. \A g \in Gsns : g \in Nat
  BY FeedAssumption DEF Gsns
<1>7. ASSUME router \in {"drain", "ready", "pushing"} PROVE NoHole(plan)'
  <2>1. PICK p \in PlanType : p = plan
    BY <1>1
  <2>2. NoHole(p)
    BY <1>7, <2>1 DEF OrderInv, PushInv
  <2>3. ASSUME NEW i \in DOMAIN p.pending PROVE p.pending[i].to \in Nat /\ p.pending[i].to <= counter
    <3>1. p.pending[i].from <= p.pending[i].to /\ GsnsOfRange(p.pending[i]) \subseteq StoredGsns
      BY <2>1 DEF RouterInv, InLog
    <3>2. p.pending[i] \in RangeType
      BY DEF PlanType
    <3>3. p.pending[i].to \in GsnsOfRange(p.pending[i]) /\ p.pending[i].to \in Nat
      BY <3>1, <3>2, FeedAssumption DEF RangeType, Gsns, GsnsOfRange
    <3> QED BY <1>1, <3>1, <3>3, StoredClaimed
  <2>4. ASSUME NEW g \in Gsns, Due(g)', p.last < g, NEW i \in DOMAIN p.pending, g <= p.pending[i].to
        PROVE  g \in GsnsOfSeq(p.pending)
    <3>1. ~(counter < g)
      BY <1>1, <1>6, <2>3, <2>4
    <3>2. Due(g)
      BY <1>5, <2>4, <3>1
    <3> QED BY <2>2, <2>4, <3>2 DEF NoHole
  <2>5. plan' = p
    BY <1>4, <2>1
  <2> QED BY <2>4, <2>5 DEF NoHole, GsnsOfSeq
<1>8. ASSUME router \in {"drain", "ready", "pushing"} PROVE Heard(plan, mailbox)'
  <2>1. PICK p : p = plan
    OBVIOUS
  <2>2. Heard(p, mailbox)
    BY <1>8, <2>1 DEF OrderInv, PushInv
  <2>3. Heard(p, mailbox)'
    BY <1>1, <1>4, <1>8, <2>2, HeardKept
  <2> QED BY <1>4, <2>1, <2>3 DEF Heard, GsnsOfSeq
<1>9. \A g \in Gsns : Due(g)' /\ g <= watermark => Due(g)
  BY <1>1, <1>5, <1>6
<1>10. \A g \in Gsns : Unsent(g)' <=> Unsent(g)
  BY <1>4 DEF Unsent
<1>11. ASSUME router \in {"drain", "ready", "pushing"}, NEW g \in Gsns, Due(g)', g <= plan.last
       PROVE  g \in pushed \/ Unsent(g)
  <2>1. g <= watermark
    BY <1>1, <1>6, <1>11 DEF RouterInv
  <2> QED BY <1>9, <1>11, <2>1 DEF OrderInv, PushInv
<1>12. ASSUME NEW i \in (sent + 1)..Len(toPush), NEW g \in Gsns, Due(g)', g <= toPush[i].to
       PROVE  g \in pushed \/ \E j \in (sent + 1)..i : g \in GsnsOfRange(toPush[j])
  <2>1. i \in DOMAIN toPush
    BY <1>1, TypeParts
  <2>2. toPush[i].to \in Nat /\ toPush[i].to <= watermark
    <3>1. toPush[i] \in RangeType
      BY <1>1, <2>1
    <3> QED BY <2>1, <3>1, FeedAssumption DEF RouterInv, RangeType, Gsns
  <2>3. Due(g)
    BY <1>1, <1>6, <1>9, <1>12, <2>2
  <2> QED BY <1>12, <2>3 DEF OrderInv, PushInv
<1>13. ASSUME NEW h \in pushed, NEW g \in Gsns, Due(g)', g < h PROVE g \in pushed
  <2>1. h \in Gsns /\ h <= watermark
    BY DEF TypeOK, PushedIsCommitted
  <2>2. Due(g)
    BY <1>1, <1>6, <1>9, <1>13, <2>1
  <2> QED BY <1>13, <2>2 DEF OrderInv, PushInv
<1>14. ASSUME NEW g \in Gsns, Due(g)', g <= frontier PROVE g \in pushed
  <2>1. g <= watermark
    BY <1>1, <1>6, <1>14 DEF RouterInv
  <2> QED BY <1>9, <1>14, <2>1 DEF OrderInv, PushInv
<1>15. PushInv'
  BY <1>4, <1>7, <1>8, <1>10, <1>11, <1>12, <1>13, <1>14 DEF PushInv
<1> QED BY <1>3, <1>15 DEF OrderInv

\* A drained plan leaves nothing that is due behind, and what is due below a released range
\* is released before it.
LEMMA DrainOrdered ==
  ASSUME TypeOK, OrderInv, NEW p, PlanOK(p), Drain(p, watermark), NoHole(p), Heard(p, mailbox'),
         \A g \in Gsns : Due(g) /\ g <= p.last => g \in pushed,
         UNCHANGED <<feedVars, frontier, pushVars>>
  PROVE  OrderInv'
<1>1. p \in PlanType /\ Sorted(p.pending) /\ NoneTwice(p.pending)
  BY InLogIs DEF PlanOK
<1>2. PICK k \in 0..Len(p.pending) : Drained(p, watermark, k)
  BY <1>1, DrainMoves
<1>3. PICK a \in Seq(RangeType) : a = toPush'
  BY <1>2 DEF Drained
<1>4. PICK q \in PlanType : q = plan'
  BY <1>2 DEF Drained
<1>5. PICK s \in Seq(RangeType) : s = p.pending
  BY <1>1 DEF PlanType
<1>6. /\ k \in Nat /\ k <= Len(s) /\ Len(s) \in Nat /\ DOMAIN s = 1..Len(s)
      /\ Len(a) = k /\ DOMAIN a = 1..k /\ \A i \in 1..k : a[i] = s[i]
      /\ sent' = 0 /\ router' = "pushing"
      /\ p.last <= q.last /\ (q.last = p.last \/ \E i \in 1..k : q.last = s[i].to)
  BY <1>2, <1>3, <1>4, <1>5 DEF Drained
<1>7. /\ \A y : IsIn(s, y) <=> IsIn(a, y) \/ IsIn(q.pending, y)
      /\ \A i \in DOMAIN a : a[i].to <= q.last
  BY <1>1, <1>2, <1>3, <1>4, <1>5, DrainedHolds
<1>8. UNCHANGED <<claim, coldAt, pushed, frontier>>
  BY DEF feedVars, pushVars
<1>9. \A g \in Gsns : Due(g)' <=> Due(g)
  BY <1>8 DEF Due, Live
<1>10. /\ \A g \in Gsns : g \in Nat
       /\ p.last \in Nat /\ q.last \in Nat
       /\ \A i \in 1..Len(s) : s[i].from \in Nat /\ s[i].to \in Nat
  <2>1. \A i \in 1..Len(s) : s[i] \in RangeType
    OBVIOUS
  <2>2. Gsns \subseteq Nat /\ 0..MaxGsn \subseteq Nat
    BY FeedAssumption DEF Gsns
  <2>3. \A y \in RangeType : y.from \in Gsns /\ y.to \in Gsns
    BY DEF RangeType
  <2>4. p.last \in 0..MaxGsn /\ q.last \in 0..MaxGsn
    BY <1>1 DEF PlanType
  <2> QED BY <2>1, <2>2, <2>3, <2>4
<1>11. \A y, g : IsIn(a, y) /\ g \in Gsns /\ q.last < g => g \notin GsnsOfRange(y)
  <2> SUFFICES ASSUME NEW i \in 1..k, NEW g \in Gsns, q.last < g PROVE g \notin GsnsOfRange(a[i])
    BY <1>6 DEF IsIn
  <2>1. a[i].to <= q.last /\ a[i] = s[i] /\ i \in 1..Len(s)
    BY <1>6, <1>7
  <2>2. a[i].to < g
    BY <1>10, <2>1
  <2> QED BY <1>10, <2>1, <2>2 DEF GsnsOfRange
<1>12. \A g \in Gsns : g \in GsnsOfSeq(s) /\ q.last < g => g \in GsnsOfSeq(q.pending)
  BY <1>7, <1>11, InSeq
<1>13. NoHole(q)
  <2> SUFFICES ASSUME NEW g \in Gsns, Due(g), q.last < g, NEW y, IsIn(q.pending, y), g <= y.to
               PROVE  g \in GsnsOfSeq(q.pending)
    BY DEF NoHole, IsIn
  <2>1. IsIn(s, y) /\ p.last < g
    BY <1>6, <1>7, <1>10
  <2>2. g \in GsnsOfSeq(s)
    BY <1>5, <2>1 DEF NoHole, IsIn
  <2> QED BY <1>12, <2>2
<1>14. Heard(q, mailbox')
  <2> SUFFICES ASSUME NEW r \in Refs, claim[r].state = "released", NEW g \in RangeOf(claim[r]), coldAt < g, q.last < g
               PROVE  g \in GsnsOfSeq(q.pending) \/ Mailed(mailbox', g)
    BY DEF Heard
  <2>1. g \in Gsns
    <3>1. claim[r].first \in 1..(MaxGsn + 1) /\ claim[r].last \in 0..MaxGsn
      BY DEF TypeOK, ClaimType
    <3> QED BY <3>1, FeedAssumption DEF RangeOf, Gsns
  <2>2. p.last < g
    BY <1>6, <1>10, <2>1
  <2>3. g \in GsnsOfSeq(s) \/ Mailed(mailbox', g)
    BY <1>5, <2>2 DEF Heard
  <2> QED BY <1>12, <2>1, <2>3
<1>15. ASSUME NEW i \in 1..k, NEW g \in Gsns, Due(g), g <= s[i].to
       PROVE  g \in pushed \/ \E j \in 1..i : g \in GsnsOfRange(a[j])
  <2>1. CASE g <= p.last
    BY <1>15, <2>1
  <2>2. CASE p.last < g
    <3>1. i \in 1..Len(s)
      BY <1>6
    <3>2. g \in GsnsOfSeq(s)
      BY <1>5, <1>6, <1>15, <2>2, <3>1 DEF NoHole
    <3>3. PICK j \in 1..Len(s) : g \in GsnsOfRange(s[j])
      BY <1>6, <3>2 DEF GsnsOfSeq
    <3>4. CASE j <= i
      <4>1. j \in 1..k /\ j \in 1..i
        BY <1>6, <3>4
      <4> QED BY <1>6, <3>3, <4>1
    <3>5. CASE i < j
      <4>1. s[i].from <= s[j].from
        BY <1>1, <1>5, <1>6, <3>1, <3>5 DEF Sorted
      <4>2. s[j].from <= g
        BY <3>3 DEF GsnsOfRange
      <4>3. s[i].from <= g
        BY <1>10, <3>1, <4>1, <4>2
      <4>4. g \in GsnsOfRange(s[i])
        BY <1>10, <1>15, <3>1, <4>3 DEF GsnsOfRange
      <4>5. i \in 1..i
        OBVIOUS
      <4> QED BY <1>6, <4>4, <4>5
    <3> QED BY <3>4, <3>5
  <2> QED BY <1>10, <2>1, <2>2
<1>16. ASSUME NEW g \in Gsns, Due(g), g <= q.last PROVE g \in pushed \/ \E j \in 1..k : g \in GsnsOfRange(a[j])
  <2>1. CASE q.last = p.last
    BY <1>16, <2>1
  <2>2. CASE q.last # p.last
    <3>1. PICK i \in 1..k : q.last = s[i].to
      BY <1>6, <2>2
    <3>2. g \in pushed \/ \E j \in 1..i : g \in GsnsOfRange(a[j])
      BY <1>15, <1>16, <3>1
    <3>3. \A j \in 1..i : j \in 1..k
      BY <1>6
    <3> QED BY <3>2, <3>3
  <2> QED BY <2>1, <2>2
<1>17. (sent' + 1)..Len(toPush') = 1..k /\ \A i \in 1..k : (sent' + 1)..i = 1..i
  BY <1>3, <1>6
<1>18. NoHole(plan)' /\ Heard(plan, mailbox)'
  BY <1>4, <1>8, <1>13, <1>14 DEF NoHole, Heard, Due, Live, GsnsOfSeq, Mailed
<1>19. \A g \in Gsns : Due(g)' /\ g <= plan'.last => g \in pushed' \/ Unsent(g)'
  BY <1>3, <1>4, <1>8, <1>9, <1>16, <1>17 DEF Unsent
<1>20. \A i \in (sent' + 1)..Len(toPush') : \A g \in Gsns : Due(g)' /\ g <= toPush'[i].to =>
         g \in pushed' \/ \E j \in (sent' + 1)..i : g \in GsnsOfRange(toPush'[j])
  <2> SUFFICES ASSUME NEW i \in 1..k, NEW g \in Gsns, Due(g), g <= a[i].to
               PROVE  g \in pushed \/ \E j \in 1..i : g \in GsnsOfRange(a[j])
    BY <1>3, <1>8, <1>9, <1>17
  <2> QED BY <1>6, <1>15
<1>21. PushInv'
  <2>1. \A h \in pushed' : \A g \in Gsns : Due(g)' /\ g < h => g \in pushed'
    BY <1>8, <1>9 DEF OrderInv, PushInv
  <2>2. \A g \in Gsns : Due(g)' /\ g <= frontier' => g \in pushed'
    BY <1>8, <1>9 DEF OrderInv, PushInv
  <2> QED BY <1>18, <1>19, <1>20, <2>1, <2>2 DEF PushInv
<1>22. OneHeld'
  BY <1>8 DEF OrderInv, OneHeld, Held
<1> QED BY <1>21, <1>22 DEF OrderInv

\* The claims' ranges do not overlap, and what is due is not in a range given up.
LEMMA ClaimsApart ==
  ASSUME FeedType, FeedInv, NEW q \in Refs, NEW r \in Refs, claim[q].state # "none", claim[r].state # "none",
         NEW g \in RangeOf(claim[q])
  PROVE  /\ g \in Gsns
         /\ g \in RangeOf(claim[r]) => q = r
         /\ g < claim[r].first => q < r
         /\ g <= claim[r].last => q <= r
<1>1. q \in Nat /\ r \in Nat
  BY FeedAssumption DEF Refs
<1>2. \A n \in {q, r} : claim[n].first \in 1..(MaxGsn + 1) /\ claim[n].last \in 0..MaxGsn
  BY DEF FeedType, ClaimType
<1>3. /\ claim[q].first \in Nat /\ claim[q].last \in Nat /\ claim[r].first \in Nat /\ claim[r].last \in Nat
      /\ 1 <= claim[q].first /\ claim[q].last <= MaxGsn /\ MaxGsn \in Nat
  BY <1>2, FeedAssumption
<1>4. g \in Nat /\ claim[q].first <= g /\ g <= claim[q].last /\ g \in Gsns
  BY <1>3 DEF RangeOf, Gsns
<1>5. q < r => claim[q].last < claim[r].first
  BY DEF FeedInv
<1>6. r < q => claim[r].last < claim[q].first
  BY DEF FeedInv
<1>7. claim[r].first <= claim[r].last
  BY DEF FeedInv
<1>8. g \in RangeOf(claim[r]) => claim[r].first <= g /\ g <= claim[r].last
  BY <1>3 DEF RangeOf
<1>9. ASSUME r < q PROVE claim[r].last < g /\ ~(g < claim[r].first)
  BY <1>3, <1>4, <1>6, <1>7, <1>9
<1>10. ASSUME q = r PROVE ~(g < claim[r].first)
  BY <1>3, <1>4, <1>10
<1>11. q < r \/ q = r \/ r < q
  BY <1>1
<1> QED BY <1>1, <1>3, <1>4, <1>5, <1>8, <1>9, <1>10, <1>11

\* batch_committed
LEMMA CommittedOrdered ==
  ASSUME SafeInv, OrderInv, HandleBatchCommitted
  PROVE  OrderInv'
<1> USE DEF SafeInv, LogInv
<1>1. FeedType /\ FeedInv /\ mailbox \in Seq(MessageType) /\ MailInv /\ plan \in PlanType
  BY TypeParts
<1>2. router = "ready" /\ mailbox # <<>> /\ Head(mailbox).kind = "batch_committed" /\ mailbox' = Tail(mailbox)
      /\ UNCHANGED <<feedVars, frontier, pushVars>>
  BY DEF HandleBatchCommitted
<1>3. PICK x : x = Head(mailbox).range
  OBVIOUS
<1>4. Drain(PlanAck(plan, x), watermark)
  BY <1>3 DEF HandleBatchCommitted
<1>5. Head(mailbox) \in MessageType /\ Tells(Head(mailbox))
  BY <1>1, <1>2, MailTaken
<1>6. x \in RangeType
  BY <1>3, <1>5 DEF MessageType
<1>7. PICK r \in Refs : IsRangeOf(x, r) /\ claim[r].state = "released"
  BY <1>2, <1>3, <1>5 DEF Tells
<1>8. x.from <= x.to /\ GsnsOfRange(x) \subseteq StoredGsns /\ GsnsOfRange(x) = RangeOf(claim[r])
  BY <1>1, <1>7, ReleasedInLog
<1>9. PICK p : p = PlanAck(plan, x)
  OBVIOUS
<1>10. PlanOK(plan) /\ toPush = <<>> /\ sent = 0
  BY <1>2, IdlePlan DEF RouterInv
<1>11. PlanOK(p) /\ p.last = plan.last /\ \A y : IsIn(p.pending, y) <=> y = x \/ IsIn(plan.pending, y)
  BY <1>1, <1>6, <1>8, <1>9, <1>10, AckedPlan
<1>12. \A g : g \in GsnsOfSeq(p.pending) <=> g \in GsnsOfRange(x) \/ g \in GsnsOfSeq(plan.pending)
  BY <1>11, InSeq
<1>13. NoHole(plan) /\ Heard(plan, mailbox)
  BY <1>2 DEF OrderInv, PushInv
<1>14. PICK m \in Seq(MessageType) : m = mailbox
  BY <1>1
<1>15. /\ Len(m) \in Nat /\ DOMAIN m = 1..Len(m) /\ 1 \in DOMAIN m /\ m[1].range = x /\ m[1].kind = "batch_committed"
       /\ Tail(m) \in Seq(MessageType) /\ DOMAIN Tail(m) = 1..(Len(m) - 1)
       /\ \A i \in 1..(Len(m) - 1) : Tail(m)[i] = m[i + 1]
  BY <1>2, <1>3, <1>14
<1>16. \A g : Mailed(m, g) => g \in GsnsOfRange(x) \/ Mailed(Tail(m), g)
  <2> SUFFICES ASSUME NEW g, NEW i \in 1..Len(m), m[i].kind = "batch_committed", g \in GsnsOfRange(m[i].range), i # 1
               PROVE  Mailed(Tail(m), g)
    BY <1>15 DEF Mailed
  <2>1. i - 1 \in 1..(Len(m) - 1) /\ (i - 1) + 1 = i
    BY <1>15
  <2>2. Tail(m)[i - 1] = m[i] /\ i - 1 \in DOMAIN Tail(m)
    BY <1>15, <2>1
  <2> QED BY <2>2 DEF Mailed
<1>17. \A g \in Gsns : Mailed(Tail(m), g) => x.to < g
  <2> SUFFICES ASSUME NEW g \in Gsns, NEW i \in 1..(Len(m) - 1), m[i + 1].kind = "batch_committed",
                      g \in GsnsOfRange(m[i + 1].range)
               PROVE  x.to < g
    BY <1>15 DEF Mailed
  <2>1. i + 1 \in DOMAIN m /\ 1 < i + 1
    BY <1>15
  <2>2. x.to < m[i + 1].range.from
    BY <1>14, <1>15, <2>1 DEF MailInv
  <2>3. m[i + 1].range \in RangeType
    <3>1. m[i + 1] \in MessageType
      BY <2>1
    <3> QED BY <3>1 DEF MessageType
  <2> QED BY <1>6, <2>2, <2>3, FeedAssumption DEF GsnsOfRange, RangeType, Gsns
<1>18. NoHole(p)
  <2> SUFFICES ASSUME NEW g \in Gsns, Due(g), p.last < g, NEW y, IsIn(p.pending, y), g <= y.to
               PROVE  g \in GsnsOfSeq(p.pending)
    BY DEF NoHole, IsIn
  <2>1. CASE IsIn(plan.pending, y)
    BY <1>11, <1>12, <1>13, <2>1 DEF NoHole, IsIn
  <2>2. CASE y = x
    <3>1. PICK q \in Refs : Live(q) /\ g \in RangeOf(claim[q]) /\ coldAt < g
      BY DEF Due
    <3>2. g <= claim[r].last /\ claim[q].state # "none"
      BY <1>7, <2>2, <3>1 DEF IsRangeOf, Live
    <3>3. q <= r
      BY <1>1, <1>7, <3>1, <3>2, ClaimsApart
    <3>4. CASE q = r
      BY <1>8, <1>12, <3>1, <3>4
    <3>5. CASE q < r
      <4>1. claim[q].state = "released"
        BY <1>1, <1>7, <3>1, <3>5 DEF FeedInv, Held, Live
      <4>2. g \in GsnsOfSeq(plan.pending) \/ Mailed(m, g)
        BY <1>11, <1>13, <1>14, <3>1, <4>1 DEF Heard
      <4>3. ~Mailed(Tail(m), g)
        BY <1>6, <1>17, <2>2, FeedAssumption DEF RangeType, Gsns
      <4> QED BY <1>12, <1>16, <4>2, <4>3
    <3> QED BY <3>3, <3>4, <3>5 DEF Refs
  <2> QED BY <1>11, <2>1, <2>2
<1>19. Heard(p, mailbox')
  <2>1. mailbox' = Tail(m)
    BY <1>2, <1>14
  <2>2. Heard(p, Tail(m))
    BY <1>11, <1>12, <1>13, <1>14, <1>16 DEF Heard
  <2> QED BY <2>1, <2>2
<1>20. \A g \in Gsns : Due(g) /\ g <= p.last => g \in pushed
  <2>1. \A g \in Gsns : ~Unsent(g)
    BY <1>10 DEF Unsent
  <2> QED BY <1>2, <1>11, <2>1 DEF OrderInv, PushInv
<1> QED BY <1>2, <1>4, <1>9, <1>11, <1>18, <1>19, <1>20, DrainOrdered

\* range_resolved
LEMMA ResolvedOrdered ==
  ASSUME SafeInv, OrderInv, HandleRangeResolved
  PROVE  OrderInv'
<1> USE DEF SafeInv, LogInv
<1>1. FeedType /\ FeedInv /\ mailbox \in Seq(MessageType) /\ MailInv /\ plan \in PlanType
  BY TypeParts
<1>2. router = "ready" /\ mailbox # <<>> /\ Head(mailbox).kind = "range_resolved" /\ mailbox' = Tail(mailbox)
      /\ UNCHANGED <<feedVars, frontier, pushVars>>
  BY DEF HandleRangeResolved
<1>3. PICK x : x = Head(mailbox).range
  OBVIOUS
<1>4. Drain(PlanResolve(plan, x), watermark)
  BY <1>3 DEF HandleRangeResolved
<1>5. Head(mailbox) \in MessageType /\ Tells(Head(mailbox))
  BY <1>1, <1>2, MailTaken
<1>6. x \in RangeType
  BY <1>3, <1>5 DEF MessageType
<1>7. PICK r \in Refs : IsRangeOf(x, r) /\ claim[r].state = "dropped"
  BY <1>2, <1>3, <1>5 DEF Tells
<1>8. GsnsOfRange(x) = RangeOf(claim[r])
  BY <1>7 DEF IsRangeOf, GsnsOfRange, RangeOf
<1>9. PICK p : p = PlanResolve(plan, x)
  OBVIOUS
<1>10. PlanOK(plan) /\ toPush = <<>> /\ sent = 0
  BY <1>2, IdlePlan DEF RouterInv
<1>11. PlanOK(p) /\ p.last = plan.last /\ \A y : IsIn(p.pending, y) <=> y # x /\ IsIn(plan.pending, y)
  BY <1>6, <1>9, <1>10, ResolvedPlan
<1>12. \A g : g \in GsnsOfSeq(plan.pending) /\ g \notin GsnsOfRange(x) => g \in GsnsOfSeq(p.pending)
  BY <1>11, InSeq
<1>13. NoHole(plan) /\ Heard(plan, mailbox)
  BY <1>2 DEF OrderInv, PushInv
<1>14. PICK m \in Seq(MessageType) : m = mailbox
  BY <1>1
<1>15. /\ Len(m) \in Nat /\ DOMAIN m = 1..Len(m) /\ m[1].kind = "range_resolved"
       /\ Tail(m) \in Seq(MessageType) /\ DOMAIN Tail(m) = 1..(Len(m) - 1)
       /\ \A i \in 1..(Len(m) - 1) : Tail(m)[i] = m[i + 1]
  BY <1>2, <1>3, <1>14
<1>16. \A g : Mailed(m, g) => Mailed(Tail(m), g)
  <2> SUFFICES ASSUME NEW g, NEW i \in 1..Len(m), m[i].kind = "batch_committed", g \in GsnsOfRange(m[i].range)
               PROVE  Mailed(Tail(m), g)
    BY <1>15 DEF Mailed
  <2>1. i # 1
    BY <1>15
  <2>2. i - 1 \in 1..(Len(m) - 1) /\ (i - 1) + 1 = i
    BY <1>15, <2>1
  <2>3. Tail(m)[i - 1] = m[i] /\ i - 1 \in DOMAIN Tail(m)
    BY <1>15, <2>2
  <2> QED BY <2>3 DEF Mailed
<1>17. ASSUME NEW q \in Refs, Live(q), NEW g \in RangeOf(claim[q]) PROVE g \notin GsnsOfRange(x)
  <2>1. claim[q].state # "none" /\ claim[q].state # "dropped" /\ claim[r].state # "none"
    BY <1>7, <1>17 DEF Live
  <2>2. g \in RangeOf(claim[r]) => q = r
    BY <1>1, <2>1, ClaimsApart
  <2> QED BY <1>7, <1>8, <2>1, <2>2
<1>18. NoHole(p)
  <2> SUFFICES ASSUME NEW g \in Gsns, Due(g), p.last < g, NEW y, IsIn(p.pending, y), g <= y.to
               PROVE  g \in GsnsOfSeq(p.pending)
    BY DEF NoHole, IsIn
  <2>1. g \notin GsnsOfRange(x)
    BY <1>17 DEF Due
  <2>2. g \in GsnsOfSeq(plan.pending)
    BY <1>11, <1>13 DEF NoHole, IsIn
  <2> QED BY <1>12, <2>1, <2>2
<1>19. Heard(p, mailbox')
  <2>1. mailbox' = Tail(m)
    BY <1>2, <1>14
  <2>2. \A q \in Refs : claim[q].state = "released" => Live(q)
    BY DEF Live
  <2>3. Heard(p, Tail(m))
    BY <1>11, <1>12, <1>13, <1>14, <1>16, <1>17, <2>2 DEF Heard
  <2> QED BY <2>1, <2>3
<1>20. \A g \in Gsns : Due(g) /\ g <= p.last => g \in pushed
  <2>1. \A g \in Gsns : ~Unsent(g)
    BY <1>10 DEF Unsent
  <2> QED BY <1>2, <1>11, <2>1 DEF OrderInv, PushInv
<1> QED BY <1>2, <1>4, <1>9, <1>11, <1>18, <1>19, <1>20, DrainOrdered

\* resume, the rest.
LEMMA DrainStepOrdered ==
  ASSUME SafeInv, OrderInv, RouterDrain
  PROVE  OrderInv'
<1> USE DEF SafeInv, LogInv
<1>1. router = "drain" /\ Drain(plan, watermark) /\ UNCHANGED mailbox /\ UNCHANGED <<feedVars, frontier, pushVars>>
  BY DEF RouterDrain
<1>2. PlanOK(plan) /\ toPush = <<>> /\ sent = 0
  BY <1>1, IdlePlan DEF RouterInv
<1>3. NoHole(plan) /\ Heard(plan, mailbox')
  <2>1. NoHole(plan) /\ Heard(plan, mailbox)
    BY <1>1 DEF OrderInv, PushInv
  <2> QED BY <1>1, <2>1
<1>4. \A g \in Gsns : Due(g) /\ g <= plan.last => g \in pushed
  <2>1. \A g \in Gsns : ~Unsent(g)
    BY <1>2 DEF Unsent
  <2> QED BY <1>1, <2>1 DEF OrderInv, PushInv
<1> QED BY <1>1, <1>2, <1>3, <1>4, DrainOrdered

\* push_gsn_range
LEMMA PushOrdered ==
  ASSUME SafeInv, OrderInv, Push
  PROVE  OrderInv'
<1> USE DEF SafeInv, LogInv
<1>1. /\ router = "pushing" /\ sent < Len(toPush) /\ sent' = sent + 1
      /\ pushed' = pushed \cup GsnsOfRange(toPush[sent + 1])
      /\ UNCHANGED <<claim, router, mailbox, plan, toPush, frontier, coldAt>>
  BY DEF Push, feedVars
<1>2. toPush \in Seq(RangeType) /\ sent \in Nat /\ Len(toPush) \in Nat
  BY TypeParts
<1>3. PICK x \in RangeType : x = toPush[sent + 1]
  BY <1>1, <1>2
<1>4. pushed' = pushed \cup GsnsOfRange(x) /\ pushed \subseteq pushed'
  BY <1>1, <1>3
<1>5. \A g \in Gsns : Due(g)' <=> Due(g)
  BY <1>1 DEF Due, Live
<1>6. NoHole(plan)' /\ Heard(plan, mailbox)'
  <2>1. NoHole(plan) /\ Heard(plan, mailbox)
    BY <1>1 DEF OrderInv, PushInv
  <2> QED BY <1>1, <2>1 DEF NoHole, Heard, Due, Live, GsnsOfSeq, Mailed
<1>7. \A i \in Int : i \in (sent + 1)..Len(toPush) <=> i = sent + 1 \/ i \in (sent' + 1)..Len(toPush)
  BY <1>1, <1>2
<1>8. \A g \in Gsns : Unsent(g) => g \in pushed' \/ Unsent(g)'
  <2> SUFFICES ASSUME NEW g \in Gsns, NEW i \in (sent + 1)..Len(toPush), g \in GsnsOfRange(toPush[i])
               PROVE  g \in pushed' \/ Unsent(g)'
    BY DEF Unsent
  <2> QED BY <1>1, <1>3, <1>4, <1>7 DEF Unsent
<1>9. ASSUME NEW i \in (sent' + 1)..Len(toPush), NEW g \in Gsns, Due(g), g <= toPush[i].to
      PROVE  g \in pushed' \/ \E j \in (sent' + 1)..i : g \in GsnsOfRange(toPush[j])
  <2>1. i \in (sent + 1)..Len(toPush)
    BY <1>1, <1>2
  <2>2. g \in pushed \/ \E j \in (sent + 1)..i : g \in GsnsOfRange(toPush[j])
    BY <1>9, <2>1 DEF OrderInv, PushInv
  <2>3. \A j \in (sent + 1)..i : j = sent + 1 \/ j \in (sent' + 1)..i
    BY <1>1, <1>2
  <2> QED BY <1>3, <1>4, <2>2, <2>3
<1>10. ASSUME NEW h \in pushed', NEW g \in Gsns, Due(g), g < h PROVE g \in pushed'
  <2>1. CASE h \in pushed
    BY <1>4, <1>10, <2>1 DEF OrderInv, PushInv
  <2>2. CASE h \in GsnsOfRange(x)
    <3>1. g <= x.to
      BY <1>10, <2>2, FeedAssumption DEF GsnsOfRange, RangeType, Gsns
    <3>2. sent + 1 \in (sent + 1)..Len(toPush) /\ \A j \in (sent + 1)..(sent + 1) : j = sent + 1
      BY <1>1, <1>2
    <3>3. g \in pushed \/ \E j \in (sent + 1)..(sent + 1) : g \in GsnsOfRange(toPush[j])
      BY <1>3, <1>10, <3>1, <3>2 DEF OrderInv, PushInv
    <3> QED BY <1>3, <1>4, <3>2, <3>3
  <2> QED BY <1>4, <2>1, <2>2
<1>11. PushInv'
  <2>1. \A g \in Gsns : Due(g)' /\ g <= plan'.last => g \in pushed' \/ Unsent(g)'
    BY <1>1, <1>4, <1>5, <1>8 DEF OrderInv, PushInv
  <2>2. \A g \in Gsns : Due(g)' /\ g <= frontier' => g \in pushed'
    BY <1>1, <1>4, <1>5 DEF OrderInv, PushInv
  <2> QED BY <1>1, <1>5, <1>6, <1>9, <1>10, <2>1, <2>2 DEF PushInv
<1>12. OneHeld'
  BY <1>1 DEF OrderInv, OneHeld, Held
<1> QED BY <1>11, <1>12 DEF OrderInv

\* The frontier is persisted.
LEMMA PersistOrdered ==
  ASSUME SafeInv, OrderInv, Persist
  PROVE  OrderInv'
<1> USE DEF SafeInv, LogInv
<1>1. /\ router = "pushing" /\ sent = Len(toPush) /\ frontier' = Greater(frontier, plan.last)
      /\ router' = "ready" /\ toPush' = <<>> /\ sent' = 0
      /\ UNCHANGED <<claim, mailbox, plan, pushed, coldAt>>
  BY DEF Persist, feedVars, pushVars
<1>2. \A g \in Gsns : Due(g)' <=> Due(g)
  BY <1>1 DEF Due, Live
<1>3. \A g \in Gsns : ~Unsent(g)
  BY <1>1, TypeParts DEF Unsent
<1>4. NoHole(plan)' /\ Heard(plan, mailbox)'
  <2>1. NoHole(plan) /\ Heard(plan, mailbox)
    BY <1>1 DEF OrderInv, PushInv
  <2> QED BY <1>1, <2>1 DEF NoHole, Heard, Due, Live, GsnsOfSeq, Mailed
<1>5. \A g \in Gsns : Due(g) /\ (g <= plan.last \/ g <= frontier) => g \in pushed
  BY <1>1, <1>3 DEF OrderInv, PushInv
<1>6. frontier' = frontier \/ frontier' = plan.last
  BY <1>1 DEF Greater
<1>7. (sent' + 1)..Len(toPush') = {}
  BY <1>1
<1>8. PushInv'
  <2>1. \A h \in pushed' : \A g \in Gsns : Due(g)' /\ g < h => g \in pushed'
    BY <1>1, <1>2 DEF OrderInv, PushInv
  <2>2. \A g \in Gsns : Due(g)' /\ g <= frontier' => g \in pushed'
    BY <1>1, <1>2, <1>5, <1>6
  <2>3. \A g \in Gsns : Due(g)' /\ g <= plan'.last => g \in pushed' \/ Unsent(g)'
    BY <1>1, <1>2, <1>5
  <2> QED BY <1>4, <1>7, <2>1, <2>2, <2>3 DEF PushInv
<1>9. OneHeld'
  BY <1>1 DEF OrderInv, OneHeld, Held
<1> QED BY <1>8, <1>9 DEF OrderInv

\* The Router dies or is registered, or the owner of the frontier restarts.
LEMMA RestartOrdered ==
  ASSUME SafeInv, OrderInv, RouterCrash \/ RouterRegister \/ FrontierCrash
  PROVE  OrderInv'
<1> USE DEF SafeInv, LogInv
<1>1. UNCHANGED <<claim, pushed, coldAt>> /\ (frontier' = frontier \/ frontier' = -1)
  BY DEF RouterCrash, RouterRegister, FrontierCrash, feedVars, pushVars, Empty
<1>2. \A g \in Gsns : Due(g)' <=> Due(g)
  BY <1>1 DEF Due, Live
<1>3. \A h \in pushed' : \A g \in Gsns : Due(g)' /\ g < h => g \in pushed'
  BY <1>1, <1>2 DEF OrderInv, PushInv
<1>4. \A g \in Gsns : Due(g)' /\ g <= frontier' => g \in pushed'
  <2>1. \A g \in Gsns : ~(g <= -1)
    BY FeedAssumption DEF Gsns
  <2> QED BY <1>1, <1>2, <2>1 DEF OrderInv, PushInv
<1>5. OneHeld'
  BY <1>1 DEF OrderInv, OneHeld, Held
<1>6. CASE RouterCrash \/ RouterRegister
  <2>1. router' \in {"down", "init"} /\ toPush' = <<>> /\ sent' = 0
    BY <1>6 DEF RouterCrash, RouterRegister, RouterInv
  <2>2. (sent' + 1)..Len(toPush') = {}
    BY <2>1
  <2>3. PushInv'
    BY <1>3, <1>4, <2>1, <2>2 DEF PushInv
  <2> QED BY <1>5, <2>3 DEF OrderInv
<1>7. CASE FrontierCrash
  <2>1. UNCHANGED <<router, mailbox, plan, toPush, sent>>
    BY <1>7 DEF FrontierCrash, routerVars
  <2>2. router \in {"drain", "ready", "pushing"} => NoHole(plan)' /\ Heard(plan, mailbox)'
    <3>1. router \in {"drain", "ready", "pushing"} => NoHole(plan) /\ Heard(plan, mailbox)
      BY DEF OrderInv, PushInv
    <3> QED BY <1>1, <2>1, <3>1 DEF NoHole, Heard, Due, Live, GsnsOfSeq, Mailed
  <2>3. \A g \in Gsns : Unsent(g)' <=> Unsent(g)
    BY <2>1 DEF Unsent
  <2>4. PushInv'
    BY <1>1, <1>2, <1>3, <1>4, <2>1, <2>2, <2>3 DEF OrderInv, PushInv
  <2> QED BY <1>5, <2>4 DEF OrderInv
<1> QED BY <1>6, <1>7

\* cold_start: everything released so far is below the watermark, and so given up.
LEMMA ColdStartOrdered ==
  ASSUME SafeInv, OrderInv, RouterColdStart
  PROVE  OrderInv'
<1> USE DEF SafeInv, LogInv
<1>1. /\ router = "init" /\ frontier' = watermark /\ plan' = NewPlan(<<>>, watermark)
      /\ coldAt' = Greater(coldAt, watermark) /\ router' = "ready"
      /\ UNCHANGED <<claim, toPush, sent, pushed>>
  BY DEF RouterColdStart, feedVars
<1>2. watermark \in Nat /\ coldAt \in Nat /\ coldAt <= watermark /\ \A g \in Gsns : g \in Nat
  BY FeedAssumption, TypeParts DEF RouterInv, Gsns
<1>3. coldAt' = watermark
  BY <1>1, <1>2 DEF Greater
<1>4. plan'.pending = <<>> /\ plan'.last = watermark
  BY <1>1 DEF NewPlan
<1>5. \A g \in Gsns : Due(g)' => Due(g) /\ watermark < g
  BY <1>1, <1>2, <1>3 DEF Due, Live
<1>6. \A g \in Gsns : watermark < g => ~(g <= watermark)
  BY <1>2
<1>7. NoHole(plan)'
  BY <1>4 DEF NoHole
<1>8. Heard(plan, mailbox)'
  <2> SUFFICES ASSUME NEW r \in Refs, claim[r].state = "released", NEW g \in RangeOf(claim[r]), watermark < g
               PROVE  FALSE
    BY <1>1, <1>3 DEF Heard
  <2>1. claim[r].last <= watermark /\ claim[r].first \in Nat /\ claim[r].last \in Nat
    BY FeedAssumption DEF FeedInv, TypeOK, ClaimType
  <2> QED BY <1>2, <2>1 DEF RangeOf
<1>9. (sent' + 1)..Len(toPush') = {}
  <2>1. toPush' = <<>> /\ sent' = 0
    BY <1>1 DEF RouterInv
  <2> QED BY <2>1
<1>10. PushInv'
  <2>1. \A h \in pushed' : \A g \in Gsns : Due(g)' /\ g < h => g \in pushed'
    BY <1>1, <1>5 DEF OrderInv, PushInv
  <2>2. \A g \in Gsns : Due(g)' /\ g <= frontier' => g \in pushed'
    BY <1>1, <1>5, <1>6
  <2>3. \A g \in Gsns : Due(g)' /\ g <= plan'.last => g \in pushed' \/ Unsent(g)'
    BY <1>4, <1>5, <1>6
  <2> QED BY <1>7, <1>8, <1>9, <2>1, <2>2, <2>3 DEF PushInv
<1>11. OneHeld'
  BY <1>1 DEF OrderInv, OneHeld, Held
<1> QED BY <1>10, <1>11 DEF OrderInv

\* resume, up to the read of the watermark: below a stored claim everything is stored or
\* given up, so the recovered ranges leave nothing due behind.
LEMMA RecoverOrdered ==
  ASSUME SafeInv, OrderInv, RouterRecover
  PROVE  OrderInv'
<1> USE DEF SafeInv, LogInv
<1>1. /\ router = "init" /\ frontier # Empty /\ router' = "drain"
      /\ UNCHANGED <<claim, stored, mailbox, toPush, sent, frontier, pushed, coldAt>>
  BY DEF RouterRecover, feedVars, pushVars
<1>2. PICK G : G = Recoverable(frontier)
  OBVIOUS
<1>3. PICK s \in [1..Cardinality(Runs(G)) -> Runs(G)] :
        /\ \A i, j \in DOMAIN s : i < j => s[i].to < s[j].from
        /\ plan' = NewPlan(s, frontier)
  BY <1>2 DEF RouterRecover
<1>4. FeedType /\ FeedInv /\ OneHeld
  BY TypeParts DEF OrderInv
<1>5. G \in SUBSET Gsns /\ G \subseteq StoredGsns /\ \A g \in StoredGsns : frontier < g => g \in G
  <2>1. \A g \in StoredGsns : g \in Gsns
    BY <1>4, StoredClaimed
  <2>2. \A g \in Gsns : g > frontier <=> frontier < g
    BY FeedAssumption, TypeParts DEF Gsns
  <2> QED BY <1>2, <2>1, <2>2 DEF Recoverable
<1>6. /\ s \in Seq(RangeType)
      /\ \A i \in DOMAIN s : s[i].from <= s[i].to /\ GsnsOfRange(s[i]) \subseteq G
      /\ \A g \in G : \E i \in DOMAIN s : g \in GsnsOfRange(s[i])
  <2>1. G \in SUBSET Gsns
    BY <1>5
  <2>2. \A i, j \in DOMAIN s : i < j => s[i].to < s[j].from
    BY <1>3
  <2>3. s \in Seq(RangeType) /\ \A i \in DOMAIN s : s[i].from <= s[i].to /\ GsnsOfRange(s[i]) \subseteq G
    BY <2>1, <2>2, RecoveredHolds
  <2>4. HoldsAll(s, G)
    BY <2>1, <2>2, RecoveredHolds
  <2> QED BY <2>3, <2>4 DEF HoldsAll
<1>7. frontier \in 0..MaxGsn
  BY <1>1 DEF TypeOK, Empty
<1>8. plan'.pending = s /\ plan'.last = frontier
  BY <1>3, <1>6, <1>7, NewPlanIs
<1>9. \A g \in StoredGsns : frontier < g => g \in GsnsOfSeq(s)
  BY <1>5, <1>6 DEF GsnsOfSeq
<1>10. \A r \in Refs : claim[r].state = "released" => RangeOf(claim[r]) \subseteq StoredGsns
  BY <1>4 DEF FeedInv, StoredGsns
<1>11. ASSUME NEW g \in Gsns, Due(g), frontier < g, NEW i \in DOMAIN s, g <= s[i].to
       PROVE  g \in GsnsOfSeq(s)
  <2>1. s[i].to \in StoredGsns /\ s[i].to \in Nat
    <3>1. s[i] \in RangeType
      <4>1. \A t \in Seq(RangeType) : \A n \in DOMAIN t : t[n] \in RangeType
        OBVIOUS
      <4> QED BY <1>6, <4>1
    <3>2. s[i].to \in GsnsOfRange(s[i]) /\ s[i].to \in Nat
      BY <1>6, <3>1, FeedAssumption DEF RangeType, Gsns, GsnsOfRange
    <3> QED BY <1>5, <1>6, <3>2
  <2>2. PICK q \in stored : q \in Refs /\ s[i].to \in RangeOf(claim[q]) /\ claim[q].state # "none"
    BY <1>4, <2>1, StoredClaimed
  <2>3. PICK r \in Refs : Live(r) /\ g \in RangeOf(claim[r])
    BY <1>11 DEF Due
  <2>4. claim[r].state # "none"
    BY <2>3 DEF Live
  <2>5. g <= claim[q].last
    <3>1. claim[q].first \in Nat /\ claim[q].last \in Nat
      BY <1>4, <2>2, FeedAssumption DEF FeedType, ClaimType
    <3> QED BY <1>11, <2>1, <2>2, <3>1, FeedAssumption DEF RangeOf, Gsns
  <2>6. r <= q
    BY <1>4, <2>2, <2>3, <2>4, <2>5, ClaimsApart
  <2>7. CASE r = q
    BY <1>9, <1>11, <2>2, <2>3, <2>7 DEF StoredGsns
  <2>8. CASE r < q
    <3>1. claim[r].state = "released"
      BY <1>4, <2>2, <2>3, <2>8 DEF OneHeld, Held, Live
    <3> QED BY <1>9, <1>10, <1>11, <2>3, <3>1
  <2> QED BY <2>2, <2>6, <2>7, <2>8 DEF Refs
<1>12. NoHole(plan)'
  BY <1>1, <1>8, <1>11 DEF NoHole, Due, Live, GsnsOfSeq
<1>13. Heard(plan, mailbox)'
  <2>1. \A r \in Refs : claim[r].state = "released" => \A g \in RangeOf(claim[r]) : frontier < g => g \in GsnsOfSeq(s)
    BY <1>9, <1>10
  <2> QED BY <1>1, <1>8, <2>1 DEF Heard, GsnsOfSeq
<1>14. \A g \in Gsns : Due(g)' <=> Due(g)
  BY <1>1 DEF Due, Live
<1>15. (sent' + 1)..Len(toPush') = {}
  <2>1. toPush' = <<>> /\ sent' = 0
    BY <1>1 DEF RouterInv
  <2> QED BY <2>1
<1>16. PushInv'
  <2>1. \A h \in pushed' : \A g \in Gsns : Due(g)' /\ g < h => g \in pushed'
    BY <1>1, <1>14 DEF OrderInv, PushInv
  <2>2. \A g \in Gsns : Due(g)' /\ g <= frontier' => g \in pushed'
    BY <1>1, <1>14 DEF OrderInv, PushInv
  <2>3. \A g \in Gsns : Due(g)' /\ g <= plan'.last => g \in pushed' \/ Unsent(g)'
    BY <1>1, <1>8, <1>14 DEF OrderInv, PushInv
  <2> QED BY <1>12, <1>13, <1>15, <2>1, <2>2, <2>3 DEF PushInv
<1>17. OneHeld'
  BY <1>1 DEF OrderInv, OneHeld, Held
<1> QED BY <1>16, <1>17 DEF OrderInv

LEMMA InitOrdered ==
  ASSUME Init
  PROVE  OrderInv
<1>1. router = "init" /\ toPush = <<>> /\ sent = 0 /\ pushed = {} /\ frontier = -1
      /\ claim = [r \in Refs |-> NoClaim]
  BY DEF Init, FeedInit, Empty
<1>2. (sent + 1)..Len(toPush) = {} /\ \A g \in Gsns : ~(g <= frontier)
  BY <1>1, FeedAssumption DEF Gsns
<1>3. PushInv
  BY <1>1, <1>2 DEF PushInv
<1>4. OneHeld
  BY <1>1 DEF OneHeld, NoClaim
<1> QED BY <1>3, <1>4 DEF OrderInv

LEMMA StutterOrdered ==
  ASSUME OrderInv, UNCHANGED vars
  PROVE  OrderInv'
<1>1. UNCHANGED <<claim, router, mailbox, plan, toPush, sent, frontier, pushed, coldAt>>
  BY DEF vars, feedVars, routerVars, pushVars
<1>2. router \in {"drain", "ready", "pushing"} => NoHole(plan)' /\ Heard(plan, mailbox)'
  <2>1. router \in {"drain", "ready", "pushing"} => NoHole(plan) /\ Heard(plan, mailbox)
    BY DEF OrderInv, PushInv
  <2> QED BY <1>1, <2>1 DEF NoHole, Heard, Due, Live, GsnsOfSeq, Mailed
<1>3. \A g \in Gsns : (Unsent(g)' <=> Unsent(g)) /\ (Due(g)' <=> Due(g))
  BY <1>1 DEF Unsent, Due, Live
<1>4. PushInv'
  BY <1>1, <1>2, <1>3 DEF OrderInv, PushInv
<1>5. OneHeld'
  BY <1>1 DEF OrderInv, OneHeld, Held
<1> QED BY <1>4, <1>5 DEF OrderInv

\* At depth one OrderInv is inductive relative to SafeInv.
LEMMA OrderStep ==
  ASSUME MaxInFlight = 1, SafeInv, OrderInv, [Next]_vars
  PROVE  OrderInv'
<1>1. CASE FeedStep
  BY <1>1, FeedStepSafe, FeedStepOrdered
<1>2. CASE RouterHandle
  BY <1>2, CommittedOrdered, ResolvedOrdered, PushOrdered, PersistOrdered DEF RouterHandle
<1>3. CASE RouterStart
  BY <1>3, RestartOrdered, ColdStartOrdered, RecoverOrdered, DrainStepOrdered DEF RouterStart
<1>4. CASE RouterCrash \/ FrontierCrash
  BY <1>4, RestartOrdered
<1>5. CASE UNCHANGED vars
  BY <1>5, StutterOrdered
<1> QED BY <1>1, <1>2, <1>3, <1>4, <1>5 DEF Next

LEMMA OrderAlways ==
  ASSUME MaxInFlight = 1
  PROVE  Spec => [](SafeInv /\ OrderInv)
<1>1. Init => SafeInv /\ OrderInv
  BY InitSafe, InitOrdered
<1>2. SafeInv /\ OrderInv /\ [Next]_vars => SafeInv' /\ OrderInv'
  BY SafeStep, OrderStep
<1> QED BY <1>1, <1>2, PTL DEF Spec

\* With one commit in flight, the default of :writer_max_in_flight, "a restart cannot skip
\* an unpushed range": the persisted frontier never passes a claim that is neither given up
\* nor pushed, and what is pushed is in the log below the watermark.
THEOREM NothingSkipped ==
  ASSUME MaxInFlight = 1
  PROVE  Spec => []PushesMatchLog
<1>1. SafeInv /\ OrderInv => PushesMatchLog
  <2> SUFFICES ASSUME SafeInv, OrderInv PROVE PushesMatchLog
    OBVIOUS
  <2> USE DEF SafeInv, LogInv
  <2>1. ASSUME NEW r \in Refs, claim[r].state \in {"open", "acked", "released"}, NEW g \in RangeOf(claim[r]),
               coldAt < g, g <= frontier
        PROVE  g \in pushed
    <3>1. g \in Gsns
      <4>1. claim[r].first \in 1..(MaxGsn + 1) /\ claim[r].last \in 0..MaxGsn
        BY DEF TypeOK, ClaimType
      <4> QED BY <4>1, FeedAssumption DEF RangeOf, Gsns
    <3>2. Due(g)
      BY <2>1 DEF Due, Live
    <3> QED BY <2>1, <3>1, <3>2 DEF OrderInv, PushInv
  <2> QED BY <2>1 DEF PushesMatchLog, FrontierNeverSkips
<1> QED BY <1>1, OrderAlways, PTL

\* With one commit in flight, Actions reach the GroupServers for the first time in GSN
\* order, whatever is lost or repeated around a restart of the Writer, of the Router or of
\* the frontier's owner.
THEOREM PushedInOrder ==
  ASSUME MaxInFlight = 1
  PROVE  Spec => FirstPushesInOrder
<1> DEFINE InOrder == \A g \in (pushed' \ pushed) \ GsnsIn("dropped") :
                        coldAt < g => \A h \in pushed : h < g
<1>1. SafeInv /\ OrderInv /\ [Next]_vars => [InOrder]_vars
  <2> SUFFICES ASSUME SafeInv, OrderInv, [Next]_vars,
                      NEW g \in pushed', g \notin pushed, g \notin GsnsIn("dropped"), coldAt < g,
                      NEW h \in pushed
               PROVE  h < g
    BY DEF vars
  <2> USE DEF SafeInv, LogInv
  <2>1. Push
    BY DEF Next, FeedStep, RouterHandle, RouterStart, HandleBatchCommitted, HandleRangeResolved, Persist,
           RouterCrash, RouterRegister, RouterColdStart, RouterRecover, RouterDrain, FrontierCrash,
           vars, pushVars
  <2>2. PICK i \in DOMAIN toPush : g \in GsnsOfRange(toPush[i])
    <3>1. sent + 1 \in DOMAIN toPush
      BY <2>1, TypeParts DEF Push
    <3> QED BY <2>1, <3>1 DEF Push
  <2>3. g \in StoredGsns
    BY <2>2 DEF RouterInv, InLog
  <2>4. FeedType /\ FeedInv
    BY TypeParts
  <2>5. PICK r \in stored : r \in Refs /\ g \in RangeOf(claim[r]) /\ claim[r].state # "none"
    BY <2>3, <2>4, StoredClaimed
  <2>6. Live(r)
    BY <2>4, <2>5 DEF GsnsIn, Live, FeedType, ClaimType
  <2>7. Due(g) /\ g \in Gsns /\ h \in Gsns
    BY <2>3, <2>4, <2>5, <2>6, StoredClaimed DEF Due, TypeOK
  <2>8. ~(g < h) /\ g # h
    BY <2>7 DEF OrderInv, PushInv
  <2> QED BY <2>7, <2>8, FeedAssumption DEF Gsns
<1> QED BY <1>1, OrderAlways, PTL DEF Spec, FirstPushesInOrder
=============================================================================
