---------------------------- MODULE Timer_proofs ----------------------------
(***************************************************************************)
(* Proofs about module Timer: its types, that every timer is in one place  *)
(* (whatever handlers add or remove while the list is run), that no timer  *)
(* is late while time passes only in sleeping threads, and that a thread   *)
(* with a timer sleeps without limit only if another moved the time.       *)
(***************************************************************************)
EXTENDS Timer, SequenceTheorems, WellFoundedInduction, TLAPS

(* A set of positions that is not empty has a first one.                   *)
LEMMA FirstOf ==
  ASSUME NEW S \in SUBSET Nat, S # {}
  PROVE  \E i \in S : \A j \in S : i <= j
<1> DEFINE R == OpToRel(<, Nat)
<1>1. IsWellFoundedOn(R, Nat)
  BY NatLessThanWellFounded, Zenon
<1>2. \A i, j \in Nat : i < j => <<i, j>> \in R
  BY DEF OpToRel
<1> HIDE DEF R
<1>3. PICK i \in S : \A j \in S : ~ (<<j, i>> \in R)
  BY <1>1, WFMin
<1>4. \A j \in S : ~ (j < i)
  BY <1>2, <1>3
<1> QED
  BY <1>4

-----------------------------------------------------------------------------
(* The lists: what insertion, removal and Tail do to the elements.         *)

(* Two lists put together, by position.                                    *)
LEMMA ConcatAt ==
  ASSUME NEW s1 \in Seq(Timer), NEW s2 \in Seq(Timer)
  PROVE  /\ s1 \o s2 \in Seq(Timer) /\ Len(s1 \o s2) = Len(s1) + Len(s2)
         /\ \A i \in 1 .. Len(s1) : (s1 \o s2)[i] = s1[i]
         /\ \A i \in 1 .. Len(s2) : (s1 \o s2)[Len(s1) + i] = s2[i]
<1> DEFINE n1 == Len(s1)  n2 == Len(s2)
<1> DEFINE s == s1 \o s2
<1>1. /\ s \in Seq(Timer) /\ Len(s) = n1 + n2
      /\ \A i \in 1 .. n1 + n2 : s[i] = IF i <= n1 THEN s1[i] ELSE s2[i - n1]
  BY ConcatProperties
<1>2. n1 \in Nat /\ n2 \in Nat
  BY LenProperties
<1> HIDE DEF s, n1, n2
<1>3. \A i \in 1 .. n1 : s[i] = s1[i]
  BY <1>1, <1>2
<1>4. \A i \in 1 .. n2 : s[n1 + i] = s2[i]
  <2> TAKE i \in 1 .. n2
  <2>1. n1 + i \in 1 .. n1 + n2 /\ ~ (n1 + i <= n1) /\ (n1 + i) - n1 = i
    BY <1>2
  <2> QED
    BY <1>1, <2>1
<1> QED
  BY <1>1, <1>2, <1>3, <1>4 DEF s, n1, n2

(* A list, a timer and another list put together, by position.             *)
LEMMA AroundAt ==
  ASSUME NEW s1 \in Seq(Timer), NEW s2 \in Seq(Timer), NEW e \in Timer
  PROVE  /\ s1 \o <<e>> \o s2 \in Seq(Timer)
         /\ Len(s1 \o <<e>> \o s2) = Len(s1) + Len(s2) + 1
         /\ \A i \in 1 .. Len(s1) : (s1 \o <<e>> \o s2)[i] = s1[i]
         /\ (s1 \o <<e>> \o s2)[Len(s1) + 1] = e
         /\ \A i \in 1 .. Len(s2) : (s1 \o <<e>> \o s2)[Len(s1) + 1 + i] = s2[i]
<1> DEFINE n1 == Len(s1)  n2 == Len(s2)
<1>0. n1 \in Nat /\ n2 \in Nat
  BY LenProperties
<1> DEFINE one == <<e>>  mid == s1 \o one  new == mid \o s2
<1>1. one \in Seq(Timer) /\ Len(one) = 1 /\ one[1] = e
  OBVIOUS
<1> HIDE DEF one
<1>2. /\ mid \in Seq(Timer) /\ Len(mid) = Len(s1) + Len(one)
      /\ \A i \in 1 .. Len(s1) : mid[i] = s1[i]
      /\ \A i \in 1 .. Len(one) : mid[Len(s1) + i] = one[i]
  BY <1>1, ConcatAt
<1> HIDE DEF mid, n1, n2
<1>3. /\ \A i \in 1 .. n1 : mid[i] = s1[i]
      /\ mid[n1 + 1] = e
  BY <1>0, <1>1, <1>2 DEF n1
<1> DEFINE m == n1 + 1
<1>4. Len(mid) = m
  BY <1>1, <1>2 DEF n1
<1> HIDE DEF m
<1>5. /\ new \in Seq(Timer) /\ Len(new) = m + n2
      /\ \A i \in 1 .. m : new[i] = mid[i]
      /\ \A i \in 1 .. n2 : new[m + i] = s2[i]
  BY <1>2, <1>4, ConcatAt DEF n2
<1> HIDE DEF new
<1>6. Len(new) = n1 + n2 + 1
  BY <1>0, <1>5 DEF m
<1>7. new[n1 + 1] = e /\ \A i \in 1 .. n1 : new[i] = s1[i]
  BY <1>0, <1>3, <1>5 DEF m
<1>8. \A i \in 1 .. n2 : new[n1 + 1 + i] = s2[i]
  BY <1>5 DEF m
<1> QED
  BY <1>5, <1>6, <1>7, <1>8 DEF new, mid, one, n1, n2

(* The new timer has its place after every one that expires no later and   *)
(* before one that expires later; the others keep their order.             *)
LEMMA InsertIs ==
  ASSUME NEW list \in Seq(Timer), NEW e \in Timer
  PROVE  /\ Insert(list, e) \in Seq(Timer) /\ Len(Insert(list, e)) = Len(list) + 1
         /\ \E at \in 1 .. Len(list) + 1 :
              /\ Insert(list, e)[at] = e
              /\ \A i \in 1 .. at - 1 :
                   Insert(list, e)[i] = list[i] /\ ~ (list[i].expire > e.expire)
              /\ \A i \in at .. Len(list) : Insert(list, e)[i + 1] = list[i]
              /\ at <= Len(list) => list[at].expire > e.expire
<1> DEFINE later == {i \in DOMAIN list : list[i].expire > e.expire}
           at == IF later = {} THEN Len(list) + 1
                 ELSE CHOOSE i \in later : \A j \in later : i <= j
           front == SubSeq(list, 1, at - 1)
           back == SubSeq(list, at, Len(list))
<1>1. Len(list) \in Nat /\ DOMAIN list = 1 .. Len(list)
      /\ \A i \in 1 .. Len(list) : list[i] \in Timer
  BY LenProperties, ElementOfSeq
<1>2. later # {} => at \in later /\ \A j \in later : at <= j
  <2>1. later \in SUBSET Nat
    BY <1>1
  <2>2. later # {} => \E i \in later : \A j \in later : i <= j
    BY <2>1, FirstOf
  <2> HIDE DEF later
  <2> QED
    BY <2>2
<1>3. /\ at \in 1 .. Len(list) + 1
      /\ \A i \in 1 .. at - 1 : ~ (list[i].expire > e.expire)
      /\ at <= Len(list) => list[at].expire > e.expire
  <2>1. CASE later = {}
    BY <1>1, <2>1
  <2>2. CASE later # {}
    <3> HIDE DEF at
    <3> QED
      BY <1>1, <1>2, <2>2
  <2> QED
    BY <2>1, <2>2
<1>4. Insert(list, e) = front \o <<e>> \o back
  BY DEF Insert
<1> HIDE DEF at
<1>5. /\ front \in Seq(Timer) /\ Len(front) = at - 1
      /\ \A i \in 1 .. at - 1 : front[i] = list[i]
  <2>1. \A i \in 1 .. at - 1 : list[i] \in Timer
    BY <1>1, <1>3
  <2>2. /\ front \in Seq(Timer) /\ Len(front) = IF 1 <= at - 1 THEN at - 1 - 1 + 1 ELSE 0
        /\ \A i \in 1 .. (at - 1) - 1 + 1 : front[i] = list[1 + i - 1]
    BY <1>1, <1>3, <2>1, SubSeqProperties
  <2> HIDE DEF front
  <2> QED
    BY <1>1, <1>3, <2>2
<1>6. /\ back \in Seq(Timer) /\ Len(back) = Len(list) - at + 1
      /\ \A i \in 1 .. Len(list) - at + 1 : back[i] = list[at + i - 1]
  <2>1. \A i \in at .. Len(list) : list[i] \in Timer
    BY <1>1, <1>3
  <2>2. /\ back \in Seq(Timer)
        /\ Len(back) = IF at <= Len(list) THEN Len(list) - at + 1 ELSE 0
        /\ \A i \in 1 .. Len(list) - at + 1 : back[i] = list[at + i - 1]
    BY <1>1, <1>3, <2>1, SubSeqProperties
  <2> HIDE DEF back
  <2> QED
    BY <1>1, <1>3, <2>2
<1> HIDE DEF front, back
<1> DEFINE n == Len(list)  p == at - 1  q == n - at + 1
           new == front \o <<e>> \o back
<1>7. Len(front) = p /\ Len(back) = q /\ p + 1 = at /\ p + q + 1 = n + 1
  BY <1>1, <1>3, <1>5, <1>6
<1> HIDE DEF p, q
<1>8. /\ new \in Seq(Timer) /\ Len(new) = p + q + 1
      /\ \A i \in 1 .. p : new[i] = front[i]
      /\ new[p + 1] = e
      /\ \A i \in 1 .. q : new[p + 1 + i] = back[i]
  <2>1. /\ new \in Seq(Timer) /\ Len(new) = Len(front) + Len(back) + 1
        /\ \A i \in 1 .. Len(front) : new[i] = front[i]
        /\ new[Len(front) + 1] = e
        /\ \A i \in 1 .. Len(back) : new[Len(front) + 1 + i] = back[i]
    <3>1. front \in Seq(Timer) /\ back \in Seq(Timer)
      BY <1>5, <1>6
    <3> HIDE DEF later, n
    <3> QED
      BY <3>1, AroundAt, ZenonT(60)
  <2> HIDE DEF new
  <2> QED
    BY <1>7, <2>1
<1>9. Insert(list, e) = new
  BY <1>4
<1> HIDE DEF new
<1>10. n \in Nat /\ Len(new) = n + 1
  BY <1>1, <1>7, <1>8
<1> HIDE DEF n
<1>11. new[at] = e /\ \A i \in 1 .. at - 1 : new[i] = list[i]
  BY <1>5, <1>7, <1>8 DEF p
<1>12. \A i \in at .. n : new[i + 1] = list[i]
  <2> TAKE i \in at .. n
  <2> DEFINE k == i - at + 1
  <2>1. at \in Nat /\ k \in 1 .. n - at + 1 /\ at + k = i + 1 /\ at + k - 1 = i
    BY <1>3, <1>10
  <2> HIDE DEF k
  <2>2. new[at + k] = back[k] /\ back[k] = list[at + k - 1]
    BY <2>1, <1>6, <1>7, <1>8 DEF n, q
  <2> QED
    BY <2>1, <2>2
<1> QED
  BY <1>3, <1>8, <1>9, <1>10, <1>11, <1>12 DEF n

(* Position i is taken out; the others keep their order.                   *)
Without(list, i) == SubSeq(list, 1, i - 1) \o SubSeq(list, i + 1, Len(list))

LEMMA WithoutIs ==
  ASSUME NEW list \in Seq(Timer), NEW i \in DOMAIN list
  PROVE  /\ Without(list, i) \in Seq(Timer) /\ Len(Without(list, i)) = Len(list) - 1
         /\ \A k \in 1 .. i - 1 : Without(list, i)[k] = list[k]
         /\ \A k \in i .. Len(list) - 1 : Without(list, i)[k] = list[k + 1]
<1> DEFINE front == SubSeq(list, 1, i - 1)  back == SubSeq(list, i + 1, Len(list))
           new == front \o back
<1>1. Len(list) \in Nat /\ i \in 1 .. Len(list)
      /\ \A k \in 1 .. Len(list) : list[k] \in Timer
  BY LenProperties, ElementOfSeq
<1>2. /\ front \in Seq(Timer) /\ Len(front) = i - 1
      /\ \A k \in 1 .. i - 1 : front[k] = list[k]
  <2>1. /\ front \in Seq(Timer) /\ Len(front) = IF 1 <= i - 1 THEN i - 1 - 1 + 1 ELSE 0
        /\ \A k \in 1 .. (i - 1) - 1 + 1 : front[k] = list[1 + k - 1]
    BY <1>1, SubSeqProperties
  <2> HIDE DEF front
  <2> QED
    BY <1>1, <2>1
<1>3. /\ back \in Seq(Timer) /\ Len(back) = Len(list) - i
      /\ \A k \in 1 .. Len(list) - i : back[k] = list[i + k]
  <2>1. /\ back \in Seq(Timer)
        /\ Len(back) = IF i + 1 <= Len(list) THEN Len(list) - (i + 1) + 1 ELSE 0
        /\ \A k \in 1 .. Len(list) - (i + 1) + 1 : back[k] = list[(i + 1) + k - 1]
    BY <1>1, SubSeqProperties
  <2> HIDE DEF back
  <2> QED
    BY <1>1, <2>1
<1> HIDE DEF front, back
<1>4. /\ new \in Seq(Timer) /\ Len(new) = (i - 1) + (Len(list) - i)
      /\ \A k \in 1 .. i - 1 : new[k] = front[k]
      /\ \A k \in 1 .. Len(list) - i : new[(i - 1) + k] = back[k]
  <2>1. /\ new \in Seq(Timer) /\ Len(new) = Len(front) + Len(back)
        /\ \A k \in 1 .. Len(front) : new[k] = front[k]
        /\ \A k \in 1 .. Len(back) : new[Len(front) + k] = back[k]
    BY <1>2, <1>3, ConcatAt
  <2> HIDE DEF new
  <2> QED
    BY <1>2, <1>3, <2>1
<1>5. Without(list, i) = new
  BY DEF Without, front, back
<1> DEFINE n == Len(list)
<1>6. n \in Nat /\ Len(new) = n - 1 /\ i \in 1 .. n
  BY <1>1, <1>4
<1> HIDE DEF new, n
<1>7. \A k \in i .. n - 1 : new[k] = list[k + 1]
  <2> TAKE k \in i .. n - 1
  <2> DEFINE m == k - (i - 1)
  <2>1. m \in 1 .. n - i /\ (i - 1) + m = k /\ i + m = k + 1
    BY <1>6
  <2> HIDE DEF m
  <2>2. new[(i - 1) + m] = back[m] /\ back[m] = list[i + m]
    BY <2>1, <1>3, <1>4 DEF n
  <2> QED
    BY <2>1, <2>2
<1> QED
  BY <1>2, <1>4, <1>5, <1>6, <1>7 DEF n

(* The list is in the order of expiry; its timers have numbers of their    *)
(* own; and what one list holds comes from another.                        *)
Sorted(list) ==
  \A i, j \in DOMAIN list : i <= j => list[i].expire <= list[j].expire
Distinct(list) == \A i, j \in DOMAIN list : list[i].id = list[j].id => i = j
From(new, list) == \A i \in DOMAIN new : \E j \in DOMAIN list : new[i] = list[j]

LEMMA InsertEffect ==
  ASSUME NEW list \in Seq(Timer), NEW e \in Timer
  PROVE  LET new == Insert(list, e) IN
         /\ new \in Seq(Timer) /\ Ids(new) = Ids(list) \cup {e.id}
         /\ \A i \in DOMAIN new : new[i] = e \/ \E j \in DOMAIN list : new[i] = list[j]
         /\ Distinct(list) /\ e.id \notin Ids(list) => Distinct(new)
         /\ Sorted(list) => Sorted(new)
<1> DEFINE new == Insert(list, e)  n == Len(list)
<1>1. new \in Seq(Timer) /\ Len(new) = n + 1
  BY InsertIs
<1>2. PICK at \in 1 .. n + 1 :
        /\ new[at] = e
        /\ \A i \in 1 .. at - 1 : new[i] = list[i] /\ ~ (list[i].expire > e.expire)
        /\ \A i \in at .. n : new[i + 1] = list[i]
        /\ at <= n => list[at].expire > e.expire
  BY InsertIs
<1>3. /\ n \in Nat /\ DOMAIN list = 1 .. n
      /\ DOMAIN new = 1 .. n + 1
      /\ \A i \in 1 .. n : list[i] \in Timer
  BY <1>1, LenProperties, ElementOfSeq
<1> HIDE DEF new, n
<1>4. \A i \in 1 .. n + 1 :
        \/ i < at /\ i \in 1 .. n /\ new[i] = list[i] /\ ~ (list[i].expire > e.expire)
        \/ i = at /\ new[i] = e
        \/ i > at /\ i - 1 \in 1 .. n /\ new[i] = list[i - 1] /\ at <= i - 1
  <2> TAKE i \in 1 .. n + 1
  <2>1. CASE i < at
    BY <1>2, <1>3, <2>1
  <2>2. CASE i = at
    BY <1>2, <2>2
  <2>3. CASE i > at
    <3>1. i - 1 \in at .. n /\ (i - 1) + 1 = i /\ i - 1 \in 1 .. n
      BY <1>2, <1>3, <2>3
    <3> QED
      BY <1>2, <2>3, <3>1
  <2> QED
    BY <1>2, <1>3, <2>1, <2>2, <2>3
<1>5. \A i \in DOMAIN new : new[i] = e \/ \E j \in DOMAIN list : new[i] = list[j]
  BY <1>3, <1>4
<1>6. Ids(new) = Ids(list) \cup {e.id}
  <2>1. Ids(new) \subseteq Ids(list) \cup {e.id}
    BY <1>5 DEF Ids
  <2>2. e.id \in Ids(new)
    BY <1>2, <1>3 DEF Ids
  <2>3. \A j \in 1 .. n : \E i \in 1 .. n + 1 : new[i] = list[j]
    <3> TAKE j \in 1 .. n
    <3>1. CASE j < at
      BY <1>2, <1>3, <3>1
    <3>2. CASE ~ (j < at)
      <4>1. j \in at .. n /\ j + 1 \in 1 .. n + 1
        BY <1>2, <1>3, <3>2
      <4> QED
        BY <1>2, <4>1
    <3> QED
      BY <3>1, <3>2
  <2>4. Ids(list) \subseteq Ids(new)
    BY <1>3, <2>3 DEF Ids
  <2> QED
    BY <2>1, <2>2, <2>4
<1>7. ASSUME Distinct(list), e.id \notin Ids(list) PROVE Distinct(new)
  <2>1. \A j \in 1 .. n : list[j].id # e.id
    BY <1>3, <1>7 DEF Ids
  <2> SUFFICES ASSUME NEW i \in 1 .. n + 1, NEW j \in 1 .. n + 1,
                      new[i].id = new[j].id
               PROVE  i = j
    BY <1>3 DEF Distinct
  <2>2. \A k, m \in 1 .. n : list[k].id = list[m].id => k = m
    BY <1>3, <1>7 DEF Distinct
  <2> QED
    BY <1>2, <1>3, <1>4, <2>1, <2>2
<1>8. ASSUME Sorted(list) PROVE Sorted(new)
  <2> SUFFICES ASSUME NEW i \in 1 .. n + 1, NEW j \in 1 .. n + 1, i <= j
               PROVE  new[i].expire <= new[j].expire
    BY <1>3 DEF Sorted
  <2>1. \A k, m \in 1 .. n : k <= m => list[k].expire <= list[m].expire
    BY <1>3, <1>8 DEF Sorted
  <2>2. e.expire \in Int /\ \A k \in 1 .. n : list[k].expire \in Int
    BY <1>3 DEF Timer
  <2>3. \A k \in 1 .. n : at <= k => e.expire <= list[k].expire
    <3> TAKE k \in 1 .. n
    <3> HAVE at <= k
    <3>1. at \in 1 .. n
      BY <1>2, <1>3
    <3> QED
      BY <1>2, <2>1, <2>2, <3>1
  <2>4. CASE i < at
    BY <1>2, <1>3, <1>4, <2>1, <2>2, <2>3, <2>4
  <2>5. CASE i = at
    BY <1>2, <1>3, <1>4, <2>2, <2>3, <2>5
  <2>6. CASE i > at
    <3>1. j > at /\ i - 1 \in 1 .. n /\ j - 1 \in 1 .. n /\ i - 1 <= j - 1
      BY <1>2, <1>3, <1>4, <2>6
    <3> QED
      BY <1>2, <1>3, <1>4, <2>1, <2>6, <3>1
  <2> QED
    BY <1>2, <1>3, <2>4, <2>5, <2>6
<1> QED
  BY <1>1, <1>5, <1>6, <1>7, <1>8 DEF new

LEMMA WithoutEffect ==
  ASSUME NEW list \in Seq(Timer), NEW i \in DOMAIN list
  PROVE  LET new == Without(list, i) IN
         /\ new \in Seq(Timer) /\ From(new, list)
         /\ Distinct(list) => Distinct(new) /\ Ids(new) = Ids(list) \ {list[i].id}
         /\ Sorted(list) => Sorted(new)
<1> DEFINE new == Without(list, i)  n == Len(list)
<1>1. /\ new \in Seq(Timer) /\ Len(new) = n - 1
      /\ \A k \in 1 .. i - 1 : new[k] = list[k]
      /\ \A k \in i .. n - 1 : new[k] = list[k + 1]
  BY WithoutIs
<1>2. /\ n \in Nat /\ DOMAIN list = 1 .. n /\ DOMAIN new = 1 .. n - 1
      /\ i \in 1 .. n
      /\ \A k \in 1 .. n : list[k] \in Timer
  BY <1>1, LenProperties, ElementOfSeq
<1> HIDE DEF new, n
<1>3. \A k \in 1 .. n - 1 :
        \/ k < i /\ k \in 1 .. n /\ new[k] = list[k]
        \/ k >= i /\ k + 1 \in 1 .. n /\ new[k] = list[k + 1]
  BY <1>1, <1>2
<1>4. From(new, list)
  BY <1>2, <1>3 DEF From
<1>5. ASSUME Distinct(list) PROVE Distinct(new) /\ Ids(new) = Ids(list) \ {list[i].id}
  <2>1. \A k, m \in 1 .. n : list[k].id = list[m].id => k = m
    BY <1>2, <1>5 DEF Distinct
  <2>2. Distinct(new)
    BY <1>2, <1>3, <2>1 DEF Distinct
  <2>3. \A k \in 1 .. n - 1 : new[k].id \in Ids(list) /\ new[k].id # list[i].id
    BY <1>2, <1>3, <2>1 DEF Ids
  <2>4. \A m \in 1 .. n : m # i => \E k \in 1 .. n - 1 : new[k] = list[m]
    <3> SUFFICES ASSUME NEW m \in 1 .. n, m # i
                 PROVE  \E k \in 1 .. n - 1 : new[k] = list[m]
      OBVIOUS
    <3>1. CASE m < i
      BY <1>1, <1>2, <3>1
    <3>2. CASE m > i
      <4>1. m - 1 \in i .. n - 1 /\ m - 1 \in 1 .. n - 1 /\ (m - 1) + 1 = m
        BY <1>2, <3>2
      <4> QED
        BY <1>1, <4>1
    <3> QED
      BY <1>2, <3>1, <3>2
  <2>5. Ids(list) \ {list[i].id} \subseteq Ids(new)
    BY <1>2, <2>4 DEF Ids
  <2>6. Ids(new) \subseteq Ids(list) \ {list[i].id}
    BY <1>2, <2>3 DEF Ids
  <2> QED
    BY <2>2, <2>5, <2>6
<1>6. ASSUME Sorted(list) PROVE Sorted(new)
  <2>1. \A k, m \in 1 .. n : k <= m => list[k].expire <= list[m].expire
    BY <1>2, <1>6 DEF Sorted
  <2> SUFFICES ASSUME NEW k \in 1 .. n - 1, NEW m \in 1 .. n - 1, k <= m
               PROVE  new[k].expire <= new[m].expire
    BY <1>2 DEF Sorted
  <2> QED
    BY <1>2, <1>3, <2>1
<1> QED
  BY <1>1, <1>4, <1>5, <1>6 DEF new

(* The rest of a list is the list without its first position.              *)
LEMMA TailIs ==
  ASSUME NEW list \in Seq(Timer), list # <<>>
  PROVE  /\ Tail(list) = Without(list, 1) /\ 1 \in DOMAIN list
         /\ Head(list) = list[1] /\ list[1] \in Timer
<1>1. Tail(list) = SubSeq(list, 2, Len(list)) /\ Tail(list) \in Seq(Timer)
  BY TailIsSubSeq, HeadTailProperties
<1>2. SubSeq(list, 1, 1 - 1) = <<>>
  BY SubSeqEmpty
<1>3. <<>> \o Tail(list) = Tail(list)
  BY <1>1, ConcatEmptySeq
<1>4. Len(list) \in Nat \ {0} /\ DOMAIN list = 1 .. Len(list)
  BY EmptySeq, LenProperties
<1>5. 1 \in DOMAIN list /\ Head(list) = list[1] /\ list[1] \in Timer
  BY <1>4
<1>6. 1 + 1 = 2
  OBVIOUS
<1> QED
  BY <1>1, <1>2, <1>3, <1>5, <1>6 DEF Without

-----------------------------------------------------------------------------
(* One place per timer, when one list changes.                             *)

(* A list is exchanged for another: what all lists hold.                   *)
LEMMA ListedThen ==
  ASSUME NEW lists, NEW t \in Threads, NEW new,
         NEW then, then[t] = new, \A u \in Threads \ {t} : then[u] = lists[u],
         \A u \in Threads : u # t => Ids(lists[t]) \cap Ids(lists[u]) = {}
  PROVE  AllIds(then) = (AllIds(lists) \ Ids(lists[t])) \cup Ids(new)
<1> DEFINE before == AllIds(lists)  after == AllIds(then)
<1>1. \A x : x \in after <=> \E u \in Threads : x \in Ids(then[u])
  BY DEF AllIds
<1>2. \A x : x \in before <=> \E u \in Threads : x \in Ids(lists[u])
  BY DEF AllIds
<1> HIDE DEF before, after
<1>3. \A x : x \in after <=> (x \in before /\ x \notin Ids(lists[t])) \/ x \in Ids(new)
  <2> TAKE x
  <2>1. ASSUME x \in after
        PROVE  (x \in before /\ x \notin Ids(lists[t])) \/ x \in Ids(new)
    <3>1. PICK u \in Threads : x \in Ids(then[u])
      BY <1>1, <2>1
    <3>2. CASE u = t
      BY <3>1, <3>2
    <3>3. CASE u # t
      <4>1. x \in Ids(lists[u])
        BY <3>1, <3>3
      <4> QED
        BY <1>2, <3>3, <4>1
    <3> QED
      BY <3>2, <3>3
  <2>2. ASSUME x \in before, x \notin Ids(lists[t]) PROVE x \in after
    <3>1. PICK u \in Threads : x \in Ids(lists[u])
      BY <1>2, <2>2
    <3> QED
      BY <1>1, <2>2, <3>1
  <2>3. x \in Ids(new) => x \in after
    BY <1>1
  <2> QED
    BY <2>1, <2>2, <2>3
<1>4. after = (before \ Ids(lists[t])) \cup Ids(new)
  BY <1>3
<1> QED
  BY <1>4 DEF before, after

(* A new timer with the next number goes into a list.                      *)
LEMMA PlaceAdded ==
  ASSUME NEW lists \in [Threads -> Seq(Timer)], NEW ran, NEW gone, NEW n \in Nat,
         EachInOnePlace(lists, ran, gone, n),
         NEW t \in Threads, NEW new \in Seq(Timer), Distinct(new),
         Ids(new) = Ids(lists[t]) \cup {n + 1}
  PROVE  EachInOnePlace([lists EXCEPT ![t] = new], ran, gone, n + 1)
<1> DEFINE then == [lists EXCEPT ![t] = new]
           listed == AllIds(lists)  listed2 == AllIds(then)
           ranIds == {f.timer.id : f \in ran}
<1>1. /\ listed \cup ranIds \cup gone = 1 .. n
      /\ listed \cap ranIds = {} /\ listed \cap gone = {} /\ ranIds \cap gone = {}
      /\ \A f, g \in ran : f.timer.id = g.timer.id => f = g
      /\ \A u, v \in Threads : u # v => Ids(lists[u]) \cap Ids(lists[v]) = {}
      /\ \A u \in Threads : Distinct(lists[u])
  BY DEF EachInOnePlace, Distinct
<1>2. /\ then[t] = new /\ \A u \in Threads \ {t} : then[u] = lists[u]
      /\ listed2 = (listed \ Ids(lists[t])) \cup Ids(new)
  <2>1. \A u \in Threads : u # t => Ids(lists[t]) \cap Ids(lists[u]) = {}
    BY <1>1
  <2>2. then[t] = new /\ \A u \in Threads \ {t} : then[u] = lists[u]
    OBVIOUS
  <2> HIDE DEF then
  <2>3. AllIds(then) = (AllIds(lists) \ Ids(lists[t])) \cup Ids(new)
    BY <2>1, <2>2, ListedThen
  <2> QED
    BY <2>2, <2>3
<1>3. \A u \in Threads : Ids(lists[u]) \subseteq listed
  BY DEF AllIds
<1> HIDE DEF then, listed, listed2, ranIds
<1>4. 1 .. n + 1 = (1 .. n) \cup {n + 1} /\ n + 1 \notin 1 .. n
  OBVIOUS
<1>5. listed2 = listed \cup {n + 1}
  BY <1>2, <1>3
<1>6. n + 1 \notin listed /\ n + 1 \notin ranIds /\ n + 1 \notin gone
  BY <1>1, <1>4
<1>7. /\ listed2 \cup ranIds \cup gone = 1 .. n + 1
      /\ listed2 \cap ranIds = {} /\ listed2 \cap gone = {} /\ ranIds \cap gone = {}
  BY <1>1, <1>4, <1>5, <1>6
<1>8. \A u, v \in Threads : u # v => Ids(then[u]) \cap Ids(then[v]) = {}
  BY <1>1, <1>2, <1>3, <1>6
<1>9. \A u \in Threads : Distinct(then[u])
  BY <1>1, <1>2
<1> QED
  BY <1>1, <1>7, <1>8, <1>9 DEF EachInOnePlace, Distinct, then, listed2, ranIds

(* A timer leaves a list, for those that ran or for those that are gone.   *)
LEMMA PlaceLeft ==
  ASSUME NEW lists \in [Threads -> Seq(Timer)], NEW ran, NEW gone, NEW n \in Nat,
         EachInOnePlace(lists, ran, gone, n),
         NEW t \in Threads, NEW new \in Seq(Timer), Distinct(new),
         NEW x \in Ids(lists[t]), Ids(new) = Ids(lists[t]) \ {x}
  PROVE  /\ EachInOnePlace([lists EXCEPT ![t] = new], ran, gone \cup {x}, n)
         /\ \A f : f.timer.id = x =>
              EachInOnePlace([lists EXCEPT ![t] = new], ran \cup {f}, gone, n)
<1> DEFINE then == [lists EXCEPT ![t] = new]
           listed == AllIds(lists)  listed2 == AllIds(then)
           ranIds == {f.timer.id : f \in ran}
<1>1. /\ listed \cup ranIds \cup gone = 1 .. n
      /\ listed \cap ranIds = {} /\ listed \cap gone = {} /\ ranIds \cap gone = {}
      /\ \A f, g \in ran : f.timer.id = g.timer.id => f = g
      /\ \A u, v \in Threads : u # v => Ids(lists[u]) \cap Ids(lists[v]) = {}
      /\ \A u \in Threads : Distinct(lists[u])
  BY DEF EachInOnePlace, Distinct
<1>2. /\ then[t] = new /\ \A u \in Threads \ {t} : then[u] = lists[u]
      /\ listed2 = (listed \ Ids(lists[t])) \cup Ids(new)
  <2>1. \A u \in Threads : u # t => Ids(lists[t]) \cap Ids(lists[u]) = {}
    BY <1>1
  <2>2. then[t] = new /\ \A u \in Threads \ {t} : then[u] = lists[u]
    OBVIOUS
  <2> HIDE DEF then
  <2>3. AllIds(then) = (AllIds(lists) \ Ids(lists[t])) \cup Ids(new)
    BY <2>1, <2>2, ListedThen
  <2> QED
    BY <2>2, <2>3
<1>3. \A u \in Threads : Ids(lists[u]) \subseteq listed
  BY DEF AllIds
<1>4. \A f \in ran : f.timer.id \in ranIds
  OBVIOUS
<1>5. \A f : {g.timer.id : g \in ran \cup {f}} = ranIds \cup {f.timer.id}
  OBVIOUS
<1> HIDE DEF then, listed, listed2, ranIds
<1>6. listed2 = listed \ {x} /\ x \in listed /\ x \notin ranIds /\ x \notin gone
  BY <1>1, <1>2, <1>3
<1>7. \A u, v \in Threads : u # v => Ids(then[u]) \cap Ids(then[v]) = {}
  BY <1>1, <1>2
<1>8. \A u \in Threads : Distinct(then[u])
  BY <1>1, <1>2
<1>9. /\ listed2 \cup ranIds \cup (gone \cup {x}) = 1 .. n
      /\ listed2 \cap ranIds = {} /\ listed2 \cap (gone \cup {x}) = {}
      /\ ranIds \cap (gone \cup {x}) = {}
  BY <1>1, <1>6
<1>10. EachInOnePlace(then, ran, gone \cup {x}, n)
  BY <1>1, <1>7, <1>8, <1>9 DEF EachInOnePlace, Distinct, listed2, ranIds
<1>11. ASSUME NEW f, f.timer.id = x
       PROVE  EachInOnePlace(then, ran \cup {f}, gone, n)
  <2> DEFINE more == {g.timer.id : g \in ran \cup {f}}
  <2>1. more = ranIds \cup {x}
    BY <1>5, <1>11
  <2> HIDE DEF more
  <2>2. /\ listed2 \cup more \cup gone = 1 .. n
        /\ listed2 \cap more = {} /\ listed2 \cap gone = {} /\ more \cap gone = {}
    BY <1>1, <1>6, <2>1
  <2>3. \A g, h \in ran \cup {f} : g.timer.id = h.timer.id => g = h
    BY <1>1, <1>4, <1>6, <1>11
  <2> QED
    BY <1>7, <1>8, <2>2, <2>3 DEF EachInOnePlace, Distinct, listed2, more
<1> QED
  BY <1>10, <1>11 DEF then

-----------------------------------------------------------------------------
(* Types, and one place per timer.                                         *)

Safe == TypeOK /\ RunsOnce

LEMMA SafeInit == Init => Safe
<1> SUFFICES ASSUME Init PROVE Safe
  OBVIOUS
<1>1. TypeOK
  <2>1. tml \in [Threads -> Seq(Timer)]
    BY EmptySeq DEF Init
  <2>2. 0 \in 0 .. MaxClock /\ 0 \in 0 .. 0 /\ 0 \in 0 .. MaxTimers
    BY TimerAssumption
  <2>3. /\ tpc \in [Threads -> {"global", "update", "check", "return", "sleep"}]
        /\ quiet \in [Threads -> BOOLEAN] /\ wake \in [Threads -> Nat \cup {Forever}]
    BY DEF Init
  <2> QED
    BY <2>1, <2>2, <2>3 DEF Init, TypeOK
<1>2. \A t \in Threads : tml[t] = <<>> /\ DOMAIN tml[t] = {} /\ Ids(tml[t]) = {}
  <2>1. \A t \in Threads : tml[t] = <<>>
    BY DEF Init
  <2>2. DOMAIN <<>> = {}
    OBVIOUS
  <2> QED
    BY <2>1, <2>2 DEF Ids
<1>3. AllIds(tml) = {}
  BY <1>2 DEF AllIds
<1>4. ntimer = 0 /\ fired = {} /\ dropped = {} /\ 1 .. ntimer = {}
  BY DEF Init
<1>5. RunsOnce
  BY <1>2, <1>3, <1>4 DEF RunsOnce, EachInOnePlace
<1> QED
  BY <1>1, <1>5 DEF Safe

(* What a handler leaves: a list of timers in place of the one it got, of  *)
(* the right types, and every timer still in one place.                    *)
LEMMA HandlerSafe ==
  ASSUME TypeOK, NEW t \in Threads, NEW list \in Seq(Timer), Handler(t, list),
         NEW ran, EachInOnePlace([tml EXCEPT ![t] = list], ran, dropped, ntimer)
  PROVE  /\ tml' \in [Threads -> Seq(Timer)] /\ ntimer' \in 0 .. MaxTimers
         /\ asked' \subseteq 1 .. MaxTimers /\ dropped' \subseteq 1 .. MaxTimers
         /\ crashed' \in BOOLEAN
         /\ EachInOnePlace(tml', ran, dropped', ntimer')
<1> DEFINE lists == [tml EXCEPT ![t] = list]
<1>1. /\ lists \in [Threads -> Seq(Timer)] /\ lists[t] = list
      /\ \A new : [tml EXCEPT ![t] = new] = [lists EXCEPT ![t] = new]
  BY DEF TypeOK
<1>2. EachInOnePlace(lists, ran, dropped, ntimer) /\ Distinct(list)
  BY <1>1 DEF EachInOnePlace, Distinct
<1>3. /\ ntimer \in 0 .. MaxTimers /\ MaxTimers \in Nat /\ clock \in Nat
      /\ current_time_ms \in Nat /\ tml \in [Threads -> Seq(Timer)]
      /\ asked \subseteq 1 .. MaxTimers /\ dropped \subseteq 1 .. MaxTimers
      /\ crashed \in BOOLEAN
  BY TimerAssumption DEF TypeOK
<1>4. Ids(list) \subseteq 1 .. ntimer
  BY <1>1, <1>2, ZenonT(60) DEF EachInOnePlace, AllIds
<1> HIDE DEF lists
<1>5. CASE Add(t, list)
  <2>1. PICK delta \in Deltas :
          tml' = [tml EXCEPT ![t] = Insert(list, [expire |-> current_time_ms + delta,
                                                  id |-> ntimer + 1,
                                                  due |-> clock + delta])]
    BY <1>5 DEF Add
  <2> DEFINE e == [expire |-> current_time_ms + delta, id |-> ntimer + 1,
                   due |-> clock + delta]
             new == Insert(list, e)
  <2>2. ntimer < MaxTimers /\ ntimer' = ntimer + 1 /\ UNCHANGED <<asked, dropped, crashed>>
    BY <1>5 DEF Add
  <2>3. e \in Timer /\ e.id = ntimer + 1
    BY <1>3, <2>2, TimerAssumption DEF Timer
  <2>4. e.id \notin Ids(list)
    BY <1>3, <1>4, <2>3
  <2>5. tml' = [tml EXCEPT ![t] = new]
    BY <2>1
  <2> HIDE DEF e
  <2>6. new \in Seq(Timer) /\ Ids(new) = Ids(list) \cup {e.id} /\ Distinct(new)
    BY <1>2, <2>3, <2>4, InsertEffect
  <2> HIDE DEF new
  <2>7. EachInOnePlace([lists EXCEPT ![t] = new], ran, dropped, ntimer + 1)
    <3>1. ntimer \in Nat /\ Ids(new) = Ids(lists[t]) \cup {ntimer + 1}
      <4>1. ntimer \in Nat
        BY <1>3
      <4>2. lists[t] = list
        BY <1>1
      <4> QED
        BY <2>3, <2>6, <4>1, <4>2
    <3> QED
      BY <1>1, <1>2, <2>6, <3>1, PlaceAdded
  <2>8. tml' \in [Threads -> Seq(Timer)] /\ tml' = [lists EXCEPT ![t] = new]
    BY <1>1, <1>3, <2>5, <2>6
  <2> QED
    BY <1>3, <2>2, <2>7, <2>8
<1>6. CASE Del(t, list)
  <2>1. PICK k \in 1 .. ntimer : asked' = asked \cup {k}
    BY <1>6 DEF Del
  <2>2. asked' \subseteq 1 .. MaxTimers /\ ntimer' = ntimer
    BY <1>3, <1>6, <2>1 DEF Del
  <2>3. CASE \E i \in DOMAIN list :
               /\ tml' = [tml EXCEPT ![t] = Without(list, i)]
               /\ dropped' = dropped \cup {list[i].id} /\ UNCHANGED crashed
    <3>1. PICK i \in DOMAIN list :
            /\ tml' = [tml EXCEPT ![t] = Without(list, i)]
            /\ dropped' = dropped \cup {list[i].id} /\ UNCHANGED crashed
      BY <2>3
    <3> DEFINE new == Without(list, i)
    <3>2. /\ new \in Seq(Timer) /\ Distinct(new) /\ Ids(new) = Ids(list) \ {list[i].id}
      BY <1>2, WithoutEffect
    <3> HIDE DEF new
    <3>3. list[i].id \in Ids(list)
      BY DEF Ids
    <3>4. EachInOnePlace([lists EXCEPT ![t] = new], ran, dropped \cup {list[i].id}, ntimer)
      <4>1. ntimer \in Nat /\ list[i].id \in Ids(lists[t])
            /\ Ids(new) = Ids(lists[t]) \ {list[i].id}
        <5>1. ntimer \in Nat
          BY <1>3
        <5>2. lists[t] = list
          BY <1>1
        <5> QED
          BY <3>2, <3>3, <5>1, <5>2
      <4> QED
        BY <1>1, <1>2, <3>2, <4>1, PlaceLeft
    <3>5. tml' \in [Threads -> Seq(Timer)] /\ tml' = [lists EXCEPT ![t] = new]
      BY <1>1, <1>3, <3>1, <3>2 DEF new
    <3>6. dropped' \subseteq 1 .. MaxTimers
      BY <1>3, <1>4, <3>1, <3>3
    <3> QED
      BY <1>3, <2>2, <3>1, <3>4, <3>5, <3>6
  <2>4. CASE /\ crashed' = TRUE
             /\ tml' = [tml EXCEPT ![t] = list] /\ UNCHANGED dropped
    BY <1>1, <1>2, <1>3, <2>2, <2>4 DEF lists
  <2> QED
    BY <1>6, <2>3, <2>4 DEF Del, Without
<1>7. CASE NoCall(t, list)
  BY <1>1, <1>2, <1>3, <1>7 DEF NoCall, lists
<1> QED
  BY <1>5, <1>6, <1>7 DEF Handler

LEMMA SafeStep == Safe /\ [Next]_vars => Safe'
<1> SUFFICES ASSUME TypeOK, RunsOnce, [Next]_vars PROVE Safe'
  BY DEF Safe
<1>1. \A t \in Threads : tml[t] \in Seq(Timer) /\ [tml EXCEPT ![t] = tml[t]] = tml
  BY DEF TypeOK
<1>2. \A t \in Threads : NoCall(t, tml[t]) => Handler(t, tml[t])
  BY DEF Handler
<1>0. slow' \in BOOLEAN /\ moved' \subseteq Threads
  BY DEF TypeOK, Next, ThreadStep, vars, pace, Tick, Global, Update, Fire, NoneDue, Sleep,
     TimesOut, Local, Again
<1> USE <1>0
<1>3. ASSUME NEW t \in Threads, Global(t) PROVE Safe'
  <2>1. Handler(t, tml[t]) /\ EachInOnePlace([tml EXCEPT ![t] = tml[t]], fired, dropped, ntimer)
    BY <1>1, <1>2, <1>3 DEF Global, RunsOnce
  <2>2. /\ quiet' \in [Threads -> BOOLEAN] /\ fired' = fired
        /\ UNCHANGED <<time, wake>>
        /\ tpc' \in [Threads -> {"global", "update", "check", "return", "sleep"}]
    BY <1>3 DEF Global, TypeOK, Goto
  <2>3. /\ tml' \in [Threads -> Seq(Timer)] /\ ntimer' \in 0 .. MaxTimers
        /\ asked' \subseteq 1 .. MaxTimers /\ dropped' \subseteq 1 .. MaxTimers
        /\ crashed' \in BOOLEAN
        /\ EachInOnePlace(tml', fired, dropped', ntimer')
    BY <1>1, <2>1, HandlerSafe
  <2> QED
    BY <2>2, <2>3 DEF Safe, TypeOK, RunsOnce, time
<1>4. ASSUME NEW t \in Threads, Update(t) PROVE Safe'
  <2>1. UNCHANGED <<clock, tml, quiet, wake, ntimer, fired, asked, dropped, crashed>>
        /\ current_time_ms' = clock /\ Goto(t, "check")
    BY <1>4 DEF Update, hist
  <2> QED
    BY <2>1 DEF TypeOK, RunsOnce, Safe, Goto
<1>5. ASSUME NEW t \in Threads, Fire(t) PROVE Safe'
  <2> DEFINE list == Tail(tml[t])  first == Head(tml[t])
             ran == fired \cup {[timer |-> first, at |-> clock]}
  <2>1. tml[t] # <<>> /\ Handler(t, list) /\ fired' = ran
        /\ UNCHANGED <<time, tpc, quiet, wake>>
    BY <1>5 DEF Fire
  <2>2. /\ list = Without(tml[t], 1) /\ 1 \in DOMAIN tml[t]
        /\ first = tml[t][1] /\ first \in Timer
    BY <1>1, <2>1, TailIs
  <2>3. Distinct(tml[t])
    BY DEF RunsOnce, EachInOnePlace, Distinct
  <2>4. list \in Seq(Timer) /\ Distinct(list) /\ Ids(list) = Ids(tml[t]) \ {first.id}
    BY <1>1, <2>2, <2>3, WithoutEffect
  <2>5. first.id \in Ids(tml[t])
    BY <2>2 DEF Ids
  <2>6. ran \subseteq [timer : Timer, at : Nat]
    BY <2>2, TimerAssumption DEF TypeOK
  <2> HIDE DEF list, first
  <2>7. EachInOnePlace([tml EXCEPT ![t] = list], ran, dropped, ntimer)
    <3>1. ntimer \in Nat /\ tml \in [Threads -> Seq(Timer)]
          /\ EachInOnePlace(tml, fired, dropped, ntimer)
      BY TimerAssumption DEF TypeOK, RunsOnce
    <3>2. [timer |-> first, at |-> clock].timer.id = first.id
      OBVIOUS
    <3> DEFINE f == [timer |-> first, at |-> clock]
    <3> HIDE DEF f
    <3>3. EachInOnePlace([tml EXCEPT ![t] = list], fired \cup {f}, dropped, ntimer)
      BY <2>4, <2>5, <3>1, <3>2, PlaceLeft DEF f
    <3> QED
      BY <3>3 DEF f
  <2> HIDE DEF ran
  <2>8. /\ tml' \in [Threads -> Seq(Timer)] /\ ntimer' \in 0 .. MaxTimers
        /\ asked' \subseteq 1 .. MaxTimers /\ dropped' \subseteq 1 .. MaxTimers
        /\ crashed' \in BOOLEAN
        /\ EachInOnePlace(tml', ran, dropped', ntimer')
    BY <2>1, <2>4, <2>7, HandlerSafe
  <2> QED
    BY <2>1, <2>6, <2>8 DEF Safe, TypeOK, RunsOnce, time
<1>6. ASSUME NEW t \in Threads, NoneDue(t) \/ TimesOut(t) PROVE Safe'
  <2>1. UNCHANGED <<clock, current_time_ms, tml, quiet, ntimer, fired, asked, dropped,
                    crashed>>
        /\ wake' \in [Threads -> Nat \cup {Forever}]
        /\ \E pc \in {"return", "global"} : Goto(t, pc)
    <3>1. CASE NoneDue(t)
      BY <3>1 DEF NoneDue, time, hist, TypeOK
    <3>2. CASE TimesOut(t)
      <4>1. wake' = [wake EXCEPT ![t] = 0] /\ Goto(t, "global")
        BY <3>2 DEF TimesOut, Again
      <4>2. wake' \in [Threads -> Nat \cup {Forever}]
        BY <4>1 DEF TypeOK
      <4> QED
        BY <3>2, <4>1, <4>2 DEF TimesOut, time, hist
    <3> QED
      BY <1>6, <3>1, <3>2
  <2>2. tpc' \in [Threads -> {"global", "update", "check", "return", "sleep"}]
    BY <2>1 DEF TypeOK, Goto
  <2> QED
    BY <2>1, <2>2 DEF TypeOK, RunsOnce, Safe
<1>7. ASSUME NEW t \in Threads, Sleep(t) PROVE Safe'
  <2> DEFINE delta == IF tml[t] = <<>> THEN 0
                      ELSE Head(tml[t]).expire - current_time_ms
             timeout == IF quiet[t] /\ delta = 0 THEN Idle ELSE delta
             until == IF timeout < 0 THEN Forever ELSE clock + timeout
  <2>1. /\ wake' = [wake EXCEPT ![t] = until]
        /\ UNCHANGED <<clock, current_time_ms, tml, ntimer, fired, asked, dropped,
                       crashed>>
        /\ quiet' \in [Threads -> BOOLEAN]
        /\ Goto(t, "sleep")
    BY <1>7 DEF Sleep, time, hist, TypeOK
  <2>2. tml[t] # <<>> => Head(tml[t]).expire \in Int
    BY <1>1, TailIs DEF Timer
  <2>3. delta \in Int
    BY <2>2, TimerAssumption DEF TypeOK
  <2> HIDE DEF delta
  <2>4. timeout \in Int
    BY <2>3, TimerAssumption
  <2> HIDE DEF timeout
  <2>5. until \in Nat \cup {Forever}
    BY <2>4, TimerAssumption DEF TypeOK
  <2> HIDE DEF until
  <2> QED
    BY <2>1, <2>5 DEF TypeOK, RunsOnce, Safe, Goto
<1>8. ASSUME NEW t \in Threads, Local(t) PROVE Safe'
  <2>1. Handler(t, tml[t]) /\ EachInOnePlace([tml EXCEPT ![t] = tml[t]], fired, dropped, ntimer)
    BY <1>1, <1>8 DEF Local, RunsOnce
  <2>2. /\ fired' = fired /\ UNCHANGED <<time, quiet>>
        /\ wake' \in [Threads -> Nat \cup {Forever}]
        /\ tpc' \in [Threads -> {"global", "update", "check", "return", "sleep"}]
    BY <1>8 DEF Local, TypeOK, Again, Goto
  <2>3. /\ tml' \in [Threads -> Seq(Timer)] /\ ntimer' \in 0 .. MaxTimers
        /\ asked' \subseteq 1 .. MaxTimers /\ dropped' \subseteq 1 .. MaxTimers
        /\ crashed' \in BOOLEAN
        /\ EachInOnePlace(tml', fired, dropped', ntimer')
    BY <1>1, <2>1, HandlerSafe
  <2> QED
    BY <2>2, <2>3 DEF Safe, TypeOK, RunsOnce, time
<1>9. CASE Tick
  <2>1. /\ clock < MaxClock /\ clock' = clock + 1
        /\ UNCHANGED <<current_time_ms, tml, tpc, quiet, wake, ntimer, fired, asked,
                       dropped, crashed>>
    BY <1>9 DEF Tick, hist
  <2> QED
    BY <2>1, TimerAssumption DEF TypeOK, RunsOnce, Safe
<1>10. CASE UNCHANGED vars
  BY <1>10 DEF vars, time, hist, pace, TypeOK, RunsOnce, Safe
<1> QED
  BY <1>3, <1>4, <1>5, <1>6, <1>7, <1>8, <1>9, <1>10 DEF Next, ThreadStep

LEMMA SafeAlways == Spec => []Safe
BY SafeInit, SafeStep, PTL DEF Spec

(* The variables keep the shapes that plm_timer.c and plm_disp_proc() give *)
(* them; the time a thread reckons with is never ahead of the clock.       *)
THEOREM TypeCorrect == Spec => []TypeOK
<1>1. Safe => TypeOK
  BY DEF Safe
<1> QED
  BY <1>1, SafeAlways, PTL

(* Every timer that plm_timer_add() has added is in one list, or has run   *)
(* once, or was removed, with any number of threads, whatever the handlers *)
(* add or remove while plm_timer_run() goes through the list.              *)
THEOREM RunsOnceHolds == Spec => []RunsOnce
<1>1. Safe => RunsOnce
  BY DEF Safe
<1> QED
  BY <1>1, SafeAlways, PTL

-----------------------------------------------------------------------------
(* No timer is late while time passes only in sleeping threads.            *)

(* The timers of a list expire when they are due or earlier, and none is   *)
(* overdue.                                                                *)
OnTime(list) ==
  \A i \in DOMAIN list : list[i].expire <= list[i].due /\ clock <= list[i].due

(* Time stands still while a thread runs, so the time it took is still the *)
(* time when it looks at the list and when it reckons how long to sleep.   *)
TimeTaken ==
  \A t \in Threads : tpc[t] \in {"check", "return"} => current_time_ms = clock
(* What is left when the list has been run is not due.                     *)
RunOut ==
  \A t \in Threads : tpc[t] = "return" /\ tml[t] # <<>> =>
    Head(tml[t]).expire > current_time_ms
ListsFit == \A t \in Threads : Sorted(tml[t]) /\ OnTime(tml[t])

(* A sleeping thread wakes when its next timer expires, or earlier.        *)
WakesInTime ==
  \A t \in Threads : tpc[t] = "sleep" /\ tml[t] # <<>> =>
    wake[t] # Forever /\ wake[t] <= Head(tml[t]).expire

Punctual == TimeTaken /\ RunOut /\ ListsFit /\ WakesInTime /\ NoneLate

LEMMA PunctualInit == Init => Punctual
<1> SUFFICES ASSUME Init PROVE Punctual
  OBVIOUS
<1>1. \A t \in Threads : tml[t] = <<>> /\ tpc[t] = "global"
  BY DEF Init
<1>2. DOMAIN <<>> = {}
  OBVIOUS
<1> QED
  BY <1>1, <1>2 DEF Init, Punctual, TimeTaken, RunOut, ListsFit, WakesInTime, NoneLate,
                    Sorted, OnTime

(* A handler leaves a list in order, with no timer overdue: a timer that   *)
(* it adds expires when it is due, or earlier by as much as the time that  *)
(* plm_timer_add() reckons with is old.                                    *)
LEMMA HandlerPunctual ==
  ASSUME TypeOK, NEW t \in Threads, NEW list \in Seq(Timer), Handler(t, list),
         Sorted(list), OnTime(list)
  PROVE  \E new : tml' = [tml EXCEPT ![t] = new] /\ Sorted(new) /\ OnTime(new)
<1>1. clock \in Nat /\ current_time_ms \in Nat /\ current_time_ms <= clock
  BY TimerAssumption DEF TypeOK
<1>2. CASE Add(t, list)
  <2>1. PICK delta \in Deltas :
          tml' = [tml EXCEPT ![t] = Insert(list, [expire |-> current_time_ms + delta,
                                                  id |-> ntimer + 1,
                                                  due |-> clock + delta])]
    BY <1>2 DEF Add
  <2> DEFINE e == [expire |-> current_time_ms + delta, id |-> ntimer + 1,
                   due |-> clock + delta]
             new == Insert(list, e)
  <2>2. /\ e \in Timer
        /\ e.expire = current_time_ms + delta /\ e.due = clock + delta
    BY <1>1, <1>2, TimerAssumption DEF Timer, Add, TypeOK
  <2>3. e.expire <= e.due /\ clock <= e.due
    BY <1>1, <2>2, TimerAssumption
  <2>4. tml' = [tml EXCEPT ![t] = new]
    BY <2>1
  <2> HIDE DEF e
  <2>5. /\ \A i \in DOMAIN new : new[i] = e \/ \E j \in DOMAIN list : new[i] = list[j]
        /\ Sorted(new)
    BY <2>2, InsertEffect
  <2> HIDE DEF new
  <2>6. OnTime(new)
    BY <2>3, <2>5 DEF OnTime
  <2> QED
    BY <2>4, <2>5, <2>6
<1>3. CASE Del(t, list)
  <2>1. CASE \E i \in DOMAIN list : tml' = [tml EXCEPT ![t] = Without(list, i)]
    <3>1. PICK i \in DOMAIN list : tml' = [tml EXCEPT ![t] = Without(list, i)]
      BY <2>1
    <3> DEFINE new == Without(list, i)
    <3>2. Sorted(new) /\ From(new, list)
      BY WithoutEffect
    <3> HIDE DEF new
    <3>3. OnTime(new)
      BY <3>2 DEF OnTime, From
    <3> QED
      BY <3>1, <3>2, <3>3 DEF new
  <2>2. CASE tml' = [tml EXCEPT ![t] = list]
    BY <2>2
  <2> QED
    BY <1>3, <2>1, <2>2 DEF Del, Without
<1>4. CASE NoCall(t, list)
  BY <1>4 DEF NoCall
<1> QED
  BY <1>2, <1>3, <1>4 DEF Handler

LEMMA PunctualStep ==
  ASSUME ~slow', TypeOK, Punctual, [Next]_vars
  PROVE  Punctual'
<1>1. /\ \A t \in Threads : tml[t] \in Seq(Timer) /\ Sorted(tml[t]) /\ OnTime(tml[t])
      /\ tml \in [Threads -> Seq(Timer)] /\ clock \in Nat /\ current_time_ms \in Nat
      /\ wake \in [Threads -> Nat \cup {Forever}]
      /\ tpc \in [Threads -> {"global", "update", "check", "return", "sleep"}]
  BY TimerAssumption DEF TypeOK, Punctual, ListsFit
(* A handler is called, and the thread is where it does not matter what is *)
(* in its list.                                                            *)
<1>2. ASSUME NEW t \in Threads, NEW list \in Seq(Timer), Handler(t, list),
             Sorted(list), OnTime(list), NEW pc \in {"update", "global", "check"},
             pc = "check" => tpc[t] = "check",
             Goto(t, pc), UNCHANGED <<clock, current_time_ms>>,
             \A u \in Threads \ {t} : wake'[u] = wake[u],
             \A f \in fired' : f.at <= f.timer.due
      PROVE  Punctual'
  <2>1. PICK new : tml' = [tml EXCEPT ![t] = new] /\ Sorted(new) /\ OnTime(new)
    BY <1>2, HandlerPunctual
  <2>2. /\ tml'[t] = new /\ tpc'[t] = pc
        /\ \A u \in Threads \ {t} :
             tml'[u] = tml[u] /\ tpc'[u] = tpc[u] /\ wake'[u] = wake[u]
    BY <1>1, <1>2, <2>1 DEF Goto
  <2>3. ListsFit'
    BY <1>1, <1>2, <2>1, <2>2 DEF ListsFit, Sorted, OnTime
  <2>4. TimeTaken'
    BY <1>2, <2>2 DEF Punctual, TimeTaken
  <2>5. RunOut' /\ WakesInTime'
    BY <1>2, <2>2 DEF Punctual, RunOut, WakesInTime
  <2>6. NoneLate'
    BY <1>2, <2>3 DEF NoneLate, ListsFit, OnTime
  <2> QED
    BY <2>3, <2>4, <2>5, <2>6 DEF Punctual
<1>3. ASSUME NEW t \in Threads, Global(t) \/ Local(t) PROVE Punctual'
  <2>1. /\ Handler(t, tml[t]) /\ UNCHANGED <<clock, current_time_ms>>
        /\ \/ Goto(t, "update") /\ UNCHANGED wake
           \/ Goto(t, "global") /\ wake' = [wake EXCEPT ![t] = 0]
        /\ fired' = fired
    BY <1>3 DEF Global, Local, Again, Handler, time
  <2>3. \A u \in Threads \ {t} : wake'[u] = wake[u]
    BY <1>1, <2>1
  <2>2. \A f \in fired' : f.at <= f.timer.due
    BY <2>1 DEF Punctual, NoneLate
  <2> QED
    BY <1>1, <1>2, <2>1, <2>2, <2>3
<1>4. ASSUME NEW t \in Threads, Fire(t) PROVE Punctual'
  <2> DEFINE list == Tail(tml[t])
  <2>1. /\ tml[t] # <<>> /\ Handler(t, list) /\ tpc[t] = "check" /\ tpc' = tpc
        /\ fired' = fired \cup {[timer |-> Head(tml[t]), at |-> clock]}
        /\ UNCHANGED <<clock, current_time_ms, wake>>
    BY <1>4 DEF Fire, At, time
  <2>2. /\ list = Without(tml[t], 1) /\ 1 \in DOMAIN tml[t]
        /\ Head(tml[t]) = tml[t][1]
    BY <1>1, <2>1, TailIs
  <2>3. list \in Seq(Timer) /\ Sorted(list) /\ From(list, tml[t])
    <3> DEFINE l == tml[t]
    <3>1. l \in Seq(Timer) /\ Sorted(l) /\ 1 \in DOMAIN l /\ list = Without(l, 1)
      BY <1>1, <2>2
    <3> HIDE DEF l, list
    <3>2. /\ Without(l, 1) \in Seq(Timer) /\ Sorted(Without(l, 1))
          /\ From(Without(l, 1), l)
      BY <3>1, WithoutEffect
    <3> QED
      BY <3>1, <3>2 DEF l
  <2>4. clock <= Head(tml[t]).due
    BY <1>1, <2>2 DEF OnTime
  <2>5. \A f \in fired' : f.at <= f.timer.due
    BY <2>1, <2>4 DEF Punctual, NoneLate
  <2> HIDE DEF list
  <2>6. OnTime(list)
    BY <1>1, <2>3 DEF From, OnTime
  <2>7. Goto(t, "check")
    BY <1>1, <2>1 DEF Goto
  <2> QED
    BY <1>2, <2>1, <2>3, <2>5, <2>6, <2>7
(* The lists, the clock and what ran stay as they are.                     *)
<1>5. ASSUME UNCHANGED <<clock, tml, fired>>
      PROVE  ListsFit' /\ NoneLate'
  BY <1>5 DEF Punctual, ListsFit, NoneLate, Sorted, OnTime
<1>6. ASSUME NEW t \in Threads, Update(t) PROVE Punctual'
  <2>1. /\ UNCHANGED <<clock, tml, fired, wake>> /\ current_time_ms' = clock
        /\ tpc[t] = "update" /\ Goto(t, "check")
    BY <1>6 DEF Update, At, hist
  <2>2. tpc'[t] = "check" /\ \A u \in Threads \ {t} : tpc'[u] = tpc[u]
    BY <1>1, <2>1 DEF Goto
  <2>3. TimeTaken'
    BY <2>1 DEF TimeTaken
  <2>4. RunOut' /\ WakesInTime'
    BY <2>1, <2>2 DEF Punctual, RunOut, WakesInTime, TimeTaken
  <2> QED
    BY <1>5, <2>1, <2>3, <2>4 DEF Punctual
<1>7. ASSUME NEW t \in Threads, NoneDue(t) PROVE Punctual'
  <2>1. /\ UNCHANGED <<clock, current_time_ms, tml, fired, wake>>
        /\ tpc[t] = "check" /\ Goto(t, "return")
        /\ tml[t] # <<>> => Head(tml[t]).expire > current_time_ms
    BY <1>7 DEF NoneDue, At, hist, time
  <2>2. tpc'[t] = "return" /\ \A u \in Threads \ {t} : tpc'[u] = tpc[u]
    BY <1>1, <2>1 DEF Goto
  <2>3. TimeTaken' /\ RunOut' /\ WakesInTime'
    BY <2>1, <2>2 DEF Punctual, RunOut, WakesInTime, TimeTaken
  <2> QED
    BY <1>5, <2>1, <2>3 DEF Punctual
<1>8. ASSUME NEW t \in Threads, Sleep(t) PROVE Punctual'
  <2> DEFINE delta == IF tml[t] = <<>> THEN 0
                      ELSE Head(tml[t]).expire - current_time_ms
             timeout == IF quiet[t] /\ delta = 0 THEN Idle ELSE delta
             until == IF timeout < 0 THEN Forever ELSE clock + timeout
  <2>1. /\ wake' = [wake EXCEPT ![t] = until]
        /\ UNCHANGED <<clock, current_time_ms, tml, fired>>
        /\ tpc[t] = "return" /\ Goto(t, "sleep")
    BY <1>8 DEF Sleep, At, time, hist
  <2>2. ASSUME tml[t] # <<>> PROVE until # Forever /\ until <= Head(tml[t]).expire
    <3>1. Head(tml[t]).expire \in Int
      BY <1>1, <2>2, TailIs DEF Timer
    <3>2. Head(tml[t]).expire > current_time_ms /\ current_time_ms = clock
      BY <2>1, <2>2 DEF Punctual, RunOut, TimeTaken
    <3>3. delta = Head(tml[t]).expire - current_time_ms
      BY <2>2
    <3> HIDE DEF delta
    <3>4. delta > 0 /\ delta \in Int /\ clock + delta = Head(tml[t]).expire
      <4> DEFINE x == Head(tml[t]).expire
      <4>1. x \in Int /\ x > current_time_ms /\ current_time_ms = clock
            /\ clock \in Int /\ delta = x - current_time_ms
        BY <1>1, <3>1, <3>2, <3>3
      <4> HIDE DEF x
      <4>2. delta > 0 /\ delta \in Int /\ clock + delta = x
        BY <4>1
      <4> QED
        BY <4>2 DEF x
    <3> QED
      BY <1>1, <3>1, <3>4 DEF Forever
  <2> HIDE DEF until
  <2>3. /\ tpc'[t] = "sleep" /\ wake'[t] = until
        /\ \A u \in Threads \ {t} : tpc'[u] = tpc[u] /\ wake'[u] = wake[u]
    BY <1>1, <2>1 DEF Goto
  <2>4. TimeTaken' /\ RunOut'
    BY <2>1, <2>3 DEF Punctual, RunOut, TimeTaken
  <2>5. WakesInTime'
    BY <2>1, <2>2, <2>3 DEF Punctual, WakesInTime
  <2> QED
    BY <1>5, <2>1, <2>4, <2>5 DEF Punctual
<1>9. ASSUME NEW t \in Threads, TimesOut(t) PROVE Punctual'
  <2>1. /\ UNCHANGED <<clock, current_time_ms, tml, fired>> /\ Goto(t, "global")
        /\ wake' = [wake EXCEPT ![t] = 0]
    BY <1>9 DEF TimesOut, Again, At, hist, time
  <2>2. tpc'[t] = "global"
        /\ \A u \in Threads \ {t} : tpc'[u] = tpc[u] /\ wake'[u] = wake[u]
    BY <1>1, <2>1 DEF Goto
  <2>3. TimeTaken' /\ RunOut' /\ WakesInTime'
    BY <2>1, <2>2 DEF Punctual, RunOut, WakesInTime, TimeTaken
  <2> QED
    BY <1>5, <2>1, <2>3 DEF Punctual
(* Time passes while all sleep: the first timer of each list, and with it  *)
(* every timer, expires later.                                             *)
<1>10. CASE Tick
  <2>1. /\ clock' = clock + 1
        /\ \A t \in Threads : tpc[t] = "sleep" /\ (wake[t] = Forever \/ wake[t] > clock)
        /\ UNCHANGED <<current_time_ms, tml, tpc, wake, fired>>
    BY <1>10 DEF Tick, Asleep, hist
  <2>2. TimeTaken' /\ RunOut' /\ WakesInTime'
    BY <2>1 DEF Punctual, RunOut, WakesInTime, TimeTaken
  <2>3. ASSUME NEW t \in Threads, NEW i \in DOMAIN tml[t]
        PROVE  clock' <= tml[t][i].due
    <3>1. DOMAIN tml[t] = 1 .. Len(tml[t]) /\ Len(tml[t]) \in Nat
          /\ tml[t][i] \in Timer
      BY <1>1, <2>3, LenProperties, ElementOfSeq
    <3>2. tml[t] # <<>> /\ i \in Nat /\ 1 <= i
      BY <3>1, EmptySeq
    <3>3. 1 \in DOMAIN tml[t] /\ Head(tml[t]) = tml[t][1] /\ tml[t][1] \in Timer
      BY <1>1, <3>2, TailIs
    <3>4. tml[t][1].expire <= tml[t][i].expire /\ tml[t][i].expire <= tml[t][i].due
      BY <1>1, <2>3, <3>2, <3>3 DEF Sorted, OnTime
    <3>5. wake[t] # Forever /\ wake[t] <= tml[t][1].expire
      BY <2>1, <3>2, <3>3 DEF Punctual, WakesInTime
    <3>6. wake[t] \in Nat /\ wake[t] > clock
      BY <1>1, <2>1, <3>5
    <3>7. tml[t][1].expire \in Int /\ tml[t][i].expire \in Int /\ tml[t][i].due \in Int
      BY <3>1, <3>3 DEF Timer
    <3> QED
      BY <1>1, <2>1, <3>4, <3>5, <3>6, <3>7
  <2>4. ListsFit'
    BY <1>1, <2>1, <2>3 DEF ListsFit, Sorted, OnTime
  <2>5. NoneLate'
    BY <2>1, <2>3 DEF Punctual, NoneLate
  <2> QED
    BY <2>2, <2>4, <2>5 DEF Punctual
<1>11. CASE UNCHANGED vars
  <2>1. UNCHANGED <<clock, current_time_ms, tml, tpc, wake, fired>>
    BY <1>11 DEF vars, time, hist
  <2> QED
    BY <1>5, <2>1 DEF Punctual, TimeTaken, RunOut, WakesInTime
<1> QED
  BY <1>3, <1>4, <1>6, <1>7, <1>8, <1>9, <1>10, <1>11 DEF Next, ThreadStep

(* While time passes only in sleeping threads, no timer of any number of   *)
(* threads is late: plm_timer_run() runs each when it is due or earlier,   *)
(* although plm_timer_add() reckons with a time that other threads write   *)
(* without a lock and that may be that of an earlier turn.                 *)
THEOREM NeverLateHolds == Spec => []NeverLate
<1>1. Init => Punctual
  BY PunctualInit
<1>2. TypeOK /\ (~slow => Punctual) /\ [Next]_vars => (~slow' => Punctual')
  <2> SUFFICES ASSUME TypeOK, ~slow => Punctual, [Next]_vars, ~slow' PROVE Punctual'
    OBVIOUS
  <2>1. ~slow
    BY DEF Next, ThreadStep, vars, pace, Tick, Global, Update, Fire, NoneDue, Sleep, TimesOut,
       Local
  <2> QED
    BY <2>1, PunctualStep
<1>3. (~slow => Punctual) => NeverLate
  BY DEF Punctual, NeverLate
<1> QED
  BY <1>1, <1>2, <1>3, TypeCorrect, PTL DEF Spec

(* What is left when the list has been run is not due by the time that the *)
(* thread has seen, and that is the time it reckons with unless another    *)
(* thread has moved it.                                                    *)
RunOutUnlessMoved ==
  \A t \in Threads : tpc[t] = "return" /\ tml[t] # <<>> /\ t \notin moved =>
    Head(tml[t]).expire > current_time_ms

LEMMA EndlessStep ==
  ASSUME TypeOK, RunOutUnlessMoved, EndlessOnlyIfMoved, [Next]_vars
  PROVE  RunOutUnlessMoved' /\ EndlessOnlyIfMoved'
<1> USE DEF RunOutUnlessMoved, EndlessOnlyIfMoved, Endless
<1>0. /\ tpc \in [Threads -> {"global", "update", "check", "return", "sleep"}]
      /\ tml \in [Threads -> Seq(Timer)] /\ wake \in [Threads -> Nat \cup {Forever}]
      /\ clock \in Nat /\ current_time_ms \in Nat
  BY TimerAssumption DEF TypeOK
(* A thread that is neither returning nor asleep, and will not be.         *)
<1>1. ASSUME NEW t \in Threads, NEW pc \in {"global", "update", "check"},
             tpc' = [tpc EXCEPT ![t] = pc], UNCHANGED <<current_time_ms>>,
             \A u \in Threads \ {t} : tml'[u] = tml[u] /\ wake'[u] = wake[u],
             \A u \in Threads \ {t} : u \in moved => u \in moved'
      PROVE  RunOutUnlessMoved' /\ EndlessOnlyIfMoved'
  <2>1. tpc'[t] = pc /\ \A u \in Threads \ {t} : tpc'[u] = tpc[u]
    BY <1>0, <1>1
  <2> QED
    BY <1>1, <2>1
<1>2. ASSUME NEW t \in Threads, NEW list, Handler(t, list)
      PROVE  \A u \in Threads \ {t} : tml'[u] = tml[u]
  BY <1>0, <1>2 DEF Handler, Add, Del, NoCall
<1>3. ASSUME NEW t \in Threads, Global(t) \/ Local(t) \/ Fire(t) \/ TimesOut(t)
      PROVE  RunOutUnlessMoved' /\ EndlessOnlyIfMoved'
  <2>1. \E pc \in {"global", "update", "check"} : tpc' = [tpc EXCEPT ![t] = pc]
    BY <1>0, <1>3 DEF Global, Local, Fire, TimesOut, Again, Goto, At
  <2>2. \A u \in Threads \ {t} : tml'[u] = tml[u]
    <3>1. NoCall(t, tml[t]) => Handler(t, tml[t])
      BY DEF Handler
    <3> QED
      BY <1>2, <1>3, <3>1 DEF Global, Local, Fire, TimesOut
  <2>3. UNCHANGED current_time_ms /\ \A u \in Threads \ {t} : wake'[u] = wake[u]
    BY <1>0, <1>3 DEF Global, Local, Fire, TimesOut, Again, time
  <2>4. \A u \in Threads \ {t} : u \in moved => u \in moved'
    BY <1>3 DEF Global, Local, Fire, TimesOut, Again, pace
  <2> QED
    BY <1>1, <2>1, <2>2, <2>3, <2>4
<1>4. ASSUME NEW t \in Threads, Update(t) PROVE RunOutUnlessMoved' /\ EndlessOnlyIfMoved'
  <2>1. /\ UNCHANGED <<tml, wake>> /\ tpc' = [tpc EXCEPT ![t] = "check"]
        /\ moved' = moved \cup {u \in Threads : tpc[u] = "return" /\ current_time_ms # clock}
        /\ current_time_ms' = clock
    BY <1>4 DEF Update, Goto
  <2>2. tpc'[t] = "check" /\ \A u \in Threads \ {t} : tpc'[u] = tpc[u]
    BY <1>0, <2>1
  <2>3. ASSUME NEW u \in Threads, tpc'[u] = "return", u \notin moved'
        PROVE  u \notin moved /\ tpc[u] = "return" /\ current_time_ms' = current_time_ms
    BY <2>1, <2>2, <2>3
  <2> QED
    BY <2>1, <2>2, <2>3
<1>5. ASSUME NEW t \in Threads, NoneDue(t) PROVE RunOutUnlessMoved' /\ EndlessOnlyIfMoved'
  <2>1. /\ UNCHANGED <<current_time_ms, tml, wake, moved>>
        /\ tpc' = [tpc EXCEPT ![t] = "return"]
        /\ tml[t] # <<>> => Head(tml[t]).expire > current_time_ms
    BY <1>5 DEF NoneDue, Goto, time, pace
  <2>2. tpc'[t] = "return" /\ \A u \in Threads \ {t} : tpc'[u] = tpc[u]
    BY <1>0, <2>1
  <2> QED
    BY <2>1, <2>2
<1>6. ASSUME NEW t \in Threads, Sleep(t) PROVE RunOutUnlessMoved' /\ EndlessOnlyIfMoved'
  <2> DEFINE delta == IF tml[t] = <<>> THEN 0
                      ELSE Head(tml[t]).expire - current_time_ms
             timeout == IF quiet[t] /\ delta = 0 THEN Idle ELSE delta
             until == IF timeout < 0 THEN Forever ELSE clock + timeout
  <2>1. /\ wake' = [wake EXCEPT ![t] = until]
        /\ UNCHANGED <<clock, current_time_ms, tml, moved>>
        /\ tpc[t] = "return" /\ tpc' = [tpc EXCEPT ![t] = "sleep"]
    BY <1>6 DEF Sleep, Goto, At, time, pace
  <2>2. ASSUME tml[t] # <<>>, t \notin moved PROVE until # Forever
    <3>1. Head(tml[t]).expire \in Int
      BY <1>0, <2>2, TailIs DEF Timer
    <3>2. Head(tml[t]).expire > current_time_ms
      BY <2>1, <2>2
    <3>3. delta = Head(tml[t]).expire - current_time_ms
      BY <2>2
    <3> HIDE DEF delta
    <3>4. delta \in Int /\ delta > 0
      BY <1>0, <3>1, <3>2, <3>3
    <3> QED
      BY <1>0, <3>4 DEF Forever
  <2> HIDE DEF until
  <2>3. /\ tpc'[t] = "sleep" /\ wake'[t] = until
        /\ \A u \in Threads \ {t} : tpc'[u] = tpc[u] /\ wake'[u] = wake[u]
    BY <1>0, <2>1
  <2> QED
    BY <2>1, <2>2, <2>3
<1>7. CASE Tick \/ UNCHANGED vars
  BY <1>7 DEF Tick, vars, time, pace
<1> QED
  BY <1>3, <1>4, <1>5, <1>6, <1>7 DEF Next, ThreadStep

(* For any number of threads and timers, and handlers that take any time:  *)
(* plm_disp_proc() gives epoll_wait() a negative timeout, although the     *)
(* thread has a timer, only if another thread has moved current_time_ms    *)
(* between plm_timer.c:178 and 193.                                        *)
THEOREM EndlessOnlyIfMovedHolds == Spec => []EndlessOnlyIfMoved
<1>1. Init => RunOutUnlessMoved /\ EndlessOnlyIfMoved
  BY DEF Init, RunOutUnlessMoved, EndlessOnlyIfMoved, Endless
<1>2. TypeOK /\ RunOutUnlessMoved /\ EndlessOnlyIfMoved /\ [Next]_vars
        => RunOutUnlessMoved' /\ EndlessOnlyIfMoved'
  BY EndlessStep
<1> QED
  BY <1>1, <1>2, TypeCorrect, PTL DEF Spec

=============================================================================
