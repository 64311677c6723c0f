------------------------ MODULE HttpRequest_proofs ------------------------
(***************************************************************************)
(* What module HttpRequest and the modules it is made of (HttpParser,      *)
(* Mempool, HttpUrl) promise, for every value of their constants: any      *)
(* number of fields, any URLs and fields, any sizes of words, heads,       *)
(* objects and blocks.                                                     *)
(***************************************************************************)
EXTENDS HttpRequest, SequenceTheorems, FiniteSetTheorems, WellFoundedInduction, TLAPS

-----------------------------------------------------------------------------
(* The memory pool.                                                        *)

Objects == [blk : Nat, at : Nat, size : Nat]
Pools ==
  [m_init_blksz : Nat \ {0}, m_blk_list : Seq(Nat), m_curr : Nat, m_curr_free : Nat,
   objs : SUBSET Objects]

(* Where an object may lie: in a block, behind its head; in the newest     *)
(* block before m_curr.                                                    *)
Placed(o, list, curr) ==
  /\ o.blk \in 1 .. Len(list) /\ o.at >= NodeSize /\ o.at + o.size <= list[o.blk]
  /\ o.blk = Len(list) => o.at + o.size <= curr

Apart(o, u) == o.blk = u.blk => o.at + o.size <= u.at \/ u.at + u.size <= o.at

(* The inductive form of PoolSound.                                        *)
PoolInv(p) ==
  /\ p \in Pools
  /\ p.m_blk_list # <<>> =>
       /\ p.m_curr >= NodeSize
       /\ p.m_curr + p.m_curr_free = p.m_blk_list[Len(p.m_blk_list)]
  /\ \A o \in p.objs : Placed(o, p.m_blk_list, p.m_curr)
  /\ \A o, u \in p.objs : o # u => Apart(o, u)

LEMMA RoundUpFits ==
  ASSUME NEW n \in Nat
  PROVE  RoundUp(n) \in Nat /\ RoundUp(n) >= n
<1>1. n % Word \in 0 .. Word - 1 /\ Word \in Nat
  BY MempoolAssumption
<1> DEFINE r == n % Word
<1> HIDE DEF r
<1>2. r \in 0 .. Word - 1
  BY <1>1 DEF r
<1> QED
  BY <1>1, <1>2 DEF RoundUp, r

(* How many times b must be taken to hold n.                               *)
LEMMA LeastMultiple ==
  ASSUME NEW n \in Nat, NEW b \in Nat \ {0}
  PROVE  \E k \in 1 .. n + 1 :
           k * b >= n /\ \A j \in 1 .. k - 1 : j * b < n
<1>1. CASE n = 0
  <2>1. 1 \in 1 .. n + 1 /\ 1 * b >= n /\ \A j \in 1 .. 1 - 1 : j * b < n
    BY <1>1
  <2> QED
    BY <2>1
<1>2. CASE n # 0
  <2> DEFINE q == (n - 1) \div b
  <2>1. q \in Nat /\ q * b <= n - 1 /\ n - 1 < q * b + b
    BY <1>2
  <2> HIDE DEF q
  <2>2. (q + 1) * b = q * b + b
    BY <2>1
  <2>3. \A j \in 1 .. q : j * b <= q * b
    BY <2>1
  <2>4. q <= q * b /\ q * b \in Nat
    BY <2>1
  <2>5. q + 1 \in 1 .. n + 1 /\ (q + 1) * b >= n /\ \A j \in 1 .. (q + 1) - 1 : j * b < n
    BY <2>1, <2>2, <2>3, <2>4
  <2> QED
    BY <2>5
<1> QED
  BY <1>1, <1>2

LEMMA FirstSizeFits ==
  ASSUME NEW p \in Pools, NEW n \in Nat
  PROVE  FirstSize(p, n) \in Nat /\ FirstSize(p, n) >= NodeSize
<1> DEFINE blksz == p.m_init_blksz + NodeSize
           want == IF blksz >= n THEN blksz ELSE n
<1>1. want \in Nat /\ want >= NodeSize
  BY MempoolAssumption DEF Pools
<1> HIDE DEF want
<1>2. RoundUp(want) \in Nat /\ RoundUp(want) >= want
  BY <1>1, RoundUpFits
<1>3. FirstSize(p, n) = RoundUp(want)
  BY DEF FirstSize, want
<1> QED
  BY <1>1, <1>2, <1>3, MempoolAssumption

(* A later block holds its head and what it was fetched for.               *)
LEMMA NextSizeFits ==
  ASSUME NEW p \in Pools, NEW n \in Nat
  PROVE  NextSize(p, n) \in Nat /\ NextSize(p, n) >= NodeSize + n
<1> DEFINE b == p.m_init_blksz
           k == CHOOSE k \in 1 .. n + 1 :
                  k * b >= n /\ \A j \in 1 .. k - 1 : j * b < n
<1>1. b \in Nat \ {0}
  BY DEF Pools
<1>2. k \in 1 .. n + 1 /\ k * b >= n
  BY <1>1, LeastMultiple
<1>3. NextSize(p, n) = RoundUp(k * b + NodeSize)
  BY DEF NextSize
<1> HIDE DEF k, b
<1>4. k * b \in Nat
  BY <1>1, <1>2
<1>5. k * b + NodeSize \in Nat /\ k * b + NodeSize >= NodeSize + n
  BY <1>2, <1>4, MempoolAssumption
<1>6. RoundUp(k * b + NodeSize) \in Nat /\ RoundUp(k * b + NodeSize) >= k * b + NodeSize
  BY <1>5, RoundUpFits
<1> HIDE DEF RoundUp
<1> QED
  BY <1>3, <1>5, <1>6, MempoolAssumption

LEMMA NewPoolInv ==
  ASSUME NEW blk_sz \in Nat \ {0}
  PROVE  PoolInv(NewPool(blk_sz))
BY DEF PoolInv, NewPool, Pools

LEMMA AddBlockInv ==
  ASSUME NEW p, PoolInv(p), NEW size \in Nat, size >= NodeSize
  PROVE  /\ PoolInv(AddBlock(p, size)) /\ AddBlock(p, size).m_blk_list # <<>>
         /\ AddBlock(p, size).m_curr_free = size - NodeSize
<1> DEFINE q == AddBlock(p, size)  list == p.m_blk_list
<1>1. list \in Seq(Nat) /\ NodeSize \in Nat /\ p.objs \subseteq Objects
  BY MempoolAssumption DEF PoolInv, Pools
<1>2. /\ q.m_blk_list = Append(list, size) /\ q.m_curr = NodeSize
      /\ q.m_curr_free = size - NodeSize /\ q.objs = p.objs
      /\ q.m_init_blksz = p.m_init_blksz /\ q \in Pools
  <2>1. q = [m_init_blksz |-> p.m_init_blksz, m_blk_list |-> Append(list, size),
             m_curr |-> NodeSize, m_curr_free |-> size - NodeSize, objs |-> p.objs]
    <3>1. p \in Pools
      BY DEF PoolInv
    <3>2. q = [[[p EXCEPT !.m_blk_list = Append(list, size)] EXCEPT !.m_curr = NodeSize]
                 EXCEPT !.m_curr_free = size - NodeSize]
      BY DEF AddBlock
    <3> HIDE DEF q, list
    <3> QED
      BY <3>1, <3>2 DEF Pools
  <2>2. /\ Append(list, size) \in Seq(Nat) /\ size - NodeSize \in Nat
        /\ p.m_init_blksz \in Nat \ {0}
    BY <1>1 DEF PoolInv, Pools
  <2> HIDE DEF q
  <2> QED
    BY <1>1, <2>1, <2>2 DEF Pools
<1> HIDE DEF q
<1>3. /\ Len(q.m_blk_list) = Len(list) + 1 /\ q.m_blk_list[Len(list) + 1] = size
      /\ \A i \in 1 .. Len(list) : q.m_blk_list[i] = list[i]
      /\ q.m_blk_list # <<>> /\ Len(list) \in Nat
  BY <1>1, <1>2, SMTT(30)
<1>4. ASSUME NEW o \in q.objs PROVE Placed(o, q.m_blk_list, q.m_curr)
  <2>1. Placed(o, list, p.m_curr) /\ o \in Objects
    BY <1>1, <1>2 DEF PoolInv
  <2> QED
    BY <1>3, <2>1 DEF Placed, Objects
<1>5. \A o, u \in q.objs : o # u => Apart(o, u)
  BY <1>2 DEF PoolInv
<1>6. q.m_curr + q.m_curr_free = q.m_blk_list[Len(q.m_blk_list)]
  BY <1>1, <1>2, <1>3
<1> QED
  BY <1>1, <1>2, <1>3, <1>4, <1>5, <1>6 DEF PoolInv, q

LEMMA CutInv ==
  ASSUME NEW p, PoolInv(p), NEW n \in Nat, p.m_blk_list # <<>>, n <= p.m_curr_free
  PROVE  PoolInv(Cut(p, n))
<1> DEFINE q == Cut(p, n)  list == p.m_blk_list
           obj == [blk |-> Len(list), at |-> p.m_curr, size |-> n]
<1>1. /\ list \in Seq(Nat) /\ NodeSize \in Nat /\ p.objs \subseteq Objects
      /\ p.m_curr \in Nat /\ p.m_curr_free \in Nat /\ Len(list) \in 1 .. Len(list)
  BY MempoolAssumption DEF PoolInv, Pools
<1>2. obj \in Objects /\ obj.blk = Len(list) /\ obj.at = p.m_curr /\ obj.size = n
  BY <1>1 DEF Objects
<1>3. /\ q.m_blk_list = list /\ q.m_curr = p.m_curr + n
      /\ q.m_curr_free = p.m_curr_free - n /\ q.objs = p.objs \cup {obj}
      /\ q \in Pools
  <2>1. q = [m_init_blksz |-> p.m_init_blksz, m_blk_list |-> list, m_curr |-> p.m_curr + n,
             m_curr_free |-> p.m_curr_free - n, objs |-> p.objs \cup {obj}]
    <3>1. p \in Pools
      BY DEF PoolInv
    <3>2. q = [[[p EXCEPT !.m_curr = p.m_curr + n] EXCEPT !.m_curr_free = p.m_curr_free - n]
                 EXCEPT !.objs = p.objs \cup {obj}]
      BY DEF Cut
    <3> HIDE DEF q, obj
    <3> QED
      BY <3>1, <3>2 DEF Pools
  <2>2. /\ p.m_curr + n \in Nat /\ p.m_curr_free - n \in Nat
        /\ p.m_init_blksz \in Nat \ {0} /\ p.objs \cup {obj} \subseteq Objects
    BY <1>1, <1>2 DEF PoolInv, Pools
  <2> HIDE DEF q, obj
  <2> QED
    BY <1>1, <2>1, <2>2 DEF Pools
<1> HIDE DEF q, obj
<1>4. /\ p.m_curr >= NodeSize /\ p.m_curr + p.m_curr_free = list[Len(list)]
  BY DEF PoolInv
<1>5. ASSUME NEW o \in p.objs
      PROVE  Placed(o, list, p.m_curr) /\ o \in Objects /\ o.at + o.size \in Nat
  BY <1>1 DEF PoolInv, Objects
<1>6. ASSUME NEW o \in p.objs PROVE Placed(o, list, q.m_curr)
  BY <1>1, <1>3, <1>5 DEF Placed
<1>7. Placed(obj, list, q.m_curr)
  BY <1>1, <1>2, <1>3, <1>4 DEF Placed
<1>8. ASSUME NEW o \in p.objs PROVE Apart(o, obj) /\ Apart(obj, o)
  BY <1>2, <1>5 DEF Placed, Apart
<1>9. \A o, u \in q.objs : o # u => Apart(o, u)
  BY <1>3, <1>8 DEF PoolInv
<1>10. q.m_curr >= NodeSize /\ q.m_curr + q.m_curr_free = list[Len(list)]
  BY <1>1, <1>3, <1>4
<1> QED
  BY <1>3, <1>6, <1>7, <1>9, <1>10 DEF PoolInv, q

(* plm_mempool_alloc() keeps the pool sound, whichever malloc() fails.     *)
LEMMA OutcomesInv ==
  ASSUME NEW p, PoolInv(p), NEW n \in Nat, NEW o \in Outcomes(p, n)
  PROVE  PoolInv(o.pool) /\ o.ok \in BOOLEAN
<1> DEFINE fresh == p.m_blk_list = <<>>
           first == IF fresh THEN AddBlock(p, FirstSize(p, n)) ELSE p
           fits  == n <= first.m_curr_free
           later == IF fits THEN first ELSE AddBlock(first, NextSize(first, n))
<1>1. PoolInv(first) /\ first.m_blk_list # <<>>
  <2>1. p \in Pools
    BY DEF PoolInv
  <2> QED
    BY <2>1, FirstSizeFits, AddBlockInv
<1>2. o \in {[pool |-> Cut(later, n), ok |-> TRUE], [pool |-> p, ok |-> FALSE],
             [pool |-> first, ok |-> FALSE]}
  BY DEF Outcomes
<1> HIDE DEF first
<1>3. PoolInv(later) /\ later.m_blk_list # <<>> /\ n <= later.m_curr_free
  <2>1. CASE fits
    BY <1>1, <2>1
  <2>2. CASE ~fits
    <3> DEFINE size == NextSize(first, n)
    <3>1. first \in Pools
      BY <1>1 DEF PoolInv
    <3>2. size \in Nat /\ size >= NodeSize + n
      BY <3>1, NextSizeFits
    <3> HIDE DEF size
    <3>3. size >= NodeSize /\ n <= size - NodeSize
      BY <3>2, MempoolAssumption
    <3>4. later = AddBlock(first, size)
      BY <2>2 DEF size
    <3> QED
      BY <1>1, <3>2, <3>3, <3>4, AddBlockInv
  <2> QED
    BY <2>1, <2>2
<1> HIDE DEF later
<1>4. PoolInv(Cut(later, n))
  BY <1>3, CutInv
<1>5. o.pool \in {Cut(later, n), p, first}
  BY <1>2
<1>6. o.ok \in BOOLEAN
  <2>1. ASSUME NEW q, NEW b \in BOOLEAN, o = [pool |-> q, ok |-> b] PROVE o.ok \in BOOLEAN
    <3>1. [pool |-> q, ok |-> b].ok = b
      OBVIOUS
    <3> QED
      BY <2>1, <3>1
  <2> QED
    BY <1>2, <2>1
<1> QED
  BY <1>1, <1>4, <1>5, <1>6

(* Several allocations in a row.                                           *)
RunsInv(runs) == \A r \in runs : PoolInv(r.pool) /\ r.got \in Seq(BOOLEAN)

LEMMA NoneYetInv ==
  ASSUME NEW p, PoolInv(p)
  PROVE  RunsInv(NoneYet(p))
<1>1. ASSUME NEW r \in NoneYet(p) PROVE r.pool = p /\ r.got = <<>>
  BY DEF NoneYet
<1>2. <<>> \in Seq(BOOLEAN)
  BY EmptySeq
<1> QED
  BY <1>1, <1>2 DEF RunsInv

LEMMA ThenInv ==
  ASSUME NEW runs, RunsInv(runs), NEW n \in Nat
  PROVE  /\ RunsInv(Then(runs, n))
         /\ \A s \in Then(runs, n) :
              \E r \in runs, ok \in BOOLEAN :
                /\ r.got \in Seq(BOOLEAN) /\ s.got = Append(r.got, ok)
<1> SUFFICES ASSUME NEW s \in Then(runs, n)
             PROVE  /\ PoolInv(s.pool) /\ s.got \in Seq(BOOLEAN)
                    /\ \E r \in runs, ok \in BOOLEAN :
                         r.got \in Seq(BOOLEAN) /\ s.got = Append(r.got, ok)
  BY DEF RunsInv
<1>1. PICK r \in runs : s \in {[pool |-> o.pool, got |-> Append(r.got, o.ok)] :
                                 o \in Outcomes(r.pool, n)}
  BY DEF Then
<1>2. PICK o \in Outcomes(r.pool, n) : s = [pool |-> o.pool, got |-> Append(r.got, o.ok)]
  BY <1>1
<1>3. PoolInv(r.pool) /\ r.got \in Seq(BOOLEAN)
  BY DEF RunsInv
<1>4. PoolInv(o.pool) /\ o.ok \in BOOLEAN
  BY <1>3, OutcomesInv
<1>5. s.pool = o.pool /\ s.got = Append(r.got, o.ok)
  BY <1>2
<1> QED
  BY <1>3, <1>4, <1>5, AppendProperties

LEMMA ThenIfGotInv ==
  ASSUME NEW runs, RunsInv(runs), NEW n \in Nat
  PROVE  RunsInv(ThenIfGot(runs, n))
<1>1. RunsInv({r \in runs : AllGot(r)})
  BY DEF RunsInv
<1>2. RunsInv(Then({r \in runs : AllGot(r)}, n))
  BY <1>1, ThenInv
<1> QED
  BY <1>2 DEF RunsInv, ThenIfGot

LEMMA PoolInvSound ==
  ASSUME NEW p, PoolInv(p)
  PROVE  Sound(p) /\ FreeIsBehind(p)
BY DEF PoolInv, Placed, Apart, Sound, FreeIsBehind

-----------------------------------------------------------------------------
(* Searching and cutting strings.                                          *)

(* A set of positions that is not empty has a first one.                   *)
LEMMA FirstOf ==
  ASSUME NEW S \in SUBSET Nat, S # {}
  PROVE  \E i \in S : \A j \in S : i <= j
<1> DEFINE R == OpToRel(<, Nat)
<1>1. IsWellFoundedOn(R, Nat)
  BY NatLessThanWellFounded, Zenon
<1>2. \A i, j \in Nat : i < j => <<i, j>> \in R
  BY DEF OpToRel
<1> HIDE DEF R
<1>3. PICK i \in S : \A j \in S : ~ (<<j, i>> \in R)
  BY <1>1, WFMin
<1>4. \A j \in S : ~ (j < i)
  BY <1>2, <1>3
<1> QED
  BY <1>4

(* Find() is 0 when the byte is not there, and its first position if it is.*)
LEMMA FindIs ==
  ASSUME NEW T, NEW url \in Seq(T), NEW i \in Nat \ {0}, NEW byte
  PROVE  \/ /\ Find(url, i, byte) = 0
            /\ \A j \in i .. Len(url) : url[j] # byte
         \/ /\ Find(url, i, byte) \in i .. Len(url)
            /\ url[Find(url, i, byte)] = byte
            /\ \A j \in i .. Len(url) : url[j] = byte => Find(url, i, byte) <= j
<1> DEFINE at == {j \in i .. Len(url) : url[j] = byte}
<1>1. CASE at = {}
  BY <1>1 DEF Find
<1>2. CASE at # {}
  <2>1. at \in SUBSET Nat
    OBVIOUS
  <2>2. \E j \in at : \A k \in at : j <= k
    BY <1>2, <2>1, FirstOf
  <2>3. Find(url, i, byte) \in at /\ \A k \in at : Find(url, i, byte) <= k
    BY <1>2, <2>2 DEF Find
  <2> QED
    BY <2>3
<1> QED
  BY <1>1, <1>2

LEMMA FindInText ==
  ASSUME NEW url \in Seq(STRING)
  PROVE  Find(url, 1, ":") = 0 \/ Find(url, 1, ":") \in 1 .. Len(url)
<1>1. 1 \in Nat \ {0}
  OBVIOUS
<1> QED
  BY <1>1, FindIs

LEMMA FoundAt ==
  ASSUME NEW T, NEW url \in Seq(T), NEW i \in Nat \ {0}, NEW byte,
         NEW f \in i .. Len(url), url[f] = byte, \A j \in i .. f - 1 : url[j] # byte
  PROVE  Find(url, i, byte) = f
<1> DEFINE g == Find(url, i, byte)
<1>1. /\ g \in i .. Len(url) /\ url[g] = byte
      /\ \A j \in i .. Len(url) : url[j] = byte => g <= j
  BY FindIs
<1> HIDE DEF g
<1>2. g <= f /\ ~ (g \in i .. f - 1) /\ g \in Nat /\ f \in Nat /\ Len(url) \in Nat
  BY <1>1
<1>3. g = f
  BY <1>1, <1>2
<1> QED
  BY <1>3 DEF g

LEMMA NotFound ==
  ASSUME NEW T, NEW url \in Seq(T), NEW i \in Nat \ {0}, NEW byte,
         \A j \in i .. Len(url) : url[j] # byte
  PROVE  Find(url, i, byte) = 0
BY FindIs

LEMMA CutOut ==
  ASSUME NEW T, NEW s \in Seq(T), NEW a \in Nat \ {0}, NEW b \in Int, b <= Len(s)
  PROVE  SubSeq(s, a, b) \in Seq(T)
<1>1. \A i \in a .. b : s[i] \in T
  OBVIOUS
<1> QED
  BY <1>1, SubSeqProperties

(* The part of u that begins behind position a is s.                       *)
LEMMA PartIs ==
  ASSUME NEW T, NEW u \in Seq(T), NEW s \in Seq(T), NEW a \in Nat,
         a + Len(s) <= Len(u), \A j \in 1 .. Len(s) : u[a + j] = s[j],
         NEW from, NEW to, from = a + 1, to = a + Len(s)
  PROVE  SubSeq(u, from, to) = s
<1> DEFINE n == Len(s)  t == SubSeq(u, a + 1, a + n)
<1>1. n \in Nat /\ Len(u) \in Nat
  BY LenProperties
<1>2. \A i \in a + 1 .. a + n : u[i] \in T
  BY <1>1
<1>3. /\ t \in Seq(T) /\ Len(t) = IF a + 1 <= a + n THEN (a + n) - (a + 1) + 1 ELSE 0
      /\ \A i \in 1 .. (a + n) - (a + 1) + 1 : t[i] = u[(a + 1) + i - 1]
  <2>1. a + 1 \in Int /\ a + n \in Int
    BY <1>1
  <2> HIDE DEF n
  <2> QED
    BY <1>2, <2>1, SubSeqProperties
<1> HIDE DEF t, n
<1>4. Len(t) = n
  BY <1>1, <1>3
<1>5. \A i \in 1 .. n : t[i] = s[i]
  <2> TAKE i \in 1 .. n
  <2>1. i \in 1 .. (a + n) - (a + 1) + 1 /\ (a + 1) + i - 1 = a + i
    BY <1>1
  <2> QED
    BY <1>3, <2>1 DEF n
<1>6. t = s
  BY <1>3, <1>4, <1>5, SeqEqual DEF n
<1> QED
  BY <1>6 DEF t, n

(* Two sequences put together, by position.                                *)
Joined(s, s1, s2) ==
  /\ Len(s) = Len(s1) + Len(s2)
  /\ \A i \in 1 .. Len(s1) : s[i] = s1[i]
  /\ \A i \in 1 .. Len(s2) : s[Len(s1) + i] = s2[i]

LEMMA ConcatAt ==
  ASSUME NEW T, NEW s1 \in Seq(T), NEW s2 \in Seq(T)
  PROVE  s1 \o s2 \in Seq(T) /\ Joined(s1 \o s2, s1, s2)
<1> DEFINE n1 == Len(s1)  n2 == Len(s2)  s == s1 \o s2
<1>1. /\ s \in Seq(T) /\ Len(s) = n1 + n2
      /\ \A i \in 1 .. n1 + n2 : s[i] = IF i <= n1 THEN s1[i] ELSE s2[i - n1]
  BY ConcatProperties
<1>2. n1 \in Nat /\ n2 \in Nat
  BY LenProperties
<1> HIDE DEF s, n1, n2
<1>3. \A i \in 1 .. n1 : s[i] = s1[i]
  BY <1>1, <1>2
<1>4. \A i \in 1 .. n2 : s[n1 + i] = s2[i]
  <2> TAKE i \in 1 .. n2
  <2>1. n1 + i \in 1 .. n1 + n2 /\ ~ (n1 + i <= n1) /\ (n1 + i) - n1 = i
    BY <1>2
  <2> QED
    BY <1>1, <2>1
<1> QED
  BY <1>1, <1>3, <1>4 DEF Joined, s, n1, n2

LEMMA PartsTypes ==
  ASSUME NEW T, NEW url \in Seq(T)
  PROVE  ParserUrl(url) \in [scheme : Seq(T), host : Seq(T), port : Seq(T), path : Seq(T)]
<1> DEFINE P == [scheme : Seq(T), host : Seq(T), port : Seq(T), path : Seq(T)]
<1>1. NoParts \in P
  BY EmptySeq DEF NoParts
<1>2. ASSUME NEW i \in Nat \ {0}, NEW byte
      PROVE  /\ Find(url, i, byte) \in 0 .. Len(url)
             /\ SubSeq(url, i, Find(url, i, byte) - 1) \in Seq(T)
             /\ From(url, i) \in Seq(T)
  <2>1. Find(url, i, byte) \in 0 .. Len(url) /\ Len(url) \in Nat
    BY FindIs
  <2>2. Find(url, i, byte) - 1 \in Int /\ Find(url, i, byte) - 1 <= Len(url)
    BY <2>1
  <2> QED
    BY <2>1, <2>2, CutOut DEF From
<1>3. ASSUME NEW i \in Nat \ {0}, NEW parts \in P
      PROVE  SplitPort(url, i, parts) \in P
  <2> DEFINE slash == Find(url, i, "/")
  <2>1. slash \in Nat /\ SubSeq(url, i, slash - 1) \in Seq(T) /\ slash + 1 \in Nat \ {0}
    BY <1>2
  <2> HIDE DEF slash
  <2>2. From(url, slash + 1) \in Seq(T)
    BY <1>2, <2>1
  <2> QED
    BY <2>1, <2>2 DEF SplitPort, slash
<1>4. ASSUME NEW i \in Nat \ {0}, NEW parts \in P
      PROVE  SplitHost(url, i, parts) \in P
  <2> DEFINE colon == Find(url, i, ":")  slash == Find(url, i, "/")
  <2>1. /\ slash \in Nat /\ SubSeq(url, i, slash - 1) \in Seq(T) /\ slash + 1 \in Nat \ {0}
        /\ colon \in Nat /\ SubSeq(url, i, colon - 1) \in Seq(T) /\ colon + 1 \in Nat \ {0}
    <3>1. slash \in Nat /\ SubSeq(url, i, slash - 1) \in Seq(T)
      BY <1>2
    <3>2. colon \in Nat /\ SubSeq(url, i, colon - 1) \in Seq(T)
      BY <1>2
    <3> HIDE DEF slash, colon
    <3> QED
      BY <3>1, <3>2
  <2> HIDE DEF slash, colon
  <2>2. From(url, slash + 1) \in Seq(T)
    BY <1>2, <2>1
  <2>3. [parts EXCEPT !.host = SubSeq(url, i, colon - 1)] \in P
    BY <2>1
  <2>4. SplitPort(url, colon + 1, [parts EXCEPT !.host = SubSeq(url, i, colon - 1)]) \in P
    BY <1>3, <2>1, <2>3
  <2>5. [parts EXCEPT !.host = SubSeq(url, i, slash - 1), !.path = From(url, slash + 1)] \in P
    BY <2>1, <2>2
  <2> QED
    BY <2>4, <2>5 DEF SplitHost, slash, colon
<1> DEFINE colon == Find(url, 1, ":")
           begun == [NoParts EXCEPT !.scheme = SubSeq(url, 1, colon - 1)]
<1>5. colon \in Nat /\ SubSeq(url, 1, colon - 1) \in Seq(T) /\ colon + 3 \in Nat \ {0}
  BY <1>2
<1> HIDE DEF colon
<1>6. begun \in P /\ [NoParts EXCEPT !.path = url] \in P
  BY <1>1, <1>5
<1> HIDE DEF begun
<1>7. SplitHost(url, colon + 3, begun) \in P
  BY <1>4, <1>5, <1>6
<1> HIDE DEF P
<1>8. ParserUrl(url) \in P
  BY <1>6, <1>7 DEF ParserUrl, colon, begun
<1> QED
  BY <1>8 DEF P

(* Where the parts of an URL are once they are put together: the scheme in *)
(* front, the host behind the two slashes, and so on.                      *)
WrittenAt(u, parts, k) ==
  LET a == Len(parts.scheme)  b == a + 3 + Len(parts.host) IN
  /\ Len(u) = b + k + 1 + Len(parts.path)
  /\ \A j \in 1 .. a : u[j] = parts.scheme[j]
  /\ u[a + 1] = ":" /\ u[a + 2] = "/" /\ u[a + 3] = "/"
  /\ \A j \in 1 .. Len(parts.host) : u[a + 3 + j] = parts.host[j]
  /\ u[b + k + 1] = "/"
  /\ \A j \in 1 .. Len(parts.path) : u[b + k + 1 + j] = parts.path[j]

PartSet(S) ==
  [scheme : Seq(S), host : Seq(S), port : Seq(S), path : Seq(S \cup {":", "/"})]

LEMMA WrittenIs ==
  ASSUME NEW S, NEW parts \in PartSet(S)
  PROVE  /\ Written(parts) \in Seq(S \cup {":", "/"})
         /\ parts.port = <<>> => WrittenAt(Written(parts), parts, 0)
         /\ parts.port # <<>> =>
              LET b == Len(parts.scheme) + 3 + Len(parts.host) IN
              /\ WrittenAt(Written(parts), parts, 1 + Len(parts.port))
              /\ Written(parts)[b + 1] = ":"
              /\ \A j \in 1 .. Len(parts.port) : Written(parts)[b + 1 + j] = parts.port[j]
<1> DEFINE T == S \cup {":", "/"}
           sch == parts.scheme  hst == parts.host  prt == parts.port  pth == parts.path
           sep == <<":", "/", "/">>  col == <<":">>  sls == <<"/">>
           mid == IF prt = <<>> THEN <<>> ELSE col \o prt
<1>1. /\ sch \in Seq(T) /\ hst \in Seq(T) /\ prt \in Seq(T) /\ pth \in Seq(T)
  <2>1. \A s \in Seq(S) : s \in Seq(T)
    BY SeqMonotonic
  <2> QED
    BY <2>1 DEF PartSet
<1>2. /\ sep \in Seq(T) /\ Len(sep) = 3 /\ sep[1] = ":" /\ sep[2] = "/" /\ sep[3] = "/"
      /\ col \in Seq(T) /\ Len(col) = 1 /\ col[1] = ":"
      /\ sls \in Seq(T) /\ Len(sls) = 1 /\ sls[1] = "/"
  OBVIOUS
<1> DEFINE a == Len(sch)  h == Len(hst)  p == Len(prt)  q == Len(pth)
<1>3. a \in Nat /\ h \in Nat /\ p \in Nat /\ q \in Nat
  BY <1>1
<1>4. Written(parts) = (((((sch \o sep) \o hst) \o mid) \o sls) \o pth)
  BY DEF Written
<1> HIDE DEF sep, col, sls, T, sch, hst, prt, pth
<1>5. /\ mid \in Seq(T) /\ (prt = <<>> => Len(mid) = 0)
      /\ prt # <<>> => /\ Len(mid) = 1 + p /\ mid[1] = ":"
                       /\ \A j \in 1 .. p : mid[1 + j] = prt[j]
  <2>1. CASE prt = <<>>
    BY <2>1, EmptySeq
  <2>2. CASE prt # <<>>
    <3>1. /\ col \o prt \in Seq(T) /\ Len(col \o prt) = Len(col) + Len(prt)
          /\ \A i \in 1 .. Len(col) : (col \o prt)[i] = col[i]
          /\ \A i \in 1 .. Len(prt) : (col \o prt)[Len(col) + i] = prt[i]
      <4>1. col \in Seq(T) /\ prt \in Seq(T)
        BY <1>1, <1>2
      <4>2. col \o prt \in Seq(T) /\ Joined(col \o prt, col, prt)
        BY <4>1, ConcatAt
      <4> QED
        BY <4>2 DEF Joined
    <3> QED
      BY <1>2, <2>2, <3>1
  <2> QED
    BY <2>1, <2>2
<1> HIDE DEF mid
<1> DEFINE k == Len(mid)
           w1 == sch \o sep  w2 == w1 \o hst  w3 == w2 \o mid  w4 == w3 \o sls  w5 == w4 \o pth
<1>6. /\ w1 \in Seq(T) /\ Len(w1) = Len(sch) + Len(sep)
      /\ \A i \in 1 .. Len(sch) : w1[i] = sch[i]
      /\ \A i \in 1 .. Len(sep) : w1[Len(sch) + i] = sep[i]
  <2>1. sch \in Seq(T) /\ sep \in Seq(T)
    BY <1>1, <1>2
  <2>2. w1 \in Seq(T) /\ Joined(w1, sch, sep)
    BY <2>1, ConcatAt
  <2> QED
    BY <2>2 DEF Joined
<1> HIDE DEF w1
<1>7. /\ w2 \in Seq(T) /\ Len(w2) = Len(w1) + Len(hst)
      /\ \A i \in 1 .. Len(w1) : w2[i] = w1[i]
      /\ \A i \in 1 .. Len(hst) : w2[Len(w1) + i] = hst[i]
  <2>1. w1 \in Seq(T) /\ hst \in Seq(T)
    BY <1>1, <1>6
  <2>2. w2 \in Seq(T) /\ Joined(w2, w1, hst)
    BY <2>1, ConcatAt
  <2> QED
    BY <2>2 DEF Joined
<1> HIDE DEF w2
<1>8. /\ w3 \in Seq(T) /\ Len(w3) = Len(w2) + Len(mid)
      /\ \A i \in 1 .. Len(w2) : w3[i] = w2[i]
      /\ \A i \in 1 .. Len(mid) : w3[Len(w2) + i] = mid[i]
  <2>1. w2 \in Seq(T) /\ mid \in Seq(T)
    BY <1>5, <1>7
  <2>2. w3 \in Seq(T) /\ Joined(w3, w2, mid)
    BY <2>1, ConcatAt
  <2> QED
    BY <2>2 DEF Joined
<1> HIDE DEF w3
<1>9. /\ w4 \in Seq(T) /\ Len(w4) = Len(w3) + Len(sls)
      /\ \A i \in 1 .. Len(w3) : w4[i] = w3[i]
      /\ \A i \in 1 .. Len(sls) : w4[Len(w3) + i] = sls[i]
  <2>1. w3 \in Seq(T) /\ sls \in Seq(T)
    BY <1>2, <1>8
  <2>2. w4 \in Seq(T) /\ Joined(w4, w3, sls)
    BY <2>1, ConcatAt
  <2> QED
    BY <2>2 DEF Joined
<1> HIDE DEF w4
<1>10. /\ w5 \in Seq(T) /\ Len(w5) = Len(w4) + Len(pth)
       /\ \A i \in 1 .. Len(w4) : w5[i] = w4[i]
       /\ \A i \in 1 .. Len(pth) : w5[Len(w4) + i] = pth[i]
  <2>1. w4 \in Seq(T) /\ pth \in Seq(T)
    BY <1>1, <1>9
  <2>2. w5 \in Seq(T) /\ Joined(w5, w4, pth)
    BY <2>1, ConcatAt
  <2> QED
    BY <2>2 DEF Joined
<1>11. w5 = Written(parts)
  BY <1>4 DEF w1, w2, w3, w4
<1> HIDE DEF w5
<1>12. k \in Nat
  BY <1>5
<1> HIDE DEF a, h, p, q, k
<1>13. /\ Len(w1) = a + 3 /\ Len(w2) = a + 3 + h /\ Len(w3) = a + 3 + h + k
       /\ Len(w4) = a + 3 + h + k + 1 /\ Len(w5) = a + 3 + h + k + 1 + q
  BY <1>2, <1>6, <1>7, <1>8, <1>9, <1>10 DEF a, h, q, k
<1>14. /\ \A i \in 1 .. a + 3 : w5[i] = w1[i]
       /\ \A i \in 1 .. a + 3 + h : w5[i] = w2[i]
       /\ \A i \in 1 .. a + 3 + h + k : w5[i] = w3[i]
       /\ \A i \in 1 .. a + 3 + h + k + 1 : w5[i] = w4[i]
  <2>1. \A i \in 1 .. a + 3 + h + k + 1 : w5[i] = w4[i]
    BY <1>10, <1>13
  <2>2. \A i \in 1 .. a + 3 + h + k : w5[i] = w3[i]
    BY <1>3, <1>9, <1>12, <1>13, <2>1
  <2>3. \A i \in 1 .. a + 3 + h : w5[i] = w2[i]
    BY <1>3, <1>8, <1>12, <1>13, <2>2
  <2>4. \A i \in 1 .. a + 3 : w5[i] = w1[i]
    BY <1>3, <1>7, <1>12, <1>13, <2>3
  <2> QED
    BY <2>1, <2>2, <2>3, <2>4
<1>15. \A j \in 1 .. a : w5[j] = sch[j]
  BY <1>3, <1>6, <1>14 DEF a
<1>16. w5[a + 1] = ":" /\ w5[a + 2] = "/" /\ w5[a + 3] = "/"
  <2>1. w1[a + 1] = ":" /\ w1[a + 2] = "/" /\ w1[a + 3] = "/"
    BY <1>2, <1>6 DEF a
  <2> QED
    BY <1>3, <1>14, <2>1
<1>17. \A j \in 1 .. h : w5[a + 3 + j] = hst[j]
  <2> TAKE j \in 1 .. h
  <2>1. a + 3 + j \in 1 .. a + 3 + h
    BY <1>3
  <2>2. w2[a + 3 + j] = hst[j]
    BY <1>7, <1>13 DEF h
  <2> QED
    BY <1>14, <2>1, <2>2
<1>18. \A j \in 1 .. k : w5[a + 3 + h + j] = mid[j]
  <2> TAKE j \in 1 .. k
  <2>1. a + 3 + h + j \in 1 .. a + 3 + h + k
    BY <1>3, <1>12
  <2>2. w3[a + 3 + h + j] = mid[j]
    BY <1>8, <1>13 DEF k
  <2> QED
    BY <1>14, <2>1, <2>2
<1>19. w5[a + 3 + h + k + 1] = "/"
  <2>1. w4[a + 3 + h + k + 1] = "/"
    BY <1>2, <1>9, <1>13
  <2>2. a + 3 + h + k + 1 \in 1 .. a + 3 + h + k + 1
    BY <1>3, <1>12
  <2> QED
    BY <1>14, <2>1, <2>2
<1>20. \A j \in 1 .. q : w5[a + 3 + h + k + 1 + j] = pth[j]
  BY <1>10, <1>13 DEF q
<1>21. WrittenAt(w5, parts, k)
  BY <1>13, <1>15, <1>16, <1>17, <1>19, <1>20 DEF WrittenAt, a, h, q, sch, hst, pth
<1>22. prt = <<>> => k = 0
  BY <1>5 DEF k
<1>23. ASSUME prt # <<>>
       PROVE  /\ k = 1 + p /\ w5[a + 3 + h + 1] = ":"
              /\ \A j \in 1 .. p : w5[a + 3 + h + 1 + j] = prt[j]
  <2>1. k = 1 + p /\ mid[1] = ":" /\ \A j \in 1 .. p : mid[1 + j] = prt[j]
    BY <1>5, <1>23 DEF k, p
  <2>2. w5[a + 3 + h + 1] = ":"
    <3>1. 1 \in 1 .. k
      BY <1>3, <2>1
    <3> QED
      BY <1>18, <2>1, <3>1
  <2>3. ASSUME NEW j \in 1 .. p PROVE w5[a + 3 + h + 1 + j] = prt[j]
    <3>1. 1 + j \in 1 .. k /\ a + 3 + h + (1 + j) = a + 3 + h + 1 + j
      BY <1>3, <2>1
    <3>2. w5[a + 3 + h + (1 + j)] = mid[1 + j]
      BY <1>18, <3>1
    <3> QED
      BY <2>1, <3>1, <3>2
  <2> QED
    BY <2>1, <2>2, <2>3
<1>24. w5 \in Seq(T)
  BY <1>10
<1> QED
  BY <1>11, <1>21, <1>22, <1>23, <1>24 DEF a, h, p, sch, hst, prt, T

(* plm_http_parser_url() undoes the putting together, for parts of any     *)
(* length: the scheme, the host and the port without colons and slashes,   *)
(* the path without a colon unless there is a port before it.              *)
THEOREM UrlTakenApart ==
  ASSUME NEW S, ":" \notin S, "/" \notin S, NEW parts \in PartSet(S),
         parts.port # <<>> \/ \A j \in 1 .. Len(parts.path) : parts.path[j] # ":"
  PROVE  ParserUrl(Written(parts)) = parts
<1> DEFINE T == S \cup {":", "/"}  u == Written(parts)
           sch == parts.scheme  hst == parts.host  prt == parts.port  pth == parts.path
           a == Len(sch)  h == Len(hst)  p == Len(prt)  q == Len(pth)  b == a + 3 + h
           k == IF prt = <<>> THEN 0 ELSE 1 + p
<1>1. /\ sch \in Seq(T) /\ hst \in Seq(T) /\ prt \in Seq(T) /\ pth \in Seq(T)
      /\ a \in Nat /\ h \in Nat /\ p \in Nat /\ q \in Nat /\ k \in Nat
  <2>1. \A s \in Seq(S) : s \in Seq(T)
    BY SeqMonotonic
  <2> QED
    BY <2>1 DEF PartSet
<1>0. a \in Nat /\ h \in Nat /\ p \in Nat /\ q \in Nat /\ k \in Nat
  BY <1>1
<1>2. /\ \A j \in 1 .. a : sch[j] \notin {":", "/"}
      /\ \A j \in 1 .. h : hst[j] \notin {":", "/"}
      /\ \A j \in 1 .. p : prt[j] \notin {":", "/"}
  BY DEF PartSet
<1>3. /\ u \in Seq(T) /\ WrittenAt(u, parts, k)
      /\ prt # <<>> => u[b + 1] = ":" /\ \A j \in 1 .. p : u[b + 1 + j] = prt[j]
  BY WrittenIs
<1> HIDE DEF u
<1>4. /\ Len(u) = b + k + 1 + q
      /\ \A j \in 1 .. a : u[j] = sch[j]
      /\ u[a + 1] = ":" /\ u[a + 2] = "/" /\ u[a + 3] = "/"
      /\ \A j \in 1 .. h : u[a + 3 + j] = hst[j]
      /\ u[b + k + 1] = "/"
      /\ \A j \in 1 .. q : u[b + k + 1 + j] = pth[j]
  BY <1>3 DEF WrittenAt
<1>5. /\ parts = [scheme |-> sch, host |-> hst, port |-> prt, path |-> pth]
      /\ prt = <<>> => \A j \in 1 .. q : pth[j] # ":"
      /\ prt = <<>> => k = 0
      /\ prt # <<>> => k = 1 + p
  BY DEF PartSet
<1> HIDE DEF T, sch, hst, prt, pth, a, h, p, q, k
<1>6. Find(u, 1, ":") = a + 1
  <2>1. a + 1 \in 1 .. Len(u)
    BY <1>1, <1>4
  <2>2. \A j \in 1 .. (a + 1) - 1 : u[j] # ":"
    BY <1>1, <1>2, <1>4
  <2> QED
    BY <1>3, <1>4, <2>1, <2>2, FoundAt, SMTT(30)
<1>7. SubSeq(u, 1, (a + 1) - 1) = sch
  <2>1. 0 + Len(sch) <= Len(u) /\ \A j \in 1 .. Len(sch) : u[0 + j] = sch[j]
    BY <1>1, <1>4 DEF a
  <2>2. 1 = 0 + 1 /\ (a + 1) - 1 = 0 + Len(sch) /\ 0 \in Nat
    BY <1>1 DEF a
  <2> QED
    BY <1>1, <1>3, <2>1, <2>2, PartIs
<1>8. Len(u) >= (a + 1) + 2 /\ SubSeq(u, (a + 1) + 1, (a + 1) + 2) = <<"/", "/">>
  <2> DEFINE two == <<"/", "/">>
  <2>1. two \in Seq(T) /\ Len(two) = 2 /\ two[1] = "/" /\ two[2] = "/"
    BY DEF T
  <2> HIDE DEF two
  <2>2. (a + 1) + Len(two) <= Len(u) /\ \A j \in 1 .. Len(two) : u[(a + 1) + j] = two[j]
    <3>1. u[(a + 1) + 1] = two[1] /\ u[(a + 1) + 2] = two[2]
      BY <1>1, <1>4, <2>1
    <3> QED
      BY <1>1, <1>4, <2>1, <3>1
  <2>3. (a + 1) + 2 = (a + 1) + Len(two) /\ a + 1 \in Nat
    BY <1>1, <2>1
  <2>4. SubSeq(u, (a + 1) + 1, (a + 1) + 2) = two
    <3> DEFINE from == (a + 1) + 1  to == (a + 1) + 2
    <3>1. from = (a + 1) + 1 /\ to = (a + 1) + Len(two)
      BY <2>3
    <3> HIDE DEF from, to
    <3>2. SubSeq(u, from, to) = two
      BY <1>3, <2>1, <2>2, <2>3, <3>1, PartIs
    <3> QED
      BY <3>2 DEF from, to
  <2> QED
    BY <2>1, <2>2, <2>4 DEF two
<1> DEFINE begun == [NoParts EXCEPT !.scheme = sch]
<1>9. ParserUrl(u) = SplitHost(u, (a + 1) + 3, begun)
  <2>1. a + 1 # 0
    BY <1>0
  <2> QED
    BY <1>6, <1>7, <1>8, <2>1, Zenon DEF ParserUrl
<1>10. begun = [scheme |-> sch, host |-> <<>>, port |-> <<>>, path |-> <<>>]
  BY DEF NoParts
<1> HIDE DEF begun
<1> DEFINE i == (a + 1) + 3
<1>11. i = a + 4 /\ i \in Nat \ {0} /\ b = a + 3 + h /\ b \in Nat /\ Len(u) \in Nat
  <2>1. Len(u) = b + k + 1 + q
    BY <1>4
  <2> QED
    BY <1>0, <2>1
<1> HIDE DEF b, i
<1>12. SubSeq(u, i, b) = hst
  <2>1. (a + 3) + Len(hst) <= Len(u) /\ \A j \in 1 .. Len(hst) : u[(a + 3) + j] = hst[j]
    BY <1>1, <1>4, <1>11 DEF h
  <2>2. i = (a + 3) + 1 /\ b = (a + 3) + Len(hst) /\ a + 3 \in Nat
    BY <1>1, <1>11 DEF h
  <2> DEFINE off == a + 3
  <2> HIDE DEF off
  <2>3. /\ off + Len(hst) <= Len(u) /\ \A j \in 1 .. Len(hst) : u[off + j] = hst[j]
        /\ off \in Nat /\ i = off + 1 /\ b = off + Len(hst)
    BY <2>1, <2>2 DEF off
  <2> QED
    BY <1>1, <1>3, <2>3, PartIs
<1>13. SubSeq(u, b + k + 2, Len(u)) = pth
  <2>1. (b + k + 1) + Len(pth) <= Len(u) /\ \A j \in 1 .. Len(pth) : u[(b + k + 1) + j] = pth[j]
    BY <1>1, <1>4, <1>11 DEF q
  <2>2. b + k + 2 = (b + k + 1) + 1 /\ Len(u) = (b + k + 1) + Len(pth) /\ b + k + 1 \in Nat
    BY <1>1, <1>4, <1>11 DEF q
  <2> DEFINE off == b + k + 1  from == b + k + 2
  <2> HIDE DEF off, from
  <2>3. /\ off + Len(pth) <= Len(u) /\ \A j \in 1 .. Len(pth) : u[off + j] = pth[j]
        /\ off \in Nat /\ from = off + 1 /\ Len(u) = off + Len(pth)
    BY <2>1, <2>2 DEF off, from
  <2>4. SubSeq(u, from, Len(u)) = pth
    BY <1>1, <1>3, <2>3, PartIs
  <2> QED
    BY <2>4 DEF from
<1>14. \A j \in i .. b : u[j] # ":" /\ u[j] # "/"
  <2> TAKE j \in i .. b
  <2>1. j - (a + 3) \in 1 .. h /\ a + 3 + (j - (a + 3)) = j
    BY <1>1, <1>11
  <2>2. u[a + 3 + (j - (a + 3))] = hst[j - (a + 3)]
    BY <1>4, <2>1
  <2> QED
    BY <1>2, <2>1, <2>2
<1>15. CASE prt = <<>>
  <2>1. k = 0
    BY <1>5, <1>15
  <2>2. Find(u, i, ":") = 0
    <3>1. ASSUME NEW j \in i .. Len(u) PROVE u[j] # ":"
      <4>1. CASE j \in i .. b
        BY <1>14, <4>1
      <4>2. CASE j = b + 1
        BY <1>4, <1>11, <2>1, <4>2
      <4>3. CASE j > b + 1
        <5>1. j - (b + 1) \in 1 .. q /\ b + k + 1 + (j - (b + 1)) = j
          <6>1. Len(u) = b + k + 1 + q
            BY <1>4
          <6> QED
            BY <1>0, <1>11, <2>1, <4>3, <6>1
        <5>2. u[b + k + 1 + (j - (b + 1))] = pth[j - (b + 1)]
          BY <1>4, <5>1
        <5> QED
          BY <1>5, <1>15, <5>1, <5>2
      <4> QED
        BY <1>11, <4>1, <4>2, <4>3
    <3> QED
      BY <1>3, <1>11, <3>1, NotFound
  <2>3. Find(u, i, "/") = b + 1
    <3>1. b + 1 \in i .. Len(u) /\ u[b + 1] = "/"
      BY <1>1, <1>4, <1>11, <2>1
    <3>2. \A j \in i .. (b + 1) - 1 : u[j] # "/"
      BY <1>11, <1>14
    <3> QED
      BY <1>3, <1>11, <3>1, <3>2, FoundAt
  <2>4. b + 1 # 0 /\ (b + 1) - 1 = b /\ (b + 1) + 1 = b + k + 2
    BY <1>11, <2>1
  <2>5. SplitHost(u, i, begun) = [begun EXCEPT !.host = hst, !.path = pth]
    BY <1>12, <1>13, <2>2, <2>3, <2>4 DEF SplitHost, From
  <2> QED
    BY <1>5, <1>9, <1>10, <1>15, <2>5 DEF i, u
<1>16. CASE prt # <<>>
  <2>1. k = 1 + p /\ u[b + 1] = ":" /\ \A j \in 1 .. p : u[b + 1 + j] = prt[j]
    BY <1>3, <1>5, <1>16 DEF b
  <2>2. Find(u, i, ":") = b + 1
    <3>1. b + 1 \in i .. Len(u)
      BY <1>1, <1>4, <1>11, <2>1
    <3>2. \A j \in i .. (b + 1) - 1 : u[j] # ":"
      BY <1>11, <1>14
    <3> QED
      BY <1>3, <1>11, <2>1, <3>1, <3>2, FoundAt
  <2>3. Find(u, (b + 1) + 1, "/") = b + k + 1
    <3>1. b + k + 1 \in (b + 1) + 1 .. Len(u) /\ (b + 1) + 1 \in Nat \ {0}
      <4>1. Len(u) = b + k + 1 + q
        BY <1>4
      <4> QED
        BY <1>0, <1>11, <2>1, <4>1
    <3>2. ASSUME NEW j \in (b + 1) + 1 .. (b + k + 1) - 1 PROVE u[j] # "/"
      <4>1. j - (b + 1) \in 1 .. p /\ b + 1 + (j - (b + 1)) = j
        BY <1>1, <1>11, <2>1
      <4>2. u[b + 1 + (j - (b + 1))] = prt[j - (b + 1)]
        BY <2>1, <4>1
      <4> QED
        BY <1>2, <4>1, <4>2
    <3>3. u[b + k + 1] = "/"
      BY <1>4
    <3> DEFINE from == (b + 1) + 1
    <3> HIDE DEF from
    <3>4. /\ from \in Nat \ {0} /\ b + k + 1 \in from .. Len(u)
          /\ \A j \in from .. (b + k + 1) - 1 : u[j] # "/"
      BY <3>1, <3>2 DEF from
    <3>5. Find(u, from, "/") = b + k + 1
      BY <1>3, <3>3, <3>4, FoundAt
    <3> QED
      BY <3>5 DEF from
  <2>4. SubSeq(u, (b + 1) + 1, (b + k + 1) - 1) = prt
    <3>1. (b + 1) + Len(prt) <= Len(u) /\ \A j \in 1 .. Len(prt) : u[(b + 1) + j] = prt[j]
      BY <1>1, <1>4, <1>11, <2>1 DEF p
    <3>2. (b + k + 1) - 1 = (b + 1) + Len(prt) /\ b + 1 \in Nat
      BY <1>1, <1>11, <2>1 DEF p
    <3> DEFINE from == (b + 1) + 1  to == (b + k + 1) - 1
    <3>3. from = (b + 1) + 1 /\ to = (b + 1) + Len(prt)
      BY <3>2
    <3> DEFINE off == b + 1
    <3> HIDE DEF from, to, off
    <3>5. /\ off + Len(prt) <= Len(u) /\ \A j \in 1 .. Len(prt) : u[off + j] = prt[j]
          /\ off \in Nat /\ from = off + 1 /\ to = off + Len(prt)
      BY <3>1, <3>2, <3>3 DEF off
    <3>4. SubSeq(u, from, to) = prt
      BY <1>1, <1>3, <3>5, PartIs
    <3> QED
      BY <3>4 DEF from, to
  <2>5. /\ b + 1 # 0 /\ (b + 1) - 1 = b
        /\ b + k + 1 # 0 /\ (b + k + 1) + 1 = b + k + 2
    BY <1>1, <1>11
  <2> DEFINE named == [begun EXCEPT !.host = hst]
  <2>6. SplitHost(u, i, begun) = SplitPort(u, (b + 1) + 1, named)
    BY <1>12, <2>2, <2>5 DEF SplitHost
  <2>7. SplitPort(u, (b + 1) + 1, named) = [named EXCEPT !.port = prt, !.path = pth]
    BY <1>13, <2>3, <2>4, <2>5 DEF SplitPort, From
  <2>8. [named EXCEPT !.port = prt, !.path = pth]
          = [scheme |-> sch, host |-> hst, port |-> prt, path |-> pth]
    <3>1. named = [scheme |-> sch, host |-> hst, port |-> <<>>, path |-> <<>>]
      BY <1>10
    <3> HIDE DEF named
    <3>2. [[scheme |-> sch, host |-> hst, port |-> <<>>, path |-> <<>>] EXCEPT !.port = prt]
            = [scheme |-> sch, host |-> hst, port |-> prt, path |-> <<>>]
      OBVIOUS
    <3>3. [[scheme |-> sch, host |-> hst, port |-> prt, path |-> <<>>] EXCEPT !.path = pth]
            = [scheme |-> sch, host |-> hst, port |-> prt, path |-> pth]
      OBVIOUS
    <3>4. [named EXCEPT !.port = prt, !.path = pth]
            = [[named EXCEPT !.port = prt] EXCEPT !.path = pth]
      OBVIOUS
    <3> QED
      BY <3>1, <3>2, <3>3, <3>4, Zenon
  <2> QED
    BY <1>5, <1>9, <2>6, <2>7, <2>8 DEF i, u
<1> QED
  BY <1>15, <1>16

(* What an absolute URL is put together from is what plm_http_parser_url() *)
(* finds in it, in every state; by UrlTakenApart for parts of any length.  *)
THEOREM UrlSplitHolds == RSpec => []UrlSplit
<1>1. UrlSplit
  <2> SUFFICES ASSUME NEW parts \in SmallParts,
                      parts.port # <<>> \/ Find(parts.path, 1, ":") = 0
               PROVE  ParserUrl(Written(parts)) = parts
    BY DEF UrlSplit
  <2>1. ASSUME NEW S, NEW m \in Nat, NEW n \in Nat, NEW w \in Words(S, m, n)
        PROVE  w \in Seq(S)
    BY <2>1 DEF Words
  <2>2. parts \in PartSet({"c"})
    <3>1. /\ parts.scheme \in Seq({"c"}) /\ parts.host \in Seq({"c"})
          /\ parts.port \in Seq({"c"}) /\ parts.path \in Seq({"c", "/", ":"})
      BY <2>1 DEF SmallParts
    <3>2. {"c", "/", ":"} = {"c"} \cup {":", "/"}
      OBVIOUS
    <3>3. parts = [scheme |-> parts.scheme, host |-> parts.host, port |-> parts.port,
                   path |-> parts.path]
      BY DEF SmallParts
    <3> QED
      BY <3>1, <3>2, <3>3 DEF PartSet
  <2>3. parts.port # <<>> \/ \A j \in 1 .. Len(parts.path) : parts.path[j] # ":"
    <3>1. parts.path \in Seq({"c"} \cup {":", "/"})
      BY <2>2 DEF PartSet
    <3> QED
      BY <3>1, FindIs, SMTT(30)
  <2> QED
    BY <2>2, <2>3, UrlTakenApart
<1> QED
  BY <1>1, PTL

-----------------------------------------------------------------------------
(* What the callbacks do to the pool.                                      *)

(* The fields that come, and those that are stored under another name.     *)
Texts == [k : (Seq(STRING) \ {<<>>}) \cup {Connection}, v : Seq(STRING), n : Int]

LEMMA SizesAre ==
  /\ ReqSize \in Nat /\ StrSize \in Nat /\ HashNodeSize \in Nat /\ BucketsSize \in Nat
  /\ \A url \in Urls : Len(url) + 1 \in Nat /\ Len(ParserUrl(url).host) + 1 \in Nat
<1>1. ASSUME NEW url \in Urls
      PROVE  Len(url) + 1 \in Nat /\ Len(ParserUrl(url).host) + 1 \in Nat
  <2> DEFINE T == {":", "/", "c"}
  <2>1. url \in Seq(T)
    BY HttpRequestAssumption
  <2> HIDE DEF T
  <2>2. ParserUrl(url).host \in Seq(T)
    BY <2>1, PartsTypes
  <2> QED
    BY <2>1, <2>2, LenProperties
<1> QED
  BY <1>1, HttpRequestAssumption

LEMMA FieldSizes ==
  ASSUME NEW f \in FieldTexts
  PROVE  /\ f \in Texts /\ Len(StoredKey(f)) + 1 + StrSize \in Nat
         /\ Len(f.v) + 1 + StrSize \in Nat /\ Len(Host(f.v)) + 1 \in Nat
<1>1. f \in Texts /\ f.k \in Seq(STRING) /\ f.v \in Seq(STRING) /\ StrSize \in Nat
  BY SizesAre, HttpRequestAssumption DEF Texts
<1>2. Len(f.k) \in Nat /\ Len(f.v) \in Nat /\ Len(Connection) = 4
  BY <1>1 DEF Connection
<1>3. StoredKey(f) = Connection \/ StoredKey(f) = f.k
  BY DEF StoredKey
<1>4. Len(StoredKey(f)) \in Nat
  BY <1>2, <1>3
<1>5. Host(f.v) \in Seq(STRING)
  <2> DEFINE colon == Find(f.v, 1, ":")
  <2>1. colon \in Nat /\ colon <= Len(f.v)
    <3>1. Find(f.v, 1, ":") = 0 \/ Find(f.v, 1, ":") \in 1 .. Len(f.v)
      BY <1>1, FindInText
    <3> QED
      BY <1>2, <3>1
  <2> HIDE DEF colon
  <2>2. SubSeq(f.v, 1, colon - 1) \in Seq(STRING)
    BY <1>1, <1>2, <2>1, CutOut
  <2> QED
    BY <1>1, <2>2 DEF Host, colon
<1>6. Len(Host(f.v)) \in Nat
  BY <1>5, LenProperties
<1> QED
  BY <1>1, <1>2, <1>4, <1>6

LEMMA OnReqlinePool ==
  ASSUME PoolInv(pool), OnReqline
  PROVE  /\ PoolInv(pool') /\ broke' \in {broke, TRUE}
         /\ \/ broke' = TRUE /\ UNCHANGED <<hp_data, req>>
            \/ /\ hp_data' = "req" /\ broke' = broke
               /\ \E h, n, b : n \in PortNumbers \cup {0} /\ b \in BOOLEAN /\ req' = NewReq(h, Port(n), b)
<1>1. PICK url \in Urls :
        LET parts == ParserUrl(url)
            named == parts.host # <<>>
            must  == ThenIfGot(Then(NoneYet(pool), ReqSize), Len(url) + 1)
            got   == {r \in must : AllGot(r)}
            all   == Then(IF named THEN Then(got, Len(parts.host) + 1) ELSE got, BucketsSize)
        IN \/ \E r \in must \ got :
                /\ broke' = TRUE /\ pool' = r.pool /\ refused' = TRUE
                /\ UNCHANGED <<hp_data, req>>
           \/ \E r \in all, n \in IF parts.port = <<>> THEN {0} ELSE PortNumbers :
                /\ pool' = r.pool /\ refused' = (refused \/ ~AllGot(r))
                /\ hp_data' = "req" /\ broke' = broke
                /\ req' = NewReq(IF named /\ r.got[3] THEN parts.host ELSE <<>>, Port(n),
                                 r.got[Len(r.got)])
  BY DEF OnReqline
<1> DEFINE parts == ParserUrl(url)
           named == parts.host # <<>>
           must  == ThenIfGot(Then(NoneYet(pool), ReqSize), Len(url) + 1)
           got   == {r \in must : AllGot(r)}
           base  == IF named THEN Then(got, Len(parts.host) + 1) ELSE got
           all   == Then(base, BucketsSize)
<1>2. RunsInv(must)
  BY SizesAre, NoneYetInv, ThenInv, ThenIfGotInv
<1>3. RunsInv(got)
  BY <1>2 DEF RunsInv
<1> HIDE DEF got, must
<1>4. RunsInv(base)
  BY <1>3, SizesAre, ThenInv
<1> HIDE DEF base
<1>5. RunsInv(all)
  BY <1>4, SizesAre, ThenInv
<1>6. ASSUME NEW r \in all PROVE r.got[Len(r.got)] \in BOOLEAN
  <2>1. PICK r0 \in base, ok \in BOOLEAN : r0.got \in Seq(BOOLEAN) /\ r.got = Append(r0.got, ok)
    BY <1>4, SizesAre, ThenInv
  <2>2. Len(r.got) = Len(r0.got) + 1 /\ r.got[Len(r0.got) + 1] = ok
    BY <2>1, AppendProperties
  <2> QED
    BY <2>2
<1> HIDE DEF all
<1>7. CASE \E r \in must \ got :
             /\ broke' = TRUE /\ pool' = r.pool /\ refused' = TRUE
             /\ UNCHANGED <<hp_data, req>>
  BY <1>2, <1>7 DEF RunsInv
<1>8. CASE \E r \in all, n \in IF parts.port = <<>> THEN {0} ELSE PortNumbers :
             /\ pool' = r.pool /\ refused' = (refused \/ ~AllGot(r))
             /\ hp_data' = "req" /\ broke' = broke
             /\ req' = NewReq(IF named /\ r.got[3] THEN parts.host ELSE <<>>, Port(n),
                              r.got[Len(r.got)])
  <2>1. PICK r \in all, n \in PortNumbers \cup {0} :
             /\ pool' = r.pool
             /\ hp_data' = "req" /\ broke' = broke
             /\ req' = NewReq(IF named /\ r.got[3] THEN parts.host ELSE <<>>, Port(n),
                              r.got[Len(r.got)])
    BY <1>8
  <2>2. PoolInv(pool')
    BY <1>5, <2>1 DEF RunsInv
  <2> DEFINE h == IF named /\ r.got[3] THEN parts.host ELSE <<>>  b == r.got[Len(r.got)]
  <2>3. b \in BOOLEAN
    BY <1>6
  <2>4. req' = NewReq(h, Port(n), b)
    BY <2>1
  <2> HIDE DEF h, b
  <2>5. \E h1, n1, b1 :
          n1 \in PortNumbers \cup {0} /\ b1 \in BOOLEAN /\ req' = NewReq(h1, Port(n1), b1)
    BY <2>3, <2>4, Zenon
  <2> QED
    BY <2>1, <2>2, <2>5
<1> QED
  BY <1>1, <1>7, <1>8 DEF got, must, base, all

(* The request after plm_http_on_field() has looked at field f, whatever   *)
(* host is noted.                                                          *)
SeenWith(r, f, host) ==
  [r EXCEPT !.kpalv = KeepAliveOn(f, r),
            !.hr_cntlen = IF IsLength(f) THEN f.n ELSE @,
            !.hr_port = IF NamesHost(f, r) /\ Find(f.v, 1, ":") # 0 THEN Port(f.n) ELSE @,
            !.host = host]

(* Either the field is refused and nothing is stored, or it is stored, if  *)
(* there are buckets.                                                      *)
LEMMA OnFieldIs ==
  ASSUME PoolInv(pool), NEW f \in FieldTexts, NEW o \in OnField(f)
  PROVE  /\ PoolInv(o.pool)
         /\ \E host : LET seen == SeenWith(req, f, host) IN
              \/ o.broke = TRUE /\ o.failed = "no" /\ o.req = seen
              \/ /\ o.broke = FALSE /\ req.h_bucket
                 /\ o.failed = "no" /\ o.req = HashInsert(seen, f)
              \/ o.broke = FALSE /\ ~req.h_bucket /\ o.failed = "null" /\ o.req = seen
<1> DEFINE names  == NamesHost(f, req)
           host   == IF names THEN Then(NoneYet(pool), Len(Host(f.v)) + 1) ELSE NoneYet(pool)
           keyed  == Then(host, Len(StoredKey(f)) + 1 + StrSize)
           copied == Then(keyed, Len(f.v) + 1 + StrSize)
           Copied(r) == r.got[Len(r.got) - 1] /\ r.got[Len(r.got)]
           noted(r) == IF names /\ r.got[1] THEN Host(f.v) ELSE req.host
           Seen(r) ==
             [req EXCEPT !.kpalv = KeepAliveOn(f, req),
                         !.hr_cntlen = IF IsLength(f) THEN f.n ELSE @,
                         !.hr_port = IF names /\ Find(f.v, 1, ":") # 0 THEN Port(f.n) ELSE @,
                         !.host = IF names /\ r.got[1] THEN Host(f.v) ELSE @]
           Fails(r) == [pool |-> r.pool, req |-> Seen(r), broke |-> TRUE, failed |-> "no",
                        refused |-> TRUE]
           Stores(r) ==
             [pool |-> r.pool, broke |-> FALSE, refused |-> refused \/ ~AllGot(r),
              req |-> IF req.h_bucket THEN HashInsert(Seen(r), f) ELSE Seen(r),
              failed |-> IF req.h_bucket THEN "no" ELSE "null"]
           noded == Then({r \in copied : Copied(r)}, HashNodeSize)
           Noded(r) == r.got[Len(r.got)]
<1>1. o \in {Fails(r) : r \in {c \in copied : ~Copied(c)} \cup {n \in noded : ~Noded(n)}}
            \cup {Stores(r) : r \in {n \in noded : Noded(n)}}
  BY Zenon DEF OnField
<1>2. PICK r \in copied \cup noded : o = Fails(r) \/ o = Stores(r)
  <2> HIDE DEF copied, noded, Fails, Stores, Copied, Noded
  <2> QED
    BY <1>1, Zenon
<1>3. RunsInv(host)
  BY FieldSizes, NoneYetInv, ThenInv
<1> HIDE DEF host
<1>4. RunsInv(keyed)
  BY <1>3, FieldSizes, ThenInv
<1> HIDE DEF keyed
<1>5. RunsInv(copied)
  BY <1>4, FieldSizes, ThenInv
<1> HIDE DEF copied
<1>6. RunsInv({c \in copied : Copied(c)})
  BY <1>5 DEF RunsInv
<1>7. RunsInv(noded)
  BY <1>6, SizesAre, ThenInv
<1> HIDE DEF noded
<1>8. PoolInv(r.pool)
  BY <1>2, <1>5, <1>7 DEF RunsInv
<1>9. Seen(r) = SeenWith(req, f, noted(r))
  BY DEF SeenWith
<1> HIDE DEF Seen, noted
<1>10. CASE o = Fails(r)
  <2>1. o.pool = r.pool /\ o.broke = TRUE /\ o.failed = "no" /\ o.req = Seen(r)
    BY <1>10
  <2> QED
    BY <1>8, <1>9, <2>1
<1>11. CASE o = Stores(r)
  <2>1. o.pool = r.pool /\ o.broke = FALSE
    BY <1>11, Zenon
  <2>2. o.failed = IF req.h_bucket THEN "no" ELSE "null"
    BY <1>11, Zenon
  <2>3. o.req = IF req.h_bucket THEN HashInsert(Seen(r), f) ELSE Seen(r)
    BY <1>11, Zenon
  <2> QED
    BY <1>8, <1>9, <2>1, <2>2, <2>3, Zenon
<1> QED
  BY <1>2, <1>10, <1>11

(* Whatever is stored for a request, with objects and blocks of any size,  *)
(* and whichever malloc() fails: the objects stay in their blocks, apart   *)
(* from each other and before what the pool takes for free.                *)
THEOREM PoolSoundHolds == RSpec => []PoolSound
<1> DEFINE Kept == PoolInv(pool)
<1>1. RInit => Kept
  BY NewPoolInv, HttpRequestAssumption DEF RInit
<1>2. Kept /\ [RNext]_allvars => Kept'
  <2> SUFFICES ASSUME PoolInv(pool), [RNext]_allvars PROVE PoolInv(pool')
    OBVIOUS
  <2>1. CASE RQuiet \/ RFieldConn \/ RHeaderCr \/ RTerminated \/ UNCHANGED allvars
    <3>1. pool' = pool
      BY <2>1 DEF RQuiet, RFieldConn, RHeaderCr, RTerminated, rvars, allvars
    <3> QED
      BY <3>1
  <2>2. CASE RFirstLine
    BY <2>2, OnReqlinePool DEF RFirstLine
  <2>3. CASE RFieldBreaks \/ RField \/ RLastField
    <3>1. PICK f \in FieldTexts : \E o \in OnField(f) : pool' = o.pool
      BY <2>3 DEF RFieldBreaks, RField, RLastField, Takes
    <3> QED
      BY <3>1, OnFieldIs
  <2> QED
    BY <2>1, <2>2, <2>3 DEF RNext
<1>3. Kept => PoolSound
  BY PoolInvSound DEF PoolSound
<1> HIDE DEF Kept
<1> QED
  BY <1>1, <1>2, <1>3, PTL DEF RSpec

-----------------------------------------------------------------------------
(* The parser.  However the bytes are divided, a line that is reported is  *)
(* as long as what is counted for it (WideInv).  While no call is given    *)
(* more than one line end, a call goes through one line at most, and what  *)
(* is left over begins where a line begins (ParserInv).                    *)

Lines == Len(reported)
Gone  == sent - Len(buf)
Extra == CASE hp_state = "HDR_CR" -> 1 [] hp_state = "HDR_DONE" -> 2 [] OTHER -> 0

(* The bytes that the caller holds are the last ones that have arrived.    *)
Held ==
  /\ message \in Messages /\ sent \in 0 .. Len(message) /\ taken \in Nat
  /\ buf \in Seq({"line", "field", "junk", "cr", "lf", "body"}) /\ Len(buf) <= sent
  /\ \A i \in 1 .. Len(buf) : buf[i] = message[Gone + i]

Types ==
  /\ calling \in BOOLEAN /\ broke \in BOOLEAN /\ together \in BOOLEAN /\ apart \in BOOLEAN
  /\ hdr_done \in 0 .. 1 /\ reported \in Seq(Nat)
  /\ hp_state \in {"NONE", "LINE_DONE", "HDR_CR", "HDR_DONE"}
  /\ result \in {"none", "AGAIN", "BREAK", "ERROR", "DONE", "OUTSIDE"}

(* What is counted: the lines that were reported, in this call or before.  *)
Counted ==
  /\ Lines <= Fields + 1 /\ taken = Gone
  /\ pos \in 0 .. 2 * HeaderEnd /\ hp_parsed \in 0 .. HeaderEnd
  /\ hdr_done = 1 => hp_state = "HDR_DONE"
  /\ calling =>
       /\ hp_state # "HDR_DONE" /\ pos < Len(buf) /\ hp_parsed <= pos
       /\ hp_state # "LINE_DONE" => pos = 0
       /\ taken + hp_parsed = 3 * Lines + Extra
  /\ ~calling /\ result # "ERROR" => taken = 3 * Lines + Extra
  /\ ~calling /\ result \in {"none", "AGAIN", "BREAK"} => hp_state # "HDR_DONE"

WideInv == Held /\ Types /\ Counted

Shape ==
  /\ message \in Messages /\ sent \in 0 .. Len(message)
  /\ buf \in Seq({"line", "field", "junk", "cr", "lf", "body"}) /\ Len(buf) <= sent
  /\ \A i \in 1 .. Len(buf) : buf[i] = message[Gone + i]
  /\ calling \in BOOLEAN /\ broke \in BOOLEAN /\ taken \in Nat
  /\ pos \in 0 .. 3 /\ hp_parsed \in 0 .. 5 /\ hdr_done \in 0 .. 1
  /\ hp_state \in {"NONE", "LINE_DONE", "HDR_CR", "HDR_DONE"}
  /\ result \in {"none", "AGAIN", "BREAK", "ERROR", "DONE"}

Progress ==
  /\ reported \in Seq(Nat) /\ Lines \in 0 .. Fields + 1
  /\ \A i \in 1 .. Lines : reported[i] = 3 * (i - 1)
  /\ \A l \in 0 .. Lines - 1 : message[3 * l + 1] # "junk"
  /\ hp_state = "NONE" <=> Lines = 0
  /\ hp_state \in {"HDR_CR", "HDR_DONE"} => Lines = Fields + 1
  /\ hp_state = "HDR_DONE" <=> result = "DONE"
  /\ hp_state = "HDR_DONE" => message[HeaderEnd] = "lf" /\ ~calling
  /\ hdr_done = 1 => hp_state = "HDR_DONE"
  /\ result = "BREAK" => broke

(* Inside a call: at its beginning, or behind the line it has reported.    *)
Turn ==
  \/ pos = 0 /\ hp_parsed = 0 /\ taken = 3 * Lines + Extra
  \/ /\ pos = 3 /\ hp_parsed = 3 /\ taken + 3 = 3 * Lines
     /\ hp_state = "LINE_DONE" /\ Lines <= Fields /\ Len(buf) > 3

Busy ==
  /\ result \in {"none", "AGAIN", "BREAK"} /\ hp_state # "HDR_DONE"
  /\ Len(buf) > 0 /\ ~(LineEnds(buf) > 1) /\ taken = Gone
  /\ Turn

(* Between two calls.                                                      *)
Idle ==
  /\ taken = Gone /\ taken = 3 * Lines + Extra
  /\ result = "none" => sent = 0
  /\ result = "AGAIN" /\ hp_state \in {"NONE", "LINE_DONE"} /\ Lines <= Fields =>
       Len(buf) < 3
  /\ hp_state = "HDR_CR" => Len(buf) = 0 \/ message[HeaderEnd] = "junk"

Stage == (calling => Busy) /\ (~calling /\ result # "ERROR" => Idle)

ParserInv == Shape /\ Progress /\ Stage

(* As far as no call has ended right before the blank line, no call begins *)
(* with it, unless a callback broke off.                                   *)
ApartInv ==
  /\ sent # HeaderEnd - 2
  /\ hp_state = "LINE_DONE" /\ Lines = Fields + 1 => broke
  /\ result = "ERROR" => broke \/ \E i \in DOMAIN message : message[i] = "junk"

LEMMA MessageIs ==
  ASSUME NEW m \in Messages
  PROVE  /\ HeaderEnd = 3 * Fields + 5 /\ Fields \in Nat /\ Fields >= 1
         /\ Len(m) = 3 * Fields + 6 /\ DOMAIN m = 1 .. 3 * Fields + 6
         /\ m \in Seq({"line", "field", "junk", "cr", "lf", "body"})
         /\ \A l \in 0 .. Fields :
              /\ m[3 * l + 1] \in IF l = 0 THEN {"line", "junk"} ELSE {"field", "junk"}
              /\ m[3 * l + 2] = "cr" /\ m[3 * l + 3] = "lf"
         /\ m[3 * Fields + 4] = "cr" /\ m[3 * Fields + 5] \in {"lf", "junk"}
         /\ m[3 * Fields + 6] = "body"
<1>1. HeaderEnd = 3 * Fields + 5 /\ Fields \in Nat /\ Fields >= 1
  BY HttpParserAssumption DEF HeaderEnd
<1>2. PICK text \in {f \in [0 .. Fields -> {"line", "field", "junk"}] :
                       f[0] # "field" /\ \A i \in 1 .. Fields : f[i] # "line"},
           last \in {"lf", "junk"} :
        m = [i \in 1 .. HeaderEnd + 1 |->
               IF i > HeaderEnd THEN "body"
               ELSE IF i = HeaderEnd THEN last
               ELSE IF i = HeaderEnd - 1 THEN "cr"
               ELSE IF i % 3 = 1 THEN text[i \div 3]
               ELSE IF i % 3 = 2 THEN "cr" ELSE "lf"]
  BY DEF Messages
<1> DEFINE Bytes == {"line", "field", "junk", "cr", "lf", "body"}
<1>3. \A i \in 1 .. 3 * Fields + 6 :
        m[i] = IF i > 3 * Fields + 5 THEN "body"
               ELSE IF i = 3 * Fields + 5 THEN last
               ELSE IF i = 3 * Fields + 4 THEN "cr"
               ELSE IF i % 3 = 1 THEN text[i \div 3]
               ELSE IF i % 3 = 2 THEN "cr" ELSE "lf"
  BY <1>1, <1>2
<1>4. DOMAIN m = 1 .. 3 * Fields + 6
  BY <1>1, <1>2
<1>5. \A i \in 1 .. 3 * Fields + 6 : m[i] \in Bytes
  <2> TAKE i \in 1 .. 3 * Fields + 6
  <2>1. ASSUME i <= 3 * Fields + 3 PROVE i \div 3 \in 0 .. Fields \/ i % 3 # 1
    BY <1>1, <2>1
  <2> QED
    BY <1>1, <1>3, <2>1
<1>6. m \in [1 .. 3 * Fields + 6 -> Bytes]
  BY <1>2, <1>4, <1>5
<1>7. m \in Seq(Bytes) /\ Len(m) = 3 * Fields + 6
  BY <1>1, <1>6
<1>8. ASSUME NEW l \in 0 .. Fields
      PROVE  /\ m[3 * l + 1] \in IF l = 0 THEN {"line", "junk"} ELSE {"field", "junk"}
             /\ m[3 * l + 2] = "cr" /\ m[3 * l + 3] = "lf"
  <2>1. /\ 3 * l + 1 \in 1 .. 3 * Fields + 3 /\ (3 * l + 1) % 3 = 1 /\ (3 * l + 1) \div 3 = l
        /\ 3 * l + 2 \in 1 .. 3 * Fields + 3 /\ (3 * l + 2) % 3 = 2
        /\ 3 * l + 3 \in 1 .. 3 * Fields + 3 /\ (3 * l + 3) % 3 = 0
    BY <1>1
  <2>2. m[3 * l + 1] = text[l] /\ m[3 * l + 2] = "cr" /\ m[3 * l + 3] = "lf"
    BY <1>1, <1>3, <2>1
  <2>3. text[l] \in {"line", "field", "junk"} /\ (l = 0 => text[l] # "field")
        /\ (l # 0 => text[l] # "line")
    BY <1>1
  <2> QED
    BY <2>2, <2>3
<1>9. m[3 * Fields + 4] = "cr" /\ m[3 * Fields + 5] = last /\ m[3 * Fields + 6] = "body"
  BY <1>1, <1>3
<1> QED
  BY <1>1, <1>4, <1>7, <1>8, <1>9

(* Where a line is looked for, and what can be found there.                *)
LEMMA AtLine ==
  ASSUME ParserInv, calling, hp_state \in {"NONE", "LINE_DONE"}
  PROVE  /\ Gone + pos = 3 * Lines /\ hp_parsed = pos /\ taken = Gone
         /\ pos \in {0, 3} /\ Lines \in 0 .. Fields + 1
         /\ Lines <= Fields => LineFeed = IF Len(buf) >= pos + 3 THEN pos + 3 ELSE 0
         /\ pos = 3 => LineFeed = 0
         /\ Lines = Fields + 1 => pos = 0 /\ buf[1] = "cr"
<1>1. Shape /\ Progress /\ Busy
  BY DEF ParserInv, Stage
<1>2. /\ Gone + pos = 3 * Lines /\ hp_parsed = pos /\ taken = Gone
      /\ pos \in {0, 3} /\ Lines \in 0 .. Fields + 1 /\ Len(buf) \in Nat /\ Len(buf) > 0
      /\ Gone \in Nat
  BY <1>1 DEF Busy, Turn, Shape, Progress, Extra, Gone, Lines
<1>3. message \in Messages /\ \A i \in 1 .. Len(buf) : buf[i] = message[Gone + i]
  BY <1>1 DEF Shape
<1>4. ASSUME Lines <= Fields
      PROVE  LineFeed = IF Len(buf) >= pos + 3 THEN pos + 3 ELSE 0
  <2>1. /\ message[3 * Lines + 1] # "lf" /\ message[3 * Lines + 2] = "cr"
        /\ message[3 * Lines + 3] = "lf"
    <3>1. Lines \in 0 .. Fields
      BY <1>2, <1>4, HttpParserAssumption
    <3> QED
      BY <1>3, <3>1, MessageIs
  <2>2. /\ Len(buf) >= pos + 1 => buf[pos + 1] # "lf"
        /\ Len(buf) >= pos + 2 => buf[pos + 2] # "lf"
        /\ Len(buf) >= pos + 3 => buf[pos + 3] = "lf"
    BY <1>2, <1>3, <2>1
  <2> DEFINE lfs == {i \in pos + 1 .. Len(buf) : buf[i] = "lf"}
  <2>3. CASE Len(buf) >= pos + 3
    <3>1. pos + 3 \in lfs /\ \A j \in lfs : pos + 3 <= j
      BY <1>2, <2>2, <2>3
    <3>2. lfs # {} /\ \A i, j \in lfs : i <= j /\ j <= i => i = j
      BY <1>2, <3>1
    <3> QED
      BY <1>2, <2>3, <3>1, <3>2 DEF LineFeed
  <2>4. CASE Len(buf) < pos + 3
    <3>1. lfs = {}
      BY <1>2, <2>2, <2>4
    <3> QED
      BY <1>2, <2>4, <3>1 DEF LineFeed
  <2> QED
    BY <1>2, <2>3, <2>4
<1>5. ASSUME pos = 3 PROVE LineFeed = 0
  <2>1. Lines <= Fields /\ Lines >= 1
    BY <1>1, <1>2, <1>5 DEF Busy, Turn
  <2>2. SUFFICES ASSUME Len(buf) >= 6 PROVE FALSE
    BY <1>2, <1>4, <1>5, <2>1
  <2> DEFINE l == Lines - 1
  <2>3. l \in 0 .. Fields /\ Gone = 3 * l /\ Lines \in 0 .. Fields
    BY <1>2, <1>5, <2>1, HttpParserAssumption
  <2>4. /\ message[3 * l + 1] # "lf" /\ message[3 * l + 3] = "lf"
        /\ message[3 * Lines + 1] # "lf" /\ message[3 * Lines + 3] = "lf"
    <3>1. \A k \in 0 .. Fields : /\ message[3 * k + 1] # "lf"
                                /\ message[3 * k + 3] = "lf"
      <4>1. SUFFICES ASSUME NEW k \in 0 .. Fields
                     PROVE  message[3 * k + 1] # "lf" /\ message[3 * k + 3] = "lf"
        OBVIOUS
      <4>2. /\ message[3 * k + 1] \in IF k = 0 THEN {"line", "junk"} ELSE {"field", "junk"}
            /\ message[3 * k + 3] = "lf"
        BY <1>3, MessageIs
      <4> QED
        BY <4>2
    <3> HIDE DEF l
    <3> QED
      BY <2>3, <3>1
  <2>5. buf[1] # "lf" /\ buf[3] = "lf" /\ buf[4] # "lf" /\ buf[6] = "lf"
    BY <1>2, <1>3, <1>5, <2>2, <2>3, <2>4, SMTT(30)
  <2> DEFINE ends == {i \in DOMAIN buf : buf[i] = "lf" /\ (i > 2 => buf[i - 2] # "lf")}
  <2>6. ends \subseteq 1 .. Len(buf) /\ {3, 6} \subseteq ends
    BY <1>1, <2>2, <2>5 DEF Shape
  <2>7. IsFiniteSet(ends)
    <3>1. 1 \in Int /\ Len(buf) \in Int
      BY <1>2
    <3>2. IsFiniteSet(1 .. Len(buf)) /\ ends \subseteq 1 .. Len(buf)
      BY <2>6, <3>1, FS_Interval
    <3> HIDE DEF ends
    <3> QED
      BY <3>2, FS_Subset
  <2>8. Cardinality({3, 6}) = 2
    <3>1. IsFiniteSet({3}) /\ Cardinality({3}) = 1 /\ 6 \notin {3} /\ {3} \cup {6} = {3, 6}
      BY FS_Singleton
    <3> QED
      BY <3>1, FS_AddElement
  <2>9. Cardinality({3, 6}) <= Cardinality(ends)
    BY <2>6, <2>7, FS_Subset
  <2>10. ~(Cardinality(ends) > 1)
    BY <1>1 DEF Busy, LineEnds
  <2> QED
    BY <2>7, <2>8, <2>9, <2>10, FS_CardinalityType
<1>6. ASSUME Lines = Fields + 1 PROVE pos = 0 /\ buf[1] = "cr"
  <2>1. pos = 0
    BY <1>1, <1>2, <1>6, HttpParserAssumption DEF Busy, Turn
  <2>2. message[3 * Fields + 4] = "cr" /\ Gone = 3 * Fields + 3
    BY <1>2, <1>3, <1>6, <2>1, HttpParserAssumption, MessageIs
  <2> QED
    BY <1>2, <1>3, <2>1, <2>2, HttpParserAssumption
<1> QED
  BY <1>2, <1>4, <1>5, <1>6

(* The line that is given to a callback: the first bytes of the call, and  *)
(* no junk.                                                                *)
LEMMA LineFound ==
  ASSUME ParserInv, calling, hp_state \in {"NONE", "LINE_DONE"}, LineFeed # 0,
         LineIs("line") \/ LineIs("field")
  PROVE  /\ pos = 0 /\ hp_parsed = 0 /\ LineFeed = 3 /\ Lines \in 0 .. Fields
         /\ Gone = 3 * Lines /\ taken = Gone /\ Len(buf) >= 3
         /\ message[3 * Lines + 1] # "junk"
<1>1. Shape /\ Progress /\ Busy
  BY DEF ParserInv, Stage
<1>2. pos = 0 /\ hp_parsed = 0 /\ Gone = 3 * Lines /\ taken = Gone
  BY AtLine, <1>1 DEF Lines, Gone, Shape
<1>3. Lines \in 0 .. Fields
  BY <1>2, AtLine, HttpParserAssumption DEF LineIs
<1>4. LineFeed = 3 /\ Len(buf) >= 3
  BY <1>2, <1>3, AtLine
<1>5. buf[1] = message[3 * Lines + 1]
  BY <1>1, <1>2, <1>4 DEF Shape
<1> QED
  BY <1>2, <1>3, <1>4, <1>5 DEF LineIs

LEMMA ShapeHeld == Shape => Held
  BY DEF Shape, Held

(* What a return leaves of the bytes.                                      *)
LEMMA Returned ==
  ASSUME Held, NEW rc, Return(rc), hp_parsed' \in 0 .. Len(buf)
  PROVE  /\ buf' \in Seq({"line", "field", "junk", "cr", "lf", "body"})
         /\ Len(buf') = Len(buf) - hp_parsed' /\ Gone' = Gone + hp_parsed'
         /\ message' = message /\ sent' = sent
         /\ \A i \in 1 .. Len(buf') : buf'[i] = message'[Gone' + i]
         /\ taken' = taken + hp_parsed' /\ taken' \in Nat
         /\ result' = rc /\ calling' = FALSE
<1> DEFINE Bytes == {"line", "field", "junk", "cr", "lf", "body"}
           p == hp_parsed'
<1>1. buf' = SubSeq(buf, p + 1, Len(buf)) /\ buf \in Seq(Bytes)
  BY DEF Return, Held
<1>2. /\ Len(buf) \in Nat /\ sent \in Nat /\ Len(buf) <= sent
      /\ taken \in Nat /\ p \in 0 .. Len(buf) /\ p \in Nat
  BY MessageIs DEF Held
<1> HIDE DEF p
<1>3. /\ buf' \in Seq(Bytes) /\ Len(buf') = Len(buf) - p
      /\ \A i \in 1 .. Len(buf') : buf'[i] = buf[p + i]
  <2>1. \A i \in p + 1 .. Len(buf) : buf[i] \in Bytes
    BY <1>1, <1>2
  <2>2. p + 1 \in Int /\ Len(buf) \in Int
    BY <1>2
  <2>3. LET t == SubSeq(buf, p + 1, Len(buf)) IN
        /\ t \in Seq(Bytes)
        /\ Len(t) = IF p + 1 <= Len(buf) THEN Len(buf) - (p + 1) + 1 ELSE 0
        /\ \A i \in 1 .. Len(buf) - (p + 1) + 1 : t[i] = buf[(p + 1) + i - 1]
    <3> HIDE DEF Bytes
    <3> QED
      BY <1>1, <2>1, <2>2, SubSeqProperties
  <2>4. Len(buf') = Len(buf) - p
    BY <1>1, <1>2, <2>3
  <2>5. ASSUME NEW i \in 1 .. Len(buf') PROVE buf'[i] = buf[p + i]
    <3>1. i \in 1 .. Len(buf) - (p + 1) + 1 /\ (p + 1) + i - 1 = p + i
      BY <1>2, <2>4
    <3> QED
      BY <1>1, <2>3, <3>1
  <2> QED
    BY <1>1, <2>3, <2>4, <2>5
<1>4. message' = message /\ sent' = sent /\ Gone' = Gone + p /\ Gone \in Nat
  <2>1. message' = message /\ sent' = sent
    BY DEF Return
  <2>2. Gone' = sent - Len(buf') /\ Gone = sent - Len(buf)
    BY <2>1 DEF Gone
  <2> QED
    BY <1>2, <1>3, <2>1, <2>2
<1>5. \A i \in 1 .. Len(buf') : buf'[i] = message'[Gone' + i]
  <2> TAKE i \in 1 .. Len(buf')
  <2>1. p + i \in 1 .. Len(buf) /\ Gone + p + i = Gone + (p + i)
    BY <1>2, <1>3, <1>4
  <2>2. buf[p + i] = message[Gone + (p + i)]
    BY <2>1 DEF Held
  <2> QED
    BY <1>3, <1>4, <2>1, <2>2
<1>6. taken' = taken + p /\ result' = rc /\ calling' = FALSE
  BY DEF Return, p
<1>7. taken' \in Nat
  BY <1>2, <1>6
<1> QED
  BY <1>3, <1>4, <1>5, <1>6, <1>7 DEF p

(* What a report adds to those before it.                                  *)
LEMMA Reported ==
  ASSUME Shape, Progress, Report, Gone + pos = 3 * Lines, Lines \in 0 .. Fields
  PROVE  /\ reported' \in Seq(Nat) /\ Lines' = Lines + 1 /\ Lines' \in 1 .. Fields + 1
         /\ \A i \in 1 .. Lines' : reported'[i] = 3 * (i - 1)
<1>1. reported' = Append(reported, 3 * Lines) /\ Lines \in Nat /\ reported \in Seq(Nat)
  <2>1. reported' = Append(reported, Gone + pos)
    BY DEF Report, Gone
  <2> QED
    BY <2>1 DEF Progress, Lines
<1>2. 3 * Lines \in Nat
  BY <1>1
<1>3. reported' \in Seq(Nat) /\ Lines' = Lines + 1
  BY <1>1, <1>2 DEF Lines
<1>4. ASSUME NEW i \in 1 .. Lines' PROVE reported'[i] = 3 * (i - 1)
  <2>1. CASE i <= Lines
    BY <1>1, <1>3, <2>1 DEF Progress, Lines
  <2>2. CASE i = Lines + 1
    BY <1>1, <1>3, <2>2 DEF Lines
  <2>3. i <= Lines \/ i = Lines + 1
    BY <1>1, <1>3
  <2> QED
    BY <2>1, <2>2, <2>3
<1> QED
  BY <1>1, <1>3, <1>4, HttpParserAssumption

(* What a call adds to the bytes.                                          *)
LEMMA Called ==
  ASSUME Held, NEW n \in 1 .. Len(message), Call(n)
  PROVE  /\ buf' \in Seq({"line", "field", "junk", "cr", "lf", "body"})
         /\ Len(buf') = Len(buf) + n /\ sent' = sent + n /\ sent' \in 0 .. Len(message)
         /\ Gone' = Gone /\ Len(buf') <= sent'
         /\ \A i \in 1 .. Len(buf') : buf'[i] = message[Gone + i]
<1> DEFINE Bytes == {"line", "field", "junk", "cr", "lf", "body"}
           more == SubSeq(message, sent + 1, sent + n)
<1>1. message \in Seq(Bytes) /\ Len(message) \in Nat
  BY MessageIs DEF Held
<1>2. /\ sent \in Nat /\ buf \in Seq(Bytes) /\ Len(buf) \in Nat /\ Len(buf) <= sent
      /\ n \in Nat /\ n >= 1 /\ sent + n <= Len(message)
  BY <1>1 DEF Held, Call
<1>3. /\ more \in Seq(Bytes) /\ Len(more) = n
      /\ \A i \in 1 .. n : more[i] = message[sent + i]
  BY <1>1, <1>2
<1> HIDE DEF more
<1>4. buf' = buf \o more /\ sent' = sent + n
  BY DEF Call, more
<1>5. /\ buf' \in Seq(Bytes) /\ Len(buf') = Len(buf) + n /\ Gone' = Gone /\ Gone \in Nat
      /\ Gone + Len(buf) = sent
  <2>1. buf' \in Seq(Bytes) /\ Len(buf') = Len(buf) + n
    BY <1>2, <1>3, <1>4
  <2>2. Gone' = sent' - Len(buf') /\ Gone = sent - Len(buf)
    BY DEF Gone
  <2> QED
    BY <1>2, <1>4, <2>1, <2>2
<1>6. \A i \in 1 .. Len(buf') : buf'[i] = message[Gone + i]
  <2> TAKE i \in 1 .. Len(buf')
  <2>1. CASE i <= Len(buf)
    BY <1>2, <1>3, <1>4, <1>5, <2>1 DEF Held
  <2>2. CASE i > Len(buf)
    <3> DEFINE j == i - Len(buf)
    <3>1. j \in 1 .. n /\ sent + j = Gone + i
      BY <1>2, <1>5, <2>2
    <3>2. buf'[i] = more[j]
      BY <1>2, <1>3, <1>4, <1>5, <2>2
    <3> QED
      BY <1>3, <3>1, <3>2
  <2> QED
    BY <1>2, <1>5, <2>1, <2>2
<1> QED
  BY <1>1, <1>2, <1>4, <1>5, <1>6

LEMMA CallKeeps ==
  ASSUME ~together', ParserInv, NEW n \in 1 .. Len(message), Call(n)
  PROVE  ParserInv'
<1>1. Shape /\ Progress /\ Idle /\ ~calling
  BY DEF ParserInv, Stage, Call
<1>2. /\ buf' \in Seq({"line", "field", "junk", "cr", "lf", "body"})
      /\ Len(buf') = Len(buf) + n /\ sent' = sent + n /\ sent' \in 0 .. Len(message)
      /\ Gone' = Gone /\ Len(buf') <= sent'
      /\ \A i \in 1 .. Len(buf') : buf'[i] = message[Gone + i]
  BY <1>1, ShapeHeld, Called
<1>3. n \in Nat /\ n >= 1 /\ Len(buf) \in Nat
  BY <1>1, MessageIs DEF Shape
<1>7. /\ message' = message /\ hp_state' = hp_state /\ result' = result /\ taken' = taken
      /\ reported' = reported /\ hdr_done' = hdr_done /\ broke' = broke
      /\ pos' = 0 /\ hp_parsed' = 0 /\ calling' = TRUE
  BY DEF Call, hist
<1>8. Shape'
  BY <1>1, <1>2, <1>7 DEF Shape
<1>9. result \in {"none", "AGAIN", "BREAK"} /\ ~(LineEnds(buf') > 1)
  BY DEF Call
<1>10. Progress'
  BY <1>1, <1>7, <1>9 DEF Progress, Lines
<1>11. taken = Gone /\ taken = 3 * Lines + Extra
  BY <1>1, <1>9 DEF Idle
<1>12. Busy'
  <2>1. Turn'
    BY <1>7, <1>11 DEF Turn, Extra, Lines
  <2>2. hp_state # "HDR_DONE"
    BY <1>1, <1>9 DEF Progress
  <2>3. LineEnds(buf)' = LineEnds(buf')
    BY DEF LineEnds
  <2> QED
    BY <1>2, <1>3, <1>7, <1>9, <1>11, <2>1, <2>2, <2>3 DEF Busy
<1> QED
  BY <1>7, <1>8, <1>10, <1>12 DEF ParserInv, Stage

(* A step that reports no line and returns.                                *)
LEMMA QuietKeeps ==
  ASSUME ParserInv, Incomplete \/ BadLine \/ BadField
  PROVE  ParserInv'
<1>1. Shape /\ Progress /\ Busy /\ calling /\ hp_state \in {"NONE", "LINE_DONE"}
  BY DEF ParserInv, Stage, Incomplete, BadLine, BadField
<1>2. /\ pos' = pos /\ hp_state' = hp_state /\ hp_parsed' = hp_parsed
      /\ reported' = reported /\ hdr_done' = hdr_done /\ broke' = broke
  BY DEF Incomplete, BadLine, BadField
<1>3. /\ Gone + pos = 3 * Lines /\ hp_parsed = pos /\ taken = Gone /\ pos \in {0, 3}
      /\ Lines <= Fields => LineFeed = IF Len(buf) >= pos + 3 THEN pos + 3 ELSE 0
  BY <1>1, AtLine
<1>4. hp_parsed' \in 0 .. Len(buf)
  BY <1>1, <1>2, <1>3 DEF Busy, Turn, Shape
<1>5. PICK rc \in {"AGAIN", "ERROR"} :
        Return(rc) /\ (rc = "AGAIN" => LineFeed = 0)
  BY DEF Incomplete, BadLine, BadField
<1>6. /\ buf' \in Seq({"line", "field", "junk", "cr", "lf", "body"})
      /\ Len(buf') = Len(buf) - pos /\ Gone' = Gone + pos
      /\ message' = message /\ sent' = sent
      /\ \A i \in 1 .. Len(buf') : buf'[i] = message'[Gone' + i]
      /\ taken' = taken + pos /\ taken' \in Nat
      /\ result' = rc /\ calling' = FALSE
  BY <1>1, <1>2, <1>3, <1>4, <1>5, ShapeHeld, Returned
<1>7. Shape'
  <2>1. Len(buf') <= sent'
    BY <1>1, <1>3, <1>6 DEF Shape
  <2>2. result' \in {"AGAIN", "ERROR"} /\ hp_parsed' \in 0 .. 3
    BY <1>2, <1>3, <1>5, <1>6
  <2> QED
    BY <1>1, <1>2, <1>6, <2>1, <2>2 DEF Shape
<1>8. Progress'
  BY <1>1, <1>2, <1>6 DEF Progress, Lines
<1>9. ASSUME rc = "AGAIN" PROVE Idle'
  <2>1. Lines <= Fields => Len(buf') < 3
    BY <1>1, <1>3, <1>5, <1>6, <1>9 DEF Shape
  <2>2. Lines' = Lines /\ Extra' = 0 /\ result' = "AGAIN" /\ hp_state' # "HDR_CR"
    BY <1>1, <1>2, <1>6, <1>9 DEF Lines, Extra
  <2>3. taken' = Gone' /\ taken' = 3 * Lines
    BY <1>1, <1>3, <1>6 DEF Shape
  <2> QED
    BY <2>1, <2>2, <2>3, <1>1 DEF Idle, Progress
<1> QED
  BY <1>6, <1>7, <1>8, <1>9 DEF ParserInv, Stage

(* How a call goes on behind a line that was reported.                     *)
GoesOn ==
  /\ GoOn /\ pos' = 3 /\ hp_parsed' = 3 /\ hp_state' = "LINE_DONE"
  /\ Len(buf) > 3 /\ Lines < Fields /\ hdr_done' = hdr_done /\ broke' = broke
Stops ==
  /\ pos' \in {0, 3} /\ hp_parsed' = 3 /\ hp_state' = "LINE_DONE" /\ hdr_done' = hdr_done
  /\ \/ Return("AGAIN") /\ Len(buf) = 3 /\ broke' = broke
     \/ Return("BREAK") /\ broke' = TRUE
BetweenCrLf ==
  /\ Return("AGAIN") /\ pos' = 3 /\ hp_parsed' = 4 /\ hp_state' = "HDR_CR"
  /\ Lines = Fields /\ Len(buf) >= 4 /\ (Len(buf) = 4 \/ message[HeaderEnd] = "junk")
  /\ hdr_done' = hdr_done /\ broke' = broke
BehindBlank ==
  /\ Return("DONE") /\ pos' = 3 /\ hp_parsed' = 5 /\ hp_state' = "HDR_DONE"
  /\ Lines = Fields /\ Len(buf) >= 5 /\ message[HeaderEnd] = "lf"
  /\ hdr_done' = hdr_done + 1 /\ broke' = broke

LEMMA LineTaken ==
  ASSUME ParserInv, FirstLine \/ FieldBreaks \/ Field
  PROVE  /\ calling /\ hp_state \in {"NONE", "LINE_DONE"} /\ Report
         /\ pos = 0 /\ hp_parsed = 0 /\ Lines \in 0 .. Fields
         /\ Gone = 3 * Lines /\ taken = Gone /\ Len(buf) >= 3
         /\ message[3 * Lines + 1] # "junk"
         /\ GoesOn \/ Stops \/ BetweenCrLf \/ BehindBlank
<1>1. Shape /\ Progress
  BY DEF ParserInv
<1>2. /\ calling /\ hp_state \in {"NONE", "LINE_DONE"} /\ LineFeed # 0 /\ Report
      /\ LineIs("line") \/ LineIs("field")
  BY DEF FirstLine, FieldBreaks, Field, FieldIs
<1>3. /\ pos = 0 /\ hp_parsed = 0 /\ LineFeed = 3 /\ Lines \in 0 .. Fields
      /\ Gone = 3 * Lines /\ taken = Gone /\ Len(buf) >= 3
      /\ message[3 * Lines + 1] # "junk"
  BY <1>2, LineFound
<1>4. Fields \in Nat /\ Fields >= 1 /\ Len(buf) \in Nat /\ DOMAIN buf = 1 .. Len(buf)
  BY <1>1, HttpParserAssumption DEF Shape
<1>5. CASE FirstLine
  <2>1. Lines = 0
    BY <1>1, <1>5 DEF FirstLine, Progress
  <2>2. /\ hp_parsed' = 3 /\ pos' = 3 /\ hp_state' = "LINE_DONE" /\ hdr_done' = hdr_done
        /\ \/ broke' = TRUE /\ Return("BREAK")
           \/ broke' = broke /\ IF Len(buf) > 3 THEN GoOn ELSE Return("AGAIN")
    BY <1>3, <1>5 DEF FirstLine
  <2>3. GoesOn \/ Stops
    BY <1>3, <1>4, <2>1, <2>2 DEF GoesOn, Stops
  <2> QED
    BY <1>2, <1>3, <2>3
<1>6. CASE FieldBreaks
  <2>1. /\ hp_parsed' = 3 /\ pos' = 0 /\ hp_state' = "LINE_DONE" /\ hdr_done' = hdr_done
        /\ broke' = TRUE /\ Return("BREAK")
    BY <1>3, <1>6 DEF FieldBreaks
  <2> QED
    BY <1>2, <1>3, <2>1 DEF Stops
<1>7. CASE Field
  <2> DEFINE p == hp_parsed + LineFeed - pos
             a == After(p)
  <2>1. p = 3 /\ a = 3
    BY <1>3 DEF After
  <2>2. /\ pos' = a /\ broke' = broke /\ hp_state = "LINE_DONE"
        /\ \/ /\ a >= Len(buf) /\ hp_parsed' = p /\ UNCHANGED <<hp_state, hdr_done>>
              /\ Return(IF a = Len(buf) THEN "AGAIN" ELSE "OUTSIDE")
           \/ /\ Peek(a + 1) = "cr" /\ Peek(a + 2) # "lf" /\ hp_parsed' = p + 1
              /\ hp_state' = "HDR_CR" /\ Return("AGAIN") /\ UNCHANGED hdr_done
           \/ /\ Peek(a + 1) = "cr" /\ Peek(a + 2) = "lf" /\ hp_parsed' = p + 2
              /\ hp_state' = "HDR_DONE" /\ hdr_done' = hdr_done + 1 /\ Return("DONE")
           \/ /\ a < Len(buf) /\ Peek(a + 1) # "cr" /\ hp_parsed' = p /\ GoOn
              /\ UNCHANGED <<hp_state, hdr_done>>
    BY <1>7, Zenon DEF Field
  <2> HIDE DEF p, a
  <2>3. /\ Len(buf) >= 4 => Peek(4) = message[3 * Lines + 4]
        /\ Len(buf) < 4 => Peek(4) = "none"
        /\ Len(buf) >= 5 => Peek(5) = message[3 * Lines + 5]
        /\ Len(buf) < 5 => Peek(5) = "none"
    BY <1>1, <1>3, <1>4 DEF Shape, Peek
  <2>4. message[3 * Lines + 4] = "cr" <=> Lines = Fields
    <3>1. Lines + 1 \in 0 .. Fields \/ Lines = Fields
      BY <1>3, <1>4
    <3>2. CASE Lines = Fields
      BY <1>1, <3>2, MessageIs DEF Shape
    <3>3. CASE Lines + 1 \in 0 .. Fields
      <4>1. \A l \in 0 .. Fields : message[3 * l + 1] # "cr"
        BY <1>1, MessageIs DEF Shape
      <4>2. message[3 * (Lines + 1) + 1] # "cr"
        BY <3>3, <4>1
      <4>3. 3 * (Lines + 1) + 1 = 3 * Lines + 4
        BY <1>3
      <4> QED
        BY <1>3, <1>4, <3>3, <4>2, <4>3
    <3> QED
      BY <3>1, <3>2, <3>3
  <2>5. Lines = Fields => message[3 * Lines + 5] = message[HeaderEnd]
                          /\ message[HeaderEnd] \in {"lf", "junk"}
    BY <1>1, MessageIs DEF Shape
  <2> HIDE DEF Peek
  <2>6. CASE /\ a >= Len(buf) /\ hp_parsed' = p /\ UNCHANGED <<hp_state, hdr_done>>
             /\ Return(IF a = Len(buf) THEN "AGAIN" ELSE "OUTSIDE")
    <3>1. Len(buf) = 3
      BY <1>3, <1>4, <2>1, <2>6
    <3>2. Return("AGAIN")
      BY <2>1, <2>6, <3>1
    <3> QED
      BY <1>2, <1>3, <2>1, <2>2, <2>6, <3>1, <3>2 DEF Stops
  <2>7. CASE /\ Peek(a + 1) = "cr" /\ Peek(a + 2) # "lf" /\ hp_parsed' = p + 1
             /\ hp_state' = "HDR_CR" /\ Return("AGAIN") /\ UNCHANGED hdr_done
    <3>1. Peek(4) = "cr" /\ Peek(5) # "lf" /\ hp_parsed' = 4
      BY <2>1, <2>7
    <3>2. Len(buf) >= 4 /\ Lines = Fields /\ (Len(buf) = 4 \/ message[HeaderEnd] = "junk")
      BY <1>3, <1>4, <2>3, <2>4, <2>5, <3>1
    <3> QED
      BY <1>2, <1>3, <2>1, <2>2, <2>7, <3>1, <3>2 DEF BetweenCrLf
  <2>8. CASE /\ Peek(a + 1) = "cr" /\ Peek(a + 2) = "lf" /\ hp_parsed' = p + 2
             /\ hp_state' = "HDR_DONE" /\ hdr_done' = hdr_done + 1 /\ Return("DONE")
    <3>1. Peek(4) = "cr" /\ Peek(5) = "lf" /\ hp_parsed' = 5
      BY <2>1, <2>8
    <3>2. Len(buf) >= 5 /\ Lines = Fields /\ message[HeaderEnd] = "lf"
      BY <1>3, <1>4, <2>3, <2>4, <2>5, <3>1
    <3> QED
      BY <1>2, <1>3, <2>1, <2>2, <2>8, <3>1, <3>2 DEF BehindBlank
  <2>9. CASE /\ a < Len(buf) /\ Peek(a + 1) # "cr" /\ hp_parsed' = p /\ GoOn
             /\ UNCHANGED <<hp_state, hdr_done>>
    <3>1. Peek(4) # "cr" /\ Len(buf) > 3
      BY <2>1, <2>9
    <3>2. Lines < Fields
      BY <1>3, <1>4, <2>3, <2>4, <3>1
    <3> QED
      BY <1>2, <1>3, <2>1, <2>2, <2>9, <3>1, <3>2 DEF GoesOn
  <2> QED
    BY <2>2, <2>6, <2>7, <2>8, <2>9
<1> QED
  BY <1>5, <1>6, <1>7

(* A step that reports a line.                                             *)
LEMMA LineKeeps ==
  ASSUME ParserInv, FirstLine \/ FieldBreaks \/ Field
  PROVE  ParserInv'
<1>1. Shape /\ Progress /\ Busy
  BY LineTaken DEF ParserInv, Stage
<1>2. /\ calling /\ hp_state \in {"NONE", "LINE_DONE"} /\ Report
      /\ pos = 0 /\ hp_parsed = 0 /\ Lines \in 0 .. Fields
      /\ Gone = 3 * Lines /\ taken = Gone /\ Len(buf) >= 3
      /\ message[3 * Lines + 1] # "junk"
      /\ GoesOn \/ Stops \/ BetweenCrLf \/ BehindBlank
  BY LineTaken
<1>3. /\ reported' \in Seq(Nat) /\ Lines' = Lines + 1 /\ Lines' \in 1 .. Fields + 1
      /\ \A i \in 1 .. Lines' : reported'[i] = 3 * (i - 1)
  <2>1. Gone + pos = 3 * Lines
    BY <1>2
  <2> QED
    BY <1>1, <1>2, <2>1, Reported
<1>4. Fields \in Nat /\ Fields >= 1 /\ Len(buf) \in Nat /\ Lines \in Nat
  BY <1>1, <1>2, HttpParserAssumption DEF Shape
<1>5. \A l \in 0 .. Lines' - 1 : message[3 * l + 1] # "junk"
  <2>1. \A l \in 0 .. Lines - 1 : message[3 * l + 1] # "junk"
    BY <1>1 DEF Progress
  <2>2. \A l \in 0 .. Lines' - 1 : l \in 0 .. Lines - 1 \/ l = Lines
    BY <1>3, <1>4
  <2> QED
    BY <1>2, <2>1, <2>2
<1>6. result \in {"none", "AGAIN", "BREAK"} /\ hdr_done = 0
  BY <1>1, <1>2 DEF Busy, Progress, Shape
<1>7. CASE GoesOn
  <2>1. /\ calling' = TRUE /\ message' = message /\ sent' = sent /\ buf' = buf
        /\ result' = result /\ taken' = taken
        /\ pos' = 3 /\ hp_parsed' = 3 /\ hp_state' = "LINE_DONE"
        /\ Len(buf) > 3 /\ Lines < Fields /\ hdr_done' = hdr_done /\ broke' = broke
    BY <1>7 DEF GoesOn, GoOn
  <2>2. Gone' = Gone /\ LineEnds(buf)' = LineEnds(buf)
    BY <2>1 DEF Gone, LineEnds
  <2>3. Shape'
    BY <1>1, <2>1, <2>2 DEF Shape
  <2>4. Progress'
    BY <1>1, <1>3, <1>4, <1>5, <1>6, <2>1 DEF Progress
  <2>5. Turn'
    BY <1>2, <1>3, <1>4, <2>1 DEF Turn
  <2>6. Busy'
    BY <1>1, <1>2, <2>1, <2>2, <2>5 DEF Busy
  <2> QED
    BY <2>1, <2>3, <2>4, <2>6 DEF ParserInv, Stage
<1>8. CASE Stops \/ BetweenCrLf \/ BehindBlank
  <2> DEFINE Line(rc) == /\ hp_state' = "LINE_DONE" /\ hp_parsed' = 3 /\ hdr_done' = 0
                         /\ rc # "DONE" /\ (rc = "AGAIN" => Len(buf) = 3)
                         /\ (rc = "BREAK" => broke' = TRUE)
             Cr(rc)   == /\ hp_state' = "HDR_CR" /\ hp_parsed' = 4 /\ hdr_done' = 0
                         /\ rc = "AGAIN" /\ Lines = Fields
                         /\ Len(buf) = 4 \/ message[HeaderEnd] = "junk"
             Done(rc) == /\ hp_state' = "HDR_DONE" /\ hp_parsed' = 5 /\ hdr_done' = 1
                         /\ rc = "DONE" /\ Lines = Fields /\ message[HeaderEnd] = "lf"
             Ends(rc) == /\ Return(rc) /\ pos' \in {0, 3} /\ hp_parsed' <= Len(buf)
                         /\ broke' \in BOOLEAN /\ (Line(rc) \/ Cr(rc) \/ Done(rc))
  <2>1. PICK rc \in {"AGAIN", "BREAK", "DONE"} : Ends(rc)
    <3>0. broke \in BOOLEAN
      BY <1>1 DEF Shape
    <3>1. CASE Stops
      <4>1. CASE Return("AGAIN") /\ Len(buf) = 3 /\ broke' = broke
        <5>1. Ends("AGAIN")
          BY <1>6, <3>0, <3>1, <4>1 DEF Stops
        <5> QED
          BY <5>1
      <4>2. CASE Return("BREAK") /\ broke' = TRUE
        <5>1. Ends("BREAK")
          BY <1>2, <1>4, <1>6, <3>1, <4>2 DEF Stops
        <5> QED
          BY <5>1
      <4> QED
        BY <3>1, <4>1, <4>2 DEF Stops
    <3>2. CASE BetweenCrLf
      <4>1. Ends("AGAIN")
        BY <1>4, <1>6, <3>0, <3>2 DEF BetweenCrLf
      <4> QED
        BY <4>1
    <3>3. CASE BehindBlank
      <4>1. Ends("DONE")
        BY <1>4, <1>6, <3>0, <3>3 DEF BehindBlank
      <4> QED
        BY <4>1
    <3> QED
      BY <1>8, <3>1, <3>2, <3>3
  <2>2. hp_parsed' \in 0 .. Len(buf)
    BY <1>4, <2>1
  <2>3. /\ buf' \in Seq({"line", "field", "junk", "cr", "lf", "body"})
        /\ Len(buf') = Len(buf) - hp_parsed' /\ Gone' = Gone + hp_parsed'
        /\ message' = message /\ sent' = sent
        /\ \A i \in 1 .. Len(buf') : buf'[i] = message'[Gone' + i]
        /\ taken' = taken + hp_parsed' /\ taken' \in Nat
        /\ result' = rc /\ calling' = FALSE
    BY <1>1, <2>1, <2>2, ShapeHeld, Returned
  <2>4. Shape'
    <3>1. Len(buf') <= sent'
      BY <1>1, <2>1, <2>3 DEF Shape
    <3>2. /\ broke' \in BOOLEAN /\ hdr_done' \in 0 .. 1 /\ pos' \in 0 .. 3
          /\ hp_parsed' \in 0 .. 5 /\ hp_state' \in {"NONE", "LINE_DONE", "HDR_CR", "HDR_DONE"}
      BY <2>1
    <3>3. result' \in {"none", "AGAIN", "BREAK", "ERROR", "DONE"}
      BY <2>3
    <3> QED
      BY <1>1, <2>3, <3>1, <3>2, <3>3 DEF Shape
  <2>5. Progress'
    <3>1. HeaderEnd' = HeaderEnd /\ calling' = FALSE
      BY <2>3 DEF HeaderEnd
    <3>2. /\ hp_state' \in {"HDR_CR", "HDR_DONE"} => Lines' = Fields + 1
          /\ hp_state' = "HDR_DONE" => message[HeaderEnd] = "lf"
          /\ hdr_done' = 1 => hp_state' = "HDR_DONE"
          /\ hp_state' # "NONE"
      BY <1>3, <2>1
    <3>3. (hp_state' = "HDR_DONE" <=> result' = "DONE") /\ (result' = "BREAK" => broke' = TRUE)
      BY <2>1, <2>3
    <3>4. Lines' # 0 /\ Lines' \in 0 .. Fields + 1
      BY <1>3, <1>4
    <3> QED
      BY <1>3, <1>5, <2>3, <3>1, <3>2, <3>3, <3>4 DEF Progress
  <2>6. Idle'
    <3>1. taken' = Gone' /\ result' # "none"
      BY <1>2, <2>3
    <3>2. Extra' = hp_parsed' - 3 /\ hp_parsed' \in Nat
      BY <2>1 DEF Extra
    <3>3. taken' = 3 * Lines' + Extra'
      BY <1>2, <1>3, <1>4, <2>3, <3>2
    <3>4. result' = "AGAIN" /\ hp_state' = "LINE_DONE" => Len(buf') < 3
      <4>1. rc = "AGAIN" /\ hp_state' = "LINE_DONE" => Len(buf) = 3 /\ hp_parsed' = 3
        BY <2>1
      <4>2. Len(buf') = Len(buf) - hp_parsed' /\ result' = rc
        BY <2>3
      <4>3. ASSUME Len(buf) = 3, hp_parsed' = 3 PROVE Len(buf') < 3
        BY <4>2, <4>3
      <4> QED
        BY <4>1, <4>2, <4>3
    <3>5. hp_state' = "HDR_CR" => Len(buf') = 0 \/ message'[HeaderEnd] = "junk"
      BY <1>4, <2>1, <2>3
    <3>6. HeaderEnd' = HeaderEnd /\ hp_state' # "NONE"
      BY <2>1 DEF HeaderEnd
    <3> QED
      BY <3>1, <3>3, <3>4, <3>5, <3>6 DEF Idle
  <2> QED
    BY <2>3, <2>4, <2>5, <2>6 DEF ParserInv, Stage
<1> QED
  BY <1>2, <1>7, <1>8

LEMMA CrKeeps ==
  ASSUME ParserInv, HeaderCr \/ HeaderCrBad
  PROVE  ParserInv'
<1>1. Shape /\ Progress /\ Busy /\ calling /\ hp_state = "HDR_CR" /\ Len(buf) \in Nat
  BY DEF ParserInv, Stage, HeaderCr, HeaderCrBad, Shape
<1>2. /\ Lines = Fields + 1 /\ Extra = 1 /\ pos = 0 /\ hp_parsed = 0 /\ hdr_done = 0
      /\ taken = Gone /\ taken = 3 * Lines + 1 /\ Len(buf) > 0
  BY <1>1 DEF Busy, Turn, Progress, Shape, Extra
<1>3. hp_parsed' = 1 /\ reported' = reported /\ hdr_done' = hdr_done /\ broke' = broke
  BY <1>2 DEF HeaderCr, HeaderCrBad
<1>4. PICK rc \in {"DONE", "ERROR"} :
        /\ Return(rc)
        /\ rc = "DONE" => buf[1] = "lf" /\ hp_state' = "HDR_DONE" /\ pos' = 1
        /\ rc = "ERROR" => hp_state' = "HDR_CR" /\ pos' = 0
  BY <1>1, <1>2 DEF HeaderCr, HeaderCrBad
<1>5. /\ buf' \in Seq({"line", "field", "junk", "cr", "lf", "body"})
      /\ Len(buf') = Len(buf) - 1 /\ Gone' = Gone + 1
      /\ message' = message /\ sent' = sent
      /\ \A i \in 1 .. Len(buf') : buf'[i] = message'[Gone' + i]
      /\ taken' = taken + 1 /\ taken' \in Nat
      /\ result' = rc /\ calling' = FALSE
  <2>1. hp_parsed' \in 0 .. Len(buf)
    BY <1>1, <1>2, <1>3
  <2> QED
    BY <1>1, <1>3, <1>4, <2>1, ShapeHeld, Returned
<1>6. Shape'
  <2>1. Len(buf') <= sent'
    BY <1>1, <1>5 DEF Shape
  <2>2. /\ broke' \in BOOLEAN /\ hdr_done' \in 0 .. 1 /\ pos' \in 0 .. 3
        /\ hp_parsed' \in 0 .. 5 /\ result' \in {"none", "AGAIN", "BREAK", "ERROR", "DONE"}
        /\ hp_state' \in {"NONE", "LINE_DONE", "HDR_CR", "HDR_DONE"}
    BY <1>1, <1>3, <1>4, <1>5 DEF Shape
  <2> QED
    BY <1>1, <1>5, <2>1, <2>2 DEF Shape
<1>7. buf[1] = "lf" => message[HeaderEnd] = "lf"
  <2>1. buf[1] = message[Gone + 1]
    BY <1>1, <1>2 DEF Shape
  <2>2. Gone + 1 = HeaderEnd
    BY <1>2, HttpParserAssumption DEF HeaderEnd
  <2> QED
    BY <2>1, <2>2
<1>8. Lines' = Lines /\ HeaderEnd' = HeaderEnd
  BY <1>3 DEF Lines, HeaderEnd
<1>9. Progress'
  <2>1. result' # "BREAK" /\ hdr_done' # 1 /\ Lines # 0
    BY <1>2, <1>3, <1>4, <1>5, HttpParserAssumption
  <2>2. hp_state' = "HDR_DONE" <=> result' = "DONE"
    BY <1>4, <1>5
  <2>3. hp_state' = "HDR_DONE" => message[HeaderEnd] = "lf"
    BY <1>4, <1>7
  <2>4. hp_state' \in {"HDR_CR", "HDR_DONE"} /\ calling' = FALSE
    BY <1>4, <1>5
  <2> QED
    BY <1>1, <1>2, <1>3, <1>5, <1>8, <2>1, <2>2, <2>3, <2>4 DEF Progress
<1>10. ASSUME rc = "DONE" PROVE Idle'
  <2>1. hp_state' = "HDR_DONE" /\ Extra' = 2 /\ result' = "DONE"
    BY <1>4, <1>5, <1>10 DEF Extra
  <2>2. taken' = Gone'
    <3>1. taken' = taken + 1 /\ Gone' = Gone + 1 /\ taken = Gone
      BY <1>2, <1>5
    <3> QED
      BY <3>1
  <2>3. taken' = 3 * Lines + 2
    <3>1. taken' = taken + 1 /\ taken = 3 * Lines + 1 /\ Lines = Fields + 1
      BY <1>2, <1>5
    <3>2. Lines \in Nat
      BY <3>1, HttpParserAssumption
    <3> QED
      BY <3>1, <3>2
  <2>4. taken' = 3 * Lines' + Extra'
    BY <1>8, <2>1, <2>3
  <2> QED
    BY <2>1, <2>2, <2>4 DEF Idle
<1> QED
  BY <1>4, <1>5, <1>6, <1>9, <1>10 DEF ParserInv, Stage

(* The parser's invariant, as far as no call was given more than one line  *)
(* end.                                                                    *)
LEMMA ParserBegins == Init => ParserInv
<1> SUFFICES ASSUME Init PROVE ParserInv
  OBVIOUS
<1>1. message \in Messages /\ Len(message) \in Nat /\ sent = 0 /\ pos = 0 /\ hp_parsed = 0
      /\ hp_state = "NONE" /\ result = "none" /\ taken = 0 /\ hdr_done = 0
  BY MessageIs DEF Init
<1>2. calling = FALSE /\ broke = FALSE
  BY DEF Init
<1>3. /\ Len(buf) = 0 /\ buf \in Seq({"line", "field", "junk", "cr", "lf", "body"})
      /\ Len(reported) = 0 /\ reported \in Seq(Nat)
  BY DEF Init
<1>4. Gone = 0 /\ Lines = 0 /\ Extra = 0
  BY <1>1, <1>3 DEF Gone, Lines, Extra
<1>5. Shape
  <2>1. Len(buf) <= sent /\ sent \in 0 .. Len(message)
    BY <1>1, <1>3
  <2>2. \A i \in 1 .. Len(buf) : buf[i] = message[Gone + i]
    BY <1>3
  <2>3. pos \in 0 .. 3 /\ hp_parsed \in 0 .. 5 /\ hdr_done \in 0 .. 1 /\ taken \in Nat
    BY <1>1
  <2>4. calling \in BOOLEAN /\ broke \in BOOLEAN
    BY <1>2
  <2> QED
    BY <1>1, <1>3, <2>1, <2>2, <2>3, <2>4 DEF Shape
<1>6. Progress
  BY <1>1, <1>2, <1>3, <1>4, HttpParserAssumption DEF Progress
<1>7. Idle
  BY <1>1, <1>4 DEF Idle
<1> QED
  BY <1>2, <1>5, <1>6, <1>7 DEF ParserInv, Stage

LEMMA ParserGoesOn ==
  ASSUME ~together', ParserInv, [Next]_vars
  PROVE  ParserInv'
<1>1. CASE \E n \in 1 .. Len(message) : Call(n)
  BY <1>1, CallKeeps
<1>2. CASE Incomplete \/ BadLine \/ BadField
  BY <1>2, QuietKeeps
<1>3. CASE FirstLine \/ FieldBreaks \/ Field
  BY <1>3, LineKeeps
<1>4. CASE HeaderCr \/ HeaderCrBad
  BY <1>4, CrKeeps
<1>5. CASE Terminated \/ UNCHANGED vars
  <2>1. UNCHANGED <<message, sent, buf, pos, calling, hp_state, hp_parsed, result,
                    taken, reported, hdr_done, broke>>
    BY <1>5 DEF Terminated, vars, hist
  <2>2. /\ Lines' = Lines /\ Gone' = Gone /\ Extra' = Extra /\ HeaderEnd' = HeaderEnd
        /\ LineEnds(buf)' = LineEnds(buf)
    BY <2>1 DEF Lines, Gone, Extra, HeaderEnd, LineEnds
  <2>3. (Shape <=> Shape') /\ (Progress <=> Progress')
    BY <2>1, <2>2 DEF Shape, Progress
  <2>4. (Busy <=> Busy') /\ (Idle <=> Idle')
    BY <2>1, <2>2 DEF Busy, Turn, Idle
  <2> QED
    BY <2>1, <2>3, <2>4 DEF ParserInv, Stage
<1> QED
  BY <1>1, <1>2, <1>3, <1>4, <1>5 DEF Next

(* A text is followed by the end of its line, wherever it is.              *)
LEMMA TextAt ==
  ASSUME NEW m \in Messages, NEW i \in 1 .. Len(m), m[i] \in {"line", "field"}
  PROVE  /\ i <= 3 * Fields + 1 /\ m[i + 1] = "cr" /\ m[i + 2] = "lf"
<1>1. /\ Fields \in Nat /\ Len(m) = 3 * Fields + 6
      /\ \A l \in 0 .. Fields : m[3 * l + 2] = "cr" /\ m[3 * l + 3] = "lf"
      /\ m[3 * Fields + 4] = "cr" /\ m[3 * Fields + 5] \in {"lf", "junk"}
      /\ m[3 * Fields + 6] = "body"
  BY MessageIs
<1>2. i \in 1 .. 3 * Fields + 6
  BY <1>1
<1>3. i <= 3 * Fields + 3
  BY <1>1, <1>2
<1> DEFINE k == (i - 1) \div 3
<1>4. \A j \in Nat : j \div 3 \in Nat /\ j - 3 * (j \div 3) \in 0 .. 2
  OBVIOUS
<1>5. k \in Nat /\ (i - 1) - 3 * k \in 0 .. 2
  BY <1>2, <1>4
<1> HIDE DEF k
<1>6. k \in 0 .. Fields /\ i \in {3 * k + 1, 3 * k + 2, 3 * k + 3}
  BY <1>1, <1>2, <1>3, <1>5
<1>7. i = 3 * k + 1
  BY <1>1, <1>6
<1>8. i + 1 = 3 * k + 2 /\ i + 2 = 3 * k + 3 /\ i <= 3 * Fields + 1
  BY <1>1, <1>6, <1>7
<1> QED
  BY <1>1, <1>6, <1>8

(* The line a callback is given is three bytes long and lies behind all    *)
(* that this call has counted.                                             *)
LEMMA WideLine ==
  ASSUME WideInv, calling, LineFeed # 0, LineIs("line") \/ LineIs("field")
  PROVE  /\ LineFeed = pos + 3 /\ LineFeed <= Len(buf) /\ pos \in Nat /\ hp_parsed \in Nat
         /\ Gone + pos <= 3 * Fields /\ Gone \in Nat
<1>1. Held /\ Types /\ Counted
  BY DEF WideInv
<1>2. /\ message \in Messages /\ Len(message) = 3 * Fields + 6 /\ Fields \in Nat
      /\ sent \in 0 .. Len(message) /\ Len(buf) \in Nat /\ Gone \in Nat /\ Gone + Len(buf) = sent
  BY <1>1, MessageIs DEF Held, Gone
<1>3. pos \in Nat /\ hp_parsed \in Nat /\ pos < Len(buf)
  BY <1>1, HttpParserAssumption DEF Counted, HeaderEnd
<1>4. Gone + pos + 1 \in 1 .. Len(message) /\ buf[pos + 1] = message[Gone + pos + 1]
  <2>1. pos + 1 \in 1 .. Len(buf) /\ Gone + (pos + 1) = Gone + pos + 1
    BY <1>2, <1>3
  <2>2. buf[pos + 1] = message[Gone + (pos + 1)]
    BY <1>1, <2>1 DEF Held
  <2> QED
    BY <1>2, <2>1, <2>2
<1> DEFINE i == Gone + pos + 1
<1>5. i <= 3 * Fields + 1 /\ message[i + 1] = "cr" /\ message[i + 2] = "lf"
  <2>1. message[i] \in {"line", "field"}
    BY <1>4 DEF LineIs
  <2> HIDE DEF i
  <2>2. i \in 1 .. Len(message)
    BY <1>4 DEF i
  <2> QED
    BY <1>2, <2>1, <2>2, TextAt
<1>6. /\ buf[pos + 1] # "lf"
      /\ Len(buf) >= pos + 2 => buf[pos + 2] = "cr"
      /\ Len(buf) >= pos + 3 => buf[pos + 3] = "lf"
  <2>1. ASSUME NEW j \in 1 .. Len(buf) PROVE buf[j] = message[Gone + j]
    BY <1>1 DEF Held
  <2>2. /\ Gone + (pos + 2) = i + 1 /\ Gone + (pos + 3) = i + 2
        /\ Len(buf) >= pos + 2 => pos + 2 \in 1 .. Len(buf)
        /\ Len(buf) >= pos + 3 => pos + 3 \in 1 .. Len(buf)
    BY <1>2, <1>3
  <2> HIDE DEF i
  <2> QED
    BY <1>5, <2>1, <2>2 DEF LineIs
<1> DEFINE lfs == {j \in pos + 1 .. Len(buf) : buf[j] = "lf"}
<1>7. \A j \in lfs : pos + 3 <= j
  BY <1>2, <1>3, <1>6
<1>8. lfs # {}
  BY DEF LineFeed
<1>9. pos + 3 \in lfs /\ Len(buf) >= pos + 3
  BY <1>2, <1>3, <1>6, <1>7, <1>8
<1>10. \A j, l \in lfs : j <= l /\ l <= j => j = l
  BY <1>2, <1>3
<1>11. LineFeed = pos + 3
  BY <1>7, <1>9, <1>10 DEF LineFeed
<1>12. Gone + pos <= 3 * Fields
  BY <1>2, <1>3, <1>5
<1> QED
  BY <1>2, <1>3, <1>9, <1>11, <1>12

LEMMA WideBegins == Init => WideInv
<1> SUFFICES ASSUME Init PROVE WideInv
  OBVIOUS
<1>1. message \in Messages /\ Len(message) \in Nat /\ sent = 0 /\ pos = 0 /\ hp_parsed = 0
      /\ hp_state = "NONE" /\ result = "none" /\ taken = 0 /\ hdr_done = 0
      /\ calling = FALSE /\ broke = FALSE /\ together = FALSE /\ apart = FALSE
  BY MessageIs DEF Init
<1>2. /\ Len(buf) = 0 /\ buf \in Seq({"line", "field", "junk", "cr", "lf", "body"})
      /\ Len(reported) = 0 /\ reported \in Seq(Nat)
  BY DEF Init
<1>3. Gone = 0 /\ Lines = 0 /\ Extra = 0
  BY <1>1, <1>2 DEF Gone, Lines, Extra
<1>4. Held
  BY <1>1, <1>2 DEF Held
<1>5. Types
  <2>1. /\ calling \in BOOLEAN /\ broke \in BOOLEAN /\ together \in BOOLEAN
        /\ apart \in BOOLEAN
    BY <1>1
  <2>2. hdr_done \in 0 .. 1 /\ hp_state \in {"NONE"} /\ result \in {"none"}
    BY <1>1
  <2> QED
    BY <1>2, <2>1, <2>2 DEF Types
<1>6. Counted
  BY <1>1, <1>3, HttpParserAssumption DEF Counted, HeaderEnd
<1> QED
  BY <1>4, <1>5, <1>6 DEF WideInv

LEMMA WideCall ==
  ASSUME WideInv, NEW n \in 1 .. Len(message), Call(n)
  PROVE  WideInv'
<1>1. Held /\ Types /\ Counted
  BY DEF WideInv
<1>2. /\ buf' \in Seq({"line", "field", "junk", "cr", "lf", "body"})
      /\ Len(buf') = Len(buf) + n /\ sent' \in 0 .. Len(message)
      /\ Gone' = Gone /\ Len(buf') <= sent'
      /\ \A i \in 1 .. Len(buf') : buf'[i] = message[Gone + i]
  BY <1>1, Called
<1>3. Len(buf) \in Nat /\ n >= 1 /\ n \in Nat
  BY <1>1, MessageIs DEF Held
<1>4. /\ message' = message /\ hp_state' = hp_state /\ result' = result /\ taken' = taken
      /\ reported' = reported /\ hdr_done' = hdr_done /\ broke' = broke
      /\ pos' = 0 /\ hp_parsed' = 0 /\ calling' = TRUE
  BY DEF Call, hist
<1>5. together' \in BOOLEAN /\ apart' \in BOOLEAN
  BY DEF Call
<1>6. ~calling /\ result \in {"none", "AGAIN", "BREAK"}
  BY DEF Call
<1>7. Held' /\ Types'
  BY <1>1, <1>2, <1>4, <1>5 DEF Held, Types
<1>8. Lines' = Lines /\ Extra' = Extra /\ HeaderEnd' = HeaderEnd
  BY <1>4 DEF Lines, Extra, HeaderEnd
<1>9. taken = 3 * Lines + Extra /\ hp_state # "HDR_DONE" /\ taken \in Nat
  BY <1>1, <1>6 DEF Counted, Held
<1>10. HeaderEnd \in Nat
  BY HttpParserAssumption DEF HeaderEnd
<1>11. Counted'
  BY <1>1, <1>2, <1>3, <1>4, <1>6, <1>8, <1>9, <1>10 DEF Counted
<1> QED
  BY <1>7, <1>11 DEF WideInv

(* A return, given what it counts.                                         *)
LEMMA WideReturn ==
  ASSUME WideInv, calling, NEW rc \in {"AGAIN", "BREAK", "ERROR", "DONE", "OUTSIDE"}, Return(rc),
         hp_parsed' \in 0 .. Len(buf), hp_parsed' <= HeaderEnd, pos' \in 0 .. 2 * HeaderEnd,
         hdr_done' \in 0 .. 1, hdr_done' = 1 => hp_state' = "HDR_DONE",
         hp_state' \in {"NONE", "LINE_DONE", "HDR_CR", "HDR_DONE"},
         hp_state' = "HDR_DONE" => rc = "DONE", broke' \in BOOLEAN,
         reported' \in Seq(Nat), Lines' <= Fields + 1,
         rc # "ERROR" => taken + hp_parsed' = 3 * Lines' + Extra'
  PROVE  WideInv'
<1>1. Held /\ Types /\ Counted
  BY DEF WideInv
<1>2. /\ buf' \in Seq({"line", "field", "junk", "cr", "lf", "body"})
      /\ Len(buf') = Len(buf) - hp_parsed' /\ Gone' = Gone + hp_parsed'
      /\ message' = message /\ sent' = sent
      /\ \A i \in 1 .. Len(buf') : buf'[i] = message'[Gone' + i]
      /\ taken' = taken + hp_parsed' /\ taken' \in Nat
      /\ result' = rc /\ calling' = FALSE
  BY <1>1, Returned
<1>3. together' = together /\ apart' = apart /\ HeaderEnd' = HeaderEnd
  BY DEF Return, ways, HeaderEnd
<1>4. Len(buf') <= sent'
  BY <1>1, <1>2, SMTT(30) DEF Held
<1>5. Held'
  BY <1>1, <1>2, <1>4 DEF Held
<1>6. Types'
  BY <1>1, <1>2, <1>3 DEF Types
<1>7. HeaderEnd \in Nat /\ taken' = Gone'
  BY <1>1, <1>2, HttpParserAssumption DEF HeaderEnd, Counted
<1>8. Counted'
  <2>1. Lines' <= Fields + 1 /\ pos' \in 0 .. 2 * HeaderEnd' /\ hp_parsed' \in 0 .. HeaderEnd'
    <3>1. hp_parsed' \in Nat /\ HeaderEnd \in Nat
      BY <1>1, <1>7 DEF Held
    <3> QED
      BY <1>3, <3>1
  <2>2. calling' = FALSE /\ result' = rc /\ taken' = taken + hp_parsed'
    BY <1>2
  <2>3. result' # "ERROR" => taken' = 3 * Lines' + Extra'
    BY <2>2
  <2>4. result' \in {"none", "AGAIN", "BREAK"} => hp_state' # "HDR_DONE"
    BY <2>2
  <2> QED
    BY <1>7, <2>1, <2>2, <2>3, <2>4 DEF Counted
<1> QED
  BY <1>5, <1>6, <1>8 DEF WideInv

LEMMA WideQuiet ==
  ASSUME WideInv, Incomplete \/ BadLine \/ BadField
  PROVE  WideInv'
<1>1. Held /\ Types /\ Counted /\ calling /\ hp_state \in {"NONE", "LINE_DONE"}
  BY DEF WideInv, Incomplete, BadLine, BadField
<1>2. /\ pos' = pos /\ hp_state' = hp_state /\ hp_parsed' = hp_parsed
      /\ reported' = reported /\ hdr_done' = hdr_done /\ broke' = broke
  BY DEF Incomplete, BadLine, BadField
<1>3. PICK rc \in {"AGAIN", "ERROR"} : Return(rc)
  BY DEF Incomplete, BadLine, BadField
<1>4. Lines' = Lines /\ Extra' = Extra /\ Len(buf) \in Nat
  BY <1>1, <1>2 DEF Lines, Extra, Held
<1>5. /\ hp_parsed' \in 0 .. Len(buf) /\ hp_parsed' <= HeaderEnd /\ pos' \in 0 .. 2 * HeaderEnd
      /\ taken + hp_parsed' = 3 * Lines' + Extra' /\ Lines' <= Fields + 1
      /\ hdr_done' = 1 => hp_state' = "HDR_DONE"
  BY <1>1, <1>2, <1>4, HttpParserAssumption DEF Counted, HeaderEnd
<1>6. /\ hdr_done' \in 0 .. 1 /\ hp_state' \in {"NONE", "LINE_DONE"} /\ broke' \in BOOLEAN
      /\ reported' \in Seq(Nat)
  BY <1>1, <1>2 DEF Types
<1> QED
  BY <1>1, <1>3, <1>5, <1>6, WideReturn

LEMMA WideCr ==
  ASSUME WideInv, HeaderCr \/ HeaderCrBad
  PROVE  WideInv'
<1>1. Held /\ Types /\ Counted /\ calling /\ hp_state = "HDR_CR"
  BY DEF WideInv, HeaderCr, HeaderCrBad
<1>2. /\ pos = 0 /\ hp_parsed = 0 /\ hdr_done = 0 /\ Len(buf) \in Nat /\ Len(buf) > 0
      /\ taken = 3 * Lines + 1 /\ taken \in Nat /\ Lines <= Fields + 1 /\ HeaderEnd \in Nat
      /\ HeaderEnd >= 1 /\ Lines \in Nat
  BY <1>1, HttpParserAssumption, SMTT(30) DEF Counted, Types, Held, Extra, HeaderEnd, Lines
<1>3. /\ reported' = reported /\ hdr_done' = hdr_done /\ broke' = broke /\ hp_parsed' = 1
  BY <1>2 DEF HeaderCr, HeaderCrBad
<1>4. PICK rc \in {"DONE", "ERROR"} :
        /\ Return(rc) /\ pos' \in {0, 1}
        /\ rc = "DONE" => hp_state' = "HDR_DONE"
        /\ rc = "ERROR" => hp_state' = "HDR_CR"
  BY <1>1, <1>2 DEF HeaderCr, HeaderCrBad
<1>5. Lines' = Lines /\ (rc = "DONE" => Extra' = 2)
  BY <1>3, <1>4 DEF Lines, Extra
<1>6. /\ hp_parsed' \in 0 .. Len(buf) /\ hp_parsed' <= HeaderEnd /\ pos' \in 0 .. 2 * HeaderEnd
      /\ rc # "ERROR" => taken + hp_parsed' = 3 * Lines' + Extra'
  BY <1>2, <1>3, <1>4, <1>5
<1>7. /\ hdr_done' \in 0 .. 1 /\ hdr_done' # 1 /\ broke' \in BOOLEAN /\ reported' \in Seq(Nat)
      /\ hp_state' \in {"HDR_CR", "HDR_DONE"} /\ (hp_state' = "HDR_DONE" => rc = "DONE")
  BY <1>1, <1>2, <1>3, <1>4 DEF Types
<1> QED
  BY <1>1, <1>2, <1>4, <1>5, <1>6, <1>7, WideReturn

(* What a step that reports a line counts; only a recognised blank line    *)
(* adds more than the line.                                                *)
LEMMA WideTaken ==
  ASSUME WideInv, FirstLine \/ FieldBreaks \/ Field
  PROVE  /\ Held /\ Types /\ Counted /\ calling
         /\ reported' \in Seq(Nat) /\ Lines' = Lines + 1 /\ Lines \in Nat /\ Lines' <= Fields + 1
         /\ LET p == hp_parsed + 3 IN
            /\ p \in Nat /\ p <= Len(buf) /\ p <= HeaderEnd - 2 /\ p <= LineFeed
            /\ LineFeed = pos + 3 /\ pos \in Nat /\ pos <= HeaderEnd - 5
            /\ taken + p = 3 * Lines' /\ hdr_done = 0 /\ hp_state \in {"NONE", "LINE_DONE"}
<1>1. Held /\ Types /\ Counted /\ calling /\ hp_state \in {"NONE", "LINE_DONE"} /\ Report
      /\ LineFeed # 0 /\ (LineIs("line") \/ LineIs("field"))
  BY DEF WideInv, FirstLine, FieldBreaks, Field, FieldIs
<1>2. /\ LineFeed = pos + 3 /\ LineFeed <= Len(buf) /\ pos \in Nat /\ hp_parsed \in Nat
      /\ Gone + pos <= 3 * Fields /\ Gone \in Nat
  BY <1>1, WideLine
<1>3. /\ reported \in Seq(Nat) /\ Lines \in Nat /\ Fields \in Nat /\ HeaderEnd = 3 * Fields + 5
      /\ Len(buf) \in Nat
  BY <1>1, HttpParserAssumption DEF Types, Lines, HeaderEnd, Held
<1>4. reported' \in Seq(Nat) /\ Lines' = Lines + 1
  <2>1. reported' = Append(reported, Gone + pos) /\ Gone + pos \in Nat
    BY <1>1, <1>2 DEF Report, Gone
  <2> QED
    BY <1>3, <2>1 DEF Lines
<1>5. Extra = 0 /\ taken = Gone /\ hp_parsed <= pos /\ taken + hp_parsed = 3 * Lines
      /\ hdr_done = 0
  BY <1>1, <1>3 DEF Counted, Extra, Types
<1>6. taken + (hp_parsed + 3) = 3 * (Lines + 1)
  BY <1>2, <1>3, <1>5
<1>7. Lines + 1 <= Fields + 1
  BY <1>2, <1>3, <1>5, <1>6
<1> QED
  BY <1>1, <1>2, <1>3, <1>4, <1>5, <1>6, <1>7

(* The same call goes on behind the line.                                  *)
LEMMA WideOn ==
  ASSUME WideInv, FirstLine \/ FieldBreaks \/ Field, GoOn, hp_state' = "LINE_DONE",
         hp_parsed' = hp_parsed + 3, pos' \in 0 .. 2 * HeaderEnd, hp_parsed' <= pos',
         pos' < Len(buf), hdr_done' = hdr_done, broke' = broke
  PROVE  WideInv'
<1>1. /\ Held /\ Types /\ Counted /\ reported' \in Seq(Nat) /\ Lines' <= Fields + 1
      /\ hp_parsed' \in 0 .. HeaderEnd /\ taken + hp_parsed' = 3 * Lines' /\ hdr_done = 0
      /\ Lines' \in Nat
  BY WideTaken, HttpParserAssumption DEF HeaderEnd
<1>2. /\ message' = message /\ sent' = sent /\ buf' = buf /\ result' = result /\ taken' = taken
      /\ together' = together /\ apart' = apart /\ calling' = TRUE
  BY DEF GoOn, ways
<1>3. Gone' = Gone /\ Extra' = 0 /\ HeaderEnd' = HeaderEnd
  BY <1>2 DEF Gone, Extra, HeaderEnd
<1>4. Held' /\ Types'
  BY <1>1, <1>2, <1>3 DEF Held, Types
<1>5. taken' + hp_parsed' = 3 * Lines' + Extra'
  BY <1>1, <1>2, <1>3
<1>6. Counted'
  <2>1. /\ Lines' <= Fields + 1 /\ taken' = Gone'
        /\ pos' \in 0 .. 2 * HeaderEnd' /\ hp_parsed' \in 0 .. HeaderEnd'
    BY <1>1, <1>2, <1>3 DEF Counted
  <2>2. hdr_done' # 1 /\ hp_state' = "LINE_DONE" /\ calling'
    BY <1>1, <1>2
  <2>3. pos' < Len(buf') /\ hp_parsed' <= pos'
    BY <1>2
  <2> QED
    BY <1>5, <2>1, <2>2, <2>3 DEF Counted
<1> QED
  BY <1>4, <1>6 DEF WideInv

(* The call ends behind the line, or in or behind the blank line.          *)
LEMMA WideStop ==
  ASSUME WideInv, FirstLine \/ FieldBreaks \/ Field,
         NEW rc \in {"AGAIN", "BREAK", "DONE", "OUTSIDE"}, Return(rc),
         NEW more \in 0 .. 2, hp_parsed' = hp_parsed + 3 + more, hp_parsed' <= Len(buf),
         pos' \in 0 .. 2 * HeaderEnd, broke' \in BOOLEAN,
         \/ more = 0 /\ hp_state' = "LINE_DONE" /\ hdr_done' = hdr_done
         \/ more = 1 /\ hp_state' = "HDR_CR" /\ hdr_done' = hdr_done
         \/ more = 2 /\ hp_state' = "HDR_DONE" /\ hdr_done' = hdr_done + 1 /\ rc = "DONE"
  PROVE  WideInv'
<1>1. /\ Held /\ Types /\ Counted /\ calling /\ reported' \in Seq(Nat) /\ Lines' <= Fields + 1
      /\ hp_parsed + 3 \in Nat /\ hp_parsed + 3 <= HeaderEnd - 2 /\ hdr_done = 0
      /\ taken + (hp_parsed + 3) = 3 * Lines' /\ Lines' \in Nat
  BY WideTaken, SMTT(30)
<1>2. Extra' = more
  BY DEF Extra
<1>3. taken \in Nat /\ HeaderEnd \in Nat /\ Len(buf) \in Nat
  BY <1>1, HttpParserAssumption DEF Held, HeaderEnd
<1>4. /\ hp_parsed' \in 0 .. Len(buf) /\ hp_parsed' <= HeaderEnd
      /\ taken + hp_parsed' = 3 * Lines' + Extra'
  <2>1. PICK n \in Nat : n = hp_parsed + 3 /\ n <= HeaderEnd - 2 /\ taken + n = 3 * Lines'
    BY <1>1
  <2>2. hp_parsed' = n + more
    BY <2>1
  <2>3. hp_parsed' \in Nat /\ hp_parsed' <= HeaderEnd /\ taken + hp_parsed' = 3 * Lines' + more
    <3>1. PICK k : k = 3 * Lines'
      OBVIOUS
    <3>2. k = taken + n
      BY <2>1, <3>1
    <3>3. more \in Nat /\ more <= 2
      OBVIOUS
    <3>4. taken + (n + more) = k + more
      BY <1>3, <2>1, <3>2, <3>3
    <3>5. n + more \in Nat /\ n + more <= HeaderEnd
      BY <1>3, <2>1, <3>3
    <3> QED
      BY <2>2, <3>1, <3>4, <3>5
  <2>4. hp_parsed' \in 0 .. Len(buf)
    BY <1>3, <2>3
  <2> QED
    BY <1>2, <2>3, <2>4
<1>5. /\ hdr_done' \in 0 .. 1 /\ (hdr_done' = 1 => hp_state' = "HDR_DONE")
      /\ hp_state' \in {"LINE_DONE", "HDR_CR", "HDR_DONE"} /\ (hp_state' = "HDR_DONE" => rc = "DONE")
  BY <1>1
<1> QED
  BY <1>1, <1>4, <1>5, WideReturn

LEMMA WideField ==
  ASSUME WideInv, FirstLine \/ FieldBreaks \/ Field
  PROVE  WideInv'
<1> DEFINE p == hp_parsed + 3
<1>1. /\ Held /\ Types /\ Counted /\ calling /\ p \in Nat /\ p <= Len(buf) /\ p <= HeaderEnd - 2
      /\ p <= LineFeed /\ LineFeed = pos + 3 /\ pos \in Nat /\ pos <= HeaderEnd - 5
      /\ hdr_done = 0
  BY WideTaken
<1>2. broke \in BOOLEAN /\ hp_parsed \in Nat /\ Len(buf) \in Nat /\ HeaderEnd \in Nat
      /\ DOMAIN buf = 1 .. Len(buf)
  BY <1>1, HttpParserAssumption DEF Types, Held, HeaderEnd, Counted
<1>3. CASE FirstLine
  <2>1. pos = 0 /\ hp_parsed = 0
    BY <1>1, <1>2, <1>3 DEF FirstLine, Counted
  <2>2. /\ hp_parsed' = 3 /\ pos' = 3 /\ hp_state' = "LINE_DONE" /\ hdr_done' = hdr_done
        /\ \/ broke' = TRUE /\ Return("BREAK")
           \/ broke' = broke /\ IF Len(buf) > 3 THEN GoOn ELSE Return("AGAIN")
    BY <1>1, <1>3, <2>1 DEF FirstLine
  <2>3. hp_parsed' = hp_parsed + 3 /\ hp_parsed' = hp_parsed + 3 + 0 /\ hp_parsed' <= Len(buf)
        /\ pos' \in 0 .. 2 * HeaderEnd /\ hp_parsed' <= pos'
    BY <1>1, <1>2, <2>1, <2>2
  <2>4. CASE broke' = TRUE /\ Return("BREAK")
    BY <2>2, <2>3, <2>4, <1>3, WideStop
  <2>5. CASE broke' = broke /\ Len(buf) > 3 /\ GoOn
    <3>1. pos' < Len(buf)
      BY <1>2, <2>2, <2>5
    <3> QED
      BY <2>2, <2>3, <2>5, <3>1, <1>3, WideOn
  <2>6. CASE broke' = broke /\ Return("AGAIN")
    BY <1>2, <2>2, <2>3, <2>6, <1>3, WideStop
  <2> QED
    BY <2>2, <2>4, <2>5, <2>6
<1>4. CASE FieldBreaks
  <2>1. /\ hp_parsed' = hp_parsed + LineFeed - pos /\ pos' = pos /\ hp_state' = "LINE_DONE"
        /\ hdr_done' = hdr_done /\ broke' = TRUE /\ Return("BREAK")
    BY <1>4 DEF FieldBreaks
  <2>2. hp_parsed' = hp_parsed + 3 + 0 /\ hp_parsed' <= Len(buf) /\ pos' \in 0 .. 2 * HeaderEnd
    BY <1>1, <1>2, <2>1
  <2> QED
    BY <1>4, <2>1, <2>2, WideStop
<1>5. CASE Field
  <2> DEFINE q == hp_parsed + LineFeed - pos
             a == After(q)
  <2>1. q = p /\ a = pos + p /\ a \in 0 .. 2 * HeaderEnd /\ p <= a
    BY <1>1, <1>2 DEF After
  <2>2. /\ pos' = a /\ broke' = broke /\ hp_state = "LINE_DONE"
        /\ \/ /\ a >= Len(buf) /\ hp_parsed' = q /\ UNCHANGED <<hp_state, hdr_done>>
              /\ Return(IF a = Len(buf) THEN "AGAIN" ELSE "OUTSIDE")
           \/ /\ Peek(a + 1) = "cr" /\ Peek(a + 2) # "lf" /\ hp_parsed' = q + 1
              /\ hp_state' = "HDR_CR" /\ Return("AGAIN") /\ UNCHANGED hdr_done
           \/ /\ Peek(a + 1) = "cr" /\ Peek(a + 2) = "lf" /\ hp_parsed' = q + 2
              /\ hp_state' = "HDR_DONE" /\ hdr_done' = hdr_done + 1 /\ Return("DONE")
           \/ /\ a < Len(buf) /\ Peek(a + 1) # "cr" /\ hp_parsed' = q /\ GoOn
              /\ UNCHANGED <<hp_state, hdr_done>>
    BY <1>5, Zenon DEF Field
  <2> HIDE DEF q, a
  <2>3. \A i \in Nat : Peek(i) \in {"cr", "lf"} => i <= Len(buf)
    BY <1>2 DEF Peek
  <2>4. a + 1 \in Nat /\ a + 2 \in Nat /\ pos' \in 0 .. 2 * HeaderEnd /\ broke' \in BOOLEAN
    BY <1>2, <2>1, <2>2
  <2>5. CASE /\ a >= Len(buf) /\ hp_parsed' = q /\ UNCHANGED <<hp_state, hdr_done>>
             /\ Return(IF a = Len(buf) THEN "AGAIN" ELSE "OUTSIDE")
    <3>1. hp_parsed' = hp_parsed + 3 + 0 /\ hp_parsed' <= Len(buf)
      <4>1. hp_parsed' = q
        BY <2>5
      <4> QED
        BY <1>1, <1>2, <2>1, <4>1
    <3>2. PICK rc \in {"AGAIN", "OUTSIDE"} : Return(rc)
      BY <2>5
    <3>3. hp_state' = "LINE_DONE" /\ hdr_done' = hdr_done
      BY <2>2, <2>5
    <3> QED
      BY <1>5, <2>4, <3>1, <3>2, <3>3, WideStop
  <2>6. CASE /\ Peek(a + 1) = "cr" /\ Peek(a + 2) # "lf" /\ hp_parsed' = q + 1
             /\ hp_state' = "HDR_CR" /\ Return("AGAIN") /\ UNCHANGED hdr_done
    <3>1. hp_parsed' = hp_parsed + 3 + 1 /\ hp_parsed' <= Len(buf)
      BY <1>1, <1>2, <2>1, <2>3, <2>4, <2>6
    <3> QED
      BY <1>5, <2>4, <2>6, <3>1, WideStop
  <2>7. CASE /\ Peek(a + 1) = "cr" /\ Peek(a + 2) = "lf" /\ hp_parsed' = q + 2
             /\ hp_state' = "HDR_DONE" /\ hdr_done' = hdr_done + 1 /\ Return("DONE")
    <3>1. hp_parsed' = hp_parsed + 3 + 2 /\ hp_parsed' <= Len(buf)
      BY <1>1, <1>2, <2>1, <2>3, <2>4, <2>7
    <3> QED
      BY <1>5, <2>4, <2>7, <3>1, WideStop
  <2>8. CASE /\ a < Len(buf) /\ Peek(a + 1) # "cr" /\ hp_parsed' = q /\ GoOn
             /\ UNCHANGED <<hp_state, hdr_done>>
    <3>1. hp_parsed' = hp_parsed + 3 /\ hp_parsed' <= pos' /\ pos' < Len(buf)
          /\ hp_state' = "LINE_DONE" /\ hdr_done' = hdr_done
      BY <1>1, <2>1, <2>2, <2>8
    <3> QED
      BY <1>5, <2>2, <2>4, <2>8, <3>1, WideOn
  <2> QED
    BY <2>2, <2>5, <2>6, <2>7, <2>8
<1> QED
  BY <1>3, <1>4, <1>5

LEMMA WideGoesOn ==
  ASSUME WideInv, [Next]_vars
  PROVE  WideInv'
<1>1. CASE \E n \in 1 .. Len(message) : Call(n)
  BY <1>1, WideCall
<1>2. CASE Incomplete \/ BadLine \/ BadField
  BY <1>2, WideQuiet
<1>3. CASE FirstLine \/ FieldBreaks \/ Field
  BY <1>3, WideField
<1>4. CASE HeaderCr \/ HeaderCrBad
  BY <1>4, WideCr
<1>5. CASE Terminated \/ UNCHANGED vars
  <2>1. UNCHANGED <<message, sent, buf, pos, calling, hp_state, hp_parsed, result,
                    taken, reported, hdr_done, broke, together, apart>>
    BY <1>5 DEF Terminated, vars, hist, ways
  <2>2. Lines' = Lines /\ Gone' = Gone /\ Extra' = Extra /\ HeaderEnd' = HeaderEnd
    BY <2>1 DEF Lines, Gone, Extra, HeaderEnd
  <2>3. (Held <=> Held') /\ (Types <=> Types') /\ (Counted <=> Counted')
    BY <2>1, <2>2 DEF Held, Types, Counted
  <2> QED
    BY <2>3 DEF WideInv
<1> QED
  BY <1>1, <1>2, <1>3, <1>4, <1>5 DEF Next

(* A call that was given more than one line end is not forgotten.          *)
LEMMA TogetherStays == [Next]_vars /\ ~together' => ~together
<1> SUFFICES ASSUME [Next]_vars, ~together' PROVE ~together
  OBVIOUS
<1>1. CASE \E n \in 1 .. Len(message) : Call(n)
  BY <1>1 DEF Call
<1>2. CASE ~ \E n \in 1 .. Len(message) : Call(n)
  BY <1>2 DEF Next, Incomplete, BadLine, FirstLine, BadField, FieldBreaks, Field, HeaderCr,
     HeaderCrBad, Terminated, Return, GoOn, ways, vars
<1> QED
  BY <1>1, <1>2

LEMMA WideReports ==
  ASSUME WideInv, ~together => ParserInv
  PROVE  ParsedIsReported
<1> SUFFICES ASSUME ~calling, result # "ERROR"
             PROVE  taken = 3 * Lines + Extra /\ (~together => InOrder)
  BY DEF ParsedIsReported, Lines, Extra
<1>1. taken = 3 * Lines + Extra
  BY DEF WideInv, Counted
<1>2. ASSUME ~together PROVE InOrder
  <2>1. Progress
    BY <1>2 DEF ParserInv
  <2>2. reported \in Seq(Nat) /\ Lines = Len(reported)
    BY <2>1 DEF Progress, Lines
  <2>3. reported = [i \in 1 .. Lines |-> reported[i]]
    BY <2>2
  <2> QED
    BY <2>1, <2>2, <2>3 DEF Progress, InOrder
<1> QED
  BY <1>1, <1>2

(* The callbacks never change what the parser does: every step of a        *)
(* request in the making is one of the parser's, or leaves it alone.       *)
LEMMA RequestSteps == [RNext]_allvars => [Next]_vars
  BY DEF RNext, RQuiet, RFirstLine, RFieldConn, RFieldBreaks, RField, RLastField, RHeaderCr,
     RTerminated, Next, allvars

THEOREM RequestIsParser == RSpec => Spec
<1>1. RInit => Init
  BY DEF RInit
<1> QED
  BY <1>1, RequestSteps, PTL DEF RSpec, Spec

(* "bytes parsed every time" (plm_http_parser.h:69): for messages with any *)
(* number of fields and bytes that arrive in any portions, the parser says *)
(* it is done with as many bytes as the lines it has reported and what it  *)
(* has recognised of the blank line have; and these are the first lines,   *)
(* once each, as long as no call was given more than one line end.         *)
THEOREM ParsedIsReportedHolds == (Spec => []ParsedIsReported) /\ (RSpec => []ParsedIsReported)
<1> DEFINE Ordered == ~together => ParserInv
<1>1. Init => WideInv /\ Ordered
  BY WideBegins, ParserBegins
<1>2. WideInv /\ Ordered /\ [Next]_vars => (WideInv /\ Ordered)'
  BY WideGoesOn, ParserGoesOn, TogetherStays
<1>3. WideInv /\ Ordered => ParsedIsReported
  BY WideReports
<1> HIDE DEF Ordered
<1>4. Spec => []ParsedIsReported
  BY <1>1, <1>2, <1>3, PTL DEF Spec
<1> QED
  BY <1>4, RequestIsParser, PTL

HasJunk == \E i \in DOMAIN message : message[i] = "junk"

(* Junk can be where a line has its text, or in the blank line.            *)
LEMMA JunkAt ==
  ASSUME NEW m \in Messages, NEW i \in DOMAIN m, m[i] = "junk"
  PROVE  (\E l \in 0 .. Fields : m[3 * l + 1] = "junk") \/ m[HeaderEnd] = "junk"
<1>1. /\ HeaderEnd = 3 * Fields + 5 /\ Fields \in Nat /\ DOMAIN m = 1 .. 3 * Fields + 6
      /\ \A l \in 0 .. Fields : m[3 * l + 2] = "cr" /\ m[3 * l + 3] = "lf"
      /\ m[3 * Fields + 4] = "cr" /\ m[3 * Fields + 6] = "body"
  BY MessageIs
<1>2. i \in 1 .. 3 * Fields + 6
  BY <1>1
<1>3. i <= 3 * Fields + 3 \/ i = 3 * Fields + 5
  BY <1>1, <1>2
<1>4. ASSUME i <= 3 * Fields + 3 PROVE \E l \in 0 .. Fields : m[3 * l + 1] = "junk"
  <2> DEFINE k == (i - 1) \div 3
  <2>1. \A j \in Nat : j \div 3 \in Nat /\ j - 3 * (j \div 3) \in 0 .. 2
    OBVIOUS
  <2>2. i - 1 \in Nat
    BY <1>2
  <2>3. k \in Nat /\ (i - 1) - 3 * k \in 0 .. 2
    BY <2>1, <2>2
  <2> HIDE DEF k
  <2>4. k \in 0 .. Fields /\ i \in {3 * k + 1, 3 * k + 2, 3 * k + 3}
    BY <1>1, <1>2, <1>4, <2>3
  <2>5. i = 3 * k + 1
    BY <1>1, <2>4
  <2> QED
    BY <2>4, <2>5
<1> QED
  BY <1>1, <1>3, <1>4

LEMMA ApartGoesOn ==
  ASSUME ~together', ~apart', ParserInv, ApartInv, [Next]_vars
  PROVE  ApartInv'
<1>0. /\ HeaderEnd' = HeaderEnd /\ HeaderEnd - 2 = 3 * Fields + 3
      /\ Fields \in Nat /\ Fields >= 1
  BY HttpParserAssumption DEF HeaderEnd
<1>a. Shape /\ Progress
  BY DEF ParserInv
<1>1. ASSUME NEW n \in 1 .. Len(message), Call(n) PROVE ApartInv'
  <2>1. sent' # HeaderEnd - 2 /\ result' # "ERROR"
    BY <1>1 DEF Call
  <2>2. hp_state' = hp_state /\ Lines' = Lines /\ broke' = broke
    BY <1>1 DEF Call, hist, Lines
  <2> QED
    BY <1>0, <2>1, <2>2 DEF ApartInv
<1>2. CASE Incomplete \/ BadLine \/ BadField
  <2>1. /\ calling /\ hp_state \in {"NONE", "LINE_DONE"}
        /\ hp_state' = hp_state /\ broke' = broke /\ reported' = reported
        /\ message' = message /\ sent' = sent
    BY <1>2 DEF Incomplete, BadLine, BadField, Return
  <2>2. Lines' = Lines
    BY <2>1 DEF Lines
  <2>3. CASE Incomplete
    <3>1. result' # "ERROR"
      BY <2>3 DEF Incomplete, Return
    <3> QED
      BY <1>0, <2>1, <2>2, <3>1 DEF ApartInv
  <2>4. CASE BadLine \/ BadField
    <3>1. \/ hp_state = "NONE" /\ LineFeed # 0 /\ ~LineIs("line")
          \/ hp_state = "LINE_DONE" /\ LineFeed # 0 /\ ~FieldIs
      BY <2>4 DEF BadLine, BadField
    <3>2. /\ Gone + pos = 3 * Lines /\ pos \in {0, 3} /\ Lines \in 0 .. Fields + 1
          /\ Lines <= Fields => LineFeed = IF Len(buf) >= pos + 3 THEN pos + 3 ELSE 0
          /\ pos = 3 => LineFeed = 0
      BY <2>1, AtLine
    <3>3. broke \/ HasJunk
      <4>1. CASE Lines <= Fields
        <5>1. pos = 0 /\ LineFeed = 3 /\ Len(buf) >= 3
          BY <3>1, <3>2, <4>1
        <5>2. Lines \in 0 .. Fields /\ Gone = 3 * Lines
          <6>1. Gone \in Int
            BY <1>a DEF Gone, Shape
          <6> QED
            BY <1>0, <3>2, <4>1, <5>1, <6>1
        <5>3. buf[1] = message[3 * Lines + 1] /\ buf[2] = message[3 * Lines + 2]
          BY <1>a, <5>1, <5>2 DEF Shape
        <5>4. /\ message[3 * Lines + 2] = "cr"
              /\ message[3 * Lines + 1] \in
                   IF Lines = 0 THEN {"line", "junk"} ELSE {"field", "junk"}
          BY <1>a, <5>2, MessageIs DEF Shape
        <5>5. hp_state = "NONE" <=> Lines = 0
          BY <1>a DEF Progress
        <5>6. buf[1] # IF Lines = 0 THEN "line" ELSE "field"
          BY <3>1, <5>1, <5>3, <5>4, <5>5 DEF LineIs, FieldIs
        <5>7. message[3 * Lines + 1] = "junk"
          BY <5>3, <5>4, <5>6
        <5>8. 3 * Lines + 1 \in DOMAIN message
          <6>1. message \in Messages
            BY <1>a DEF Shape
          <6>2. DOMAIN message = 1 .. 3 * Fields + 6 /\ Fields \in Nat
            BY <6>1, MessageIs
          <6> QED
            BY <5>2, <6>2
        <5> QED
          BY <5>7, <5>8 DEF HasJunk
      <4>2. CASE Lines = Fields + 1
        BY <1>0, <1>a, <2>1, <4>2 DEF ApartInv, Progress
      <4> QED
        BY <1>0, <3>2, <4>1, <4>2
    <3> QED
      BY <1>0, <2>1, <2>2, <3>3 DEF ApartInv, HasJunk
  <2> QED
    BY <1>2, <2>3, <2>4
<1>3. CASE FirstLine \/ FieldBreaks \/ Field
  <2>1. /\ Report /\ pos = 0 /\ Lines \in 0 .. Fields /\ Gone = 3 * Lines
        /\ GoesOn \/ Stops \/ BetweenCrLf \/ BehindBlank
    BY <1>3, LineTaken
  <2>2. Lines' = Lines + 1
    <3>1. Gone + pos = 3 * Lines
      BY <2>1
    <3> QED
      BY <1>a, <2>1, <3>1, Reported
  <2>3. sent' = sent /\ result' # "ERROR"
    <3>1. result # "ERROR"
      BY LineTaken, <1>3 DEF ParserInv, Stage, Busy
    <3> QED
      BY <2>1, <3>1 DEF GoesOn, Stops, BetweenCrLf, BehindBlank, GoOn, Return
  <2>4. hp_state' = "LINE_DONE" /\ Lines' = Fields + 1 => broke'
    <3>1. SUFFICES ASSUME hp_state' = "LINE_DONE", Lines = Fields, ~broke' PROVE FALSE
      BY <1>0, <2>1, <2>2
    <3>2. Len(buf) = 3
      BY <1>0, <2>1, <3>1 DEF GoesOn, Stops, BetweenCrLf, BehindBlank
    <3>3. sent = Gone + 3
      BY <1>a, <3>2 DEF Gone, Shape
    <3> QED
      BY <1>0, <2>1, <3>1, <3>3 DEF ApartInv
  <2> QED
    BY <1>0, <2>3, <2>4 DEF ApartInv
<1>4. CASE HeaderCr \/ HeaderCrBad
  <2>1. /\ calling /\ hp_state = "HDR_CR" /\ hp_state' \in {"HDR_CR", "HDR_DONE"}
        /\ sent' = sent /\ message' = message /\ broke' = broke
        /\ result' = "ERROR" => buf[1] # "lf"
    BY <1>4 DEF HeaderCr, HeaderCrBad, Return
  <2>2. Lines = Fields + 1 /\ Gone = 3 * Lines + 1 /\ Len(buf) > 0 /\ Len(buf) \in Nat
    BY <1>a, <2>1 DEF ParserInv, Stage, Busy, Turn, Progress, Extra, Shape
  <2>3. buf[1] # "lf" => message[HeaderEnd] = "junk"
    <3>1. buf[1] = message[Gone + 1] /\ Gone + 1 = HeaderEnd
      BY <1>0, <1>a, <2>2, HttpParserAssumption DEF Shape, HeaderEnd
    <3>2. message[HeaderEnd] \in {"lf", "junk"}
      BY <1>a, MessageIs DEF Shape
    <3> QED
      BY <3>1, <3>2
  <2>4. HeaderEnd \in DOMAIN message
    BY <1>0, <1>a, MessageIs DEF Shape
  <2> QED
    BY <1>0, <2>1, <2>3, <2>4 DEF ApartInv
<1>5. CASE Terminated \/ UNCHANGED vars
  BY <1>5 DEF Terminated, vars, hist, ApartInv, Lines, HeaderEnd
<1> QED
  BY <1>1, <1>2, <1>3, <1>4, <1>5 DEF Next

(* A message that is done has no junk.                                     *)
LEMMA DoneIsGood ==
  ASSUME ParserInv, result = "DONE"
  PROVE  ~HasJunk
<1>1. Shape /\ Progress
  BY DEF ParserInv
<1>2. /\ Lines = Fields + 1 /\ message[HeaderEnd] = "lf" /\ Fields \in Nat
      /\ \A l \in 0 .. Lines - 1 : message[3 * l + 1] # "junk"
  BY <1>1, HttpParserAssumption DEF Progress
<1>3. \A l \in 0 .. Fields : message[3 * l + 1] # "junk"
  BY <1>2
<1> QED
  BY <1>1, <1>2, <1>3, JunkAt DEF HasJunk, Shape

LEMMA ApartVerdict ==
  ASSUME ParserInv, ApartInv, ~calling, sent = Len(message), ~broke, ~HasJunk
  PROVE  result = "DONE" /\ taken = HeaderEnd /\ Len(reported) = Fields + 1
<1>1. Shape /\ Progress
  BY DEF ParserInv
<1>2. /\ HeaderEnd = 3 * Fields + 5 /\ Fields \in Nat /\ Fields >= 1
      /\ sent = 3 * Fields + 6 /\ HeaderEnd \in DOMAIN message
  BY <1>1, MessageIs DEF Shape
<1>3. Lines \in 0 .. Fields + 1 /\ Len(buf) \in Nat /\ sent = Gone + Len(buf)
  BY <1>1, <1>2 DEF Shape, Progress, Gone
<1>4. result # "ERROR" /\ result # "BREAK" /\ message[HeaderEnd] # "junk"
  BY <1>1, <1>2 DEF ApartInv, HasJunk, Progress
<1>5. Idle
  BY <1>4 DEF ParserInv, Stage
<1>6. result # "none"
  BY <1>2, <1>5 DEF Idle
<1>7. ASSUME result = "AGAIN" PROVE FALSE
  <2>1. Gone = 3 * Lines + Extra
    BY <1>5 DEF Idle
  <2>2. CASE hp_state \in {"NONE", "LINE_DONE"}
    <3>1. Extra = 0
      BY <2>2 DEF Extra
    <3>2. Lines <= Fields
      BY <1>1, <1>2, <1>3, <2>2 DEF ApartInv, Progress
    <3>3. Len(buf) < 3
      BY <1>5, <1>7, <2>2, <3>2 DEF Idle
    <3> QED
      BY <1>2, <1>3, <2>1, <3>1, <3>2, <3>3
  <2>3. CASE hp_state = "HDR_CR"
    <3>1. Extra = 1 /\ Lines = Fields + 1 /\ Len(buf) = 0
      BY <1>1, <1>4, <1>5, <2>3 DEF Extra, Idle, Progress
    <3> QED
      BY <1>2, <1>3, <2>1, <3>1
  <2>4. hp_state # "HDR_DONE"
    BY <1>1, <1>7 DEF Progress
  <2> QED
    BY <1>1, <2>2, <2>3, <2>4 DEF Shape
<1>8. result = "DONE"
  BY <1>1, <1>4, <1>6, <1>7 DEF Shape
<1>9. hp_state = "HDR_DONE" /\ Lines = Fields + 1
  BY <1>1, <1>8 DEF Progress
<1>10. taken = 3 * Lines + 2
  BY <1>5, <1>9 DEF Idle, Extra
<1> QED
  BY <1>2, <1>8, <1>9, <1>10 DEF Lines

(* After a call that ended with the last field, the blank line is taken    *)
(* for a field.                                                            *)
BlankInv ==
  apart /\ ~broke /\ ~HasJunk =>
    \/ sent = HeaderEnd - 2
    \/ ~calling /\ result = "ERROR"
    \/ /\ hp_state = "LINE_DONE" /\ Lines = Fields + 1
       /\ ~calling => sent < HeaderEnd

(* Such a call, if it is no error, has reported all lines.                 *)
LEMMA LastFieldLast ==
  ASSUME ParserInv, ~calling, sent = HeaderEnd - 2, result \in {"none", "AGAIN"}
  PROVE  hp_state = "LINE_DONE" /\ Lines = Fields + 1
<1>1. Shape /\ Progress /\ Idle
  BY DEF ParserInv, Stage
<1>2. /\ Fields \in Nat /\ sent = 3 * Fields + 3 /\ Lines \in 0 .. Fields + 1
      /\ Len(buf) \in Nat /\ sent = Gone + Len(buf) /\ Gone \in Int
  BY <1>1, HttpParserAssumption DEF HeaderEnd, Progress, Shape, Gone
<1>3. result = "AGAIN" /\ Gone = 3 * Lines + Extra
  BY <1>1, <1>2 DEF Idle
<1>4. hp_state \in {"NONE", "LINE_DONE"} /\ Extra = 0
  <2>1. hp_state # "HDR_DONE"
    BY <1>1, <1>3 DEF Progress
  <2>2. ASSUME hp_state = "HDR_CR" PROVE FALSE
    <3>1. Lines = Fields + 1 /\ Extra = 1
      BY <1>1, <2>2 DEF Progress, Extra
    <3> QED
      BY <1>2, <1>3, <3>1
  <2> QED
    BY <1>1, <2>1, <2>2 DEF Shape, Extra
<1>5. ASSUME Lines <= Fields PROVE FALSE
  <2>1. Len(buf) < 3
    BY <1>1, <1>3, <1>4, <1>5 DEF Idle
  <2> QED
    BY <1>2, <1>3, <1>4, <1>5, <2>1
<1>6. Lines = Fields + 1
  BY <1>2, <1>5
<1>7. hp_state # "NONE"
  BY <1>1, <1>2, <1>6 DEF Progress
<1> QED
  BY <1>4, <1>6, <1>7

LEMMA BlankGoesOn ==
  ASSUME ~together', ParserInv, BlankInv, [Next]_vars
  PROVE  BlankInv'
<1>0. HeaderEnd' = HeaderEnd /\ HeaderEnd = 3 * Fields + 5 /\ Fields \in Nat
  BY HttpParserAssumption DEF HeaderEnd
<1>a. Shape /\ Progress /\ sent \in Nat
  BY MessageIs DEF ParserInv, Shape
<1>1. ASSUME NEW n \in 1 .. Len(message), Call(n) PROVE BlankInv'
  <2>1. /\ ~calling /\ result \in {"none", "AGAIN", "BREAK"} /\ message' = message
        /\ calling' = TRUE /\ hp_state' = hp_state /\ Lines' = Lines /\ broke' = broke
        /\ apart' = (apart \/ sent' = HeaderEnd - 2)
    BY <1>1 DEF Call, hist, Lines
  <2>2. HasJunk' = HasJunk
    BY <2>1 DEF HasJunk
  <2>3. SUFFICES ASSUME apart, ~broke, ~HasJunk, sent' # HeaderEnd - 2
                 PROVE  hp_state = "LINE_DONE" /\ Lines = Fields + 1
    BY <1>0, <2>1, <2>2 DEF BlankInv
  <2>4. CASE sent = HeaderEnd - 2
    <3>1. result # "BREAK"
      BY <1>a, <2>3 DEF Progress
    <3> QED
      BY <2>1, <2>4, <3>1, LastFieldLast
  <2> QED
    BY <2>1, <2>3, <2>4 DEF BlankInv
<1>2. CASE Incomplete \/ BadLine \/ BadField
  <2>1. /\ calling /\ hp_state \in {"NONE", "LINE_DONE"} /\ hp_state' = hp_state /\ broke' = broke
        /\ message' = message /\ sent' = sent /\ apart' = apart /\ Lines' = Lines
        /\ calling' = FALSE
    BY <1>2 DEF Incomplete, BadLine, BadField, Return, ways, Lines
  <2>2. HasJunk' = HasJunk
    BY <2>1 DEF HasJunk
  <2>3. CASE BadLine \/ BadField
    <3>1. result' = "ERROR"
      BY <2>3 DEF BadLine, BadField, Return
    <3> QED
      BY <2>1, <3>1 DEF BlankInv
  <2>4. CASE Incomplete
    <3>1. SUFFICES ASSUME Lines = Fields + 1, ~HasJunk, sent >= HeaderEnd PROVE FALSE
      BY <1>0, <1>a, <2>1, <2>2 DEF BlankInv
    <3>2. LineFeed = 0 /\ pos = 0 /\ Gone = 3 * Fields + 3 /\ Len(buf) \in Nat
      <4>1. Gone + pos = 3 * Lines /\ pos = 0
        BY <2>1, <3>1, AtLine
      <4>2. Gone \in Int /\ Len(buf) \in Nat
        BY <1>a DEF Gone, Shape
      <4> QED
        BY <1>0, <2>4, <3>1, <4>1, <4>2 DEF Incomplete
    <3>3. Len(buf) >= 2
      BY <1>0, <1>a, <3>1, <3>2 DEF Gone
    <3>4. message[HeaderEnd] = "lf"
      <4>1. message[HeaderEnd] \in {"lf", "junk"} /\ HeaderEnd \in DOMAIN message
        BY <1>0, <1>a, MessageIs DEF Shape
      <4> QED
        BY <3>1, <4>1 DEF HasJunk
    <3>5. buf[2] = "lf"
      <4>1. 2 \in 1 .. Len(buf) /\ Gone + 2 = HeaderEnd
        BY <1>0, <3>2, <3>3
      <4> QED
        BY <1>a, <3>4, <4>1 DEF Shape
    <3> DEFINE lfs == {i \in pos + 1 .. Len(buf) : buf[i] = "lf"}
    <3>6. 2 \in lfs /\ lfs \subseteq Nat \ {0}
      BY <3>2, <3>3, <3>5
    <3>7. PICK m \in lfs : \A j \in lfs : m <= j
      <4>1. CASE 1 \in lfs
        BY <3>2, <4>1
      <4>2. CASE 1 \notin lfs
        BY <3>2, <3>6, <4>2
      <4> QED
        BY <4>1, <4>2
    <3>8. LineFeed \in lfs
      BY <3>6, <3>7 DEF LineFeed
    <3> QED
      BY <3>2, <3>6, <3>8
  <2> QED
    BY <1>2, <2>3, <2>4
<1>3. CASE FirstLine \/ FieldBreaks \/ Field
  <2>1. Lines \in 0 .. Fields /\ calling /\ (GoesOn \/ Stops \/ BetweenCrLf \/ BehindBlank)
    BY <1>3, LineTaken
  <2>2. sent' = sent /\ message' = message /\ apart' = apart /\ (broke => broke')
    BY <2>1 DEF GoesOn, Stops, BetweenCrLf, BehindBlank, GoOn, Return, ways
  <2>3. HasJunk' = HasJunk /\ Lines # Fields + 1
    BY <1>0, <2>1, <2>2 DEF HasJunk
  <2> QED
    BY <1>0, <2>1, <2>2, <2>3 DEF BlankInv
<1>4. CASE HeaderCr \/ HeaderCrBad
  <2>1. /\ calling /\ hp_state = "HDR_CR" /\ sent' = sent /\ message' = message
        /\ broke' = broke /\ apart' = apart
    BY <1>4 DEF HeaderCr, HeaderCrBad, Return, ways
  <2>2. HasJunk' = HasJunk
    BY <2>1 DEF HasJunk
  <2> QED
    BY <1>0, <2>1, <2>2 DEF BlankInv
<1>5. CASE Terminated \/ UNCHANGED vars
  <2>1. UNCHANGED <<message, sent, calling, hp_state, result, reported, broke, apart>>
    BY <1>5 DEF Terminated, vars, hist, ways
  <2>2. HasJunk' = HasJunk /\ Lines' = Lines
    BY <2>1 DEF HasJunk, Lines
  <2> QED
    BY <1>0, <2>1, <2>2 DEF BlankInv
<1> QED
  BY <1>1, <1>2, <1>3, <1>4, <1>5 DEF Next

(* A division that keeps the blank line together with the last field stays *)
(* one only if it was one.                                                 *)
LEMMA ApartStays == [Next]_vars /\ ~apart' => ~apart
<1> SUFFICES ASSUME [Next]_vars, ~apart' PROVE ~apart
  OBVIOUS
<1>1. CASE \E n \in 1 .. Len(message) : Call(n)
  BY <1>1 DEF Call
<1>2. CASE ~ \E n \in 1 .. Len(message) : Call(n)
  BY <1>2 DEF Next, Incomplete, BadLine, FirstLine, BadField, FieldBreaks, Field, HeaderCr,
     HeaderCrBad, Terminated, Return, GoOn, ways, vars
<1> QED
  BY <1>1, <1>2

VerdictInv == ~together => ParserInv /\ BlankInv /\ (~apart => ApartInv)

LEMMA VerdictInvDecides == VerdictInv => Verdict
<1> SUFFICES ASSUME VerdictInv, ~calling, sent = Len(message), ~broke, ~together
             PROVE  IF HasJunk THEN result # "DONE"
                    ELSE IF apart THEN result = "ERROR"
                    ELSE result = "DONE" /\ taken = HeaderEnd /\ Len(reported) = Fields + 1
  BY DEF Verdict, HasJunk
<1>1. ParserInv /\ BlankInv /\ (~apart => ApartInv)
  BY DEF VerdictInv
<1>2. HasJunk => result # "DONE"
  BY <1>1, DoneIsGood
<1>3. ASSUME ~HasJunk, ~apart
      PROVE  result = "DONE" /\ taken = HeaderEnd /\ Len(reported) = Fields + 1
  BY <1>1, <1>3, ApartVerdict
<1>4. ASSUME ~HasJunk, apart PROVE result = "ERROR"
  <2>1. sent = 3 * Fields + 6 /\ HeaderEnd = 3 * Fields + 5 /\ Fields \in Nat
    BY <1>1, MessageIs DEF ParserInv, Shape
  <2> QED
    BY <1>1, <1>4, <2>1 DEF BlankInv
<1> QED
  BY <1>2, <1>3, <1>4

(* The verdict on a message that comes line by line, with any number of    *)
(* fields and any cuts inside the lines: one with junk is not done, one    *)
(* without is, with every line reported, but when a call has ended right   *)
(* before the blank line; then the good message is an error.               *)
THEOREM VerdictHolds == (Spec => []Verdict) /\ (RSpec => []Verdict)
<1>1. Init => VerdictInv
  <2> SUFFICES ASSUME Init PROVE ApartInv /\ BlankInv
    BY ParserBegins DEF VerdictInv
  <2>1. sent = 0 /\ hp_state = "NONE" /\ result = "none" /\ ~apart
    BY DEF Init
  <2>2. HeaderEnd - 2 # 0
    BY HttpParserAssumption DEF HeaderEnd
  <2> QED
    BY <2>1, <2>2 DEF ApartInv, BlankInv
<1>2. VerdictInv /\ [Next]_vars => VerdictInv'
  BY ParserGoesOn, ApartGoesOn, BlankGoesOn, TogetherStays, ApartStays DEF VerdictInv
<1>3. Spec => []Verdict
  BY <1>1, <1>2, VerdictInvDecides, PTL DEF Spec
<1> QED
  BY <1>3, RequestIsParser, PTL

-----------------------------------------------------------------------------
(* The request.                                                            *)

ReqInv(r) ==
  /\ DOMAIN r = {"host", "hr_port", "hr_cntlen", "kpalv", "h_bucket", "h_len", "hr_fields",
                 "accepted"}
  /\ r.hr_port \in Ports /\ r.hr_cntlen \in Int
  /\ r.kpalv \in BOOLEAN /\ r.h_bucket \in BOOLEAN /\ r.h_len \in Nat
  /\ r.hr_fields \in [0 .. 25 -> Seq(Texts)] /\ r.accepted \in Seq(Texts)

(* How many of the texts from the i-th on are of bucket b.                 *)
Since(s, i, b) == Cardinality({j \in i .. Len(s) : FieldKey(s[j].k) = b})

FieldsIn(r) ==
  /\ r.h_len = Len(r.accepted)
  /\ \A b \in 0 .. 25 : Len(r.hr_fields[b]) = Since(r.accepted, 1, b)
  /\ \A i \in 1 .. Len(r.accepted) :
       LET b == FieldKey(r.accepted[i].k)
       IN r.hr_fields[b][Since(r.accepted, i, b)] = r.accepted[i]

LEMMA SinceTypes ==
  ASSUME NEW s \in Seq(Texts), NEW i \in Nat, NEW b
  PROVE  /\ IsFiniteSet({j \in i .. Len(s) : FieldKey(s[j].k) = b})
         /\ Since(s, i, b) \in Nat
<1>1. Len(s) \in Nat /\ IsFiniteSet(i .. Len(s))
  BY LenProperties, FS_Interval
<1>2. {j \in i .. Len(s) : FieldKey(s[j].k) = b} \subseteq i .. Len(s)
  OBVIOUS
<1> QED
  BY <1>1, <1>2, FS_Subset, FS_CardinalityType DEF Since

LEMMA SinceGrows ==
  ASSUME NEW s \in Seq(Texts), NEW x \in Texts, NEW i \in 1 .. Len(s) + 1, NEW b
  PROVE  Since(Append(s, x), i, b) = Since(s, i, b) + IF FieldKey(x.k) = b THEN 1 ELSE 0
<1> DEFINE n == Len(s)
           t == Append(s, x)
           A == {j \in i .. n : FieldKey(s[j].k) = b}
           B == {j \in i .. Len(t) : FieldKey(t[j].k) = b}
<1>1. n \in Nat /\ Len(t) = n + 1 /\ t[n + 1] = x /\ \A j \in 1 .. n : t[j] = s[j]
  BY AppendProperties
<1>2. IsFiniteSet(A) /\ Cardinality(A) \in Nat /\ n + 1 \notin A
  <2>1. i \in Nat
    BY <1>1
  <2>2. IsFiniteSet(A) /\ Since(s, i, b) \in Nat
    BY <2>1, SinceTypes
  <2>3. Since(s, i, b) = Cardinality(A)
    BY DEF Since
  <2>4. n + 1 \notin A
    BY <1>1
  <2> QED
    BY <2>2, <2>3, <2>4
<1>3. CASE FieldKey(x.k) = b
  <2>1. B = A \cup {n + 1}
    BY <1>1, <1>3
  <2>2. Cardinality(B) = Cardinality(A) + 1
    BY <1>2, <2>1, FS_AddElement
  <2> QED
    BY <1>3, <2>2 DEF Since
<1>4. CASE FieldKey(x.k) # b
  <2>1. B = A
    BY <1>1, <1>4
  <2>2. Since(t, i, b) = Cardinality(B) /\ Since(s, i, b) = Cardinality(A)
    BY DEF Since
  <2> HIDE DEF A, B
  <2>3. Since(t, i, b) = Since(s, i, b) + 0
    BY <1>2, <2>1, <2>2
  <2> QED
    BY <1>4, <2>3
<1> QED
  BY <1>3, <1>4

LEMMA SinceFits ==
  ASSUME NEW s \in Seq(Texts), NEW i \in 1 .. Len(s)
  PROVE  Since(s, i, FieldKey(s[i].k)) \in 1 .. Since(s, 1, FieldKey(s[i].k))
<1> DEFINE b == FieldKey(s[i].k)
           A == {j \in i .. Len(s) : FieldKey(s[j].k) = b}
           B == {j \in 1 .. Len(s) : FieldKey(s[j].k) = b}
<1>1. Len(s) \in Nat
  BY LenProperties
<1>2. {i} \subseteq A /\ A \subseteq B
  BY <1>1
<1> HIDE DEF b
<1>3. IsFiniteSet(A) /\ IsFiniteSet(B) /\ Cardinality(A) \in Nat /\ Cardinality(B) \in Nat
  <2>1. i \in Nat /\ 1 \in Nat
    BY <1>1
  <2>2. IsFiniteSet(A) /\ IsFiniteSet(B)
    BY <2>1, SinceTypes
  <2> HIDE DEF A, B
  <2> QED
    BY <2>2, FS_CardinalityType
<1>4. Cardinality({i}) = 1
  BY FS_Singleton
<1> HIDE DEF A, B
<1>5. Cardinality({i}) <= Cardinality(A) /\ Cardinality(A) <= Cardinality(B)
  BY <1>2, <1>3, FS_Subset
<1>6. Cardinality(A) \in 1 .. Cardinality(B)
  BY <1>3, <1>4, <1>5
<1> QED
  BY <1>6 DEF Since, A, B, b

LEMMA PortFits ==
  ASSUME NEW n \in Int
  PROVE  Port(n) \in Ports
<1>1. n % 65536 \in Int /\ 0 <= n % 65536 /\ n % 65536 < 65536
  BY SMT
<1> QED
  BY <1>1, SMT DEF Port, Ports

LEMMA NewReqInv ==
  ASSUME NEW h, NEW n \in PortNumbers \cup {0}, NEW b \in BOOLEAN
  PROVE  /\ ReqInv(NewReq(h, Port(n), b)) /\ FieldsIn(NewReq(h, Port(n), b))
         /\ NewReq(h, Port(n), b).h_len = 0
<1> DEFINE p == Port(n)
           r == NewReq(h, p, b)
<1>1. p \in Ports
  <2>1. n \in Int
    BY HttpRequestAssumption
  <2> QED
    BY <2>1, PortFits
<1> HIDE DEF p
<1>2. <<>> \in Seq(Texts) /\ Len(<<>>) = 0
  OBVIOUS
<1>3. /\ DOMAIN r = {"host", "hr_port", "hr_cntlen", "kpalv", "h_bucket", "h_len", "hr_fields",
                     "accepted"}
      /\ r.hr_port = p /\ r.hr_cntlen = 0 /\ r.kpalv = FALSE /\ r.h_bucket = b /\ r.h_len = 0
      /\ r.hr_fields = [c \in 0 .. 25 |-> <<>>] /\ r.accepted = <<>>
  BY DEF NewReq
<1> HIDE DEF r
<1>4. r.hr_fields \in [0 .. 25 -> Seq(Texts)] /\ r.accepted \in Seq(Texts)
  BY <1>2, <1>3
<1>5. ReqInv(r)
  <2>1. r.hr_port \in Ports /\ r.hr_cntlen \in Int /\ r.h_len \in Nat
    BY <1>1, <1>3
  <2>2. r.kpalv \in BOOLEAN /\ r.h_bucket \in BOOLEAN
    BY <1>3, Zenon
  <2> QED
    BY <1>3, <1>4, <2>1, <2>2, Zenon DEF ReqInv
<1>6. \A c \in 0 .. 25 : Since(<<>>, 1, c) = 0
  <2> TAKE c \in 0 .. 25
  <2> DEFINE A == {j \in 1 .. Len(<<>>) : FieldKey(<<>>[j].k) = c}
  <2>1. A = {}
    BY <1>2
  <2>2. Cardinality(A) = 0
    BY <2>1, FS_EmptySet
  <2> QED
    BY <2>2 DEF Since
<1>7. FieldsIn(r)
  BY <1>2, <1>3, <1>6 DEF FieldsIn
<1> QED
  BY <1>3, <1>5, <1>7 DEF r, p

LEMMA SeenInv ==
  ASSUME NEW r, ReqInv(r), NEW f \in Texts, NEW host
  PROVE  /\ ReqInv(SeenWith(r, f, host))
         /\ SeenWith(r, f, host).h_len = r.h_len
         /\ SeenWith(r, f, host).h_bucket = r.h_bucket
         /\ SeenWith(r, f, host).hr_fields = r.hr_fields
         /\ SeenWith(r, f, host).accepted = r.accepted
<1> DEFINE kp == KeepAliveOn(f, r)
           len == IF IsLength(f) THEN f.n ELSE r.hr_cntlen
           port == IF NamesHost(f, r) /\ Find(f.v, 1, ":") # 0 THEN Port(f.n) ELSE r.hr_port
           s == SeenWith(r, f, host)
<1>1. f.n \in Int
  BY DEF Texts
<1>2. kp \in BOOLEAN
  BY Zenon DEF KeepAliveOn
<1>3. len \in Int
  BY <1>1 DEF ReqInv
<1>4. port \in Ports
  <2>1. Port(f.n) \in Ports /\ r.hr_port \in Ports
    BY <1>1, PortFits DEF ReqInv
  <2> QED
    BY <2>1
<1>5. s = [[[[r EXCEPT !.kpalv = kp] EXCEPT !.hr_cntlen = len] EXCEPT !.hr_port = port]
             EXCEPT !.host = host]
  BY DEF SeenWith, ReqInv
<1> HIDE DEF kp, len, port, s
<1>6. /\ DOMAIN s = DOMAIN r /\ s.kpalv = kp /\ s.hr_cntlen = len /\ s.hr_port = port
      /\ s.h_len = r.h_len /\ s.h_bucket = r.h_bucket /\ s.hr_fields = r.hr_fields
      /\ s.accepted = r.accepted
  BY <1>5 DEF ReqInv
<1>7. ReqInv(s)
  BY <1>2, <1>3, <1>4, <1>6, Zenon DEF ReqInv
<1> QED
  BY <1>6, <1>7 DEF s

LEMMA KeysAre ==
  /\ \A k : FieldKey(k) \in 0 .. 25
  /\ \A f \in Texts : [f EXCEPT !.k = StoredKey(f)] \in Texts
<1>1. ASSUME NEW k PROVE FieldKey(k) \in 0 .. 25
  BY DEF FieldKey
<1>2. ASSUME NEW f \in Texts PROVE [f EXCEPT !.k = StoredKey(f)] \in Texts
  <2>1. StoredKey(f) = Connection \/ StoredKey(f) = f.k
    BY DEF StoredKey
  <2> QED
    BY <2>1 DEF Texts
<1> QED
  BY <1>1, <1>2

LEMMA HashInsertInv ==
  ASSUME NEW r, ReqInv(r), NEW f \in Texts
  PROVE  /\ ReqInv(HashInsert(r, f)) /\ HashInsert(r, f).h_len = r.h_len + 1
         /\ FieldsIn(r) => FieldsIn(HashInsert(r, f))
<1> DEFINE x == [f EXCEPT !.k = StoredKey(f)]
           c == FieldKey(x.k)
           q == HashInsert(r, f)
           s == r.accepted
           n == Len(s)
<1>1. x \in Texts /\ c \in 0 .. 25
  BY KeysAre
<1>2. q = [[[r EXCEPT !.hr_fields = [r.hr_fields EXCEPT ![c] = <<x>> \o r.hr_fields[c]]]
             EXCEPT !.h_len = r.h_len + 1] EXCEPT !.accepted = Append(s, x)]
  BY DEF HashInsert, ReqInv
<1> HIDE DEF x, c, q
<1>3. /\ DOMAIN q = DOMAIN r /\ q.hr_port = r.hr_port /\ q.hr_cntlen = r.hr_cntlen
      /\ q.kpalv = r.kpalv /\ q.h_bucket = r.h_bucket /\ q.h_len = r.h_len + 1
      /\ q.hr_fields = [r.hr_fields EXCEPT ![c] = <<x>> \o r.hr_fields[c]]
      /\ q.accepted = Append(s, x)
  BY <1>2 DEF ReqInv
<1>4. s \in Seq(Texts) /\ n \in Nat /\ r.hr_fields \in [0 .. 25 -> Seq(Texts)] /\ r.h_len \in Nat
  BY DEF ReqInv
<1>5. /\ <<x>> \o r.hr_fields[c] \in Seq(Texts)
      /\ Len(<<x>> \o r.hr_fields[c]) = Len(r.hr_fields[c]) + 1
      /\ (<<x>> \o r.hr_fields[c])[1] = x
      /\ \A i \in 1 .. Len(r.hr_fields[c]) : (<<x>> \o r.hr_fields[c])[i + 1] = r.hr_fields[c][i]
  <2> DEFINE old == r.hr_fields[c]
  <2>1. old \in Seq(Texts)
    BY <1>1, <1>4
  <2> HIDE DEF old
  <2>2. <<x>> \in Seq(Texts) /\ Len(<<x>>) = 1 /\ <<x>>[1] = x
    BY <1>1
  <2>3. /\ <<x>> \o old \in Seq(Texts) /\ Len(<<x>> \o old) = Len(old) + 1
        /\ (<<x>> \o old)[1] = x
        /\ \A i \in 1 .. Len(old) : (<<x>> \o old)[i + 1] = old[i]
    <3>1. Len(old) \in Nat
      BY <2>1, LenProperties
    <3> QED
      BY <2>1, <2>2, <3>1, ConcatProperties
  <2> QED
    BY <2>3 DEF old
<1>6. Append(s, x) \in Seq(Texts) /\ Len(Append(s, x)) = n + 1 /\ Append(s, x)[n + 1] = x
      /\ \A i \in 1 .. n : Append(s, x)[i] = s[i]
  <2> HIDE DEF s
  <2> QED
    BY <1>1, <1>4, AppendProperties
<1>7. ReqInv(q)
  <2> DEFINE new == <<x>> \o r.hr_fields[c]
  <2>0. new \in Seq(Texts) /\ q.hr_fields = [r.hr_fields EXCEPT ![c] = new]
    BY <1>3, <1>5
  <2> HIDE DEF new
  <2>1. q.h_len \in Nat /\ q.hr_fields \in [0 .. 25 -> Seq(Texts)]
    <3>1. q.h_len \in Nat
      <4>1. r.h_len \in Nat /\ q.h_len = r.h_len + 1
        BY <1>3, <1>4
      <4> QED
        BY <4>1
    <3>2. q.hr_fields \in [0 .. 25 -> Seq(Texts)]
      BY <1>1, <1>4, <2>0
    <3> QED
      BY <3>1, <3>2
  <2> QED
    BY <1>3, <1>6, <2>1 DEF ReqInv
<1>8. n \in Nat
  BY <1>4
<1>9. ASSUME FieldsIn(r) PROVE FieldsIn(q)
  <2> DEFINE t == Append(s, x)
             old == r.hr_fields[c]
             new == <<x>> \o old
  <2>1. /\ r.h_len = n /\ \A b \in 0 .. 25 : Len(r.hr_fields[b]) = Since(s, 1, b)
        /\ \A i \in 1 .. n : r.hr_fields[FieldKey(s[i].k)][Since(s, i, FieldKey(s[i].k))] = s[i]
    BY <1>9 DEF FieldsIn
  <2>2. ASSUME NEW i \in 1 .. n + 1, NEW b
        PROVE  /\ Since(t, i, b) = Since(s, i, b) + IF c = b THEN 1 ELSE 0
               /\ Since(s, i, b) \in Nat
    <3>1. i \in Nat
      BY <1>4
    <3> QED
      BY <1>1, <1>4, <3>1, SinceGrows, SinceTypes DEF c
  <2>3. q.h_len = Len(q.accepted)
    BY <1>3, <1>6, <2>1
  <2>4. /\ q.hr_fields[c] = new /\ Len(new) = Len(old) + 1
        /\ \A b \in 0 .. 25 : b # c => q.hr_fields[b] = r.hr_fields[b]
    BY <1>1, <1>3, <1>4, <1>5
  <2>5. ASSUME NEW b \in 0 .. 25 PROVE Len(q.hr_fields[b]) = Since(q.accepted, 1, b)
    <3>1. Since(t, 1, b) = Since(s, 1, b) + (IF c = b THEN 1 ELSE 0) /\ Since(s, 1, b) \in Nat
      <4>1. 1 \in 1 .. n + 1
        BY <1>8
      <4> QED
        BY <2>2, <4>1
    <3>2. CASE b = c
      <4>1. Since(t, 1, b) = Since(s, 1, b) + 1
        BY <3>1, <3>2
      <4>2. Len(q.hr_fields[b]) = Len(r.hr_fields[b]) + 1
        BY <2>4, <3>2
      <4> QED
        BY <1>3, <2>1, <4>1, <4>2
    <3>3. CASE b # c
      <4>1. Since(t, 1, b) = Since(s, 1, b)
        BY <3>1, <3>3
      <4> QED
        BY <1>3, <2>1, <2>4, <3>3, <4>1
    <3> QED
      BY <3>2, <3>3
  <2>6. ASSUME NEW i \in 1 .. n + 1
        PROVE  q.hr_fields[FieldKey(t[i].k)][Since(t, i, FieldKey(t[i].k))] = t[i]
    <3>1. CASE i = n + 1
      <4>1. t[i] = x /\ FieldKey(t[i].k) = c
        BY <1>6, <3>1 DEF c
      <4>2. Since(s, i, c) = 0
        <5> DEFINE A == {j \in i .. Len(s) : FieldKey(s[j].k) = c}
        <5>1. A = {}
          BY <1>4, <3>1
        <5>2. Cardinality(A) = 0
          BY <5>1, FS_EmptySet
        <5> QED
          BY <5>2 DEF Since
      <4>3. Since(t, i, c) = 1
        BY <2>2, <4>2
      <4> QED
        BY <1>5, <2>4, <4>1, <4>3
    <3>2. CASE i \in 1 .. n
      <4> DEFINE b == FieldKey(s[i].k)
                 m == Since(s, i, b)
      <4>1. t[i] = s[i] /\ b \in 0 .. 25
        BY <1>6, <3>2, KeysAre
      <4>2. m \in 1 .. Since(s, 1, b) /\ r.hr_fields[b][m] = s[i]
        BY <1>4, <2>1, <3>2, SinceFits
      <4>3. Since(t, i, b) = m + IF c = b THEN 1 ELSE 0
        BY <2>2
      <4>4. Len(r.hr_fields[b]) = Since(s, 1, b) /\ m \in Nat
        BY <2>1, <2>2, <4>1
      <4> HIDE DEF b, m
      <4>5. CASE b = c
        <5>1. Since(t, i, b) = m + 1 /\ m \in 1 .. Len(old)
          BY <4>2, <4>3, <4>4, <4>5
        <5>2. new[m + 1] = old[m]
          BY <1>5, <5>1
        <5>3. q.hr_fields[b][Since(t, i, b)] = s[i]
          BY <2>4, <4>2, <4>5, <5>1, <5>2
        <5> QED
          BY <4>1, <5>3 DEF b
      <4>6. CASE b # c
        <5>1. Since(t, i, b) = m
          BY <4>3, <4>4, <4>6
        <5>2. q.hr_fields[b] = r.hr_fields[b]
          BY <2>4, <4>1, <4>6
        <5> QED
          BY <4>1, <4>2, <5>1, <5>2 DEF b
      <4> QED
        BY <4>5, <4>6
    <3>3. i = n + 1 \/ i \in 1 .. n
      <4> HIDE DEF n
      <4> QED
        BY <1>8
    <3> QED
      BY <3>1, <3>2, <3>3
  <2> QED
    BY <1>3, <1>6, <2>3, <2>5, <2>6 DEF FieldsIn
<1> QED
  BY <1>3, <1>7, <1>9 DEF q

LEMMA NoneIsNoRequest == ASSUME ReqInv(None) PROVE FALSE
<1>1. DOMAIN None = {"host"}
  BY DEF None
<1>2. "hr_port" \in DOMAIN None
  BY DEF ReqInv
<1> QED
  BY <1>1, <1>2

(* What plm_http_on_field() leaves of a request, however it ends.          *)
LEMMA OnFieldKeeps ==
  ASSUME PoolInv(pool), ReqInv(req), NEW f \in FieldTexts, NEW o \in OnField(f)
  PROVE  /\ ReqInv(o.req) /\ o.req.h_len \in {req.h_len, req.h_len + 1}
         /\ FieldsIn(req) => FieldsIn(o.req)
         /\ o.failed \in {"no", "null"}
<1>1. f \in Texts
  BY FieldSizes
<1>2. PICK host : LET seen == SeenWith(req, f, host) IN
        \/ o.broke = TRUE /\ o.failed = "no" /\ o.req = seen
        \/ /\ o.broke = FALSE /\ req.h_bucket
           /\ o.failed = "no" /\ o.req = HashInsert(seen, f)
        \/ o.broke = FALSE /\ ~req.h_bucket /\ o.failed = "null" /\ o.req = seen
  BY OnFieldIs
<1> DEFINE seen == SeenWith(req, f, host)
<1>3. /\ ReqInv(seen) /\ seen.h_len = req.h_len /\ seen.hr_fields = req.hr_fields
      /\ seen.accepted = req.accepted
  BY <1>1, SeenInv
<1>4. o.failed \in {"no", "null"} /\ (o.req = seen \/ o.req = HashInsert(seen, f))
  BY <1>2
<1> HIDE DEF seen
<1>5. FieldsIn(req) => FieldsIn(seen)
  BY <1>3 DEF FieldsIn
<1>6. /\ ReqInv(HashInsert(seen, f)) /\ HashInsert(seen, f).h_len = seen.h_len + 1
      /\ FieldsIn(seen) => FieldsIn(HashInsert(seen, f))
  BY <1>1, <1>3, HashInsertInv
<1> QED
  BY <1>3, <1>4, <1>5, <1>6

(* ... and plm_http_on_hdr_done().                                         *)
LEMMA OnHdrDoneKeeps ==
  ASSUME NEW r, ReqInv(r), FieldsIn(r), OnHdrDone(r), hp_data \in {"conn", "req"}
  PROVE  /\ ReqInv(req') /\ FieldsIn(req') /\ req'.h_len = r.h_len
         /\ \/ hp_data' = "conn" /\ failed' = failed /\ req'.hr_port # 0 /\ body' \in BOOLEAN
            \/ hp_data' = hp_data /\ failed' = "wild" /\ body' = body
<1>1. CASE failed' = "wild" /\ req' = r /\ UNCHANGED <<hp_data, body>>
  BY <1>1
<1>2. CASE /\ req' = [r EXCEPT !.hr_port = IF @ = 0 THEN 80 ELSE @]
           /\ body' = (r.hr_cntlen # 0)
           /\ hp_data' = "conn"
           /\ UNCHANGED failed
  <2> DEFINE port == IF r.hr_port = 0 THEN 80 ELSE r.hr_port
  <2>1. port \in Ports /\ port # 0
    <3>1. r.hr_port \in Ports
      BY DEF ReqInv
    <3>2. r.hr_port # 0 => r.hr_port \in Ports /\ r.hr_port # 0
      BY <3>1
    <3>3. 80 \in Ports /\ 80 # 0
      BY SMT DEF Ports
    <3> QED
      BY <3>2, <3>3, SMT
  <2>2. req' = [r EXCEPT !.hr_port = port]
    BY <1>2
  <2> HIDE DEF port
  <2>3. /\ DOMAIN req' = DOMAIN r /\ req'.hr_port = port /\ req'.hr_cntlen = r.hr_cntlen
        /\ req'.kpalv = r.kpalv /\ req'.h_bucket = r.h_bucket /\ req'.h_len = r.h_len
        /\ req'.hr_fields = r.hr_fields /\ req'.accepted = r.accepted
    BY <2>2 DEF ReqInv
  <2>4. ReqInv(req') /\ FieldsIn(req')
    BY <2>1, <2>3 DEF ReqInv, FieldsIn
  <2>5. body' \in BOOLEAN
    BY <1>2, Zenon
  <2> QED
    BY <1>2, <2>1, <2>3, <2>4, <2>5
<1> QED
  BY <1>1, <1>2 DEF OnHdrDone

(* The request and the user data are there together, and the fields of the *)
(* request are all in their buckets.                                       *)
RequestInv ==
  /\ PoolInv(pool) /\ hp_data \in {"conn", "req"}
  /\ hp_data = "req" => req # None
  /\ req # None => ReqInv(req) /\ FieldsIn(req)

LEMMA FieldStep ==
  ASSUME RequestInv, RFieldBreaks \/ RField \/ RLastField
  PROVE  /\ PoolInv(pool') /\ ReqInv(req) /\ ReqInv(req') /\ FieldsIn(req')
         /\ req'.h_len \in {req.h_len, req.h_len + 1} /\ hp_data' \in {"conn", "req"}
         /\ failed' \in {failed, "no", "null", "wild"} /\ body' \in {body, TRUE, FALSE}
         /\ RLastField /\ failed' = "no" => hp_data' = "conn" /\ req'.hr_port # 0
<1>1. hp_data = "req" /\ ReqInv(req) /\ FieldsIn(req) /\ PoolInv(pool)
  BY DEF RequestInv, RFieldBreaks, RField, RLastField
<1> DEFINE Ends(o) ==
        /\ pool' = o.pool
        /\ \/ req' = o.req /\ hp_data' = hp_data /\ failed' \in {failed, o.failed}
              /\ body' = body /\ ~RLastField
           \/ RLastField /\ o.failed = "no" /\ OnHdrDone(o.req)
           \/ RLastField /\ o.failed # "no" /\ failed' = o.failed
              /\ UNCHANGED <<req, hp_data, body>>
<1>2. PICK f \in FieldTexts : \E o \in OnField(f) : Ends(o)
  <2>1. CASE RLastField
    BY <2>1 DEF RLastField, Takes
  <2>2. CASE ~RLastField /\ RFieldBreaks
    BY <2>2 DEF RFieldBreaks, Takes
  <2>3. CASE ~RLastField /\ RField
    BY <2>3 DEF RField, Takes
  <2> QED
    BY <2>1, <2>2, <2>3
<1>3. PICK o \in OnField(f) : Ends(o)
  BY <1>2
<1>4. /\ ReqInv(o.req) /\ o.req.h_len \in {req.h_len, req.h_len + 1}
      /\ FieldsIn(o.req) /\ o.failed \in {"no", "null"} /\ PoolInv(o.pool)
  BY <1>1, OnFieldKeeps, OnFieldIs
<1>5. CASE req' = o.req /\ hp_data' = hp_data /\ failed' \in {failed, o.failed}
           /\ body' = body /\ ~RLastField
  BY <1>1, <1>3, <1>4, <1>5
<1>6. CASE RLastField /\ o.failed = "no" /\ OnHdrDone(o.req)
  BY <1>1, <1>3, <1>4, <1>6, OnHdrDoneKeeps
<1>7. CASE RLastField /\ o.failed # "no" /\ failed' = o.failed
           /\ UNCHANGED <<req, hp_data, body>>
  BY <1>1, <1>3, <1>4, <1>7
<1> QED
  BY <1>3, <1>5, <1>6, <1>7

LEMMA RequestGoesOn ==
  ASSUME RequestInv, [RNext]_allvars
  PROVE  RequestInv'
<1>1. CASE RQuiet \/ RFieldConn \/ RHeaderCr \/ RTerminated \/ UNCHANGED allvars
  <2>1. UNCHANGED <<pool, hp_data, req>>
    BY <1>1 DEF RQuiet, RFieldConn, RHeaderCr, RTerminated, rvars, allvars
  <2> QED
    BY <2>1 DEF RequestInv, FieldsIn, ReqInv, Since
<1>2. CASE RFirstLine
  <2>1. /\ PoolInv(pool')
        /\ \/ UNCHANGED <<hp_data, req>>
           \/ /\ hp_data' = "req"
              /\ \E h, n, b :
                   n \in PortNumbers \cup {0} /\ b \in BOOLEAN /\ req' = NewReq(h, Port(n), b)
    BY <1>2, OnReqlinePool DEF RFirstLine, RequestInv
  <2>2. CASE UNCHANGED <<hp_data, req>>
    BY <2>1, <2>2 DEF RequestInv
  <2>3. CASE /\ hp_data' = "req"
             /\ \E h, n, b :
                  n \in PortNumbers \cup {0} /\ b \in BOOLEAN /\ req' = NewReq(h, Port(n), b)
    <3>1. ReqInv(req') /\ FieldsIn(req')
      BY <2>3, NewReqInv
    <3> QED
      BY <2>1, <2>3, <3>1, NoneIsNoRequest DEF RequestInv
  <2> QED
    BY <2>1, <2>2, <2>3
<1>3. CASE RFieldBreaks \/ RField \/ RLastField
  BY <1>3, FieldStep, NoneIsNoRequest DEF RequestInv
<1> QED
  BY <1>1, <1>2, <1>3 DEF RNext

LEMMA RequestBegins == RInit => RequestInv
  BY NewPoolInv, HttpRequestAssumption DEF RInit, RequestInv

(* plm_hash_insert() by plm_http_on_field(): with any names, values and    *)
(* sizes, and any mallocs that fail, a request has each accepted field in  *)
(* the bucket of the name it is stored under, the newest in front, and     *)
(* nothing else.                                                           *)
THEOREM FieldsKeptHolds == RSpec => []FieldsKept
<1>1. RInit => RequestInv
  BY RequestBegins
<1>2. RequestInv /\ [RNext]_allvars => RequestInv'
  BY RequestGoesOn
<1>3. RequestInv => FieldsKept
  <2> SUFFICES ASSUME FieldsIn(req)
               PROVE  LET n == Len(req.accepted)
                          Key(i) == FieldKey(req.accepted[i].k)
                          Count(i, b) == Cardinality({j \in i .. n : Key(j) = b})
                      IN /\ req.h_len = n
                         /\ \A b \in 0 .. 25 : Len(req.hr_fields[b]) = Count(1, b)
                         /\ \A i \in 1 .. n :
                              req.hr_fields[Key(i)][Count(i, Key(i))] = req.accepted[i]
    BY DEF RequestInv, FieldsKept
  <2> QED
    BY DEF FieldsIn, Since
<1> QED
  BY <1>1, <1>2, <1>3, PTL DEF RSpec

-----------------------------------------------------------------------------
(* The end of a header.                                                    *)

EndInv ==
  /\ hdr_done \in Nat
  /\ result = "DONE" => ~calling
  /\ UserDataRestored

LEMMA EndGoesOn ==
  ASSUME RequestInv, EndInv, [RNext]_allvars
  PROVE  EndInv'
<1>1. ASSUME [Next]_vars PROVE hdr_done' \in Nat /\ (result' = "DONE" => ~calling')
  <2>1. CASE hdr_done' = hdr_done
    <3>1. CASE UNCHANGED <<result, calling>>
      BY <2>1, <3>1 DEF EndInv
    <3>2. CASE \E n \in 1 .. Len(message) : Call(n)
      BY <2>1, <3>2 DEF EndInv, Call
    <3>3. CASE \E rc : Return(rc)
      BY <2>1, <3>3 DEF EndInv, Return
    <3>4. CASE calling /\ GoOn
      BY <2>1, <3>4 DEF EndInv, GoOn
    <3> QED
      BY <1>1, <3>1, <3>2, <3>3, <3>4 DEF Next, Incomplete, BadLine, FirstLine, BadField,
         FieldBreaks, Field, HeaderCr, HeaderCrBad, Terminated, vars
  <2>2. CASE Field /\ hdr_done' # hdr_done
    <3>1. hdr_done' = hdr_done + 1 /\ Return("DONE")
      BY <2>2 DEF Field
    <3> QED
      BY <3>1 DEF EndInv, Return
  <2>3. hdr_done' = hdr_done \/ (Field /\ hdr_done' # hdr_done)
    BY <1>1 DEF Next, Call, Incomplete, BadLine, FirstLine, BadField,
       FieldBreaks, HeaderCr, HeaderCrBad, Terminated, vars, hist
  <2> QED
    BY <2>1, <2>2, <2>3
<1>2. hdr_done' \in Nat /\ (result' = "DONE" => ~calling')
  BY <1>1, RequestSteps
<1>3. UserDataRestored'
  <2> SUFFICES ASSUME result' = "DONE", failed' = "no", ~split'
               PROVE  hp_data' = "conn" /\ req' # None /\ req'.hr_port # 0
    BY DEF UserDataRestored
  <2>1. CASE RQuiet
    <3>1. UNCHANGED <<hp_data, req, failed, split>>
      BY <2>1 DEF RQuiet, rvars
    <3>2. result' = result
      BY <2>1 DEF RQuiet, Call, Incomplete, BadLine, BadField, HeaderCrBad, Return
    <3> QED
      BY <3>1, <3>2 DEF EndInv, UserDataRestored
  <2>2. CASE RFirstLine
    <3>1. result' \in {result, "BREAK", "AGAIN"} /\ calling
      BY <2>2 DEF RFirstLine, FirstLine, Return, GoOn
    <3> QED
      BY <3>1 DEF EndInv
  <2>3. CASE RFieldConn \/ RFieldBreaks
    BY <2>3 DEF RFieldConn, RFieldBreaks, FieldBreaks, Return
  <2>4. CASE RField
    <3>1. Field /\ hdr_done' = hdr_done /\ calling
      BY <2>4 DEF RField, Field
    <3>2. hdr_done \in Nat /\ hdr_done + 1 # hdr_done
      BY DEF EndInv
    <3>3. result' \in {result, "AGAIN", "OUTSIDE"}
      BY <3>1, <3>2 DEF Field, Return, GoOn
    <3> QED
      BY <3>1, <3>3 DEF EndInv
  <2>5. CASE RLastField
    <3>1. ReqInv(req') /\ hp_data' = "conn" /\ req'.hr_port # 0
      BY <2>5, FieldStep
    <3> QED
      BY <3>1, NoneIsNoRequest
  <2>6. CASE RHeaderCr
    BY <2>6 DEF RHeaderCr
  <2>7. CASE RTerminated \/ UNCHANGED allvars
    <3>1. UNCHANGED <<hp_data, req, failed, split, result>>
      BY <2>7 DEF RTerminated, allvars, rvars, vars
    <3> QED
      BY <3>1 DEF EndInv, UserDataRestored
  <2> QED
    BY <2>1, <2>2, <2>3, <2>4, <2>5, <2>6, <2>7 DEF RNext
<1> QED
  BY <1>2, <1>3 DEF EndInv

(* "change back to conn in plm_http_on_hdr_done" (plm_http_request.c:284): *)
(* after a header that is done, the connection is the user data and the    *)
(* request has a port, whichever fields there were and whichever mallocs   *)
(* failed, unless the blank line came in two calls or a callback had taken *)
(* one object for another.                                                 *)
THEOREM UserDataRestoredHolds == RSpec => []UserDataRestored
<1>1. RInit => RequestInv /\ EndInv
  BY RequestBegins DEF RInit, Init, EndInv, UserDataRestored
<1>2. RequestInv /\ EndInv /\ [RNext]_allvars => (RequestInv /\ EndInv)'
  BY RequestGoesOn, EndGoesOn
<1>3. EndInv => UserDataRestored
  BY DEF EndInv
<1> QED
  BY <1>1, <1>2, <1>3, PTL DEF RSpec

-----------------------------------------------------------------------------
(* Types: a request has no more fields than lines that were reported.      *)

CountInv ==
  /\ body \in BOOLEAN /\ failed \in {"no", "wild", "null"}
  /\ req # None => req.h_len + 1 <= Lines

LEMMA CountGoesOn ==
  ASSUME WideInv, RequestInv, CountInv, [RNext]_allvars
  PROVE  CountInv'
<1>1. CASE RQuiet \/ RHeaderCr \/ RTerminated \/ UNCHANGED allvars
  <2>1. UNCHANGED <<req, body, failed, reported>>
    BY <1>1 DEF RQuiet, RHeaderCr, RTerminated, rvars, allvars, vars, hist, Call, Incomplete,
       BadLine, BadField, HeaderCrBad, HeaderCr
  <2> QED
    BY <2>1 DEF CountInv, Lines
<1>2. ASSUME FirstLine \/ FieldBreaks \/ Field PROVE Lines' = Lines + 1 /\ Lines \in Nat
  BY <1>2, WideTaken
<1>3. CASE RFirstLine
  <2>1. Lines' = Lines + 1 /\ Lines \in Nat /\ UNCHANGED <<body, failed>>
    BY <1>2, <1>3 DEF RFirstLine
  <2>2. \/ UNCHANGED req
        \/ \E h, n, b :
             n \in PortNumbers \cup {0} /\ b \in BOOLEAN /\ req' = NewReq(h, Port(n), b)
    BY <1>3, OnReqlinePool DEF RFirstLine, RequestInv
  <2>3. CASE UNCHANGED req
    <3>1. req # None => req.h_len \in Nat
      BY DEF RequestInv, ReqInv
    <3> QED
      BY <2>1, <2>3, <3>1 DEF CountInv
  <2>4. CASE \E h, n, b :
               n \in PortNumbers \cup {0} /\ b \in BOOLEAN /\ req' = NewReq(h, Port(n), b)
    <3>1. req'.h_len = 0
      BY <2>4, NewReqInv
    <3> QED
      BY <2>1, <3>1 DEF CountInv
  <2> QED
    BY <2>2, <2>3, <2>4
<1>4. CASE RFieldConn
  <2>1. Lines' = Lines + 1 /\ Lines \in Nat /\ UNCHANGED <<req, body>> /\ failed' = "wild"
    BY <1>2, <1>4 DEF RFieldConn
  <2>2. req # None => req.h_len \in Nat
    BY DEF RequestInv, ReqInv
  <2> QED
    BY <2>1, <2>2 DEF CountInv
<1>5. CASE RFieldBreaks \/ RField \/ RLastField
  <2>1. Lines' = Lines + 1 /\ Lines \in Nat
    BY <1>2, <1>5 DEF RFieldBreaks, RField, RLastField
  <2>2. /\ ReqInv(req) /\ req'.h_len \in {req.h_len, req.h_len + 1}
        /\ failed' \in {failed, "no", "null", "wild"} /\ body' \in {body, TRUE, FALSE}
    BY <1>5, FieldStep
  <2>3. req # None /\ req.h_len \in Nat
    BY <2>2, NoneIsNoRequest DEF ReqInv
  <2>4. req'.h_len + 1 <= Lines'
    BY <2>1, <2>2, <2>3 DEF CountInv
  <2> QED
    BY <2>2, <2>4 DEF CountInv
<1> QED
  BY <1>1, <1>3, <1>4, <1>5 DEF RNext

(* Every variable keeps the shape that struct plm_http_req and the parser  *)
(* give it (plm_http.h:79-104), whatever way the bytes are divided.        *)
THEOREM TypeCorrect == RSpec => []RTypeOK
<1>1. RInit => WideInv /\ RequestInv /\ CountInv
  BY WideBegins, RequestBegins DEF RInit, CountInv
<1>2. WideInv /\ RequestInv /\ CountInv /\ [RNext]_allvars
        => (WideInv /\ RequestInv /\ CountInv)'
  BY WideGoesOn, RequestSteps, RequestGoesOn, CountGoesOn
<1>3. WideInv /\ RequestInv /\ CountInv => RTypeOK
  <2> SUFFICES ASSUME WideInv, RequestInv, CountInv PROVE RTypeOK
    OBVIOUS
  <2>1. Held /\ Types /\ Counted
    BY DEF WideInv
  <2>2. Fields \in Nat /\ Lines \in Nat /\ Lines <= Fields + 1
    BY <2>1, HttpParserAssumption DEF Counted, Types, Lines
  <2>4. TypeOK
    BY <2>1, <2>2 DEF Held, Types, Counted, Lines, TypeOK
  <2>5. ASSUME req # None
        PROVE  /\ req.hr_port \in Ports /\ req.hr_cntlen \in Int
               /\ req.kpalv \in BOOLEAN /\ req.h_bucket \in BOOLEAN
               /\ req.h_len \in 0 .. Fields
    <3>1. ReqInv(req)
      BY <2>5 DEF RequestInv
    <3>2. req.h_len \in 0 .. Fields
      <4>1. req.h_len \in Nat /\ req.h_len + 1 <= Lines
        BY <2>5, <3>1 DEF CountInv, ReqInv
      <4> QED
        BY <2>2, <4>1
    <3> QED
      BY <3>1, <3>2, Zenon DEF ReqInv
  <2>6. hp_data \in {"conn", "req"} /\ body \in BOOLEAN /\ failed \in {"no", "wild", "null"}
    BY DEF RequestInv, CountInv
  <2> QED
    BY <2>4, <2>5, <2>6 DEF RTypeOK
<1> QED
  BY <1>1, <1>2, <1>3, PTL DEF RSpec
=============================================================================
