-------------------------- MODULE Lookaside_proofs --------------------------
(***************************************************************************)
(* Proofs about module Lookaside, for every number of threads and objects: *)
(* the lock keeps every object in one place, no tag check aborts, memory   *)
(* is cleared, and the list implements module Allocator, if the threads    *)
(* have stopped before the list is destroyed.                              *)
(***************************************************************************)
EXTENDS Lookaside, FiniteSetTheorems, FunctionTheorems, SequenceTheorems, TLAPS

Pcs == {"idle", "alloc", "take", "give", "zero", "freeing", "free", "stopped",
        "drain", "destroy", "end"}

(* Types, whether or not a tag check has failed.                           *)
Types ==
  /\ ll_list \in Seq(Objs) /\ ll_lock \in Threads \cup {Null, "destroyed"}
  /\ system \subseteq Objs /\ tagged \subseteq Objs /\ dirty \subseteq Objs
  /\ tpc \in [Threads -> Pcs] /\ arg \in [Threads -> Objs \cup {Null}]
  /\ held \in [Threads -> SUBSET Objs] /\ fresh \in [Threads -> SUBSET Objs]
  /\ aborted \in BOOLEAN

(* The statistics are counts.                                              *)
Counts == ll_misc \in [Misc -> Nat]

(* Where a thread holds the lock, if there is one.                         *)
Inside(t) == tpc[t] \in {"alloc", "take", "give", "free", "drain"}

(* Who is inside holds the lock; without a lock there is one thread.       *)
Locked ==
  /\ Safe => \A t \in Threads : Inside(t) => ll_lock = t
  /\ ~Safe => Threads = {Main}
  /\ ll_lock = "destroyed" => tpc[Main] = "end"

(* Only Main destroys, and only when the others have stopped.              *)
MainLast ==
  /\ \A t \in Threads : tpc[t] \in {"drain", "destroy", "end"} => t = Main
  /\ tpc[Main] # "stopped"
  /\ tpc[Main] \in {"drain", "destroy", "end"} =>
       \A t \in Threads \ {Main} : tpc[t] = "stopped"
  /\ tpc[Main] \in {"destroy", "end"} => ll_list = <<>>

(* What a thread inside alloc() or free() works on.                        *)
Args ==
  \A t \in Threads :
    /\ tpc[t] = "take" => ll_list # <<>> /\ arg[t] = Head(ll_list)
    /\ tpc[t] \in {"zero", "freeing", "free"} => arg[t] # Null

(* The list holds no object twice.                                         *)
Distinct == \A i, j \in 1 .. Len(ll_list) : ll_list[i] = ll_list[j] => i = j

(* An object that malloc() has given out carries the tag.                  *)
Tags == Objs \ system \subseteq tagged

(* An object is in one place.                                              *)
Apart ==
  /\ \A t \in Threads :
       /\ Owned(t) \cap (Cached \cup system) = {}
       /\ held[t] \cap InHand(t) = {}
       /\ \A u \in Threads \ {t} : Owned(t) \cap Owned(u) = {}
  /\ Cached \cap system = {}

Inv == Types /\ Locked /\ MainLast /\ Args /\ Distinct /\ Tags /\ Apart /\ ~aborted

-----------------------------------------------------------------------------
(* The objects of a sequence, and what the list operations do to them.     *)

Elems(s) == {s[i] : i \in DOMAIN s}

(* An object put in front of a list is added to it.                        *)
LEMMA Push ==
  ASSUME NEW S, NEW s \in Seq(S), NEW x \in S
  PROVE  /\ <<x>> \o s \in Seq(S) /\ Len(<<x>> \o s) = Len(s) + 1
         /\ \A i \in 1 .. Len(s) + 1 :
              (<<x>> \o s)[i] = IF i = 1 THEN x ELSE s[i - 1]
         /\ Elems(<<x>> \o s) = Elems(s) \cup {x}
<1>1. <<x>> \in Seq(S) /\ Len(<<x>>) = 1 /\ <<x>>[1] = x
  OBVIOUS
<1>2. /\ <<x>> \o s \in Seq(S) /\ Len(<<x>> \o s) = Len(s) + 1 /\ Len(s) \in Nat
      /\ \A i \in 1 .. Len(s) + 1 : (<<x>> \o s)[i] = IF i <= 1 THEN <<x>>[i] ELSE s[i - 1]
  BY <1>1, ConcatProperties, LenProperties
<1>3. \A i \in 1 .. Len(s) + 1 : (<<x>> \o s)[i] = IF i = 1 THEN x ELSE s[i - 1]
  BY <1>1, <1>2
<1>4. DOMAIN (<<x>> \o s) = 1 .. Len(s) + 1 /\ DOMAIN s = 1 .. Len(s)
  BY <1>2, LenProperties
<1>5. ASSUME NEW o PROVE o \in Elems(<<x>> \o s) <=> o \in Elems(s) \cup {x}
  <2>1. o \in Elems(<<x>> \o s) => o \in Elems(s) \cup {x}
    BY <1>2, <1>3, <1>4 DEF Elems
  <2>2. (<<x>> \o s)[1] = x /\ 1 \in 1 .. Len(s) + 1
    BY <1>2, <1>3
  <2>3. \A i \in 1 .. Len(s) : i + 1 \in 1 .. Len(s) + 1 /\ (<<x>> \o s)[i + 1] = s[i]
    BY <1>2, <1>3
  <2>4. x \in Elems(<<x>> \o s)
    BY <2>2, <1>4 DEF Elems
  <2>5. ASSUME o \in Elems(s) PROVE o \in Elems(<<x>> \o s)
    <3>1. PICK i \in 1 .. Len(s) : o = s[i]
      BY <2>5, <1>4 DEF Elems
    <3> QED
      BY <3>1, <2>3, <1>4 DEF Elems
  <2> QED
    BY <2>1, <2>4, <2>5
<1> QED
  BY <1>2, <1>3, <1>5

(* Taking the head off a list without repetition removes that object.      *)
LEMMA Pop ==
  ASSUME NEW S, NEW s \in Seq(S), s # <<>>,
         \A i, j \in 1 .. Len(s) : s[i] = s[j] => i = j
  PROVE  /\ Head(s) \in S /\ Head(s) \in Elems(s)
         /\ Tail(s) \in Seq(S) /\ Len(Tail(s)) = Len(s) - 1 /\ Len(s) \in Nat \ {0}
         /\ \A i, j \in 1 .. Len(Tail(s)) : Tail(s)[i] = Tail(s)[j] => i = j
         /\ Elems(Tail(s)) = Elems(s) \ {Head(s)}
<1>1. /\ Head(s) \in S /\ Tail(s) \in Seq(S) /\ Len(Tail(s)) = Len(s) - 1
      /\ \A i \in 1 .. Len(Tail(s)) : Tail(s)[i] = s[i + 1]
      /\ Len(s) \in Nat \ {0} /\ DOMAIN s = 1 .. Len(s)
      /\ DOMAIN Tail(s) = 1 .. Len(Tail(s)) /\ Head(s) = s[1]
  BY HeadTailProperties, LenProperties, EmptySeq
<1>2. \A i, j \in 1 .. Len(Tail(s)) : Tail(s)[i] = Tail(s)[j] => i = j
  <2> SUFFICES ASSUME NEW i \in 1 .. Len(Tail(s)), NEW j \in 1 .. Len(Tail(s)),
                      Tail(s)[i] = Tail(s)[j]
               PROVE  i = j
    OBVIOUS
  <2>1. i + 1 \in 1 .. Len(s) /\ j + 1 \in 1 .. Len(s) /\ s[i + 1] = s[j + 1]
    BY <1>1
  <2> QED
    BY <2>1
<1>3. ASSUME NEW o PROVE o \in Elems(Tail(s)) <=> o \in Elems(s) \ {Head(s)}
  <2>1. ASSUME o \in Elems(Tail(s)) PROVE o \in Elems(s) \ {Head(s)}
    <3>1. PICK i \in 1 .. Len(Tail(s)) : o = Tail(s)[i]
      BY <2>1, <1>1 DEF Elems
    <3>2. i + 1 \in 1 .. Len(s) /\ 1 \in 1 .. Len(s) /\ i + 1 # 1 /\ o = s[i + 1]
      BY <1>1, <3>1
    <3> QED
      BY <3>2, <1>1 DEF Elems
  <2>2. ASSUME o \in Elems(s) \ {Head(s)} PROVE o \in Elems(Tail(s))
    <3>1. PICK i \in 1 .. Len(s) : o = s[i]
      BY <2>2, <1>1 DEF Elems
    <3>2. i # 1
      BY <3>1, <2>2, <1>1
    <3>3. i - 1 \in 1 .. Len(Tail(s)) /\ o = Tail(s)[i - 1]
      BY <1>1, <3>1, <3>2
    <3> QED
      BY <3>3, <1>1 DEF Elems
  <2> QED
    BY <2>1, <2>2
<1>4. Head(s) \in Elems(s)
  BY <1>1 DEF Elems
<1> QED
  BY <1>1, <1>2, <1>3, <1>4

(* A list without repetition is as long as the number of its objects.      *)
LEMMA DistinctCounts ==
  ASSUME NEW S, NEW s \in Seq(S),
         \A i, j \in 1 .. Len(s) : s[i] = s[j] => i = j
  PROVE  Cardinality(Elems(s)) = Len(s) /\ IsFiniteSet(Elems(s))
<1>1. s \in [1 .. Len(s) -> S] /\ Len(s) \in Nat /\ DOMAIN s = 1 .. Len(s)
  BY LenProperties
<1>2. s \in [1 .. Len(s) -> Elems(s)]
  BY <1>1 DEF Elems
<1>3. s \in Injection(1 .. Len(s), Elems(s))
  BY <1>2, Fun_IsInj
<1>4. s \in Surjection(1 .. Len(s), Elems(s))
  <2>1. \A o \in Elems(s) : \E i \in 1 .. Len(s) : s[i] = o
    BY <1>1 DEF Elems
  <2> QED
    BY <1>2, <2>1, Fun_IsSurj
<1>5. IsFiniteSet(1 .. Len(s)) /\ Cardinality(1 .. Len(s)) = Len(s)
  <2>1. Len(s) \in Int /\ 1 \in Int /\ Len(s) >= 0
    BY <1>1
  <2>2. /\ IsFiniteSet(1 .. Len(s))
        /\ Cardinality(1 .. Len(s)) = IF 1 > Len(s) THEN 0 ELSE Len(s) - 1 + 1
    BY <2>1, FS_Interval
  <2> QED
    BY <2>1, <2>2
<1> QED
  BY <1>3, <1>4, <1>5, FS_Surjection

-----------------------------------------------------------------------------
(* With one thread there is no lock, and nobody to lock out.               *)
LEMMA Alone == ~Safe => Threads = {Main}
<1>1. Cardinality(Threads) \in Nat /\ Main \in Threads /\ IsFiniteSet(Threads)
  BY LookasideAssumption, FS_CardinalityType
<1>2. Cardinality(Threads) # 0
  BY <1>1, FS_EmptySet
<1>3. ~Safe => Cardinality(Threads) = 1
  BY <1>1, <1>2 DEF Safe
<1> QED
  BY <1>1, <1>3, FS_Singleton

(* The initial state has the invariant.                                    *)
LEMMA InvInit == Init => Inv
<1> SUFFICES ASSUME Init PROVE Inv
  OBVIOUS
<1> USE LookasideAssumption DEF Init
<1>1. Types
  <2>1. ll_list \in Seq(Objs) /\ ll_lock \in Threads \cup {Null, "destroyed"}
    OBVIOUS
  <2>2. tpc \in [Threads -> Pcs] /\ arg \in [Threads -> Objs \cup {Null}]
    BY DEF Pcs
  <2>3. held \in [Threads -> SUBSET Objs] /\ fresh \in [Threads -> SUBSET Objs]
    OBVIOUS
  <2>4. /\ system \subseteq Objs /\ tagged \subseteq Objs /\ dirty \subseteq Objs
        /\ aborted \in BOOLEAN
    OBVIOUS
  <2> QED
    BY <2>1, <2>2, <2>3, <2>4 DEF Types
<1>2. Cached = {} /\ \A t \in Threads : Owned(t) = {} /\ InHand(t) = {}
  BY DEF Cached, Owned, InHand
<1>3. Locked
  BY Alone DEF Locked, Inside
<1>4. MainLast /\ Args /\ Distinct /\ Tags /\ ~aborted
  BY DEF MainLast, Args, Distinct, Tags
<1>5. Apart
  BY <1>2 DEF Apart
<1> QED
  BY <1>1, <1>3, <1>4, <1>5 DEF Inv

(* The cached objects are those of the list.                               *)
LEMMA CachedElems ==
  Types => /\ Cached = Elems(ll_list) /\ Cached \subseteq Objs
           /\ (ll_list = <<>> => Cached = {})
<1> SUFFICES ASSUME Types PROVE /\ Cached = Elems(ll_list) /\ Cached \subseteq Objs
                                /\ (ll_list = <<>> => Cached = {})
  OBVIOUS
<1>1. ll_list \in [1 .. Len(ll_list) -> Objs] /\ DOMAIN ll_list = 1 .. Len(ll_list)
  BY LenProperties DEF Types
<1> QED
  BY <1>1 DEF Cached, Elems

(* With threads, two of them are not inside at the same time.              *)
LEMMA Mutex ==
  ASSUME Locked, NEW t \in Threads, NEW u \in Threads, Inside(t), Inside(u)
  PROVE  t = u
BY DEF Locked

(* The steps of alloc().                                                   *)
LEMMA AllocSteps ==
  ASSUME Inv, ~Racing, NEW t \in Threads,
         AllocLock(t) \/ AllocFront(t) \/ AllocDel(t) \/ AllocUnlock(t) \/ AllocZero(t)
  PROVE  Inv'
<1> USE DEF Inv
<1>1. CASE AllocLock(t)
  <2> USE <1>1 DEF AllocLock, At, Goto, shared, users
  <2>1. Types'
    BY DEF Types, Pcs, Lock
  <2>2. Locked'
    BY LookasideAssumption DEF Types, Locked, Inside, Lock, OnOff, MainLast, Pcs
  <2>3. MainLast' /\ Args'
    BY DEF Types, MainLast, Args, Pcs
  <2>4. Distinct' /\ Tags' /\ ~aborted'
    BY DEF Distinct, Tags
  <2>5. Cached' = Cached /\ \A u \in Threads : Owned(u)' = Owned(u) /\ InHand(u)' = InHand(u)
    BY DEF Types, Cached, Owned, InHand, Pcs
  <2>6. Apart'
    BY <2>5 DEF Apart
  <2> QED
    BY <2>1, <2>2, <2>3, <2>4, <2>6
<1>2. CASE AllocFront(t)
  <2> USE <1>2 DEF AllocFront, At, Goto, users
  <2>1. Types'
    BY HeadTailProperties DEF Types, Pcs
  <2>2. Locked'
    BY LookasideAssumption DEF Types, Locked, Inside, MainLast, Pcs
  <2>3. MainLast'
    <3>1. \E pc \in {"take", "give"} : tpc' = [tpc EXCEPT ![t] = pc]
      OBVIOUS
    <3>2. ll_list' = ll_list
      OBVIOUS
    <3> HIDE <1>2 DEF AllocFront
    <3> QED
      BY <1>2, <3>1, <3>2 DEF AllocFront, Types, MainLast, Pcs
  <2>4. Args'
    BY HeadTailProperties, LookasideAssumption DEF Types, Args, Pcs
  <2>5. Distinct' /\ Tags' /\ ~aborted'
    BY DEF Distinct, Tags
  <2>6. Cached' = Cached /\ held' = held /\ InHand(t) = {}
    BY DEF Types, Cached, InHand
  <2>7. \A u \in Threads \ {t} : InHand(u)' = InHand(u)
    BY DEF Types, InHand
  <2>8. \/ InHand(t)' = {} /\ system' = system
        \/ \E o \in system : InHand(t)' = {o} /\ system' = system \ {o} /\ Cached = {}
    BY LookasideAssumption, CachedElems DEF Types, InHand
  <2>9. Apart'
    BY <2>6, <2>7, <2>8 DEF Apart, Owned, Types
  <2> QED
    BY <2>1, <2>2, <2>3, <2>4, <2>5, <2>9
<1>3. CASE AllocDel(t)
  <2> USE <1>3 DEF AllocDel, At, Goto, users
  <2>1. /\ ll_list # <<>> /\ arg[t] = Head(ll_list) /\ ll_list' = Tail(ll_list)
        /\ ll_list \in Seq(Objs)
    BY DEF Args, Types
  <2>2. /\ arg[t] \in Objs /\ arg[t] \in Cached /\ ll_list' \in Seq(Objs)
        /\ Cached' = Cached \ {arg[t]} /\ Distinct'
    <3>1. /\ Head(ll_list) \in Objs /\ Head(ll_list) \in Elems(ll_list)
          /\ ll_list' \in Seq(Objs) /\ Distinct'
          /\ Elems(ll_list') = Elems(ll_list) \ {Head(ll_list)}
      BY <2>1, Pop DEF Distinct
    <3>2. Cached = Elems(ll_list) /\ Cached' = Elems(ll_list')
      BY DEF Cached, Elems
    <3> QED
      BY <2>1, <3>1, <3>2
  <2>3. arg[t] \notin system /\ aborted' = FALSE
    BY <2>2 DEF Apart, Tags, TagWrong
  <2>4. Types'
    BY <2>2, <2>3 DEF Types, Pcs
  <2>5. Locked' /\ Inside(t)
    BY LookasideAssumption DEF Types, Locked, Inside, MainLast, Pcs
  <2>6. MainLast' /\ Tags'
    BY DEF Types, MainLast, Pcs, Tags
  <2>7. \A u \in Threads \ {t} : tpc[u] # "take"
    BY <2>5, Mutex DEF Inside
  <2>8. Args'
    BY <2>2, <2>7, LookasideAssumption DEF Types, Args, Pcs
  <2>9. InHand(t)' = {arg[t]} /\ InHand(t) = {} /\ \A u \in Threads \ {t} : InHand(u)' = InHand(u)
    BY <2>2, LookasideAssumption DEF Types, InHand
  <2>10. Apart'
    BY <2>2, <2>3, <2>9 DEF Apart, Owned, Types
  <2> QED
    BY <2>2, <2>3, <2>4, <2>5, <2>6, <2>8, <2>10
<1>4. CASE AllocUnlock(t)
  <2> USE <1>4 DEF AllocUnlock, At, Goto, users
  <2>1. Types'
    BY DEF Types, Pcs, Unlock
  <2>2. Inside(t)
    BY DEF Inside
  <2>3. Locked'
    BY <2>2, Mutex, LookasideAssumption DEF Types, Locked, Inside, Unlock, MainLast, Pcs
  <2>4. MainLast' /\ Args'
    BY DEF Types, MainLast, Args, Pcs
  <2>5. Distinct' /\ Tags' /\ ~aborted'
    BY DEF Distinct, Tags
  <2>6. /\ Cached' = Cached /\ held' = held /\ system' = system
        /\ \A u \in Threads : InHand(u)' = InHand(u)
    BY DEF Types, Cached, InHand
  <2>7. Apart'
    BY <2>6 DEF Apart, Owned
  <2> QED
    BY <2>1, <2>3, <2>4, <2>5, <2>7
<1>5. CASE AllocZero(t)
  <2> USE <1>5 DEF AllocZero, At, Goto, shared
  <2>1. arg[t] \in Objs
    BY DEF Args, Types
  <2>2. Types'
    BY <2>1 DEF Types, Pcs
  <2>3. Locked'
    BY LookasideAssumption DEF Types, Locked, Inside, MainLast, Pcs
  <2>4. MainLast' /\ Args'
    BY DEF Types, MainLast, Args, Pcs
  <2>5. Distinct' /\ Tags' /\ ~aborted'
    BY DEF Distinct, Tags
  <2>6. /\ Cached' = Cached /\ system' = system
        /\ \A u \in Threads : Owned(u)' = Owned(u) /\ held'[u] \cap InHand(u)' = {}
    BY <2>1, LookasideAssumption DEF Types, Cached, Owned, InHand, Apart
  <2>7. Apart'
    BY <2>6 DEF Apart
  <2> QED
    BY <2>2, <2>3, <2>4, <2>5, <2>7
<1> QED
  BY <1>1, <1>2, <1>3, <1>4, <1>5

(* The steps of the caller and of free().                                  *)
LEMMA FreeSteps ==
  ASSUME Inv, ~Racing, NEW t \in Threads,
         \/ \E o \in Objs : Write(t, o) \/ FreeTag(t, o)
         \/ FreeLock(t) \/ FreePut(t) \/ Stop(t)
  PROVE  Inv'
<1> USE DEF Inv
<1>1. ASSUME NEW o \in Objs, Write(t, o) PROVE Inv'
  <2> USE <1>1 DEF Write, At, shared
  <2>1. Types'
    BY DEF Types
  <2>2. Locked' /\ MainLast' /\ Args'
    BY DEF Locked, Inside, MainLast, Args
  <2>3. Distinct' /\ Tags' /\ ~aborted'
    BY DEF Distinct, Tags
  <2>4. Apart'
    BY DEF Apart, Owned, InHand, Cached
  <2> QED
    BY <2>1, <2>2, <2>3, <2>4
<1>2. ASSUME NEW o \in Objs, FreeTag(t, o) PROVE Inv'
  <2> USE <1>2 DEF FreeTag, At, Goto, shared
  <2>1. o \in Owned(t) /\ o # Null
    BY LookasideAssumption DEF Owned
  <2>2. aborted' = FALSE
    BY <2>1 DEF Apart, Tags, TagWrong
  <2>3. Types'
    BY <2>2 DEF Types, Pcs
  <2>4. Locked'
    BY LookasideAssumption DEF Types, Locked, Inside, MainLast, Pcs
  <2>5. MainLast' /\ Args'
    BY <2>1 DEF Types, MainLast, Args, Pcs
  <2>6. Distinct' /\ Tags'
    BY DEF Distinct, Tags
  <2>7. /\ Cached' = Cached /\ system' = system
        /\ \A u \in Threads : Owned(u)' = Owned(u) /\ held'[u] \cap InHand(u)' = {}
    BY <2>1, LookasideAssumption DEF Types, Cached, Owned, InHand, Apart
  <2>8. Apart'
    BY <2>7 DEF Apart
  <2> QED
    BY <2>2, <2>3, <2>4, <2>5, <2>6, <2>8
<1>3. CASE FreeLock(t)
  <2> USE <1>3 DEF FreeLock, At, Goto, shared, users
  <2>1. Types'
    BY DEF Types, Pcs, Lock
  <2>2. Locked'
    BY LookasideAssumption DEF Types, Locked, Inside, Lock, OnOff, MainLast, Pcs
  <2>3. MainLast' /\ Args'
    BY DEF Types, MainLast, Args, Pcs
  <2>4. Distinct' /\ Tags' /\ ~aborted'
    BY DEF Distinct, Tags
  <2>5. Cached' = Cached /\ \A u \in Threads : Owned(u)' = Owned(u) /\ InHand(u)' = InHand(u)
    BY DEF Types, Cached, Owned, InHand, Pcs
  <2>6. Apart'
    BY <2>5 DEF Apart
  <2> QED
    BY <2>1, <2>2, <2>3, <2>4, <2>6
<1>4. CASE FreePut(t)
  <2> USE <1>4 DEF FreePut, At, Goto, users
  <2>1. arg[t] \in Objs /\ arg[t] \in Owned(t) /\ Inside(t)
    BY DEF Args, Types, Owned, InHand, Inside
  <2>2. arg[t] \notin Cached /\ arg[t] \notin system
    BY <2>1 DEF Apart
  <2>3. /\ ll_list' \in Seq(Objs) /\ Distinct'
        /\ \/ Cached' = Cached /\ system' = system \cup {arg[t]} /\ tagged' = tagged \ {arg[t]}
           \/ Cached' = Cached \cup {arg[t]} /\ system' = system /\ tagged' = tagged
    <3>1. CASE Len(ll_list) > HighLevel
      BY <3>1 DEF Types, Distinct, Cached
    <3>2. CASE ~(Len(ll_list) > HighLevel)
      <4>1. ll_list' = <<arg[t]>> \o ll_list /\ ll_list \in Seq(Objs) /\ Len(ll_list) \in Nat
        BY <3>2, LenProperties DEF Types
      <4>2. Cached' = Cached \cup {arg[t]} /\ ll_list' \in Seq(Objs)
        <5>1. Elems(ll_list') = Elems(ll_list) \cup {arg[t]} /\ ll_list' \in Seq(Objs)
          BY <4>1, <2>1, Push
        <5> QED
          BY <5>1 DEF Cached, Elems
      <4>3. \A i \in 1 .. Len(ll_list) : ll_list[i] # arg[t]
        BY <4>1, <2>2, LenProperties DEF Cached
      <4>4. /\ Len(ll_list') = Len(ll_list) + 1
            /\ \A i \in 1 .. Len(ll_list) + 1 :
                 ll_list'[i] = IF i = 1 THEN arg[t] ELSE ll_list[i - 1]
        BY <4>1, <2>1, Push
      <4>5. ASSUME NEW i \in 1 .. Len(ll_list'), NEW j \in 1 .. Len(ll_list'),
                   ll_list'[i] = ll_list'[j]
            PROVE  i = j
        <5>1. i \in 1 .. Len(ll_list) + 1 /\ j \in 1 .. Len(ll_list) + 1
          BY <4>4
        <5>2. CASE i = 1 \/ j = 1
          <6>1. \A k \in 1 .. Len(ll_list) + 1 : k # 1 => ll_list'[k] # arg[t]
            <7> SUFFICES ASSUME NEW k \in 1 .. Len(ll_list) + 1, k # 1
                         PROVE  ll_list'[k] # arg[t]
              OBVIOUS
            <7>1. k - 1 \in 1 .. Len(ll_list) /\ ll_list'[k] = ll_list[k - 1]
              BY <4>1, <4>4
            <7> QED
              BY <7>1, <4>3
          <6>2. 1 \in 1 .. Len(ll_list) + 1 /\ ll_list'[1] = arg[t]
            BY <4>1, <4>4
          <6> QED
            BY <6>1, <6>2, <4>5, <5>1, <5>2
        <5>3. CASE i # 1 /\ j # 1
          <6>1. i - 1 \in 1 .. Len(ll_list) /\ j - 1 \in 1 .. Len(ll_list)
            BY <4>1, <5>1, <5>3
          <6>2. ll_list[i - 1] = ll_list[j - 1]
            BY <4>4, <4>5, <5>1, <5>3
          <6>3. i - 1 = j - 1
            BY <6>1, <6>2 DEF Distinct
          <6> QED
            BY <6>3, <5>1
        <5> QED
          BY <5>2, <5>3
      <4> QED
        BY <3>2, <4>2, <4>5 DEF Distinct
    <3> QED
      BY <3>1, <3>2
  <2>4. Types'
    BY <2>1, <2>3 DEF Types, Pcs, Unlock
  <2>5. Locked'
    BY <2>1, Mutex, LookasideAssumption DEF Types, Locked, Inside, Unlock, MainLast, Pcs
  <2>6. MainLast'
    BY DEF Types, MainLast, Pcs
  <2>7. \A u \in Threads \ {t} : tpc[u] # "take"
    BY <2>1, Mutex DEF Inside
  <2>8. Args'
    BY <2>7 DEF Types, Args, Pcs
  <2>9. Tags' /\ ~aborted'
    BY <2>3 DEF Tags
  <2>10. /\ InHand(t)' = {} /\ InHand(t) = {arg[t]} /\ held' = held
         /\ \A u \in Threads \ {t} : InHand(u)' = InHand(u)
    BY <2>1, LookasideAssumption DEF Types, InHand
  <2>11. Apart'
    BY <2>2, <2>3, <2>10 DEF Apart, Owned, Types
  <2> QED
    BY <2>3, <2>4, <2>5, <2>6, <2>8, <2>9, <2>11
<1>5. CASE Stop(t)
  <2> USE <1>5 DEF Stop, At, Goto, shared, users
  <2>1. Types'
    BY DEF Types, Pcs
  <2>2. Locked'
    BY LookasideAssumption DEF Types, Locked, Inside, MainLast, Pcs
  <2>3. MainLast' /\ Args'
    BY LookasideAssumption DEF Types, MainLast, Args, Pcs
  <2>4. Distinct' /\ Tags' /\ ~aborted'
    BY DEF Distinct, Tags
  <2>5. Cached' = Cached /\ \A u \in Threads : Owned(u)' = Owned(u) /\ InHand(u)' = InHand(u)
    BY DEF Types, Cached, Owned, InHand, Pcs
  <2>6. Apart'
    BY <2>5 DEF Apart
  <2> QED
    BY <2>1, <2>2, <2>3, <2>4, <2>6
<1> QED
  BY <1>1, <1>2, <1>3, <1>4, <1>5

(* The steps of destroy().                                                 *)
LEMMA DestroySteps ==
  ASSUME Inv, ~Racing, DestroyLock \/ Drain \/ DrainDone \/ DestroyDone
  PROVE  Inv'
<1> USE LookasideAssumption DEF Inv
<1>1. CASE DestroyLock
  <2> USE <1>1 DEF DestroyLock, At, Goto, shared, users
  <2>1. Types'
    BY DEF Types, Pcs, Lock
  <2>2. Locked'
    BY DEF Types, Locked, Inside, Lock, OnOff, MainLast, Pcs
  <2>3. MainLast' /\ Args'
    BY DEF Types, MainLast, Args, Pcs
  <2>4. Distinct' /\ Tags' /\ ~aborted'
    BY DEF Distinct, Tags
  <2>5. Cached' = Cached /\ \A u \in Threads : Owned(u)' = Owned(u) /\ InHand(u)' = InHand(u)
    BY DEF Types, Cached, Owned, InHand, Pcs
  <2>6. Apart'
    BY <2>5 DEF Apart
  <2> QED
    BY <2>1, <2>2, <2>3, <2>4, <2>6
<1>2. CASE Drain
  <2> USE <1>2 DEF Drain, At, users
  <2> DEFINE o == Head(ll_list)
  <2>1. /\ o \in Objs /\ o \in Cached /\ ll_list' \in Seq(Objs)
        /\ Cached' = Cached \ {o} /\ Distinct'
    <3>1. /\ o \in Objs /\ o \in Elems(ll_list)
          /\ ll_list' \in Seq(Objs) /\ Distinct'
          /\ Elems(ll_list') = Elems(ll_list) \ {o}
      BY Pop DEF Distinct, Types
    <3>2. Cached = Elems(ll_list) /\ Cached' = Elems(ll_list')
      BY DEF Cached, Elems
    <3> QED
      BY <3>1, <3>2
  <2>2. o \notin system /\ aborted' = FALSE
    BY <2>1 DEF Apart, Tags, TagWrong
  <2>3. Types'
    BY <2>1, <2>2 DEF Types
  <2>4. Locked' /\ MainLast'
    BY DEF Locked, Inside, MainLast
  <2>5. Args'
    BY DEF Args, MainLast
  <2>6. Tags'
    BY DEF Tags
  <2>7. \A u \in Threads : InHand(u)' = InHand(u) /\ held' = held
    BY DEF InHand
  <2>8. Apart'
    BY <2>1, <2>2, <2>7 DEF Apart, Owned
  <2> QED
    BY <2>1, <2>2, <2>3, <2>4, <2>5, <2>6, <2>8
<1>3. CASE DrainDone
  <2> USE <1>3 DEF DrainDone, At, Goto, shared, users
  <2>1. Types'
    BY DEF Types, Pcs, Unlock
  <2>2. Locked'
    BY DEF Types, Locked, Inside, Unlock, MainLast, Pcs
  <2>3. MainLast' /\ Args'
    BY DEF Types, MainLast, Args, Pcs
  <2>4. Distinct' /\ Tags' /\ ~aborted'
    BY DEF Distinct, Tags
  <2>5. Cached' = Cached /\ \A u \in Threads : Owned(u)' = Owned(u) /\ InHand(u)' = InHand(u)
    BY DEF Types, Cached, Owned, InHand, Pcs
  <2>6. Apart'
    BY <2>5 DEF Apart
  <2> QED
    BY <2>1, <2>2, <2>3, <2>4, <2>6
<1>4. CASE DestroyDone
  <2> USE <1>4 DEF DestroyDone, At, Goto, shared, users
  <2>1. Types'
    BY DEF Types, Pcs
  <2>2. Locked'
    BY DEF Types, Locked, Inside, MainLast, Pcs
  <2>3. MainLast' /\ Args'
    BY DEF Types, MainLast, Args, Pcs
  <2>4. Distinct' /\ Tags' /\ ~aborted'
    BY DEF Distinct, Tags
  <2>5. Cached' = Cached /\ \A u \in Threads : Owned(u)' = Owned(u) /\ InHand(u)' = InHand(u)
    BY DEF Types, Cached, Owned, InHand, Pcs
  <2>6. Apart'
    BY <2>5 DEF Apart
  <2> QED
    BY <2>1, <2>2, <2>3, <2>4, <2>6
<1> QED
  BY <1>1, <1>2, <1>3, <1>4

(* Every step keeps the invariant.                                         *)
LEMMA InvStep ==
  ASSUME Inv, ~Racing, [Next]_vars
  PROVE  Inv'
<1>1. ASSUME NEW t \in Threads,
             AllocLock(t) \/ AllocFront(t) \/ AllocDel(t) \/ AllocUnlock(t) \/ AllocZero(t)
      PROVE  Inv'
  BY <1>1, AllocSteps
<1>2. ASSUME NEW t \in Threads, \/ \E o \in Objs : Write(t, o) \/ FreeTag(t, o)
                                \/ FreeLock(t) \/ FreePut(t) \/ Stop(t)
      PROVE  Inv'
  BY <1>2, FreeSteps
<1>3. CASE DestroyLock \/ Drain \/ DrainDone \/ DestroyDone
  BY <1>3, DestroySteps
<1>4. CASE UNCHANGED vars
  <2> USE <1>4 DEF vars, shared, users, Inv
  <2>1. Types' /\ Locked' /\ MainLast' /\ Args' /\ ~aborted'
    BY DEF Types, Locked, Inside, MainLast, Args
  <2>2. Distinct' /\ Tags' /\ Apart'
    BY DEF Distinct, Tags, Apart, Owned, InHand, Cached
  <2> QED
    BY <2>1, <2>2
<1> QED
  BY <1>1, <1>2, <1>3, <1>4 DEF Next, Terminated

-----------------------------------------------------------------------------
(* What the steps do to the statistics and to the memory needs no lock.    *)
LEMMA CountsStep ==
  ASSUME Counts, [Next]_vars
  PROVE  Counts'
<1>1. ASSUME NEW t \in Threads, AllocDel(t) \/ AllocUnlock(t) \/ FreePut(t) PROVE Counts'
  BY <1>1 DEF AllocDel, AllocUnlock, FreePut, Count, Counts
<1>2. CASE UNCHANGED ll_misc
  BY <1>2 DEF Counts
<1> QED
  BY <1>1, <1>2 DEF Next, Terminated, vars, shared, AllocLock, AllocFront, AllocZero,
     FreeLock, Stop, Write, FreeTag, DestroyLock, Drain, DrainDone, DestroyDone

(* A caller has what it has not written to.                                *)
FreshHeld == \A t \in Threads : fresh[t] \subseteq held[t]

(* Whatever is written or cleared is with no other caller, because an      *)
(* object is in one place.                                                 *)
LEMMA ZeroedStep ==
  ASSUME Inv, FreshHeld, ZeroedWithThreads, [Next]_vars
  PROVE  FreshHeld' /\ ZeroedWithThreads'
<1> USE DEF Inv, FreshHeld, ZeroedWithThreads, Safe
<1>1. ASSUME NEW t \in Threads, AllocZero(t) PROVE FreshHeld' /\ ZeroedWithThreads'
  <2> USE <1>1 DEF AllocZero, At, Types
  <2>1. \A u \in Threads : arg[t] \notin held[u]
    <3>1. arg[t] \in InHand(t)
      BY DEF InHand, Args
    <3> QED
      BY <3>1 DEF Apart, Owned
  <2>2. ASSUME NEW u \in Threads, u # t PROVE held'[u] = held[u] /\ fresh'[u] = fresh[u]
    BY <2>2
  <2>3. held'[t] = held[t] \cup {arg[t]} /\ fresh'[t] = fresh[t] \cup {arg[t]}
    OBVIOUS
  <2>4. FreshHeld'
    BY <2>2, <2>3
  <2>5. Safe => dirty' = dirty \ {arg[t]}
    BY DEF OnOff
  <2> QED
    BY <2>1, <2>2, <2>3, <2>4, <2>5
<1>2. ASSUME NEW t \in Threads, AllocFront(t) PROVE FreshHeld' /\ ZeroedWithThreads'
  <2>1. held' = held /\ fresh' = fresh
    BY <1>2 DEF AllocFront
  <2>2. dirty' = dirty \/ \E o \in system : dirty' = dirty \cup {o}
    BY <1>2 DEF AllocFront
  <2>3. \A o \in system, u \in Threads : o \notin held[u]
    BY DEF Apart, Owned
  <2> QED
    BY <2>1, <2>2, <2>3
<1>3. ASSUME NEW t \in Threads, NEW o \in Objs, Write(t, o)
      PROVE  FreshHeld' /\ ZeroedWithThreads'
  <2> USE <1>3 DEF Write, Types
  <2>1. \A u \in Threads \ {t} : o \notin held[u] /\ fresh'[u] = fresh[u]
    BY DEF Apart, Owned
  <2>2. held' = held /\ fresh'[t] = fresh[t] \ {o} /\ dirty' = dirty \cup {o}
    OBVIOUS
  <2> QED
    BY <2>1, <2>2
<1>4. ASSUME NEW t \in Threads, NEW o \in Objs, FreeTag(t, o)
      PROVE  FreshHeld' /\ ZeroedWithThreads'
  <2>1. \A u \in Threads \ {t} : held'[u] = held[u] /\ fresh'[u] = fresh[u]
    BY <1>4 DEF FreeTag, Types
  <2>2. held'[t] = held[t] \ {o} /\ fresh'[t] = fresh[t] \ {o} /\ dirty' = dirty
    BY <1>4 DEF FreeTag, Types
  <2> QED
    BY <2>1, <2>2
<1>5. CASE UNCHANGED users
  BY <1>5 DEF users
<1> QED
  BY <1>1, <1>2, <1>3, <1>4, <1>5 DEF Next, Terminated, vars, AllocLock, AllocDel,
     AllocUnlock, FreeLock, FreePut, Stop, DestroyLock, Drain, DrainDone, DestroyDone

(* plm_lookaside_list_alloc(), _free() and _destroy(), called by any number*)
(* of threads of which only Main is left at the end, keep the shape of     *)
(* every variable, and no check of a tag aborts the process.               *)
THEOREM TypeCorrect ==
  ASSUME ~Racing
  PROVE  Spec => []TypeOK
<1>1. Init => Counts
  BY DEF Init, Counts
<1>2. Inv /\ Counts => TypeOK
  BY DEF Inv, Types, Counts, TypeOK, Pcs
<1>3. Inv /\ Counts /\ [Next]_vars => (Inv /\ Counts)'
  BY InvStep, CountsStep
<1> QED
  BY InvInit, <1>1, <1>2, <1>3, PTL DEF Spec

(* The lock of plm_lookaside_list.c:121-201 does what it is for: for any   *)
(* number of threads and objects and any ll_high_level, no object is ever  *)
(* with two callers, or in the list and with a caller, or twice in the     *)
(* list; if the other threads have stopped before the list is destroyed.   *)
THEOREM OnePlaceHolds ==
  ASSUME ~Racing
  PROVE  Spec => []OnePlace
<1>1. Inv => OnePlace
  <2> SUFFICES ASSUME Inv PROVE OnePlace
    OBVIOUS
  <2>1. Cardinality(Cached) = Len(ll_list)
    BY CachedElems, DistinctCounts DEF Inv, Types, Distinct
  <2> QED
    BY <2>1 DEF Inv, Apart, OnePlace
<1>2. Inv /\ [Next]_vars => Inv'
  BY InvStep
<1> QED
  BY InvInit, <1>1, <1>2, PTL DEF Spec

(* The clearing after the unlock (plm_lookaside_list.c:159) is enough, for *)
(* any number of threads and objects: no other thread writes to an object  *)
(* between its memset() and the caller's first write, and no memset()      *)
(* wipes out what a caller wrote.  The argument is OnePlaceHolds.          *)
THEOREM ZeroedHolds ==
  ASSUME ~Racing
  PROVE  Spec => []ZeroedWithThreads
<1>1. Init => FreshHeld /\ ZeroedWithThreads
  BY DEF Init, FreshHeld, ZeroedWithThreads
<1>2. Inv /\ FreshHeld /\ ZeroedWithThreads /\ [Next]_vars
        => Inv' /\ FreshHeld' /\ ZeroedWithThreads'
  BY InvStep, ZeroedStep
<1> QED
  BY InvInit, <1>1, <1>2, PTL DEF Spec

-----------------------------------------------------------------------------
(* The refinement of module Allocator.                                     *)

(* Where an object is, for the allocator.                                  *)
LEMMA PlaceOf ==
  ASSUME Inv, NEW o \in Objs
  PROVE  /\ o \in system => Places(o) = {"system"}
         /\ o \in Cached => Places(o) = {"list"}
         /\ \A t \in Threads : o \in Owned(t) => Places(o) = {t}
BY LookasideAssumption DEF Inv, Apart, Places

(* A kept object of the allocator is one in the list.                      *)
LEMMA KeptIsCached ==
  ASSUME Inv
  PROVE  Alloc!Kept = Cached
<1>1. Cached \subseteq Objs
  BY CachedElems DEF Inv
<1>2. \A o \in Objs : "list" \in Places(o) <=> o \in Cached
  BY LookasideAssumption DEF Places
<1> QED
  BY <1>1, <1>2 DEF Alloc!Kept

(* One object moves, the others stay: a step of the allocator.             *)
LEMMA Moves ==
  ASSUME NEW o \in Objs, NEW from, NEW to,
         Places(o) = {from}, Places(o)' = {to},
         \A q \in Objs \ {o} : Places(q)' = Places(q),
         (tpc[Main] \notin {"destroy", "end"})' = (tpc[Main] \notin {"destroy", "end"})
  PROVE  Alloc!Move(o, from, to)
<1> DEFINE place == [q \in Objs |-> Places(q)]
<1>1. place[o] = {from}
  OBVIOUS
<1>2. place' = [place EXCEPT ![o] = {to}]
  OBVIOUS
<1> QED
  BY <1>1, <1>2 DEF Alloc!Move

(* A step that moves no object is none of the allocator's.                 *)
LEMMA Stays ==
  ASSUME UNCHANGED <<system, Cached>>, \A t \in Threads : Owned(t)' = Owned(t),
         (tpc[Main] \notin {"destroy", "end"})' = (tpc[Main] \notin {"destroy", "end"})
  PROVE  UNCHANGED Alloc!avars
<1>1. \A q \in Objs : Places(q)' = Places(q)
  BY DEF Places
<1> QED
  BY <1>1 DEF Alloc!avars

Open == tpc[Main] \notin {"destroy", "end"}

(* alloc() takes an object when it removes it from the list, or gets it    *)
(* from malloc(); its other steps move nothing.                            *)
LEMMA AllocRefines ==
  ASSUME Inv, Inv', NEW t \in Threads,
         AllocLock(t) \/ AllocFront(t) \/ AllocDel(t) \/ AllocUnlock(t) \/ AllocZero(t)
  PROVE  [Alloc!Next]_Alloc!avars
<1> USE DEF Inv
<1>1. Open /\ Open'
  BY DEF AllocLock, AllocFront, AllocDel, AllocUnlock, AllocZero, At, Goto, Types, MainLast,
     Open, Pcs
<1>2. CASE AllocLock(t) \/ AllocUnlock(t) \/ AllocZero(t)
  <2>1. UNCHANGED <<system, ll_list>>
    BY <1>2 DEF AllocLock, AllocUnlock, AllocZero, shared
  <2>2. \A u \in Threads : Owned(u)' = Owned(u)
    BY <1>2, LookasideAssumption DEF AllocLock, AllocUnlock, AllocZero, At, Goto, users, Types,
       Args, Owned, InHand, Pcs
  <2>3. UNCHANGED <<system, Cached>>
    BY <2>1 DEF Cached
  <2> QED
    BY <1>1, <2>2, <2>3, Stays DEF Open
<1>3. CASE AllocFront(t)
  <2> USE <1>3 DEF AllocFront, At, Goto, users
  <2>1. /\ Cached' = Cached /\ held' = held /\ InHand(t) = {}
        /\ \A u \in Threads \ {t} : Owned(u)' = Owned(u)
    BY DEF Types, Cached, InHand, Owned
  <2>2. \/ InHand(t)' = {} /\ system' = system
        \/ \E o \in system : InHand(t)' = {o} /\ system' = system \ {o} /\ Cached = {}
    BY LookasideAssumption, CachedElems DEF Types, InHand
  <2>3. CASE InHand(t)' = {} /\ system' = system
    BY <1>1, <2>1, <2>3, Stays DEF Owned, Open
  <2>4. ASSUME NEW o \in system, InHand(t)' = {o}, system' = system \ {o}, Cached = {}
        PROVE  [Alloc!Next]_Alloc!avars
    <3>1. o \in Objs /\ Places(o) = {"system"}
      BY PlaceOf DEF Types
    <3>2. Places(o)' = {t}
      <4>1. o \notin system' /\ o \notin Cached' /\ \A u \in Threads : o \in Owned(u)' <=> u = t
        BY <2>1, <2>4 DEF Apart, Owned
      <4> QED
        BY <4>1 DEF Places
    <3>3. \A q \in Objs \ {o} : Places(q)' = Places(q)
      BY <2>1, <2>4 DEF Places, Owned
    <3>4. Alloc!Move(o, "system", t) /\ Alloc!Kept = {}
      BY <1>1, <2>4, <3>1, <3>2, <3>3, Moves, KeptIsCached DEF Open
    <3>5. Alloc!Allocate(t, o)
      BY <1>1, <3>4 DEF Alloc!Allocate, Open
    <3> QED
      BY <3>1, <3>5 DEF Alloc!Next
  <2> QED
    BY <2>2, <2>3, <2>4
<1>4. CASE AllocDel(t)
  <2> USE <1>4 DEF AllocDel, At, Goto, users
  <2> DEFINE o == arg[t]
  <2>1. /\ ll_list # <<>> /\ o = Head(ll_list) /\ ll_list' = Tail(ll_list)
        /\ ll_list \in Seq(Objs) /\ system' = system
    BY DEF Args, Types
  <2>2. o \in Objs /\ o \in Cached /\ Cached' = Cached \ {o}
    <3>1. /\ Head(ll_list) \in Objs /\ Head(ll_list) \in Elems(ll_list)
          /\ Elems(ll_list') = Elems(ll_list) \ {Head(ll_list)}
      BY <2>1, Pop DEF Distinct
    <3>2. Cached = Elems(ll_list) /\ Cached' = Elems(ll_list')
      BY DEF Cached, Elems
    <3> QED
      BY <2>1, <3>1, <3>2
  <2>3. Owned(t)' = Owned(t) \cup {o} /\ \A u \in Threads \ {t} : Owned(u)' = Owned(u)
    BY <2>2, LookasideAssumption DEF Types, Owned, InHand
  <2>4. Places(o) = {"list"}
    BY <2>2, PlaceOf
  <2>5. Places(o)' = {t}
    <3>1. o \notin system' /\ o \notin Cached' /\ \A u \in Threads : o \in Owned(u)' <=> u = t
      BY <2>1, <2>2, <2>3 DEF Apart
    <3> QED
      BY <3>1 DEF Places
  <2>6. \A q \in Objs \ {o} : Places(q)' = Places(q)
    BY <2>1, <2>2, <2>3 DEF Places
  <2>7. Alloc!Move(o, "list", t)
    BY <1>1, <2>2, <2>4, <2>5, <2>6, Moves DEF Open
  <2>8. Alloc!Allocate(t, o)
    BY <1>1, <2>7 DEF Alloc!Allocate, Open
  <2> QED
    BY <2>2, <2>8 DEF Alloc!Next
<1> QED
  BY <1>2, <1>3, <1>4

(* free() keeps an object, or returns it, when it has the lock.            *)
LEMMA FreeRefines ==
  ASSUME Inv, Inv', NEW t \in Threads,
         \/ \E o \in Objs : Write(t, o) \/ FreeTag(t, o)
         \/ FreeLock(t) \/ FreePut(t) \/ Stop(t)
  PROVE  [Alloc!Next]_Alloc!avars
<1> USE DEF Inv
<1>1. Open /\ Open'
  <2>1. tpc[t] \in {"idle", "freeing", "free"} /\ Open
    BY DEF Write, FreeTag, FreeLock, FreePut, Stop, At, Types, MainLast, Open
  <2>2. \/ tpc' = tpc
        \/ \E pc \in {"idle", "freeing", "free", "stopped"} : tpc' = [tpc EXCEPT ![t] = pc]
    BY DEF Write, FreeTag, FreeLock, FreePut, Stop, Goto
  <2> QED
    BY <2>1, <2>2, LookasideAssumption DEF Types, Open
<1>2. CASE (\E o \in Objs : Write(t, o) \/ FreeTag(t, o)) \/ FreeLock(t) \/ Stop(t)
  <2>1. UNCHANGED <<system, ll_list>>
    BY <1>2 DEF Write, FreeTag, FreeLock, Stop, shared
  <2>2. \A u \in Threads : Owned(u)' = Owned(u)
    <3>1. ASSUME NEW o \in Objs, FreeTag(t, o) PROVE \A u \in Threads : Owned(u)' = Owned(u)
      BY <3>1, LookasideAssumption DEF FreeTag, At, Goto, Types, Owned, InHand, Pcs
    <3>2. CASE (\E o \in Objs : Write(t, o)) \/ FreeLock(t) \/ Stop(t)
      BY <3>2 DEF Write, FreeLock, Stop, At, Goto, users, Types, Owned, InHand, Pcs
    <3> QED
      BY <1>2, <3>1, <3>2
  <2>3. UNCHANGED <<system, Cached>>
    BY <2>1 DEF Cached
  <2> QED
    BY <1>1, <2>2, <2>3, Stays DEF Open
<1>3. CASE FreePut(t)
  <2> USE <1>3 DEF FreePut, At, Goto, users
  <2> DEFINE o == arg[t]
  <2>1. o \in Objs /\ o \in Owned(t) /\ Places(o) = {t}
    BY PlaceOf DEF Args, Types, Owned, InHand
  <2>2. /\ InHand(t)' = {} /\ InHand(t) = {o} /\ held' = held
        /\ \A u \in Threads \ {t} : Owned(u)' = Owned(u)
    BY <2>1, LookasideAssumption DEF Types, InHand, Owned
  <2>3. Owned(t)' = Owned(t) \ {o}
    BY <2>2 DEF Apart, Owned
  <2>4. \A u \in Threads : o \notin Owned(u)'
    BY <2>1, <2>2, <2>3 DEF Apart
  <2>5. CASE Len(ll_list) > HighLevel
    <3>1. system' = system \cup {o} /\ Cached' = Cached
      BY <2>5 DEF Cached
    <3>2. Places(o)' = {"system"}
      BY <2>1, <2>4, <3>1 DEF Places, Apart
    <3>3. \A q \in Objs \ {o} : Places(q)' = Places(q)
      BY <2>2, <2>3, <3>1 DEF Places
    <3>4. Alloc!Move(o, t, "system")
      BY <1>1, <2>1, <3>2, <3>3, Moves DEF Open
    <3> QED
      BY <2>1, <3>4 DEF Alloc!Return, Alloc!Next
  <2>6. CASE ~(Len(ll_list) > HighLevel)
    <3>1. ll_list' = <<o>> \o ll_list /\ ll_list \in Seq(Objs) /\ system' = system
      BY <2>6 DEF Types
    <3>2. Cached' = Cached \cup {o}
      <4>1. Elems(ll_list') = Elems(ll_list) \cup {o}
        BY <2>1, <3>1, Push
      <4> QED
        BY <4>1 DEF Cached, Elems
    <3>3. Places(o)' = {"list"}
      BY <2>1, <2>4, <3>1, <3>2 DEF Places, Apart
    <3>4. \A q \in Objs \ {o} : Places(q)' = Places(q)
      BY <2>2, <2>3, <3>1, <3>2 DEF Places
    <3>5. Alloc!Move(o, t, "list")
      BY <1>1, <2>1, <3>3, <3>4, Moves DEF Open
    <3>6. Cardinality(Alloc!Kept) = Len(ll_list)
      BY KeptIsCached, CachedElems, DistinctCounts DEF Types, Distinct
    <3>7. Cardinality(Alloc!Kept) < HighLevel + 1
      BY <2>6, <3>1, <3>6, LenProperties, LookasideAssumption
    <3>8. Alloc!Keep(t, o)
      BY <1>1, <3>5, <3>7 DEF Alloc!Keep, Open, Alloc!Cardinality, Cardinality
    <3> QED
      BY <2>1, <3>8 DEF Alloc!Next
  <2> QED
    BY <2>5, <2>6
<1> QED
  BY <1>2, <1>3

(* destroy() returns every cached object, then the list is closed.         *)
LEMMA DestroyRefines ==
  ASSUME Inv, Inv', DestroyLock \/ Drain \/ DrainDone \/ DestroyDone
  PROVE  [Alloc!Next]_Alloc!avars
<1> USE LookasideAssumption DEF Inv
<1>1. CASE DestroyLock \/ DestroyDone
  <2>1. UNCHANGED <<system, Cached>> /\ Open' = Open
    BY <1>1 DEF DestroyLock, DestroyDone, shared, Cached, Open, At, Goto, Types
  <2>2. \A u \in Threads : Owned(u)' = Owned(u)
    BY <1>1 DEF DestroyLock, DestroyDone, At, Goto, users, Types, Owned, InHand, Pcs
  <2> QED
    BY <2>1, <2>2, Stays DEF Open
<1>2. CASE Drain
  <2> USE <1>2 DEF Drain, At, users
  <2>0. PICK o \in Objs : o = Head(ll_list)
    BY Pop DEF Distinct, Types
  <2>1. o \in Cached /\ Cached' = Cached \ {o} /\ system' = system \cup {o}
    <3>1. o \in Elems(ll_list) /\ Elems(ll_list') = Elems(ll_list) \ {o}
      BY <2>0, Pop DEF Distinct, Types
    <3>2. Cached = Elems(ll_list) /\ Cached' = Elems(ll_list')
      BY DEF Cached, Elems
    <3> QED
      BY <2>0, <3>1, <3>2
  <2>2. \A u \in Threads : Owned(u)' = Owned(u)
    BY DEF Owned, InHand
  <2>3. Places(o) = {"list"}
    BY <2>1, PlaceOf
  <2>4. Places(o)' = {"system"}
    BY <2>1, <2>2 DEF Apart, Places
  <2>5. \A q \in Objs \ {o} : Places(q)' = Places(q)
    BY <2>1, <2>2 DEF Places
  <2>6. Alloc!Move(o, "list", "system")
    BY <2>3, <2>4, <2>5, Moves
  <2> QED
    BY <2>6 DEF Alloc!Return, Alloc!Next
<1>3. CASE DrainDone
  <2> USE <1>3 DEF DrainDone, At, Goto, shared, users
  <2>1. Open /\ ~Open' /\ UNCHANGED <<system, Cached>>
    BY DEF Open, Types, Cached
  <2>2. \A u \in Threads : Owned(u)' = Owned(u)
    BY DEF Types, Owned, InHand, Pcs
  <2>3. Alloc!Kept = {}
    BY KeptIsCached, CachedElems
  <2>4. \A q \in Objs : Places(q)' = Places(q)
    BY <2>1, <2>2 DEF Places
  <2>5. Alloc!Close
    BY <2>1, <2>3, <2>4 DEF Alloc!Close, Open
  <2> QED
    BY <2>5 DEF Alloc!Next
<1> QED
  BY <1>1, <1>2, <1>3

(* The steps of plm_lookaside_list.c:121-201, interleaved in any way by any*)
(* number of threads, are those of an allocator that does each operation in*)
(* one step: the list implements module Allocator, for any ll_high_level.  *)
THEOREM AllocatesHolds ==
  ASSUME ~Racing
  PROVE  Spec => Allocates
<1>1. Init => Alloc!Init
  <2> SUFFICES ASSUME Init PROVE Alloc!Init
    OBVIOUS
  <2>1. Inv
    BY InvInit
  <2>2. [o \in Objs |-> Places(o)] = [o \in Objs |-> {"system"}]
    BY <2>1, PlaceOf DEF Init
  <2>3. tpc[Main] \notin {"destroy", "end"}
    BY LookasideAssumption DEF Init
  <2> QED
    BY <2>2, <2>3 DEF Alloc!Init
<1>2. ASSUME Inv, Inv', [Next]_vars PROVE [Alloc!Next]_Alloc!avars
  <2>1. ASSUME NEW t \in Threads,
               AllocLock(t) \/ AllocFront(t) \/ AllocDel(t) \/ AllocUnlock(t) \/ AllocZero(t)
        PROVE  [Alloc!Next]_Alloc!avars
    BY <1>2, <2>1, AllocRefines
  <2>2. ASSUME NEW t \in Threads, \/ \E o \in Objs : Write(t, o) \/ FreeTag(t, o)
                                  \/ FreeLock(t) \/ FreePut(t) \/ Stop(t)
        PROVE  [Alloc!Next]_Alloc!avars
    BY <1>2, <2>2, FreeRefines
  <2>3. CASE DestroyLock \/ Drain \/ DrainDone \/ DestroyDone
    BY <1>2, <2>3, DestroyRefines
  <2>4. CASE UNCHANGED vars
    BY <2>4, Stays DEF vars, shared, users, Cached, Owned, InHand
  <2> QED
    BY <1>2, <2>1, <2>2, <2>3, <2>4 DEF Next, Terminated
<1>3. Inv /\ [Next]_vars => Inv'
  BY InvStep
<1> QED
  BY InvInit, <1>1, <1>2, <1>3, PTL DEF Spec, Allocates, Alloc!Spec
=============================================================================
