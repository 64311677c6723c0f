------------------------------ MODULE Lookaside ------------------------------
(***************************************************************************)
(* A lookaside list (src/lib/plm_lookaside_list.c): a cache of objects of  *)
(* one size that the threads of a worker allocate from and free to.  The   *)
(* echo plugin keeps its clients in one (blk_list), src/lib/plm_buffer.c   *)
(* one per buffer size.  Behind it are malloc() and free().                *)
(*                                                                         *)
(* The main thread destroys the list in plm_plugin_destroy(), which does   *)
(* not wait for the other threads.  A step between lock and unlock is an   *)
(* action of its own, so that what happens without the lock is seen.       *)
(***************************************************************************)
EXTENDS Integers, Sequences, FiniteSets

CONSTANTS
  Threads,       \* the threads of the worker
  Main,          \* the one that initialises and destroys the list
  Objs,          \* addresses malloc() can return
  Null,          \* the null pointer, and no thread
  HighLevel,     \* ll_high_level; plm_buffer_init() passes -1
  ZeroMem,       \* the zero_memory argument of plm_lookaside_list_enable()
  TagCheck,      \* its tag_check argument
  Racing,        \* are other threads still running when Main destroys?
  MaxOps         \* bound: allocations

ASSUME LookasideAssumption ==
  /\ Main \in Threads /\ {"destroyed", "list", "system"} \cap Threads = {}
  /\ Null \notin Objs \cup Threads \cup {"destroyed"}
  /\ IsFiniteSet(Threads) /\ IsFiniteSet(Objs)
  /\ HighLevel \in Int /\ HighLevel >= -1 /\ MaxOps \in Nat
  /\ ZeroMem \in BOOLEAN /\ TagCheck \in BOOLEAN /\ Racing \in BOOLEAN

VARIABLES
  ll_list,   \* the cached objects, the head first
  ll_lock,   \* the thread that holds ll_lock, Null, or "destroyed"
  ll_misc,   \* the statistics
  system,    \* objects malloc() may return
  tagged,    \* objects whose header holds ll_tag
  dirty,     \* objects whose memory is not zero
  tpc, arg,  \* each thread: where it is, the object it works on
  held,      \* objects the caller has in each thread
  fresh,     \* those of held that the caller has not written to
  aborted    \* a tag check failed

shared == <<ll_list, ll_misc, system, tagged>>
users  == <<held, fresh, dirty>>
vars == <<shared, ll_lock, users, tpc, arg, aborted>>

Safe == Cardinality(Threads) > 1

(* Mutant of OnOff: thrdsafe is lost in the union.                         *)
OnOffUnsafe == [tag_check |-> TagCheck, zero_memory |-> ZeroMem, thrdsafe |-> FALSE]

(* plm_lookaside_list_enable() with what the plugins pass as thrdsafe: the *)
(* flags are bit fields of a union, so the last assignment decides all.    *)
OnOff == [tag_check |-> Safe, zero_memory |-> Safe, thrdsafe |-> Safe]

(* The statistics; the object of a step counts in some of them.            *)
Misc == {"alloc_times", "free_times", "from_list", "to_list", "failed"}
Count(S) ==
  ll_misc' = [n \in Misc |-> IF n \in S THEN ll_misc[n] + 1 ELSE ll_misc[n]]

(* plm_lookaside_list_init() and plm_lookaside_list_enable().  What        *)
(* malloc() returns is not zero.                                           *)
Init ==
  /\ ll_list = <<>> /\ ll_lock = Null /\ ll_misc = [n \in Misc |-> 0]
  /\ system = Objs /\ tagged = {} /\ dirty = Objs
  /\ tpc = [t \in Threads |-> "idle"] /\ arg = [t \in Threads |-> Null]
  /\ held = [t \in Threads |-> {}] /\ fresh = [t \in Threads |-> {}]
  /\ aborted = FALSE

At(t, pc) == ~aborted /\ tpc[t] = pc
Goto(t, pc) == tpc' = [tpc EXCEPT ![t] = pc]

(* plm_lock_lock() and plm_lock_unlock(): a destroyed mutex returns an     *)
(* error, which nobody looks at.                                           *)
Lock(t) ==
  IF OnOff.thrdsafe /\ ll_lock # "destroyed"
  THEN ll_lock = Null /\ ll_lock' = t
  ELSE UNCHANGED ll_lock
Unlock(t) == ll_lock' = IF ll_lock = t THEN Null ELSE ll_lock

(* The check of the header; it aborts the process.                         *)
TagWrong(o) == OnOff.tag_check /\ o \notin tagged

-----------------------------------------------------------------------------
(* plm_lookaside_list_alloc().                                             *)

AllocLock(t) ==
  /\ At(t, "idle") /\ ll_misc["alloc_times"] < MaxOps
  /\ Lock(t)
  /\ Goto(t, "alloc")
  /\ UNCHANGED <<shared, users, arg, aborted>>

(* The head of the list is looked at, or malloc() called, which may fail;  *)
(* what malloc() returns is not zero.                                      *)
AllocFront(t) ==
  /\ At(t, "alloc")
  /\ \/ /\ ll_list # <<>>
        /\ arg' = [arg EXCEPT ![t] = Head(ll_list)]
        /\ Goto(t, "take")
        /\ UNCHANGED <<system, tagged, dirty>>
     \/ /\ ll_list = <<>>
        /\ \E o \in system :
             /\ arg' = [arg EXCEPT ![t] = o]
             /\ system' = system \ {o} /\ tagged' = tagged \cup {o}
             /\ dirty' = dirty \cup {o}
        /\ Goto(t, "give")
     \/ /\ ll_list = <<>>
        /\ arg' = [arg EXCEPT ![t] = Null]
        /\ Goto(t, "give")
        /\ UNCHANGED <<system, tagged, dirty>>
  /\ UNCHANGED <<ll_list, ll_misc, ll_lock, held, fresh, aborted>>

(* The head is removed; the object that was looked at is the result.       *)
AllocDel(t) ==
  /\ At(t, "take")
  /\ ll_list' = IF ll_list = <<>> THEN <<>> ELSE Tail(ll_list)
  /\ Count({"from_list"})
  /\ aborted' = TagWrong(arg[t])
  /\ Goto(t, "give")
  /\ UNCHANGED <<ll_lock, system, tagged, users, arg>>

AllocUnlock(t) ==
  /\ At(t, "give")
  /\ Count({"alloc_times"} \cup (IF arg[t] = Null THEN {"failed"} ELSE {}))
  /\ Unlock(t)
  /\ Goto(t, IF arg[t] = Null THEN "idle" ELSE "zero")
  /\ UNCHANGED <<ll_list, system, tagged, users, arg, aborted>>

(* The memory is cleared outside the lock and handed to the caller.        *)
AllocZero(t) ==
  /\ At(t, "zero")
  /\ dirty' = IF OnOff.zero_memory THEN dirty \ {arg[t]} ELSE dirty
  /\ held' = [held EXCEPT ![t] = @ \cup {arg[t]}]
  /\ fresh' = [fresh EXCEPT ![t] = @ \cup {arg[t]}]
  /\ Goto(t, "idle")
  /\ UNCHANGED <<shared, ll_lock, arg, aborted>>

(* The caller writes to its object; another caller that was given the same *)
(* one does not know.                                                      *)
Write(t, o) ==
  /\ At(t, "idle") /\ o \in held[t]
  /\ fresh' = [fresh EXCEPT ![t] = @ \ {o}] /\ dirty' = dirty \cup {o}
  /\ UNCHANGED <<shared, ll_lock, held, tpc, arg, aborted>>

-----------------------------------------------------------------------------
(* plm_lookaside_list_free().                                              *)

(* The tag is checked before the lock is taken.                            *)
FreeTag(t, o) ==
  /\ At(t, "idle") /\ o \in held[t]
  /\ aborted' = TagWrong(o)
  /\ held' = [held EXCEPT ![t] = @ \ {o}] /\ fresh' = [fresh EXCEPT ![t] = @ \ {o}]
  /\ arg' = [arg EXCEPT ![t] = o]
  /\ Goto(t, "freeing")
  /\ UNCHANGED <<shared, ll_lock, dirty>>

FreeLock(t) ==
  /\ At(t, "freeing")
  /\ Lock(t)
  /\ Goto(t, "free")
  /\ UNCHANGED <<shared, users, arg, aborted>>

(* Free it when the list is longer than ll_high_level, else cache it.      *)
FreePut(t) ==
  /\ At(t, "free")
  /\ IF Len(ll_list) > HighLevel
     THEN /\ system' = system \cup {arg[t]} /\ tagged' = tagged \ {arg[t]}
          /\ Count({"free_times"})
          /\ UNCHANGED ll_list
     ELSE /\ ll_list' = <<arg[t]>> \o ll_list
          /\ Count({"free_times", "to_list"})
          /\ UNCHANGED <<system, tagged>>
  /\ Unlock(t)
  /\ Goto(t, "idle")
  /\ UNCHANGED <<users, arg, aborted>>

-----------------------------------------------------------------------------
(* plm_lookaside_list_destroy(), in the main thread.                       *)

(* A thread other than Main leaves its loop.                               *)
Stop(t) ==
  /\ t # Main /\ At(t, "idle")
  /\ Goto(t, "stopped")
  /\ UNCHANGED <<shared, ll_lock, users, arg, aborted>>

DestroyLock ==
  /\ At(Main, "idle")
  /\ Racing \/ \A t \in Threads \ {Main} : tpc[t] = "stopped"
  /\ Lock(Main)
  /\ Goto(Main, "drain")
  /\ UNCHANGED <<shared, users, arg, aborted>>

(* Mutant of Drain: the objects are taken off the list and not freed.      *)
DrainForgets ==
  /\ At(Main, "drain") /\ ll_list # <<>>
  /\ ll_list' = Tail(ll_list)
  /\ aborted' = TagWrong(Head(ll_list))
  /\ UNCHANGED <<system, tagged, ll_lock, ll_misc, users, tpc, arg>>

Drain ==
  /\ At(Main, "drain") /\ ll_list # <<>>
  /\ ll_list' = Tail(ll_list)
  /\ system' = system \cup {Head(ll_list)}
  /\ tagged' = tagged \ {Head(ll_list)}
  /\ aborted' = TagWrong(Head(ll_list))
  /\ UNCHANGED <<ll_lock, ll_misc, users, tpc, arg>>

DrainDone ==
  /\ At(Main, "drain") /\ ll_list = <<>>
  /\ Unlock(Main)
  /\ Goto(Main, "destroy")
  /\ UNCHANGED <<shared, users, arg, aborted>>

(* pthread_mutex_destroy() refuses a mutex that is locked.                 *)
DestroyDone ==
  /\ At(Main, "destroy")
  /\ ll_lock' = IF ll_lock = Null THEN "destroyed" ELSE ll_lock
  /\ Goto(Main, "end")
  /\ UNCHANGED <<shared, users, arg, aborted>>

Terminated ==
  /\ \/ aborted
     \/ tpc[Main] = "end" /\ \A t \in Threads \ {Main} : tpc[t] = "stopped"
  /\ UNCHANGED vars

Next ==
  \/ \E t \in Threads :
       \/ AllocLock(t) \/ AllocFront(t) \/ AllocDel(t) \/ AllocUnlock(t)
       \/ AllocZero(t) \/ FreeLock(t) \/ FreePut(t) \/ Stop(t)
       \/ \E o \in Objs : Write(t, o) \/ FreeTag(t, o)
  \/ DestroyLock \/ Drain \/ DrainDone \/ DestroyDone \/ Terminated

Spec == Init /\ [][Next]_vars

-----------------------------------------------------------------------------
(* Properties.                                                             *)

(* Every variable keeps the shape that the code gives it: lists hold       *)
(* objects, counts are not negative, a thread is at a known place in       *)
(* alloc, free or destroy; and no check of an object's tag ever aborts the *)
(* process (plm_lookaside_list.c).                                         *)
TypeOK ==
  /\ ll_list \in Seq(Objs) /\ ll_lock \in Threads \cup {Null, "destroyed"}
  /\ ll_misc \in [Misc -> Nat]
  /\ system \subseteq Objs /\ tagged \subseteq Objs /\ dirty \subseteq Objs
  /\ tpc \in [Threads -> {"idle", "alloc", "take", "give", "zero", "freeing",
                          "free", "stopped", "drain", "destroy", "end"}]
  /\ arg \in [Threads -> Objs \cup {Null}]
  /\ held \in [Threads -> SUBSET Objs] /\ fresh \in [Threads -> SUBSET Objs]
  /\ aborted = FALSE

(* The object a thread has in hand inside alloc() or free().               *)
InHand(t) ==
  IF tpc[t] \in {"give", "zero", "freeing", "free"} THEN {arg[t]} \ {Null}
                                                    ELSE {}
Owned(t) == held[t] \cup InHand(t)
Cached == {ll_list[i] : i \in DOMAIN ll_list}

(* An object is in one place only: with one caller, once in the list, or   *)
(* given back to malloc().  This is what the lock is for ("@thrdsafe --    *)
(* thread safe", plm_lookaside_list.c:72).  And since nobody frees what is *)
(* not his, no check of a tag aborts the process (:137, :180).             *)
OnePlace ==
  /\ ~aborted
  /\ Cardinality(Cached) = Len(ll_list)
  /\ \A t \in Threads :
       /\ Owned(t) \cap (Cached \cup system) = {}
       /\ held[t] \cap InHand(t) = {}
       /\ \A u \in Threads \ {t} : Owned(t) \cap Owned(u) = {}
  /\ Cached \cap system = {}

(* The places of an object, as module Allocator sees them.                 *)
Places(o) ==
  (IF o \in system THEN {"system"} ELSE {}) \cup (IF o \in Cached THEN {"list"} ELSE {})
    \cup {t \in Threads : o \in Owned(t)}

Alloc == INSTANCE Allocator WITH
  Most  <- HighLevel + 1,
  place <- [o \in Objs |-> Places(o)],
  open  <- tpc[Main] \notin {"destroy", "end"}

(* The list is an allocator: although alloc() and free() take several      *)
(* steps, and other threads make theirs between, no object is ever in two  *)
(* places or in none, cached ones are used first, and no more are kept than*)
(* one beyond ll_high_level (plm_lookaside_list.c:121-201); whoever        *)
(* destroys the list leaves nothing in it.                                 *)
Allocates == Alloc!Spec

(* "the max number of object in list" (plm_lookaside_list.h:44): the list  *)
(* never holds more than ll_high_level objects.                            *)
HighLevelIsMax == Len(ll_list) <= HighLevel

(* "set memory to zero when allocated" (plm_lookaside_list.c:70): who asks *)
(* for cleared memory never finds there what an earlier caller wrote.      *)
ZeroedWhenAsked == ZeroMem => \A t \in Threads : fresh[t] \cap dirty = {}

(* With several threads the clearing happens after the unlock              *)
(* (plm_lookaside_list.c:159), and while a thread does it the others       *)
(* allocate, write and free.  Yet a caller that has not written to its     *)
(* object finds it cleared, so nobody else wrote to it after the memset(), *)
(* and one that has finds what it wrote, so no memset() of another came    *)
(* after it.                                                               *)
ZeroedWithThreads ==
  Safe => \A t \in Threads :
            fresh[t] \cap dirty = {} /\ held[t] \ fresh[t] \subseteq dirty
=============================================================================
