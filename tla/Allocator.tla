------------------------------ MODULE Allocator ------------------------------
(***************************************************************************)
(* What a lookaside list promises to its users (module Lookaside           *)
(* implements it, plm_lookaside_list.h): an object is with the system, or  *)
(* kept in the list, or with one thread, and it moves from one to another  *)
(* in one step, whatever the threads do at the same time.                  *)
(***************************************************************************)
EXTENDS Integers, FiniteSets

CONSTANTS
  Threads, Objs,
  Most     \* the number of objects that are kept

VARIABLES
  place,   \* of each object: the places it is in
  open     \* the list has not been destroyed

avars == <<place, open>>

Init == place = [o \in Objs |-> {"system"}] /\ open = TRUE

Kept == {o \in Objs : "list" \in place[o]}

Move(o, from, to) ==
  place[o] = {from} /\ place' = [place EXCEPT ![o] = {to}] /\ UNCHANGED open

(* An object is taken from the system only when none is kept.              *)
Allocate(t, o) ==
  /\ open
  /\ \/ Move(o, "list", t)
     \/ /\ Kept = {}
        /\ Move(o, "system", t)

Keep(t, o) == open /\ Cardinality(Kept) < Most /\ Move(o, t, "list")

Return(o) == \E p \in Threads \cup {"list"} : Move(o, p, "system")

(* Once the list has been destroyed nothing is left in it.                 *)
Close == open /\ Kept = {} /\ open' = FALSE /\ UNCHANGED place

Next ==
  \/ \E t \in Threads, o \in Objs : Allocate(t, o) \/ Keep(t, o)
  \/ \E o \in Objs : Return(o)
  \/ Close

Spec == Init /\ [][Next]_avars
=============================================================================
