-------------------------------- MODULE Timer --------------------------------
(***************************************************************************)
(* The timers of a worker (src/lib/plm_timer.c) and the turn of the        *)
(* dispatcher that runs them (src/base/plm_dispatcher.c, plm_disp_proc()): *)
(* poll the global poller, run the expired timers, sleep in the thread's   *)
(* own poller until the next one, call the handlers of its events.         *)
(*                                                                         *)
(* Every thread has a list of its own (curr_slot), but the current time is *)
(* one variable that all threads write in plm_timer_run() and read without *)
(* a lock.  A handler is where plm_timer_add() and plm_timer_del() are     *)
(* called.                                                                 *)
(***************************************************************************)
EXTENDS Integers, Sequences

CONSTANTS
  Threads,    \* the threads, each with a slot of ttl_tml
  Deltas,     \* values of the delta argument of plm_timer_add()
  Idle,       \* how long an idle thread polls: 100 ms in the code
  UseDel,     \* is plm_timer_del() called?
  MaxTimers,  \* bound: timers added
  MaxClock    \* bound: the last value of the clock

ASSUME TimerAssumption ==
  /\ Deltas \subseteq Nat /\ Idle \in Nat \ {0}
  /\ UseDel \in BOOLEAN
  /\ MaxTimers \in Nat /\ MaxClock \in Nat

Forever == -1

VARIABLES
  clock,           \* what gettimeofday() says, in ms
  current_time_ms, \* current_time_ms
  tml,             \* ttl_tml[t].tl_tmlist of each thread
  tpc,             \* where each thread is in its turn
  quiet,           \* n == 0: the global poller had no event
  wake,            \* when epoll_wait() of a sleeping thread times out
  ntimer,          \* timers added so far; a timer's number is its (handler, data)
  fired,           \* history: the timers that ran, with the time they ran at
  asked, dropped,  \* history: timers plm_timer_del() was called for, and removed
  slow,            \* history: time has passed while a thread was awake
  moved,           \* history: threads between whose last test of the list and whose
                   \* return from plm_timer_run() another one moved the time
  crashed          \* the process read through a garbage pointer

time == <<clock, current_time_ms>>
pace == <<slow, moved>>
hist == <<fired, asked, dropped, crashed>>
vars == <<time, tml, tpc, quiet, wake, ntimer, hist, pace>>

(* A timer: when it expires, its number, and when the caller meant it to   *)
(* expire (not in the code).                                               *)
Timer == [expire : Int, id : 1 .. MaxTimers, due : Int]

Init ==
  /\ clock = 0 /\ current_time_ms = 0
  /\ tml = [t \in Threads |-> <<>>]
  /\ tpc = [t \in Threads |-> "global"] /\ quiet = [t \in Threads |-> TRUE]
  /\ wake = [t \in Threads |-> 0]
  /\ ntimer = 0 /\ fired = {} /\ asked = {} /\ dropped = {} /\ crashed = FALSE
  /\ slow = FALSE /\ moved = {}

At(t, pc) == ~crashed /\ tpc[t] = pc
Goto(t, pc) == tpc' = [tpc EXCEPT ![t] = pc]

-----------------------------------------------------------------------------
(* What a handler does to the timers of its thread, given its list.        *)

(* Mutant of Insert: the new timer goes to the end.                        *)
InsertAtBack(list, e) == Append(list, e)

(* The new timer goes before the first one that expires later.             *)
Insert(list, e) ==
  LET later == {i \in DOMAIN list : list[i].expire > e.expire}
      at    == IF later = {} THEN Len(list) + 1
               ELSE CHOOSE i \in later : \A j \in later : i <= j
  IN SubSeq(list, 1, at - 1) \o <<e>> \o SubSeq(list, at, Len(list))

(* plm_timer_add().                                                        *)
Add(t, list) ==
  /\ ntimer < MaxTimers
  /\ \E delta \in Deltas :
       LET e == [expire |-> current_time_ms + delta, id |-> ntimer + 1,
                 due |-> clock + delta]
       IN tml' = [tml EXCEPT ![t] = Insert(list, e)]
  /\ ntimer' = ntimer + 1
  /\ UNCHANGED <<asked, dropped, crashed>>

(* plm_timer_del(): the search compares with an object that was never set, *)
(* and a search that finds nothing leaves the node unset; so any timer may *)
(* be removed, or a garbage pointer followed.                              *)
Del(t, list) ==
  /\ UseDel
  /\ \E i \in 1 .. ntimer : asked' = asked \cup {i}
  /\ \/ /\ \E i \in DOMAIN list :
             /\ tml' = [tml EXCEPT ![t] = SubSeq(list, 1, i - 1)
                                          \o SubSeq(list, i + 1, Len(list))]
             /\ dropped' = dropped \cup {list[i].id}
        /\ UNCHANGED crashed
     \/ /\ crashed' = TRUE
        /\ tml' = [tml EXCEPT ![t] = list] /\ UNCHANGED dropped
  /\ UNCHANGED ntimer

NoCall(t, list) ==
  /\ tml' = [tml EXCEPT ![t] = list]
  /\ UNCHANGED <<ntimer, asked, dropped, crashed>>

Handler(t, list) == Add(t, list) \/ Del(t, list) \/ NoCall(t, list)

-----------------------------------------------------------------------------
(* A turn of plm_disp_proc().                                              *)

(* The global poller: no event (or another thread has the lock), or the    *)
(* handler of one.                                                         *)
Global(t) ==
  /\ At(t, "global")
  /\ \/ quiet' = [quiet EXCEPT ![t] = TRUE] /\ NoCall(t, tml[t])
     \/ quiet' = [quiet EXCEPT ![t] = FALSE] /\ Handler(t, tml[t])
  /\ Goto(t, "update")
  /\ UNCHANGED <<time, wake, fired, pace>>

(* plm_timer_run(): take the time ...                                      *)
Update(t) ==
  /\ At(t, "update")
  /\ current_time_ms' = clock
  /\ moved' = moved \cup
       {u \in Threads : tpc[u] = "return" /\ current_time_ms # clock}
  /\ Goto(t, "check")
  /\ UNCHANGED <<clock, tml, quiet, wake, ntimer, hist, slow>>

(* Mutant of Fire: the timer stays in the list.                            *)
FireAgain(t) ==
  /\ At(t, "check") /\ tml[t] # <<>>
  /\ Head(tml[t]).expire <= current_time_ms
  /\ Handler(t, tml[t])
  /\ fired' = fired \cup {[timer |-> Head(tml[t]), at |-> clock]}
  /\ UNCHANGED <<time, tpc, quiet, wake, pace>>

(* Mutant of Fire: no loop, one timer is run in a turn.                    *)
FireOne(t) ==
  /\ At(t, "check") /\ tml[t] # <<>>
  /\ Head(tml[t]).expire <= current_time_ms
  /\ Handler(t, Tail(tml[t]))
  /\ fired' = fired \cup {[timer |-> Head(tml[t]), at |-> clock]}
  /\ Goto(t, "return")
  /\ UNCHANGED <<time, quiet, wake, pace>>

(* ... call the handler of the first timer while that is due ...           *)
Fire(t) ==
  /\ At(t, "check") /\ tml[t] # <<>>
  /\ Head(tml[t]).expire <= current_time_ms
  /\ Handler(t, Tail(tml[t]))
  /\ fired' = fired \cup {[timer |-> Head(tml[t]), at |-> clock]}
  /\ UNCHANGED <<time, tpc, quiet, wake, pace>>

NoneDue(t) ==
  /\ At(t, "check")
  /\ tml[t] # <<>> => Head(tml[t]).expire > current_time_ms
  /\ Goto(t, "return")
  /\ UNCHANGED <<time, tml, quiet, wake, ntimer, hist, pace>>

(* Mutant of Sleep: an idle thread always waits its time.                  *)
SleepIdle(t) ==
  LET delta == IF tml[t] = <<>> THEN 0 ELSE Head(tml[t]).expire - current_time_ms
  IN
  /\ At(t, "return")
  /\ wake' = [wake EXCEPT ![t] = clock + IF quiet[t] THEN Idle ELSE delta]
  /\ Goto(t, "sleep") /\ quiet' = [quiet EXCEPT ![t] = TRUE]
  /\ UNCHANGED <<time, tml, ntimer, hist, pace>>

(* ... and return how long the next one takes, by the time as it is now.   *)
(* Nothing to wait for is 0; an idle thread then waits a little.  A        *)
(* negative timeout of epoll_wait() is no timeout.                         *)
Sleep(t) ==
  LET delta   == IF tml[t] = <<>> THEN 0
                 ELSE Head(tml[t]).expire - current_time_ms
      timeout == IF quiet[t] /\ delta = 0 THEN Idle ELSE delta
  IN
  /\ At(t, "return")
  /\ wake' = [wake EXCEPT ![t] = IF timeout < 0 THEN Forever ELSE clock + timeout]
  /\ Goto(t, "sleep") /\ quiet' = [quiet EXCEPT ![t] = TRUE]
  /\ UNCHANGED <<time, tml, ntimer, hist, pace>>

(* The next turn: what was only for this one is forgotten.                 *)
Again(t) ==
  /\ Goto(t, "global")
  /\ wake' = [wake EXCEPT ![t] = 0] /\ moved' = moved \ {t}

(* The times after MaxClock are not told apart.                            *)
TimesOut(t) ==
  /\ At(t, "sleep") /\ wake[t] # Forever /\ (wake[t] <= clock \/ clock = MaxClock)
  /\ Again(t)
  /\ UNCHANGED <<time, tml, quiet, ntimer, hist, slow>>

(* An event of the thread's own poller and its handler: somebody outside   *)
(* decides whether there is one.                                           *)
Local(t) ==
  /\ At(t, "sleep")
  /\ Handler(t, tml[t])
  /\ Again(t)
  /\ UNCHANGED <<time, quiet, fired, slow>>

(* Is the thread waiting, with nothing yet to wake it?                     *)
Asleep(t) == tpc[t] = "sleep" /\ (wake[t] = Forever \/ wake[t] > clock)

(* Time passes, whatever the threads do.                                   *)
Tick ==
  /\ clock < MaxClock /\ ~crashed
  /\ clock' = clock + 1
  /\ slow' = (slow \/ \E t \in Threads : ~Asleep(t))
  /\ UNCHANGED <<current_time_ms, tml, tpc, quiet, wake, ntimer, hist, moved>>

ThreadStep(t) ==
  Global(t) \/ Update(t) \/ Fire(t) \/ NoneDue(t) \/ Sleep(t) \/ TimesOut(t)

Next == Tick \/ \E t \in Threads : ThreadStep(t) \/ Local(t)

Spec == Init /\ [][Next]_vars

(* The scheduler runs every thread that is not waiting.  That an event     *)
(* comes (Local) is not promised: epoll_wait() without a timeout may wait  *)
(* for ever; and that time goes on is a premise of the property that needs *)
(* it.                                                                     *)
FairSpec == Spec /\ \A t \in Threads : WF_vars(ThreadStep(t))

-----------------------------------------------------------------------------
(* Properties.                                                             *)

(* Every variable keeps the shape that the code gives it: the list holds   *)
(* timers, the clock and the wait are in range (plm_timer.c).              *)
TypeOK ==
  /\ clock \in 0 .. MaxClock /\ current_time_ms \in 0 .. clock
  /\ tml \in [Threads -> Seq(Timer)]
  /\ tpc \in [Threads -> {"global", "update", "check", "return", "sleep"}]
  /\ quiet \in [Threads -> BOOLEAN] /\ wake \in [Threads -> Nat \cup {Forever}]
  /\ ntimer \in 0 .. MaxTimers
  /\ fired \subseteq [timer : Timer, at : Nat]
  /\ asked \subseteq 1 .. MaxTimers /\ dropped \subseteq 1 .. MaxTimers
  /\ crashed \in BOOLEAN /\ slow \in BOOLEAN /\ moved \subseteq Threads

(* The numbers 1 .. n are the numbers of the timers in the lists, of those *)
(* that ran and of those that are gone, and each is in one of these places.*)
Ids(list) == {list[i].id : i \in DOMAIN list}
AllIds(lists) == UNION {Ids(lists[t]) : t \in Threads}
EachInOnePlace(lists, ran, gone, n) ==
  LET ranIds == {f.timer.id : f \in ran}
      listed == AllIds(lists)
  IN /\ listed \cup ranIds \cup gone = 1 .. n
     /\ listed \cap ranIds = {} /\ listed \cap gone = {} /\ ranIds \cap gone = {}
     /\ \A f, g \in ran : f.timer.id = g.timer.id => f = g
     /\ \A t, u \in Threads : t # u => Ids(lists[t]) \cap Ids(lists[u]) = {}
     /\ \A t \in Threads : \A i, j \in DOMAIN lists[t] :
          lists[t][i].id = lists[t][j].id => i = j

(* A timer that was added is in one list, or has run once, or was removed, *)
(* whatever the handlers that run from the list do to it (plm_timer_run).  *)
RunsOnce == EachInOnePlace(tml, fired, dropped, ntimer)

(* As long as time passes only in sleeping threads, no timer is late: none *)
(* that is in a list is overdue, and each that ran did so when it was due  *)
(* or earlier.  The time that plm_timer_add() reckons with may be old, but *)
(* only that of an earlier turn, and the list that plm_timer_run() looks at*)
(* the head of stays sorted.                                               *)
NoneLate ==
  /\ \A t \in Threads : \A i \in DOMAIN tml[t] : clock <= tml[t][i].due
  /\ \A f \in fired : f.at <= f.timer.due
NeverLate == ~slow => NoneLate

(* Handlers may take any time.  plm_timer_run() reads the time twice, once *)
(* to find that no timer is due (plm_timer.c:178) and once to reckon how   *)
(* long the next one takes (:193), and any thread may write it between.    *)
(* Only a thread that this has happened to (moved) may give epoll_wait() a *)
(* negative timeout, and sleep without limit although it has a timer.      *)
Endless(t) == tpc[t] = "sleep" /\ tml[t] # <<>> /\ wake[t] = Forever
EndlessOnlyIfMoved == \A t \in Threads : Endless(t) => t \in moved

(* If time goes on, every timer that plm_timer_add() has added runs, with  *)
(* handlers that take any time, and with no event from outside: the search *)
(* keeps the next one at the head, which alone is looked at, and whatever a*)
(* handler adds while the list is run is run too (plm_timer_run).  It need *)
(* not if plm_timer_del() removed it or followed its garbage pointer, nor  *)
(* if its thread sleeps without limit, of which EndlessOnlyIfMoved says    *)
(* when it may happen.                                                     *)
Listed(t, n) == \E i \in DOMAIN tml[t] : tml[t][i].id = n /\ tml[t][i].expire <= MaxClock
Done(n) == crashed \/ n \in dropped \/ \E f \in fired : f.timer.id = n
TimersRun ==
  <>(clock = MaxClock) =>
    \A n \in 1 .. MaxTimers :
      (\E t \in Threads : Listed(t, n))
        ~> Done(n) \/ \E t \in Threads : Listed(t, n) /\ Endless(t)

(* "the return value is delta value in ms when the next timer expire"      *)
(* (plm_timer.h:56): a thread that has a timer never sleeps without limit. *)
NeverSleepsForever ==
  \A t \in Threads : tpc[t] = "sleep" /\ tml[t] # <<>> => wake[t] # Forever

(* "@delta -- delta time in ms" (plm_timer.h:47): a timer does not run     *)
(* before that time has passed since plm_timer_add().                      *)
NotEarly == \A f \in fired : f.at >= f.timer.due

(* "delete a timer from the current thread timer list" (plm_timer.h:52):   *)
(* what is removed is a timer the caller named.                            *)
DropsOnlyAsked == dropped \subseteq asked
=============================================================================
