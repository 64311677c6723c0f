------------------------------- MODULE Worker -------------------------------
(***************************************************************************)
(* One worker process: plm_worker_proc_loop() (src/base/main.c), the       *)
(* thread pool (src/lib/plm_threads.c), its start event                    *)
(* (src/lib/plm_sync_mech.c) and the dispatcher                            *)
(* (src/base/plm_dispatcher.c), with the order in which                    *)
(* src/base/plm_plugin_base.c brings plugins up and down.                  *)
(*                                                                         *)
(* Thread 0 is the main thread; it creates threads 1 .. ThrdN - 1, runs    *)
(* the dispatcher like them, and tears the process down.  A quit signal is *)
(* handled in any thread that exists, which stands still meanwhile; the    *)
(* handler writes tm_status and then disp_status, in two steps.            *)
(***************************************************************************)
EXTENDS Integers

CONSTANTS
  ThrdN,          \* work_thread_num
  MaxQuits,       \* bound: how many quit signals the process gets
  EarlyQuit,      \* may a quit signal come before every thread is in its loop?
  CreateMayFail,  \* may pthread_create() fail?
  OpenMayFail     \* may plm_disp_open_log() or a thread start hook fail?

ASSUME WorkerAssumption ==
  /\ ThrdN \in Nat \ {0} /\ MaxQuits \in Nat
  /\ EarlyQuit \in BOOLEAN /\ CreateMayFail \in BOOLEAN
  /\ OpenMayFail \in BOOLEAN

Threads == 0 .. ThrdN - 1
Pool == 1 .. ThrdN - 1

(* disp_lock is held by a thread, free, or destroyed.                      *)
NoThread == ThrdN
Destroyed == ThrdN + 1

VARIABLES
  proc,        \* "alive", "exited" (main() returned) or "crashed"
  up,          \* plugins, pollers and the fd table exist
  tpc,         \* where each thread is
  nextthrd,    \* i of the creation loop of plm_threads_create()
  tm_status,   \* thrd_mgr.tm_status
  tm_active,   \* thrd_mgr.tm_active_thrdn
  e_signaled,  \* thrd_mgr.tm_start_event.e_signaled
  curr_slot,   \* curr_slot of each thread
  disp_status, \* disp_status
  disp_lock,   \* the owner of disp_lock
  inhandler,   \* threads between the two writes of the quit handler
  nquit,       \* quit signals sent
  sigquit,     \* a quit signal is pending for the process
  joined       \* threads pthread_join() has waited for

tvars == <<tpc, curr_slot>>
pool  == <<tm_status, tm_active, e_signaled, nextthrd>>
disp  == <<disp_status, disp_lock>>
sigs  == <<inhandler, nquit, sigquit>>
vars  == <<proc, up, tvars, pool, disp, sigs, joined>>

(* Thread t can take its next step.                                        *)
At(t, pc) == proc = "alive" /\ t \notin inhandler /\ tpc[t] = pc
Goto(t, pc) == tpc' = [tpc EXCEPT ![t] = pc]

(* Inside the loop of plm_disp_proc().                                     *)
InLoop(t) == tpc[t] \in {"loop", "try", "global", "timer", "local"}

(* Inside plm_disp_proc(), where curr_slot selects poller, timers and log. *)
InDisp(t) == InLoop(t) \/ tpc[t] \in {"open", "cas", "close"}

Init ==
  /\ proc = "alive" /\ up = FALSE
  /\ tpc = [t \in Threads |-> IF t = 0 THEN "start" ELSE "none"]
  /\ curr_slot = [t \in Threads |-> 0]
  /\ tm_status = "INIT" /\ tm_active = 0 /\ e_signaled = FALSE
  /\ nextthrd = 1
  /\ disp_status = "RUNNING" /\ disp_lock = NoThread
  /\ inhandler = {} /\ nquit = 0 /\ sigquit = FALSE
  /\ joined = {}

-----------------------------------------------------------------------------
(* Start-up, in the main thread.                                           *)

(* plm_conf_load() and the start hooks of the core and the plugins.        *)
PluginInit ==
  /\ At(0, "start")
  /\ up' = TRUE
  /\ Goto(0, "create")
  /\ UNCHANGED <<proc, curr_slot, pool, disp, sigs, joined>>

InitFails ==
  /\ At(0, "start")
  /\ proc' = "exited"
  /\ UNCHANGED <<up, tvars, pool, disp, sigs, joined>>

(* plm_threads_create(): reset the manager.                                *)
CreateBegin ==
  /\ At(0, "create")
  /\ tm_active' = 0 /\ tm_status' = "INIT" /\ e_signaled' = FALSE
  /\ nextthrd' = 1
  /\ Goto(0, "creating")
  /\ UNCHANGED <<proc, up, curr_slot, disp, sigs, joined>>

(* No memory for the thread ids: plm_disp_start() destroys the lock and    *)
(* fails; plm_plugin_init() ignores it and the main thread dispatches      *)
(* alone, without ever getting the lock.                                   *)
StartFails ==
  /\ CreateMayFail /\ ThrdN > 1
  /\ At(0, "create")
  /\ tm_active' = 0 /\ tm_status' = "INIT" /\ e_signaled' = FALSE
  /\ disp_lock' = Destroyed
  /\ Goto(0, "open")
  /\ UNCHANGED <<proc, up, curr_slot, nextthrd, disp_status, sigs, joined>>

(* One turn of the creation loop; a failure is logged and skipped.         *)
CreateThread ==
  /\ At(0, "creating") /\ nextthrd < ThrdN
  /\ nextthrd' = nextthrd + 1
  /\ \/ Goto(nextthrd, "wait")
     \/ CreateMayFail /\ UNCHANGED tpc
  /\ UNCHANGED <<proc, up, curr_slot, tm_status, tm_active, e_signaled, disp,
                 sigs, joined>>

(* plm_threads_run() sets the status and starts to signal the event.       *)
RunBegin ==
  /\ At(0, "creating") /\ nextthrd >= ThrdN
  /\ tm_status' = "RUN"
  /\ Goto(0, "run")
  /\ UNCHANGED <<proc, up, curr_slot, tm_active, e_signaled, nextthrd, disp,
                 sigs, joined>>

(* A turn of its loop: signal the event again, sleep, look again.  Every   *)
(* turn wakes one thread and e_signaled is never reset, so a thread that   *)
(* waits is woken as long as the loop turns.                               *)
RunSignal ==
  /\ At(0, "run") /\ tm_active < ThrdN - 1
  /\ e_signaled' = TRUE
  /\ UNCHANGED <<proc, up, tvars, tm_status, tm_active, nextthrd, disp, sigs,
                 joined>>

(* Mutant of RunDone: waits for as many pool threads as there are threads. *)
RunDoneOffByOne ==
  /\ At(0, "run") /\ tm_active >= ThrdN
  /\ Goto(0, "open")
  /\ UNCHANGED <<proc, up, curr_slot, pool, disp, sigs, joined>>

RunDone ==
  /\ At(0, "run") /\ tm_active >= ThrdN - 1
  /\ Goto(0, "open")
  /\ UNCHANGED <<proc, up, curr_slot, pool, disp, sigs, joined>>

-----------------------------------------------------------------------------
(* plm_thread_proc(), in a pool thread.                                    *)

(* Mutant of ThreadStart: the slot is the counter before the increment.    *)
ThreadStartOldSlot(t) ==
  /\ At(t, "wait") /\ e_signaled
  /\ tm_active' = tm_active + 1
  /\ curr_slot' = [curr_slot EXCEPT ![t] = tm_active]
  /\ Goto(t, "check")
  /\ UNCHANGED <<proc, up, tm_status, e_signaled, nextthrd, disp, sigs, joined>>

ThreadStart(t) ==
  /\ At(t, "wait") /\ e_signaled
  /\ tm_active' = tm_active + 1
  /\ curr_slot' = [curr_slot EXCEPT ![t] = tm_active + 1]
  /\ Goto(t, "check")
  /\ UNCHANGED <<proc, up, tm_status, e_signaled, nextthrd, disp, sigs, joined>>

ThreadCheck(t) ==
  /\ At(t, "check")
  /\ Goto(t, IF tm_status = "SHUTDOWN" THEN "dec" ELSE "open")
  /\ UNCHANGED <<proc, up, curr_slot, pool, disp, sigs, joined>>

ThreadEnd(t) ==
  /\ At(t, "dec")
  /\ tm_active' = tm_active - 1
  /\ Goto(t, "done")
  /\ UNCHANGED <<proc, up, curr_slot, tm_status, e_signaled, nextthrd, disp,
                 sigs, joined>>

-----------------------------------------------------------------------------
(* plm_disp_proc(), in any thread.                                         *)

(* Where a thread goes when plm_disp_proc() returns.                       *)
AfterDisp(t) == IF t = 0 THEN "destroy" ELSE "check"

OpenLog(t) ==
  /\ At(t, "open")
  /\ \/ Goto(t, "cas")
     \/ OpenMayFail /\ Goto(t, AfterDisp(t))
  /\ UNCHANGED <<proc, up, curr_slot, pool, disp, sigs, joined>>

(* plm_atomic_test_and_set(SHUTDOWN -> RUNNING).                           *)
EnterLoop(t) ==
  /\ At(t, "cas")
  /\ disp_status' = "RUNNING"
  /\ Goto(t, "loop")
  /\ UNCHANGED <<proc, up, curr_slot, pool, disp_lock, sigs, joined>>

LoopTop(t) ==
  /\ At(t, "loop")
  /\ Goto(t, IF disp_status # "RUNNING" THEN "close" ELSE "try")
  /\ UNCHANGED <<proc, up, curr_slot, pool, disp, sigs, joined>>

(* plm_lock_trylock(): the owner polls the global poller.                  *)
TryLock(t) ==
  /\ At(t, "try")
  /\ \/ disp_lock = NoThread /\ disp_lock' = t /\ Goto(t, "global")
     \/ disp_lock # NoThread /\ UNCHANGED disp_lock /\ Goto(t, "timer")
  /\ UNCHANGED <<proc, up, curr_slot, pool, disp_status, sigs, joined>>

(* Handlers run between poll and the next step use the fd table; after     *)
(* plm_comm_destroy() the table pointer is NULL.                           *)
HandlersRun == \/ UNCHANGED proc
               \/ ~up /\ proc' = "crashed"

(* The handlers of the global poller, then unlock().                       *)
GlobalDone(t) ==
  /\ At(t, "global")
  /\ HandlersRun
  /\ disp_lock' = NoThread
  /\ Goto(t, "timer")
  /\ UNCHANGED <<up, curr_slot, pool, disp_status, sigs, joined>>

(* plm_timer_run() and the wait of the thread's own poller.                *)
LocalPoll(t) ==
  /\ At(t, "timer")
  /\ Goto(t, "local")
  /\ UNCHANGED <<proc, up, curr_slot, pool, disp, sigs, joined>>

LocalDone(t) ==
  /\ At(t, "local")
  /\ HandlersRun
  /\ Goto(t, "loop")
  /\ UNCHANGED <<up, curr_slot, pool, disp, sigs, joined>>

(* plm_log_close() and the thread exit hooks.                              *)
LeaveDisp(t) ==
  /\ At(t, "close")
  /\ Goto(t, AfterDisp(t))
  /\ UNCHANGED <<proc, up, curr_slot, pool, disp, sigs, joined>>

-----------------------------------------------------------------------------
(* Tear-down, in the main thread.                                          *)

(* plm_plugin_destroy() up to plm_disp_shutdown().                         *)
PluginDestroy ==
  /\ At(0, "destroy")
  /\ up' = FALSE
  /\ Goto(0, "shutdown")
  /\ UNCHANGED <<proc, curr_slot, pool, disp, sigs, joined>>

DispShutdown ==
  /\ At(0, "shutdown")
  /\ disp_status' = "SHUTDOWN"
  /\ Goto(0, "end")
  /\ UNCHANGED <<proc, up, curr_slot, pool, disp_lock, sigs, joined>>

ThreadsEnd ==
  /\ At(0, "end")
  /\ tm_status' = "SHUTDOWN"
  /\ Goto(0, "join")
  /\ UNCHANGED <<proc, up, curr_slot, tm_active, e_signaled, nextthrd, disp,
                 sigs, joined>>

(* pthread_join() in the order of creation; ids that were never filled in  *)
(* are skipped.                                                            *)
Join(t) ==
  /\ At(0, "join") /\ disp_lock # Destroyed
  /\ t \in Pool \ joined /\ \A u \in Pool : u < t => u \in joined
  /\ tpc[t] \in {"none", "done"}
  /\ joined' = joined \cup {t}
  /\ UNCHANGED <<proc, up, tvars, pool, disp, sigs>>

(* After StartFails there is no array of ids to read.                      *)
JoinCrashes ==
  /\ At(0, "join") /\ disp_lock = Destroyed
  /\ proc' = "crashed"
  /\ UNCHANGED <<up, tvars, pool, disp, sigs, joined>>

(* Mutant of CtxDestroy: the join loop leaves out the last thread.         *)
CtxDestroyEarly ==
  /\ At(0, "join") /\ Pool \ {ThrdN - 1} \subseteq joined
  /\ proc' = "exited"
  /\ UNCHANGED <<up, tvars, pool, disp, sigs, joined>>

(* plm_ctx_destroy() frees the contexts and main() returns.                *)
CtxDestroy ==
  /\ At(0, "join") /\ joined = Pool
  /\ proc' = "exited"
  /\ UNCHANGED <<up, tvars, pool, disp, sigs, joined>>

-----------------------------------------------------------------------------
(* The quit signal (SIGQUIT, SIGINT or SIGTERM).                           *)

Settled == \A t \in Threads : InLoop(t)

SendQuit ==
  /\ proc = "alive" /\ nquit < MaxQuits
  /\ EarlyQuit \/ Settled \/ nquit > 0
  /\ nquit' = nquit + 1 /\ sigquit' = TRUE
  /\ UNCHANGED <<proc, up, tvars, pool, disp, inhandler, joined>>

(* Mutant of HandlerThreads: plm_threads_notify_exit() is not called.      *)
HandlerThreadsSkips(t) ==
  /\ proc = "alive" /\ sigquit
  /\ t \notin inhandler /\ tpc[t] \notin {"none", "done"}
  /\ sigquit' = FALSE
  /\ inhandler' = inhandler \cup {t}
  /\ UNCHANGED <<proc, up, tvars, pool, disp, nquit, joined>>

(* plm_threads_notify_exit() in a thread that exists.                      *)
HandlerThreads(t) ==
  /\ proc = "alive" /\ sigquit
  /\ t \notin inhandler /\ tpc[t] \notin {"none", "done"}
  /\ sigquit' = FALSE
  /\ tm_status' = "SHUTDOWN"
  /\ inhandler' = inhandler \cup {t}
  /\ UNCHANGED <<proc, up, tvars, tm_active, e_signaled, nextthrd, disp, nquit,
                 joined>>

(* Mutant of HandlerDisp: the test-and-set has its arguments swapped.      *)
HandlerDispSwapped(t) ==
  /\ proc = "alive" /\ t \in inhandler
  /\ disp_status' = IF disp_status = "SHUTDOWN" THEN "RUNNING" ELSE disp_status
  /\ inhandler' = inhandler \ {t}
  /\ UNCHANGED <<proc, up, tvars, pool, disp_lock, nquit, sigquit, joined>>

(* plm_disp_notify_exit(): plm_atomic_test_and_set(RUNNING -> SHUTDOWN).   *)
HandlerDisp(t) ==
  /\ proc = "alive" /\ t \in inhandler
  /\ disp_status' = "SHUTDOWN"
  /\ inhandler' = inhandler \ {t}
  /\ UNCHANGED <<proc, up, tvars, pool, disp_lock, nquit, sigquit, joined>>

-----------------------------------------------------------------------------
ThreadStep(t) ==
  \/ OpenLog(t) \/ EnterLoop(t) \/ LoopTop(t) \/ TryLock(t) \/ GlobalDone(t)
  \/ LocalPoll(t) \/ LocalDone(t) \/ LeaveDisp(t) \/ HandlerDisp(t)
  \/ t \in Pool /\ (ThreadStart(t) \/ ThreadCheck(t) \/ ThreadEnd(t))

MainStep ==
  \/ PluginInit \/ InitFails \/ CreateBegin \/ StartFails \/ CreateThread
  \/ RunBegin \/ RunSignal \/ RunDone \/ PluginDestroy \/ DispShutdown
  \/ ThreadsEnd \/ (\E t \in Pool : Join(t)) \/ JoinCrashes
  \/ CtxDestroy

(* The process has ended.                                                  *)
Terminated == proc # "alive" /\ UNCHANGED vars

Next ==
  \/ MainStep \/ SendQuit \/ Terminated
  \/ \E t \in Threads : ThreadStep(t) \/ HandlerThreads(t)

Spec == Init /\ [][Next]_vars

(* The kernel schedules every thread and delivers a pending signal; it     *)
(* never has to make a system call fail, and nobody has to send a signal.  *)
FairSpec ==
  /\ Spec
  /\ WF_vars(MainStep)
  /\ \A t \in Threads : WF_vars(ThreadStep(t))
  /\ WF_vars(\E t \in Threads : HandlerThreads(t))

-----------------------------------------------------------------------------
(* Properties.                                                             *)

(* Every variable keeps the shape that the code gives it: the counts of    *)
(* threads, the slots and the stages of the shutdown (plm_threads.c).      *)
TypeOK ==
  /\ proc \in {"alive", "exited", "crashed"} /\ up \in BOOLEAN
  /\ tpc \in [Threads -> {"start", "create", "creating", "run", "none", "wait",
                          "check", "open", "cas", "loop", "try", "global",
                          "timer", "local", "close", "dec", "done", "destroy",
                          "shutdown", "end", "join"}]
  /\ curr_slot \in [Threads -> Nat]
  /\ tm_status \in {"INIT", "RUN", "SHUTDOWN"} /\ tm_active \in 0 .. ThrdN - 1
  /\ e_signaled \in BOOLEAN /\ nextthrd \in 1 .. ThrdN + 1
  /\ disp_status \in {"RUNNING", "SHUTDOWN"}
  /\ disp_lock \in Threads \cup {NoThread, Destroyed}
  /\ inhandler \subseteq Threads /\ nquit \in Nat /\ sigquit \in BOOLEAN
  /\ joined \subseteq Pool

(* Two threads inside the dispatcher never share a slot, so pollers, timer *)
(* lists and log files have one user each, although plm_thread_proc takes  *)
(* its slot from a counter that other threads decrement when they leave.   *)
SlotsUnique ==
  \A t, u \in Threads :
    t # u /\ InDisp(t) /\ InDisp(u) => curr_slot[t] # curr_slot[u]

(* A slot selects an entry of arrays that have work_thread_num entries.    *)
SlotsInRange == \A t \in Threads : InDisp(t) => curr_slot[t] < ThrdN

(* The main thread frees the contexts only when no other thread runs: "shu-*)
(* tdown and wait for all threads done" (plm_dispatcher.h).                *)
CtxOutlivesThreads ==
  proc = "exited" => \A t \in Pool : tpc[t] \in {"none", "done"}

(* Once a quit signal to a process that had started has reached            *)
(* disp_status, nothing sets it back: no thread that left its loop enters  *)
(* plm_disp_proc again, because the handler writes tm_status first.        *)
QuitNotUndone ==
  [][disp_status = "SHUTDOWN" => disp_status' = "SHUTDOWN"]_vars

(* A quit signal ends the process.                                         *)
QuitStops == (nquit > 0) ~> (proc # "alive")

(* The pool starts: the main thread gets through plm_threads_run() and     *)
(* becomes a worker thread, unless initialisation fails.                   *)
MainBecomesWorker == <>(InLoop(0) \/ proc # "alive")

(* A worker told to quit exits normally; it does not die of a signal.      *)
QuitIsClean == proc # "crashed"
=============================================================================
