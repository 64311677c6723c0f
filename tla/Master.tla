------------------------------- MODULE Master -------------------------------
(***************************************************************************)
(* The supervision protocol of src/base/main.c: a master process forks one *)
(* worker process, sleeps in sigsuspend(), and on every wake-up forks a    *)
(* replacement for a worker that is gone, tells the worker to quit for a   *)
(* reconfiguration, or tells it to quit and exits itself.                  *)
(*                                                                         *)
(* Signals are the only channel.  A pending signal is a member of a set    *)
(* (POSIX does not queue them), a handler runs at any point where its      *)
(* signal is not blocked, and plm_sig_handler waits for the worker INSIDE  *)
(* the handler of SIGCHLD.  Workers are numbered by the fork that made     *)
(* them; fork() gives the child the master's signal mask.  The inside of a *)
(* worker (threads, dispatcher) is module Worker; here it is born, starts, *)
(* serves, stops and dies.                                                 *)
(***************************************************************************)
EXTENDS Naturals

CONSTANTS
  MaxWorkers,   \* bound: how many workers are ever forked
  MaxSignals,   \* bound: how many signals the operator sends
  MaxCrashes,   \* bound: how many workers die of a signal (SIGSEGV, SIGKILL)
  MaxStops,     \* bound: how many times a worker is stopped by SIGSTOP
  OperatorSigs, \* the signals the operator uses
  EarlyEvents,  \* may anything happen before the master blocks its signals?
  ForkMayFail   \* may fork() return -1?

QuitSigs == {"QUIT", "INT", "TERM"}
Signals == QuitSigs \cup {"HUP", "CHLD"}
Workers == 1 .. MaxWorkers

ASSUME MasterAssumption ==
  /\ MaxWorkers \in Nat \ {0}
  /\ MaxSignals \in Nat /\ MaxCrashes \in Nat /\ MaxStops \in Nat
  /\ OperatorSigs \subseteq QuitSigs \cup {"HUP"}
  /\ EarlyEvents \in BOOLEAN /\ ForkMayFail \in BOOLEAN

VARIABLES
  mpc,        \* where the master is in main() and plm_master_proc_loop()
  inwait,     \* the SIGCHLD handler is inside waitpid()
  pending,    \* signals pending for the master
  due,        \* of those, the ones that ended the current sigsuspend()
  quits,      \* which of plm_sigquit, plm_sigint, plm_sigterm are set
  sighup,     \* plm_sighup
  chlddone,   \* plm_chlddone
  worker_pid, \* worker_pid, 0 until main() has assigned it
  gen,        \* the last worker forked
  wst,        \* life cycle of each worker
  wexit,      \* how a dead worker ended: WIFEXITED or WIFSIGNALED
  masked,     \* workers whose signal mask blocks SIGQUIT, SIGINT, SIGTERM
  wquit,      \* workers with a SIGQUIT pending
  stopped,    \* workers stopped by SIGSTOP
  told,       \* history: workers the master has sent SIGQUIT
  asked,      \* history: workers a handled SIGHUP was about
  faults,     \* history: did anything happen early, has fork() failed?
  nsig, ncrash, nstop \* counters against the bounds

mvars == <<mpc, inwait, pending, due, quits, sighup, chlddone, worker_pid, gen>>
wvars == <<wst, wexit, masked, wquit, stopped>>
hist  == <<told, asked, faults>>
count == <<nsig, ncrash, nstop>>
vars  == <<mvars, wvars, hist, count>>

Live(w) == wst[w] \in {"born", "starting", "serving", "stopping"}

(* The states of the master in which its signals are not blocked: before   *)
(* plm_block_signal_master(), and inside sigsuspend() with its empty mask. *)
Unblocked == mpc \in {"fork", "assign", "block", "handler"}

(* The master has reached its loop, so its handlers run only where the     *)
(* loop lets them.                                                         *)
InLoop == mpc \in {"suspend", "handler", "react", "notify"}

(* main() up to fork(): handlers installed, pid file written, no worker.   *)
Init ==
  /\ mpc = "fork" /\ inwait = FALSE /\ pending = {} /\ due = {}
  /\ quits = {} /\ sighup = 0 /\ chlddone = FALSE
  /\ worker_pid = 0 /\ gen = 0
  /\ wst = [w \in Workers |-> "none"] /\ wexit = [w \in Workers |-> "none"]
  /\ masked = {} /\ wquit = {} /\ stopped = {}
  /\ told = {} /\ asked = {} /\ faults = {}
  /\ nsig = 0 /\ ncrash = 0 /\ nstop = 0

-----------------------------------------------------------------------------
(* The master, outside its signal handlers.                                *)

(* fork() as the kernel does it: the child exists and has the parent's     *)
(* mask.  Neither pending signals nor the stopped state are inherited.     *)
Fork(mask) ==
  /\ gen < MaxWorkers
  /\ gen' = gen + 1
  /\ wst' = [wst EXCEPT ![gen + 1] = "born"]
  /\ masked' = IF mask THEN masked \cup {gen + 1} ELSE masked
  /\ UNCHANGED <<wexit, wquit, stopped>>

(* fork() returns -1, which the loop does not notice: worker_pid stays.    *)
ForkFails ==
  /\ ForkMayFail
  /\ faults' = faults \cup {"fork"}
  /\ UNCHANGED <<gen, wvars>>

(* kill(worker_pid, SIGQUIT): a process that is already dead ignores it.   *)
KillWorker ==
  /\ IF worker_pid \in Workers /\ Live(worker_pid)
     THEN wquit' = wquit \cup {worker_pid} /\ told' = told \cup {worker_pid}
     ELSE UNCHANGED <<wquit, told>>
  /\ UNCHANGED <<wst, wexit, masked, stopped, asked, faults>>

ForkFirst ==
  /\ mpc = "fork" /\ ~inwait
  /\ mpc' = "assign"
  /\ Fork(FALSE)
  /\ UNCHANGED <<inwait, pending, due, quits, sighup, chlddone, worker_pid,
                 hist, count>>

(* "fork child failed": main() returns.                                    *)
ForkFirstFails ==
  /\ ForkMayFail
  /\ mpc = "fork" /\ ~inwait
  /\ mpc' = "exited" /\ faults' = faults \cup {"fork"}
  /\ UNCHANGED <<inwait, pending, due, quits, sighup, chlddone, worker_pid,
                 gen, wvars, told, asked, count>>

(* fork()'s result reaches the variable that plm_get_chld_status() reads.  *)
AssignPid ==
  /\ mpc = "assign" /\ ~inwait
  /\ mpc' = "block"
  /\ worker_pid' = gen
  /\ UNCHANGED <<inwait, pending, due, quits, sighup, chlddone, gen, wvars,
                 hist, count>>

BlockSignals ==
  /\ mpc = "block" /\ ~inwait
  /\ mpc' = "suspend"
  /\ UNCHANGED <<inwait, pending, due, quits, sighup, chlddone, worker_pid,
                 gen, wvars, hist, count>>

(* sigsuspend() ends when a signal is pending; every signal that is        *)
(* pending by then is handled before it returns.                           *)
Wake ==
  /\ mpc = "suspend" /\ pending # {}
  /\ mpc' = "handler" /\ due' = pending
  /\ UNCHANGED <<inwait, pending, quits, sighup, chlddone, worker_pid, gen,
                 wvars, hist, count>>

SuspendReturns ==
  /\ mpc = "handler" /\ due = {} /\ ~inwait
  /\ mpc' = "react"
  /\ UNCHANGED <<inwait, pending, due, quits, sighup, chlddone, worker_pid,
                 gen, wvars, hist, count>>

(* if (plm_chlddone && !quit): replace the worker.  All signals of the     *)
(* master are blocked here, and the child keeps them blocked.              *)
React ==
  /\ mpc = "react"
  /\ mpc' = "notify"
  /\ \/ /\ chlddone /\ quits = {}
        /\ chlddone' = FALSE
        /\ \/ Fork(TRUE) /\ worker_pid' = gen' /\ UNCHANGED faults
           \/ ForkFails /\ UNCHANGED worker_pid
     \/ /\ ~(chlddone /\ quits = {})
        /\ UNCHANGED <<chlddone, worker_pid, gen, wvars, faults>>
  /\ UNCHANGED <<inwait, pending, due, quits, sighup, told, asked, count>>

(* Mutant of Notify: a master that quits leaves without telling the worker.*)
NotifyLeavesWorker ==
  /\ mpc = "notify"
  /\ \/ /\ quits # {}
        /\ mpc' = "exited" /\ UNCHANGED <<sighup, wvars, hist>>
     \/ /\ quits = {} /\ sighup = 1
        /\ mpc' = "suspend" /\ KillWorker /\ sighup' = 2
     \/ /\ quits = {} /\ sighup # 1
        /\ mpc' = "suspend" /\ UNCHANGED <<sighup, wvars, hist>>
  /\ UNCHANGED <<inwait, pending, due, quits, chlddone, worker_pid, gen, count>>

(* The rest of the loop body: quit, or pass a reconfiguration on once.     *)
Notify ==
  /\ mpc = "notify"
  /\ \/ /\ quits # {}
        /\ mpc' = "exited" /\ KillWorker /\ UNCHANGED sighup
     \/ /\ quits = {} /\ sighup = 1
        /\ mpc' = "suspend" /\ KillWorker /\ sighup' = 2
     \/ /\ quits = {} /\ sighup # 1
        /\ mpc' = "suspend" /\ UNCHANGED <<sighup, wvars, hist>>
  /\ UNCHANGED <<inwait, pending, due, quits, chlddone, worker_pid, gen, count>>

-----------------------------------------------------------------------------
(* plm_sig_handler() in the master (plm_proc_type = 0).                    *)

(* The worker a SIGHUP is about: the current one, or the next when the     *)
(* current one has been reaped already.                                    *)
AskedWorker ==
  IF worker_pid \in Workers /\ wst[worker_pid] = "reaped" THEN gen + 1
                                                        ELSE worker_pid

(* Mutants of Handle: SIGHUP counts up instead of storing 1; SIGINT falls  *)
(* through the switch.                                                     *)
HandleCountsHup(s) ==
  /\ Unblocked /\ s \in pending
  /\ s = "CHLD" => ~inwait
  /\ pending' = pending \ {s} /\ due' = due \ {s}
  /\ inwait' = (inwait \/ s = "CHLD")
  /\ sighup' = IF s = "HUP" THEN sighup + 1 ELSE sighup
  /\ asked' = IF s = "HUP" THEN asked \cup ({AskedWorker} \cap Workers)
                           ELSE asked
  /\ quits' = IF s \in QuitSigs THEN quits \cup {s} ELSE quits
  /\ UNCHANGED <<mpc, chlddone, worker_pid, gen, wvars, told, faults, count>>

HandleDropsInt(s) ==
  /\ Unblocked /\ s \in pending
  /\ s = "CHLD" => ~inwait
  /\ pending' = pending \ {s} /\ due' = due \ {s}
  /\ inwait' = (inwait \/ s = "CHLD")
  /\ sighup' = IF s = "HUP" THEN 1 ELSE sighup
  /\ asked' = IF s = "HUP" THEN asked \cup ({AskedWorker} \cap Workers)
                           ELSE asked
  /\ quits' = IF s \in QuitSigs \ {"INT"} THEN quits \cup {s} ELSE quits
  /\ UNCHANGED <<mpc, chlddone, worker_pid, gen, wvars, told, faults, count>>

(* One signal is delivered.  SIGCHLD goes on into waitpid(); a handler     *)
(* that interrupts that wait only sets its flag, and waitpid() is retried. *)
Handle(s) ==
  /\ Unblocked /\ s \in pending
  /\ s = "CHLD" => ~inwait
  /\ pending' = pending \ {s} /\ due' = due \ {s}
  /\ inwait' = (inwait \/ s = "CHLD")
  /\ sighup' = IF s = "HUP" THEN 1 ELSE sighup
  /\ asked' = IF s = "HUP" THEN asked \cup ({AskedWorker} \cap Workers)
                           ELSE asked
  /\ quits' = IF s \in QuitSigs THEN quits \cup {s} ELSE quits
  /\ UNCHANGED <<mpc, chlddone, worker_pid, gen, wvars, told, faults, count>>

(* The child waitpid(worker_pid) asks for; with worker_pid still 0 it is   *)
(* any child of the process group.                                         *)
WaitsFor == IF worker_pid = 0 THEN gen ELSE worker_pid

(* Mutants of ChildStatus: an unexpected exit sets no flag; a worker killed*)
(* by a signal is not noticed.                                             *)
ChildStatusNoQuit(w) ==
  IF w # worker_pid \/ (wexit[w] = "exited" /\ sighup = 0)
  THEN UNCHANGED <<chlddone, sighup, quits>>
  ELSE /\ chlddone' = TRUE /\ UNCHANGED quits
       /\ sighup' = IF wexit[w] = "exited" THEN 0 ELSE sighup

ChildStatusIgnoresSignaled(w) ==
  IF w # worker_pid \/ wexit[w] = "signaled"
  THEN UNCHANGED <<chlddone, sighup, quits>>
  ELSE \/ /\ sighup # 0
          /\ chlddone' = TRUE /\ sighup' = 0 /\ UNCHANGED quits
       \/ /\ sighup = 0
          /\ quits' = quits \cup {"QUIT"} /\ UNCHANGED <<chlddone, sighup>>

(* Mutant of ChildStatus: every worker that is gone is replaced.           *)
ChildStatusReplaces(w) ==
  IF w # worker_pid THEN UNCHANGED <<chlddone, sighup, quits>>
  ELSE /\ chlddone' = TRUE /\ UNCHANGED quits
       /\ sighup' = IF wexit[w] = "exited" THEN 0 ELSE sighup

(* What plm_get_chld_status() makes of the status of worker_pid.           *)
ChildStatus(w) ==
  IF w # worker_pid THEN UNCHANGED <<chlddone, sighup, quits>>
  ELSE \/ /\ wexit[w] = "exited" /\ sighup # 0
          /\ chlddone' = TRUE /\ sighup' = 0 /\ UNCHANGED quits
       \/ /\ wexit[w] = "exited" /\ sighup = 0
          /\ quits' = quits \cup {"QUIT"} /\ UNCHANGED <<chlddone, sighup>>
       \/ /\ wexit[w] = "signaled"
          /\ chlddone' = TRUE /\ UNCHANGED <<sighup, quits>>

(* waitpid() reaps the worker.                                             *)
Reap ==
  /\ inwait /\ WaitsFor \in Workers /\ wst[WaitsFor] = "zombie"
  /\ inwait' = FALSE
  /\ wst' = [wst EXCEPT ![WaitsFor] = "reaped"]
  /\ ChildStatus(WaitsFor)
  /\ UNCHANGED <<mpc, pending, due, worker_pid, gen, wexit, masked, wquit,
                 stopped, hist, count>>

(* waitpid() fails with ECHILD: there is no such child any more.           *)
NoChild ==
  /\ inwait /\ (WaitsFor \in Workers => wst[WaitsFor] = "reaped")
  /\ inwait' = FALSE
  /\ UNCHANGED <<mpc, pending, due, quits, sighup, chlddone, worker_pid, gen,
                 wvars, hist, count>>

MasterStep ==
  \/ ForkFirst \/ ForkFirstFails \/ AssignPid \/ BlockSignals \/ Wake
  \/ SuspendReturns \/ React \/ Notify \/ Reap \/ NoChild
  \/ \E s \in Signals : Handle(s)

-----------------------------------------------------------------------------
(* The worker process.                                                     *)

Running(w) == Live(w) /\ w \notin stopped

(* Events outside the master happen once it is in its loop, or at any time *)
(* when EarlyEvents.                                                       *)
Allowed == EarlyEvents \/ InLoop \/ mpc = "exited"

(* One that happens before is remembered.                                  *)
NoteEarly ==
  /\ faults' = IF InLoop \/ mpc = "exited" THEN faults ELSE faults \cup {"early"}
  /\ UNCHANGED <<told, asked>>

(* The kernel tells a living master about its child.                       *)
SendChld ==
  /\ pending' = IF mpc = "exited" THEN pending ELSE pending \cup {"CHLD"}
  /\ UNCHANGED <<mpc, inwait, due, quits, sighup, chlddone, worker_pid, gen>>

Dies(w, how) ==
  /\ wst' = [wst EXCEPT ![w] = "zombie"]
  /\ wexit' = [wexit EXCEPT ![w] = how]
  /\ stopped' = stopped \ {w}
  /\ UNCHANGED <<masked, wquit>>
  /\ NoteEarly /\ SendChld

(* plm_proc_type = 1; plm_block_signal_worker() only ADDS to the mask.     *)
EnterWorker(w) ==
  /\ Running(w) /\ wst[w] = "born" /\ Allowed
  /\ wst' = [wst EXCEPT ![w] = "starting"]
  /\ UNCHANGED <<mvars, wexit, masked, wquit, stopped, hist, count>>

(* plm_conf_load() or plm_plugin_init() fails and main() returns.          *)
InitFails(w) ==
  /\ Running(w) /\ wst[w] = "starting" /\ Allowed
  /\ Dies(w, "exited")
  /\ UNCHANGED count

Serve(w) ==
  /\ Running(w) /\ wst[w] = "starting" /\ Allowed
  /\ wst' = [wst EXCEPT ![w] = "serving"]
  /\ UNCHANGED <<mvars, wexit, masked, wquit, stopped, hist, count>>

(* The handler in the worker.  With plm_proc_type still 0 it only sets     *)
(* plm_sigquit, which the worker never reads; while the threads start, the *)
(* request may be overwritten (module Worker); a serving worker stops.     *)
TakeQuit(w) ==
  /\ Running(w) /\ w \in wquit /\ w \notin masked
  /\ wquit' = wquit \ {w}
  /\ \/ wst[w] \in {"born", "starting", "stopping"} /\ UNCHANGED wst
     \/ wst[w] \in {"starting", "serving"}
        /\ wst' = [wst EXCEPT ![w] = "stopping"]
  /\ UNCHANGED <<mvars, wexit, masked, stopped, hist, count>>

(* plm_plugin_destroy(), plm_ctx_destroy(), main() returns 0.              *)
Finish(w) ==
  /\ Running(w) /\ wst[w] = "stopping"
  /\ Dies(w, "exited")
  /\ UNCHANGED count

WorkerStep(w) ==
  EnterWorker(w) \/ InitFails(w) \/ Serve(w) \/ TakeQuit(w) \/ Finish(w)

-----------------------------------------------------------------------------
(* The environment: the operator and the faults.                           *)

(* "plume -s reconfigure" and "plume -s quit" kill() the pid in the pid    *)
(* file; SIGINT and SIGTERM come from a terminal or an init system.        *)
Operator(s) ==
  /\ mpc # "exited" /\ nsig < MaxSignals /\ Allowed
  /\ nsig' = nsig + 1
  /\ pending' = pending \cup {s}
  /\ NoteEarly
  /\ UNCHANGED <<mpc, inwait, due, quits, sighup, chlddone, worker_pid, gen,
                 wvars, ncrash, nstop>>

Crash(w) ==
  /\ Live(w) /\ ncrash < MaxCrashes /\ Allowed
  /\ ncrash' = ncrash + 1
  /\ Dies(w, "signaled")
  /\ UNCHANGED <<nsig, nstop>>

(* SIGSTOP and SIGCONT of a worker also raise SIGCHLD (no SA_NOCLDSTOP).   *)
StopWorker(w) ==
  /\ Running(w) /\ nstop < MaxStops /\ Allowed
  /\ nstop' = nstop + 1
  /\ stopped' = stopped \cup {w}
  /\ NoteEarly /\ SendChld
  /\ UNCHANGED <<wst, wexit, masked, wquit, nsig, ncrash>>

ContWorker(w) ==
  /\ w \in stopped
  /\ stopped' = stopped \ {w}
  /\ SendChld
  /\ UNCHANGED <<wst, wexit, masked, wquit, hist, count>>

Environment ==
  \/ \E s \in OperatorSigs : Operator(s)
  \/ \E w \in Workers : Crash(w) \/ StopWorker(w) \/ ContWorker(w)

Next == MasterStep \/ Environment \/ \E w \in Workers : WorkerStep(w)

Spec == Init /\ [][Next]_vars

(* The scheduler runs the master and every worker that is not stopped;     *)
(* nobody is obliged to send a signal, to crash a worker or to resume it.  *)
FairSpec ==
  /\ Spec
  /\ WF_vars(MasterStep)
  /\ \A w \in Workers : WF_vars(WorkerStep(w))

-----------------------------------------------------------------------------
(* Properties.                                                             *)

(* Every variable keeps the shape that the code gives it: the signals are  *)
(* those the handler notes, a pid is a worker's or 0 (the statics of       *)
(* main.c).                                                                *)
TypeOK ==
  /\ mpc \in {"fork", "assign", "block", "suspend", "handler", "react",
              "notify", "exited"}
  /\ inwait \in BOOLEAN /\ chlddone \in BOOLEAN
  /\ pending \subseteq Signals /\ due \subseteq pending
  /\ quits \subseteq QuitSigs /\ sighup \in 0 .. 2
  /\ worker_pid \in 0 .. MaxWorkers /\ gen \in 0 .. MaxWorkers
  /\ wst \in [Workers -> {"none", "born", "starting", "serving", "stopping",
                          "zombie", "reaped"}]
  /\ wexit \in [Workers -> {"none", "exited", "signaled"}]
  /\ masked \subseteq Workers /\ wquit \subseteq Workers
  /\ stopped \subseteq Workers /\ told \subseteq Workers
  /\ asked \subseteq Workers /\ faults \subseteq {"early", "fork"}
  /\ nsig \in Nat /\ ncrash \in Nat /\ nstop \in Nat

(* A worker is forked only after waitpid() has collected every earlier     *)
(* one, so two workers never hold the listening port at once: plm_chlddone *)
(* cannot be set twice for one death, whatever handlers nest.              *)
NoOverlap ==
  \A v, w \in Workers : v < w /\ wst[w] # "none" => wst[v] = "reaped"

(* A master that exits leaves no worker behind that it did not tell to     *)
(* quit (the kill() before the break, main.c:466).                         *)
QuitPassedOn ==
  mpc = "exited" => \A w \in Workers : Live(w) => w \in told

(* When nothing happens before plm_block_signal_master() and fork() works, *)
(* the master never sleeps on work: while it is in sigsuspend() with no    *)
(* signal pending, no flag asks for an action and the worker is alive.     *)
SleepsOnlyWhenServed ==
  mpc = "suspend" /\ pending = {} /\ "early" \notin faults =>
    /\ quits = {} /\ sighup # 1 /\ ~chlddone
    /\ "fork" \in faults \/ (worker_pid \in Workers /\ Live(worker_pid))

(* No worker was killed by a signal while a reconfiguration was about it:  *)
(* plm_sighup survives such a worker, and is believed at the exit of its   *)
(* replacement (main.c:187).                                               *)
HupNotOutlived == \A w \in Workers : wexit[w] = "signaled" => w \notin asked \cup told

(* A new worker replaces one that was killed, or one during whose time a   *)
(* reconfiguration was asked for or passed on.                             *)
ReplacesRightly ==
  \A w \in Workers :
    w > 1 /\ wst[w] = "none" /\ wst'[w] = "born" =>
      w - 1 \in asked \cup told \/ wexit[w - 1] = "signaled"

(* Only such workers are replaced: one that exits by itself (its           *)
(* initialisation failed) makes the master exit (main.c:176-181).  The     *)
(* premise is what the code needs for it: no reconfiguration outlived the  *)
(* worker it was about, nothing came early, and fork() works.              *)
InitFailureStopsMaster == [][HupNotOutlived /\ faults = {} => ReplacesRightly]_vars

(* The same after any kill, which does not hold (main.c:187).              *)
FailureAlwaysStopsMaster == [][faults = {} => ReplacesRightly]_vars

(* A quit signal that reaches the master in its loop makes it exit, unless *)
(* a worker was stopped: its SIGCHLD leaves the master in waitpid().       *)
QuitStopsMaster ==
  (InLoop /\ pending \cap QuitSigs # {}) ~> (mpc = "exited" \/ nstop > 0)

(* A worker killed by a signal is replaced, unless the master exits, a     *)
(* fork() has failed, a worker was stopped or it was killed early.         *)
CrashReplaced ==
  \A w \in Workers :
    (wexit[w] = "signaled") ~>
      \/ mpc = "exited" \/ faults # {} \/ nstop > 0
      \/ w < MaxWorkers /\ wst[w + 1] # "none"

(* A serving worker with a SIGQUIT from the master pending eventually      *)
(* exits: this is what "reconfigure" and "quit" rest on.                   *)
ServingWorkerQuits ==
  \A w \in Workers :
    (wst[w] = "serving" /\ w \in wquit) ~> (wst[w] \in {"zombie", "reaped"})

(* Master implements Supervisor: the worker is the one forked last.        *)
WorkerState ==
  IF gen = 0 THEN "none"
  ELSE CASE Live(gen)            -> "up"
         [] wst[gen] = "zombie"  -> "down"
         [] OTHER                -> "collected"

Super == INSTANCE Supervisor WITH
  started <- gen, worker <- WorkerState, told <- gen \in told,
  running <- mpc # "exited"

(* The whole protocol of main() and plm_master_proc_loop() keeps the       *)
(* promise of a supervisor: one worker at a time, and none left untold.    *)
Supervises == Super!Spec
=============================================================================
