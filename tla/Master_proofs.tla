---------------------------- MODULE Master_proofs ----------------------------
(***************************************************************************)
(* Proofs about module Master, for every bound and every environment: the  *)
(* types, that workers never overlap, that a master that exits has passed  *)
(* the quit on, (without events before the master blocks its signals) that *)
(* the master never sleeps on work, why it replaces a worker, and that it  *)
(* implements module Supervisor.                                           *)
(***************************************************************************)
EXTENDS Master, TLAPS

(* The inductive core of NoOverlap: worker_pid follows the last fork, all  *)
(* older workers are reaped, and plm_chlddone means that the last one is.  *)
Order ==
  /\ worker_pid \in {0, gen}
  /\ mpc = "fork" => gen = 0
  /\ mpc # "fork" /\ mpc # "exited" => gen \in Workers
  /\ mpc \notin {"fork", "assign"} => worker_pid = gen
  /\ \A w \in Workers : (w < gen => wst[w] = "reaped")
                     /\ (w > gen => wst[w] = "none")
                     /\ (w = gen => wst[w] # "none")
  /\ chlddone => gen \in Workers /\ wst[gen] = "reaped"

(* What the master owes its worker in each place of its loop, when nothing *)
(* has happened before the master blocked its signals.                     *)
Served == "early" \notin faults =>
  /\ mpc \in {"fork", "assign", "block"} =>
       /\ pending = {} /\ quits = {} /\ sighup = 0 /\ ~chlddone /\ ~inwait
       /\ stopped = {} /\ (gen \in Workers => Live(gen))
  /\ mpc \in {"suspend", "react", "notify"} => ~inwait
  /\ mpc = "suspend" =>
       /\ quits = {} /\ sighup # 1 /\ ~chlddone
       /\ "fork" \in faults \/ wst[gen] # "reaped"
  /\ mpc = "notify" /\ quits = {} =>
       ~chlddone /\ ("fork" \in faults \/ wst[gen] # "reaped")
  /\ InLoop /\ wst[gen] = "zombie" => "CHLD" \in pending \/ inwait
  /\ mpc \in {"handler", "react"} /\ wst[gen] = "reaped" =>
       chlddone \/ quits # {} \/ "fork" \in faults

(* A step of the master, of a worker or of the environment keeps the types. *)
LEMMA TypeStep ==
  ASSUME TypeOK, [Next]_vars
  PROVE  TypeOK'
<1>1. CASE ForkFirst
  BY <1>1, MasterAssumption
  DEF ForkFirst, Fork, TypeOK, Workers, Signals, QuitSigs, vars, mvars, wvars, hist, count
<1>2. CASE ForkFirstFails
  BY <1>2, MasterAssumption
  DEF ForkFirstFails, TypeOK, Workers, Signals, QuitSigs, vars, mvars, wvars, hist, count
<1>3. CASE AssignPid
  BY <1>3, MasterAssumption
  DEF AssignPid, TypeOK, Workers, Signals, QuitSigs, vars, mvars, wvars, hist, count
<1>4. CASE BlockSignals
  BY <1>4, MasterAssumption
  DEF BlockSignals, TypeOK, Workers, Signals, QuitSigs, vars, mvars, wvars, hist, count
<1>5. CASE Wake
  BY <1>5, MasterAssumption
  DEF Wake, TypeOK, Workers, Signals, QuitSigs, vars, mvars, wvars, hist, count
<1>6. CASE SuspendReturns
  BY <1>6, MasterAssumption
  DEF SuspendReturns, TypeOK, Workers, Signals, QuitSigs, vars, mvars, wvars, hist, count
<1>7. CASE React
  <2>1. chlddone' \in BOOLEAN
    BY <1>7 DEF React, TypeOK
  <2>2. CASE Fork(TRUE) /\ worker_pid' = gen' /\ UNCHANGED faults
    BY <1>7, <2>1, <2>2, MasterAssumption
    DEF React, Fork, ForkFails, TypeOK, Workers, Signals, QuitSigs, vars, mvars, wvars, hist, count
  <2>3. CASE faults' \subseteq faults \cup {"fork"} /\ UNCHANGED <<gen, worker_pid, wvars>>
    BY <1>7, <2>1, <2>3
    DEF React, TypeOK, Workers, Signals, QuitSigs, vars, mvars, wvars, hist, count
  <2> QED
    BY <1>7, <2>2, <2>3 DEF React, ForkFails, wvars
<1>8. CASE Notify
  <2>1. wquit' \subseteq Workers /\ told' \subseteq Workers
    BY <1>8 DEF Notify, KillWorker, TypeOK, Workers, Signals, QuitSigs, vars, mvars, wvars, hist, count
  <2>2. mpc' \in {"suspend", "exited"} /\ sighup' \in 0 .. 2
    BY <1>8 DEF Notify, TypeOK
  <2>3. /\ UNCHANGED <<wst, wexit, masked, stopped, asked, faults, inwait, pending, due>>
        /\ UNCHANGED <<quits, chlddone, worker_pid, gen, nsig, ncrash, nstop>>
    BY <1>8 DEF Notify, KillWorker, wvars, hist, count
  <2> QED
    BY <2>1, <2>2, <2>3 DEF TypeOK
<1>9. CASE Reap
  <2>1. wst' \in [Workers -> {"none", "born", "starting", "serving",
                             "stopping", "zombie", "reaped"}]
    BY <1>9 DEF Reap, TypeOK
  <2>2. /\ chlddone' = TRUE \/ chlddone' = chlddone
        /\ sighup' = 0 \/ sighup' = sighup
        /\ quits' = quits \/ quits' = quits \cup {"QUIT"}
    BY <1>9 DEF Reap, ChildStatus
  <2>3. chlddone' \in BOOLEAN
    BY <2>2 DEF TypeOK
  <2>4. sighup' \in 0 .. 2
    BY <2>2 DEF TypeOK
  <2>5. quits' \subseteq QuitSigs
    BY <2>2 DEF TypeOK, QuitSigs
  <2> QED
    BY <1>9, <2>1, <2>3, <2>4, <2>5 DEF Reap, TypeOK, Workers, Signals, QuitSigs, vars, mvars, wvars, hist, count
<1>10. CASE NoChild
  BY <1>10, MasterAssumption
  DEF NoChild, WaitsFor, TypeOK, Workers, Signals, QuitSigs, vars, mvars, wvars, hist, count
<1>11. ASSUME NEW s \in Signals, Handle(s) PROVE TypeOK'
  BY <1>11, MasterAssumption
  DEF Handle, AskedWorker, Unblocked, TypeOK, Workers, Signals, QuitSigs, vars, mvars, wvars, hist, count
<1>12. ASSUME NEW s \in OperatorSigs, Operator(s) PROVE TypeOK'
  BY <1>12, MasterAssumption
  DEF Operator, NoteEarly, TypeOK, Workers, Signals, QuitSigs, vars, mvars, wvars, hist, count
<1>13. ASSUME NEW w \in Workers, EnterWorker(w) PROVE TypeOK'
  BY <1>13, MasterAssumption
  DEF EnterWorker, Running, Live, TypeOK, Workers, Signals, QuitSigs, vars, mvars, wvars, hist, count
<1>14. ASSUME NEW w \in Workers, InitFails(w) PROVE TypeOK'
  BY <1>14, MasterAssumption
  DEF InitFails, Dies, SendChld, NoteEarly, Running, Live, TypeOK, Workers, Signals, QuitSigs, vars, mvars, wvars, hist, count
<1>15. ASSUME NEW w \in Workers, Serve(w) PROVE TypeOK'
  BY <1>15, MasterAssumption
  DEF Serve, Running, Live, TypeOK, Workers, Signals, QuitSigs, vars, mvars, wvars, hist, count
<1>16. ASSUME NEW w \in Workers, TakeQuit(w) PROVE TypeOK'
  BY <1>16, MasterAssumption
  DEF TakeQuit, Running, Live, TypeOK, Workers, Signals, QuitSigs, vars, mvars, wvars, hist, count
<1>17. ASSUME NEW w \in Workers, Finish(w) PROVE TypeOK'
  BY <1>17, MasterAssumption
  DEF Finish, Dies, SendChld, NoteEarly, Running, Live, TypeOK, Workers, Signals, QuitSigs, vars, mvars, wvars, hist, count
<1>18. ASSUME NEW w \in Workers, Crash(w) PROVE TypeOK'
  BY <1>18, MasterAssumption
  DEF Crash, Dies, SendChld, NoteEarly, Live, TypeOK, Workers, Signals, QuitSigs, vars, mvars, wvars, hist, count
<1>19. ASSUME NEW w \in Workers, StopWorker(w) PROVE TypeOK'
  BY <1>19, MasterAssumption
  DEF StopWorker, SendChld, NoteEarly, Running, Live, TypeOK, Workers, Signals, QuitSigs, vars, mvars, wvars, hist, count
<1>20. ASSUME NEW w \in Workers, ContWorker(w) PROVE TypeOK'
  BY <1>20, MasterAssumption
  DEF ContWorker, SendChld, TypeOK, Workers, Signals, QuitSigs, vars, mvars, wvars, hist, count
<1>21. CASE UNCHANGED vars
  BY <1>21, MasterAssumption
  DEF TypeOK, Workers, Signals, QuitSigs, vars, mvars, wvars, hist, count
<1> QED
  BY <1>1, <1>2, <1>3, <1>4, <1>5, <1>6, <1>7, <1>8, <1>9, <1>10, <1>11, <1>12, <1>13, <1>14, <1>15, <1>16, <1>17, <1>18, <1>19, <1>20, <1>21
  DEF Next, MasterStep, WorkerStep, Environment

(* The variables of main.c and the processes keep their types: plm_sighup  *)
(* stays within 0 .. 2 although the loop increments it.                    *)
THEOREM TypeCorrect == Spec => []TypeOK
<1>1. Init => TypeOK
  <2> SUFFICES ASSUME Init PROVE TypeOK
    OBVIOUS
  <2>1. worker_pid \in 0 .. MaxWorkers /\ gen \in 0 .. MaxWorkers
    BY MasterAssumption DEF Init
  <2>2. inwait \in BOOLEAN /\ chlddone \in BOOLEAN
    BY DEF Init
  <2>3. /\ pending = {} /\ due = {} /\ quits = {} /\ masked = {} /\ wquit = {}
        /\ stopped = {} /\ told = {} /\ asked = {} /\ faults = {}
    BY DEF Init
  <2>4. /\ mpc = "fork" /\ sighup \in 0 .. 2
        /\ wst \in [Workers -> {"none"}] /\ wexit \in [Workers -> {"none"}]
        /\ nsig \in Nat /\ ncrash \in Nat /\ nstop \in Nat
    BY DEF Init
  <2> QED
    BY <2>1, <2>2, <2>3, <2>4 DEF TypeOK
<1> QED
  BY <1>1, TypeStep, PTL DEF Spec

(* Every step keeps the order of the workers.                              *)
LEMMA OrderStep ==
  ASSUME TypeOK, Order, [Next]_vars
  PROVE  Order'
<1>1. CASE ForkFirst
  BY <1>1, MasterAssumption
  DEF ForkFirst, Fork, Order, TypeOK, Workers, Signals, QuitSigs, vars, mvars, wvars, hist, count
<1>2. CASE ForkFirstFails
  BY <1>2, MasterAssumption
  DEF ForkFirstFails, Order, TypeOK, Workers, Signals, QuitSigs, vars, mvars, wvars, hist, count
<1>3. CASE AssignPid
  BY <1>3, MasterAssumption
  DEF AssignPid, Order, TypeOK, Workers, Signals, QuitSigs, vars, mvars, wvars, hist, count
<1>4. CASE BlockSignals
  BY <1>4, MasterAssumption
  DEF BlockSignals, Order, TypeOK, Workers, Signals, QuitSigs, vars, mvars, wvars, hist, count
<1>5. CASE Wake
  BY <1>5, MasterAssumption
  DEF Wake, Order, TypeOK, Workers, Signals, QuitSigs, vars, mvars, wvars, hist, count
<1>6. CASE SuspendReturns
  BY <1>6, MasterAssumption
  DEF SuspendReturns, Order, TypeOK, Workers, Signals, QuitSigs, vars, mvars, wvars, hist, count
<1>7. CASE React
  BY <1>7, MasterAssumption
  DEF React, Fork, ForkFails, Order, TypeOK, Workers, Signals, QuitSigs, vars, mvars, wvars, hist, count
<1>8. CASE Notify
  BY <1>8, MasterAssumption
  DEF Notify, KillWorker, Order, TypeOK, Workers, Signals, QuitSigs, vars, mvars, wvars, hist, count
<1>9. CASE Reap
  BY <1>9, MasterAssumption
  DEF Reap, ChildStatus, WaitsFor, Order, TypeOK, Workers, Signals, QuitSigs, vars, mvars, wvars, hist, count
<1>10. CASE NoChild
  BY <1>10, MasterAssumption
  DEF NoChild, WaitsFor, Order, TypeOK, Workers, Signals, QuitSigs, vars, mvars, wvars, hist, count
<1>11. ASSUME NEW s \in Signals, Handle(s) PROVE Order'
  BY <1>11, MasterAssumption
  DEF Handle, AskedWorker, Unblocked, Order, TypeOK, Workers, Signals, QuitSigs, vars, mvars, wvars, hist, count
<1>12. ASSUME NEW s \in OperatorSigs, Operator(s) PROVE Order'
  BY <1>12, MasterAssumption
  DEF Operator, NoteEarly, Order, TypeOK, Workers, Signals, QuitSigs, vars, mvars, wvars, hist, count
<1>13. ASSUME NEW w \in Workers, EnterWorker(w) PROVE Order'
  BY <1>13, MasterAssumption
  DEF EnterWorker, Running, Live, Order, TypeOK, Workers, Signals, QuitSigs, vars, mvars, wvars, hist, count
<1>14. ASSUME NEW w \in Workers, InitFails(w) PROVE Order'
  BY <1>14, MasterAssumption
  DEF InitFails, Dies, SendChld, NoteEarly, Running, Live, Order, TypeOK, Workers, Signals, QuitSigs, vars, mvars, wvars, hist, count
<1>15. ASSUME NEW w \in Workers, Serve(w) PROVE Order'
  BY <1>15, MasterAssumption
  DEF Serve, Running, Live, Order, TypeOK, Workers, Signals, QuitSigs, vars, mvars, wvars, hist, count
<1>16. ASSUME NEW w \in Workers, TakeQuit(w) PROVE Order'
  BY <1>16, MasterAssumption
  DEF TakeQuit, Running, Live, Order, TypeOK, Workers, Signals, QuitSigs, vars, mvars, wvars, hist, count
<1>17. ASSUME NEW w \in Workers, Finish(w) PROVE Order'
  BY <1>17, MasterAssumption
  DEF Finish, Dies, SendChld, NoteEarly, Running, Live, Order, TypeOK, Workers, Signals, QuitSigs, vars, mvars, wvars, hist, count
<1>18. ASSUME NEW w \in Workers, Crash(w) PROVE Order'
  BY <1>18, MasterAssumption
  DEF Crash, Dies, SendChld, NoteEarly, Live, Order, TypeOK, Workers, Signals, QuitSigs, vars, mvars, wvars, hist, count
<1>19. ASSUME NEW w \in Workers, StopWorker(w) PROVE Order'
  BY <1>19, MasterAssumption
  DEF StopWorker, SendChld, NoteEarly, Running, Live, Order, TypeOK, Workers, Signals, QuitSigs, vars, mvars, wvars, hist, count
<1>20. ASSUME NEW w \in Workers, ContWorker(w) PROVE Order'
  BY <1>20, MasterAssumption
  DEF ContWorker, SendChld, Order, TypeOK, Workers, Signals, QuitSigs, vars, mvars, wvars, hist, count
<1>21. CASE UNCHANGED vars
  BY <1>21, MasterAssumption
  DEF Order, TypeOK, Workers, Signals, QuitSigs, vars, mvars, wvars, hist, count
<1> QED
  BY <1>1, <1>2, <1>3, <1>4, <1>5, <1>6, <1>7, <1>8, <1>9, <1>10, <1>11, <1>12, <1>13, <1>14, <1>15, <1>16, <1>17, <1>18, <1>19, <1>20, <1>21
  DEF Next, MasterStep, WorkerStep, Environment

(* The order of the workers is an invariant.                               *)
LEMMA OrderInvariant == Spec => []Order
<1>1. Init => Order
  BY MasterAssumption DEF Init, Order, Workers
<1> QED
  BY <1>1, OrderStep, TypeCorrect, PTL DEF Spec

(* Two workers never exist at once: a worker is forked only after          *)
(* waitpid() has collected all earlier ones, for any number of crashes,    *)
(* stops, reconfigurations and nested handlers.                            *)
THEOREM WorkersNeverOverlap == Spec => []NoOverlap
<1>1. TypeOK /\ Order => NoOverlap
  BY MasterAssumption DEF TypeOK, Order, NoOverlap, Workers
<1> QED
  BY <1>1, TypeCorrect, OrderInvariant, PTL

(* Every step keeps QuitPassedOn: the only living worker is worker_pid,    *)
(* which is the one the master signals before it exits.                    *)
LEMMA QuitStep ==
  ASSUME TypeOK, Order, QuitPassedOn, [Next]_vars
  PROVE  QuitPassedOn'
<1>1. CASE ForkFirst
  BY <1>1, MasterAssumption
  DEF ForkFirst, Fork, QuitPassedOn, Live, Order, TypeOK, Workers, Signals, QuitSigs, vars, mvars, wvars, hist, count
<1>2. CASE ForkFirstFails
  BY <1>2, MasterAssumption
  DEF ForkFirstFails, QuitPassedOn, Live, Order, TypeOK, Workers, Signals, QuitSigs, vars, mvars, wvars, hist, count
<1>3. CASE AssignPid
  BY <1>3, MasterAssumption
  DEF AssignPid, QuitPassedOn, Live, Order, TypeOK, Workers, Signals, QuitSigs, vars, mvars, wvars, hist, count
<1>4. CASE BlockSignals
  BY <1>4, MasterAssumption
  DEF BlockSignals, QuitPassedOn, Live, Order, TypeOK, Workers, Signals, QuitSigs, vars, mvars, wvars, hist, count
<1>5. CASE Wake
  BY <1>5, MasterAssumption
  DEF Wake, QuitPassedOn, Live, Order, TypeOK, Workers, Signals, QuitSigs, vars, mvars, wvars, hist, count
<1>6. CASE SuspendReturns
  BY <1>6, MasterAssumption
  DEF SuspendReturns, QuitPassedOn, Live, Order, TypeOK, Workers, Signals, QuitSigs, vars, mvars, wvars, hist, count
<1>7. CASE React
  BY <1>7, MasterAssumption
  DEF React, Fork, ForkFails, QuitPassedOn, Live, Order, TypeOK, Workers, Signals, QuitSigs, vars, mvars, wvars, hist, count
<1>8. CASE Notify
  BY <1>8, MasterAssumption
  DEF Notify, KillWorker, QuitPassedOn, Live, Order, TypeOK, Workers, Signals, QuitSigs, vars, mvars, wvars, hist, count
<1>9. CASE Reap
  BY <1>9, MasterAssumption
  DEF Reap, ChildStatus, WaitsFor, QuitPassedOn, Live, Order, TypeOK, Workers, Signals, QuitSigs, vars, mvars, wvars, hist, count
<1>10. CASE NoChild
  BY <1>10, MasterAssumption
  DEF NoChild, WaitsFor, QuitPassedOn, Live, Order, TypeOK, Workers, Signals, QuitSigs, vars, mvars, wvars, hist, count
<1>11. ASSUME NEW s \in Signals, Handle(s) PROVE QuitPassedOn'
  BY <1>11, MasterAssumption
  DEF Handle, AskedWorker, Unblocked, QuitPassedOn, Live, Order, TypeOK, Workers, Signals, QuitSigs, vars, mvars, wvars, hist, count
<1>12. ASSUME NEW s \in OperatorSigs, Operator(s) PROVE QuitPassedOn'
  BY <1>12, MasterAssumption
  DEF Operator, NoteEarly, QuitPassedOn, Live, Order, TypeOK, Workers, Signals, QuitSigs, vars, mvars, wvars, hist, count
<1>13. ASSUME NEW w \in Workers, EnterWorker(w) PROVE QuitPassedOn'
  BY <1>13, MasterAssumption
  DEF EnterWorker, Running, Live, QuitPassedOn, Live, Order, TypeOK, Workers, Signals, QuitSigs, vars, mvars, wvars, hist, count
<1>14. ASSUME NEW w \in Workers, InitFails(w) PROVE QuitPassedOn'
  BY <1>14, MasterAssumption
  DEF InitFails, Dies, SendChld, NoteEarly, Running, Live, QuitPassedOn, Live, Order, TypeOK, Workers, Signals, QuitSigs, vars, mvars, wvars, hist, count
<1>15. ASSUME NEW w \in Workers, Serve(w) PROVE QuitPassedOn'
  BY <1>15, MasterAssumption
  DEF Serve, Running, Live, QuitPassedOn, Live, Order, TypeOK, Workers, Signals, QuitSigs, vars, mvars, wvars, hist, count
<1>16. ASSUME NEW w \in Workers, TakeQuit(w) PROVE QuitPassedOn'
  BY <1>16, MasterAssumption
  DEF TakeQuit, Running, Live, QuitPassedOn, Live, Order, TypeOK, Workers, Signals, QuitSigs, vars, mvars, wvars, hist, count
<1>17. ASSUME NEW w \in Workers, Finish(w) PROVE QuitPassedOn'
  BY <1>17, MasterAssumption
  DEF Finish, Dies, SendChld, NoteEarly, Running, Live, QuitPassedOn, Live, Order, TypeOK, Workers, Signals, QuitSigs, vars, mvars, wvars, hist, count
<1>18. ASSUME NEW w \in Workers, Crash(w) PROVE QuitPassedOn'
  BY <1>18, MasterAssumption
  DEF Crash, Dies, SendChld, NoteEarly, Live, QuitPassedOn, Live, Order, TypeOK, Workers, Signals, QuitSigs, vars, mvars, wvars, hist, count
<1>19. ASSUME NEW w \in Workers, StopWorker(w) PROVE QuitPassedOn'
  BY <1>19, MasterAssumption
  DEF StopWorker, SendChld, NoteEarly, Running, Live, QuitPassedOn, Live, Order, TypeOK, Workers, Signals, QuitSigs, vars, mvars, wvars, hist, count
<1>20. ASSUME NEW w \in Workers, ContWorker(w) PROVE QuitPassedOn'
  BY <1>20, MasterAssumption
  DEF ContWorker, SendChld, QuitPassedOn, Live, Order, TypeOK, Workers, Signals, QuitSigs, vars, mvars, wvars, hist, count
<1>21. CASE UNCHANGED vars
  BY <1>21, MasterAssumption
  DEF QuitPassedOn, Live, Order, TypeOK, Workers, Signals, QuitSigs, vars, mvars, wvars, hist, count
<1> QED
  BY <1>1, <1>2, <1>3, <1>4, <1>5, <1>6, <1>7, <1>8, <1>9, <1>10, <1>11, <1>12, <1>13, <1>14, <1>15, <1>16, <1>17, <1>18, <1>19, <1>20, <1>21
  DEF Next, MasterStep, WorkerStep, Environment

(* A master that exits has told every living worker to quit.               *)
THEOREM QuitIsPassedOn == Spec => []QuitPassedOn
<1>1. Init => QuitPassedOn
  BY DEF Init, QuitPassedOn
<1> QED
  BY <1>1, QuitStep, TypeCorrect, OrderInvariant, PTL DEF Spec

(* Every step keeps what the master owes.                                  *)
LEMMA ServedStep ==
  ASSUME TypeOK, Order, Served, [Next]_vars
  PROVE  Served'
<1>1. CASE ForkFirst
  BY <1>1, MasterAssumption
  DEF ForkFirst, Fork, Served, Live, InLoop, Allowed, Order, TypeOK, Workers, Signals, QuitSigs, vars, mvars, wvars, hist, count
<1>2. CASE ForkFirstFails
  BY <1>2, MasterAssumption
  DEF ForkFirstFails, Served, Live, InLoop, Allowed, Order, TypeOK, Workers, Signals, QuitSigs, vars, mvars, wvars, hist, count
<1>3. CASE AssignPid
  BY <1>3, MasterAssumption
  DEF AssignPid, Served, Live, InLoop, Allowed, Order, TypeOK, Workers, Signals, QuitSigs, vars, mvars, wvars, hist, count
<1>4. CASE BlockSignals
  BY <1>4, MasterAssumption
  DEF BlockSignals, Served, Live, InLoop, Allowed, Order, TypeOK, Workers, Signals, QuitSigs, vars, mvars, wvars, hist, count
<1>5. CASE Wake
  BY <1>5, MasterAssumption
  DEF Wake, Served, Live, InLoop, Allowed, Order, TypeOK, Workers, Signals, QuitSigs, vars, mvars, wvars, hist, count
<1>6. CASE SuspendReturns
  BY <1>6, MasterAssumption
  DEF SuspendReturns, Served, Live, InLoop, Allowed, Order, TypeOK, Workers, Signals, QuitSigs, vars, mvars, wvars, hist, count
<1>7. CASE React
  <2>0. CASE "early" \in faults
    BY <1>7, <2>0 DEF React, Fork, ForkFails, Served
  <2>1. ASSUME "early" \notin faults
        PROVE  /\ mpc = "react" /\ mpc' = "notify" /\ ~inwait /\ ~inwait'
               /\ worker_pid = gen /\ gen \in Workers
    BY <1>7, <2>1 DEF React, Served, Order
  <2>2. CASE /\ "early" \notin faults /\ chlddone /\ quits = {}
             /\ Fork(TRUE) /\ UNCHANGED faults
    BY <1>7, <2>1, <2>2, MasterAssumption
    DEF React, Fork, Served, Live, InLoop, Order, TypeOK, Workers
  <2>3. CASE /\ "early" \notin faults /\ chlddone /\ quits = {}
             /\ ForkFails /\ UNCHANGED worker_pid
    BY <1>7, <2>1, <2>3
    DEF React, ForkFails, Served, Live, InLoop, Order, wvars
  <2>4. CASE /\ "early" \notin faults /\ ~(chlddone /\ quits = {})
             /\ UNCHANGED <<chlddone, gen, wvars, faults>>
    BY <1>7, <2>1, <2>4
    DEF React, Served, Live, InLoop, Order, wvars
  <2> QED
    BY <1>7, <2>0, <2>2, <2>3, <2>4 DEF React, wvars
<1>8. CASE Notify
  BY <1>8, MasterAssumption
  DEF Notify, KillWorker, Served, Live, InLoop, Allowed, Order, TypeOK, Workers, Signals, QuitSigs, vars, mvars, wvars, hist, count
<1>9. CASE Reap
  BY <1>9, MasterAssumption
  DEF Reap, ChildStatus, WaitsFor, Served, Live, InLoop, Allowed, Order, TypeOK, Workers, Signals, QuitSigs, vars, mvars, wvars, hist, count
<1>10. CASE NoChild
  BY <1>10, MasterAssumption
  DEF NoChild, WaitsFor, Served, Live, InLoop, Allowed, Order, TypeOK, Workers, Signals, QuitSigs, vars, mvars, wvars, hist, count
<1>11. ASSUME NEW s \in Signals, Handle(s) PROVE Served'
  BY <1>11, MasterAssumption
  DEF Handle, AskedWorker, Unblocked, Served, Live, InLoop, Allowed, Order, TypeOK, Workers, Signals, QuitSigs, vars, mvars, wvars, hist, count
<1>12. ASSUME NEW s \in OperatorSigs, Operator(s) PROVE Served'
  BY <1>12, MasterAssumption
  DEF Operator, NoteEarly, Served, Live, InLoop, Allowed, Order, TypeOK, Workers, Signals, QuitSigs, vars, mvars, wvars, hist, count
<1>13. ASSUME NEW w \in Workers, EnterWorker(w) PROVE Served'
  BY <1>13, MasterAssumption
  DEF EnterWorker, Running, Live, Served, InLoop, Allowed, Order, TypeOK, Workers, Signals, QuitSigs, vars, mvars, wvars, hist, count
<1>14. ASSUME NEW w \in Workers, InitFails(w) PROVE Served'
  BY <1>14, MasterAssumption
  DEF InitFails, Dies, SendChld, NoteEarly, Running, Live, Served, InLoop, Allowed, Order, TypeOK, Workers, Signals, QuitSigs, vars, mvars, wvars, hist, count
<1>15. ASSUME NEW w \in Workers, Serve(w) PROVE Served'
  BY <1>15, MasterAssumption
  DEF Serve, Running, Live, Served, InLoop, Allowed, Order, TypeOK, Workers, Signals, QuitSigs, vars, mvars, wvars, hist, count
<1>16. ASSUME NEW w \in Workers, TakeQuit(w) PROVE Served'
  BY <1>16, MasterAssumption
  DEF TakeQuit, Running, Live, Served, InLoop, Allowed, Order, TypeOK, Workers, Signals, QuitSigs, vars, mvars, wvars, hist, count
<1>17. ASSUME NEW w \in Workers, Finish(w) PROVE Served'
  BY <1>17, MasterAssumption
  DEF Finish, Dies, SendChld, NoteEarly, Running, Live, Served, InLoop, Allowed, Order, TypeOK, Workers, Signals, QuitSigs, vars, mvars, wvars, hist, count
<1>18. ASSUME NEW w \in Workers, Crash(w) PROVE Served'
  BY <1>18, MasterAssumption
  DEF Crash, Dies, SendChld, NoteEarly, Live, Served, InLoop, Allowed, Order, TypeOK, Workers, Signals, QuitSigs, vars, mvars, wvars, hist, count
<1>19. ASSUME NEW w \in Workers, StopWorker(w) PROVE Served'
  BY <1>19, MasterAssumption
  DEF StopWorker, SendChld, NoteEarly, Running, Live, Served, InLoop, Allowed, Order, TypeOK, Workers, Signals, QuitSigs, vars, mvars, wvars, hist, count
<1>20. ASSUME NEW w \in Workers, ContWorker(w) PROVE Served'
  BY <1>20, MasterAssumption
  DEF ContWorker, SendChld, NoteEarly, Served, Live, InLoop, Allowed, Order, TypeOK, Workers, Signals, QuitSigs, vars, mvars, wvars, hist, count
<1>21. CASE UNCHANGED vars
  BY <1>21, MasterAssumption
  DEF Served, Live, InLoop, Allowed, Order, TypeOK, Workers, Signals, QuitSigs, vars, mvars, wvars, hist, count
<1> QED
  BY <1>1, <1>2, <1>3, <1>4, <1>5, <1>6, <1>7, <1>8, <1>9, <1>10, <1>11, <1>12, <1>13, <1>14, <1>15, <1>16, <1>17, <1>18, <1>19, <1>20, <1>21
  DEF Next, MasterStep, WorkerStep, Environment

(* What the master owes is an invariant.                                   *)
LEMMA ServedInvariant == Spec => []Served
<1>1. Init => Served
  BY MasterAssumption DEF Init, Served, InLoop, Workers
<1>2. TypeOK /\ Order /\ Served /\ [Next]_vars => Served'
  BY ServedStep
<1> QED
  BY <1>1, <1>2, TypeCorrect, OrderInvariant, PTL DEF Spec

(* When nothing happens before the master blocks its signals and fork()    *)
(* works, it never sleeps in sigsuspend() on a request or a dead worker.   *)
THEOREM MasterSleepsOnlyWhenServed == Spec => []SleepsOnlyWhenServed
<1>1. TypeOK /\ Order /\ Served => SleepsOnlyWhenServed
  BY MasterAssumption
  DEF TypeOK, Order, Served, InLoop, SleepsOnlyWhenServed, Live, Workers
<1> QED
  BY <1>1, ServedInvariant, TypeCorrect, OrderInvariant, PTL

(* Why a replacement is never for a worker that failed by itself, as long  *)
(* as none was killed during a reconfiguration, nothing came early and     *)
(* fork() works: plm_sighup is set only while a reconfiguration is about   *)
(* the current worker, or, when that one is gone, about the next; and      *)
(* plm_chlddone only when one was about the worker that is gone, or that   *)
(* was killed.                                                             *)
Owed == HupNotOutlived /\ faults = {} =>
  /\ chlddone => gen \in asked \cup told \/ (gen \in Workers /\ wexit[gen] = "signaled")
  /\ sighup # 0 /\ wst[gen] # "reaped" => gen \in asked \cup told
  /\ sighup # 0 /\ wst[gen] = "reaped" /\ gen < MaxWorkers =>
       gen + 1 \in asked \cup told

(* Every step keeps Owed.                                                  *)
LEMMA OwedStep ==
  ASSUME TypeOK, Order, Served, Owed, [Next]_vars
  PROVE  Owed'
<1>1. CASE ForkFirst
  BY <1>1, MasterAssumption
  DEF ForkFirst, Fork, Owed, HupNotOutlived, Order, Served, TypeOK, Workers, vars, mvars, wvars, hist, count
<1>2. CASE ForkFirstFails
  BY <1>2, MasterAssumption
  DEF ForkFirstFails, Owed, HupNotOutlived, Order, Served, TypeOK, Workers, vars, mvars, wvars, hist, count
<1>3. CASE AssignPid
  BY <1>3, MasterAssumption
  DEF AssignPid, Owed, HupNotOutlived, Order, Served, TypeOK, Workers, vars, mvars, wvars, hist, count
<1>4. CASE BlockSignals
  BY <1>4, MasterAssumption
  DEF BlockSignals, Owed, HupNotOutlived, Order, Served, TypeOK, Workers, vars, mvars, wvars, hist, count
<1>5. CASE Wake
  BY <1>5, MasterAssumption
  DEF Wake, Owed, HupNotOutlived, Order, Served, TypeOK, Workers, vars, mvars, wvars, hist, count
<1>6. CASE SuspendReturns
  BY <1>6, MasterAssumption
  DEF SuspendReturns, Owed, HupNotOutlived, Order, Served, TypeOK, Workers, vars, mvars, wvars, hist, count
<1>7. CASE React
  BY <1>7, MasterAssumption
  DEF React, Fork, ForkFails, Owed, HupNotOutlived, Order, Served, TypeOK, Workers, vars, mvars, wvars, hist, count
<1>8. CASE Notify
  BY <1>8, MasterAssumption
  DEF Notify, KillWorker, Live, Owed, HupNotOutlived, Order, Served, TypeOK, Workers, vars, mvars, wvars, hist, count
<1>9. CASE Reap
  BY <1>9, MasterAssumption
  DEF Reap, ChildStatus, WaitsFor, Owed, HupNotOutlived, Order, Served, TypeOK, Workers, vars, mvars, wvars, hist, count
<1>10. CASE NoChild
  BY <1>10, MasterAssumption
  DEF NoChild, Owed, HupNotOutlived, Order, Served, TypeOK, Workers, vars, mvars, wvars, hist, count
<1>11. ASSUME NEW s \in Signals, Handle(s) PROVE Owed'
  BY <1>11, MasterAssumption
  DEF Handle, AskedWorker, Unblocked, Owed, HupNotOutlived, Order, Served, TypeOK, Workers, vars, mvars, wvars, hist, count
<1>12. ASSUME NEW s \in OperatorSigs, Operator(s) PROVE Owed'
  BY <1>12, MasterAssumption
  DEF Operator, NoteEarly, Owed, HupNotOutlived, Order, Served, TypeOK, Workers, vars, mvars, wvars, hist, count
<1>13. ASSUME NEW w \in Workers, EnterWorker(w) PROVE Owed'
  BY <1>13, MasterAssumption
  DEF EnterWorker, Running, Live, Owed, HupNotOutlived, Order, Served, TypeOK, Workers, vars, mvars, wvars, hist, count
<1>14. ASSUME NEW w \in Workers, InitFails(w) PROVE Owed'
  BY <1>14, MasterAssumption
  DEF InitFails, Dies, SendChld, NoteEarly, Running, Live, Owed, HupNotOutlived, Order, Served, TypeOK, Workers, vars, mvars, wvars, hist, count
<1>15. ASSUME NEW w \in Workers, Serve(w) PROVE Owed'
  BY <1>15, MasterAssumption
  DEF Serve, Running, Live, Owed, HupNotOutlived, Order, Served, TypeOK, Workers, vars, mvars, wvars, hist, count
<1>16. ASSUME NEW w \in Workers, TakeQuit(w) PROVE Owed'
  BY <1>16, MasterAssumption
  DEF TakeQuit, Running, Live, Owed, HupNotOutlived, Order, Served, TypeOK, Workers, vars, mvars, wvars, hist, count
<1>17. ASSUME NEW w \in Workers, Finish(w) PROVE Owed'
  BY <1>17, MasterAssumption
  DEF Finish, Dies, SendChld, NoteEarly, Running, Live, Owed, HupNotOutlived, Order, Served, TypeOK, Workers, vars, mvars, wvars, hist, count
<1>18. ASSUME NEW w \in Workers, Crash(w) PROVE Owed'
  BY <1>18, MasterAssumption
  DEF Crash, Dies, SendChld, NoteEarly, Live, Owed, HupNotOutlived, Order, Served, TypeOK, Workers, vars, mvars, wvars, hist, count
<1>19. ASSUME NEW w \in Workers, StopWorker(w) PROVE Owed'
  BY <1>19, MasterAssumption
  DEF StopWorker, SendChld, NoteEarly, Running, Live, Owed, HupNotOutlived, Order, Served, TypeOK, Workers, vars, mvars, wvars, hist, count
<1>20. ASSUME NEW w \in Workers, ContWorker(w) PROVE Owed'
  BY <1>20, MasterAssumption
  DEF ContWorker, SendChld, NoteEarly, Owed, HupNotOutlived, Order, Served, TypeOK, Workers, vars, mvars, wvars, hist, count
<1>21. CASE UNCHANGED vars
  BY <1>21, MasterAssumption
  DEF Owed, HupNotOutlived, Order, Served, TypeOK, Workers, vars, mvars, wvars, hist, count
<1> QED
  BY <1>1, <1>2, <1>3, <1>4, <1>5, <1>6, <1>7, <1>8, <1>9, <1>10, <1>11, <1>12, <1>13, <1>14, <1>15, <1>16, <1>17, <1>18, <1>19, <1>20, <1>21
  DEF Next, MasterStep, WorkerStep, Environment

(* Only fork() makes a worker, and only React makes one that is not the    *)
(* first.                                                                  *)
LEMMA BornOfReact ==
  ASSUME TypeOK, Order, [Next]_vars, NEW w \in Workers, w > 1,
         wst[w] = "none", wst'[w] = "born"
  PROVE  React /\ chlddone /\ w = gen + 1
<1>1. ~ForkFirst
  BY MasterAssumption DEF ForkFirst, Fork, Order, TypeOK, Workers
<1>2. ASSUME React PROVE chlddone /\ w = gen + 1
  BY <1>2, MasterAssumption DEF React, Fork, ForkFails, wvars, TypeOK, Workers
<1>3. ASSUME UNCHANGED wst PROVE FALSE
  BY <1>3
<1>4. ASSUME NEW v \in Workers, wst' \in {[wst EXCEPT ![v] = st] :
                 st \in {"starting", "serving", "stopping", "zombie", "reaped"}}
      PROVE  FALSE
  BY <1>4 DEF TypeOK
<1>5. ASSUME MasterStep PROVE React
  <2>1. CASE Reap
    <3>1. /\ WaitsFor \in Workers
          /\ wst' \in {[wst EXCEPT ![WaitsFor] = st] :
                 st \in {"starting", "serving", "stopping", "zombie", "reaped"}}
      BY <2>1 DEF Reap
    <3> QED
      BY <3>1, <1>4
  <2>2. ASSUME ~React, ~Reap, ~ForkFirst PROVE UNCHANGED wst
    BY <1>5, <2>2
    DEF MasterStep, ForkFirstFails, AssignPid, BlockSignals, Wake, SuspendReturns,
        Notify, KillWorker, NoChild, Handle, wvars
  <2> QED
    BY <1>1, <1>3, <2>1, <2>2
<1>6. ASSUME Environment PROVE FALSE
  <2>1. ASSUME NEW v \in Workers, Crash(v) PROVE FALSE
    BY <1>4, <2>1 DEF Crash, Dies
  <2>2. ASSUME NEW s \in OperatorSigs, Operator(s) PROVE FALSE
    BY <1>3, <2>2 DEF Operator, wvars
  <2>3. ASSUME NEW v \in Workers, StopWorker(v) \/ ContWorker(v) PROVE FALSE
    BY <1>3, <2>3 DEF StopWorker, ContWorker
  <2> QED
    BY <1>6, <2>1, <2>2, <2>3 DEF Environment
<1>7. ASSUME NEW v \in Workers, WorkerStep(v) PROVE FALSE
  <2>1. wst' = wst \/ wst' \in {[wst EXCEPT ![v] = st] :
                 st \in {"starting", "serving", "stopping", "zombie", "reaped"}}
    BY <1>7
    DEF WorkerStep, EnterWorker, InitFails, Serve, TakeQuit, Finish, Dies
  <2> QED
    BY <1>3, <1>4, <2>1
<1> QED
  BY <1>2, <1>3, <1>5, <1>6, <1>7 DEF Next, vars, wvars

(* As long as no worker was killed while a reconfiguration was about it,   *)
(* nothing came early and fork() works, every replacement is for a worker  *)
(* that was killed, or during whose time a reconfiguration was asked for   *)
(* or passed on: a worker that fails by itself makes the master exit       *)
(* (main.c:176-181), for any number of reconfigurations, kills, stops and  *)
(* nested handlers.                                                        *)
THEOREM OnlyAskedForReplacements == Spec => InitFailureStopsMaster
<1>1. Init => Owed
  BY DEF Init, Owed
<1>2. TypeOK /\ Order /\ Served /\ Owed /\ [Next]_vars => Owed'
  BY OwedStep
<1>3. Spec => []Owed
  BY <1>1, <1>2, TypeCorrect, OrderInvariant, ServedInvariant, PTL DEF Spec
<1> DEFINE Act == HupNotOutlived /\ faults = {} => ReplacesRightly
<1>4. TypeOK /\ Order /\ Owed /\ [Next]_vars => Act
  <2> SUFFICES ASSUME TypeOK, Order, Owed, [Next]_vars, HupNotOutlived, faults = {},
                      NEW w \in Workers, w > 1, wst[w] = "none", wst'[w] = "born"
               PROVE  w - 1 \in asked \cup told \/ wexit[w - 1] = "signaled"
    BY DEF ReplacesRightly
  <2>1. chlddone /\ w = gen + 1
    BY BornOfReact
  <2>2. gen \in asked \cup told \/ wexit[gen] = "signaled"
    BY <2>1 DEF Owed
  <2>3. w - 1 = gen
    BY <2>1, MasterAssumption DEF TypeOK
  <2> QED
    BY <2>2, <2>3
<1>5. [][Act]_vars => InitFailureStopsMaster
  BY DEF InitFailureStopsMaster
<1> HIDE DEF Act
<1>6. TypeOK /\ Order /\ Owed /\ [Next]_vars => [Act]_vars
  BY <1>4
<1> QED
  BY <1>3, <1>5, <1>6, TypeCorrect, OrderInvariant, PTL DEF Spec

(* For the refinement: the handler of SIGCHLD runs only where signals are  *)
(* not blocked, and nobody was told to quit who was not forked.            *)
Waits ==
  /\ inwait => Unblocked
  /\ \A w \in told : w <= gen

(* Every step keeps Waits.                                                 *)
LEMMA WaitsStep ==
  ASSUME TypeOK, Order, Waits, [Next]_vars
  PROVE  Waits'
<1>1. CASE ForkFirst
  BY <1>1, MasterAssumption
  DEF ForkFirst, Fork, Waits, Unblocked, Live, Order, TypeOK, Workers, Signals, QuitSigs, vars, mvars, wvars, hist, count
<1>2. CASE ForkFirstFails
  BY <1>2, MasterAssumption
  DEF ForkFirstFails, Waits, Unblocked, Live, Order, TypeOK, Workers, Signals, QuitSigs, vars, mvars, wvars, hist, count
<1>3. CASE AssignPid
  BY <1>3, MasterAssumption
  DEF AssignPid, Waits, Unblocked, Live, Order, TypeOK, Workers, Signals, QuitSigs, vars, mvars, wvars, hist, count
<1>4. CASE BlockSignals
  BY <1>4, MasterAssumption
  DEF BlockSignals, Waits, Unblocked, Live, Order, TypeOK, Workers, Signals, QuitSigs, vars, mvars, wvars, hist, count
<1>5. CASE Wake
  BY <1>5, MasterAssumption
  DEF Wake, Waits, Unblocked, Live, Order, TypeOK, Workers, Signals, QuitSigs, vars, mvars, wvars, hist, count
<1>6. CASE SuspendReturns
  BY <1>6, MasterAssumption
  DEF SuspendReturns, Waits, Unblocked, Live, Order, TypeOK, Workers, Signals, QuitSigs, vars, mvars, wvars, hist, count
<1>7. CASE React
  <2>1. inwait' = inwait /\ ~Unblocked /\ told' = told
    BY <1>7 DEF React, Unblocked
  <2>2. gen' \in {gen, gen + 1}
    BY <1>7 DEF React, Fork, ForkFails
  <2>3. gen \in Nat /\ told \subseteq Nat
    BY MasterAssumption DEF TypeOK, Workers
  <2>4. \A w \in told' : w <= gen'
    BY <2>1, <2>2, <2>3 DEF Waits
  <2>5. ~inwait'
    BY <2>1 DEF Waits
  <2> QED
    BY <2>4, <2>5 DEF Waits
<1>8. CASE Notify
  <2>1. inwait' = inwait /\ ~Unblocked /\ gen' = gen
    BY <1>8 DEF Notify, Unblocked
  <2>2. \A w \in told' : w \in told \/ w = gen
    BY <1>8 DEF Notify, KillWorker, Order, hist
  <2>3. \A w \in told' : w <= gen'
    BY <2>1, <2>2, MasterAssumption DEF Waits, TypeOK
  <2>4. ~inwait'
    BY <2>1 DEF Waits
  <2> QED
    BY <2>3, <2>4 DEF Waits
<1>9. CASE Reap
  BY <1>9, MasterAssumption
  DEF Reap, WaitsFor, Waits, Unblocked, Live, Order, TypeOK, Workers, Signals, QuitSigs, vars, mvars, wvars, hist, count
<1>10. CASE NoChild
  BY <1>10, MasterAssumption
  DEF NoChild, WaitsFor, Waits, Unblocked, Live, Order, TypeOK, Workers, Signals, QuitSigs, vars, mvars, wvars, hist, count
<1>11. ASSUME NEW s \in Signals, Handle(s) PROVE Waits'
  BY <1>11, MasterAssumption
  DEF Handle, Waits, Unblocked, Live, Order, TypeOK, Workers, Signals, QuitSigs, vars, mvars, wvars, hist, count
<1>12. ASSUME NEW s \in OperatorSigs, Operator(s) PROVE Waits'
  BY <1>12, MasterAssumption
  DEF Operator, NoteEarly, Waits, Unblocked, Live, Order, TypeOK, Workers, Signals, QuitSigs, vars, mvars, wvars, hist, count
<1>13. ASSUME NEW w \in Workers, EnterWorker(w) PROVE Waits'
  BY <1>13, MasterAssumption
  DEF EnterWorker, Running, Waits, Unblocked, Live, Order, TypeOK, Workers, Signals, QuitSigs, vars, mvars, wvars, hist, count
<1>14. ASSUME NEW w \in Workers, InitFails(w) PROVE Waits'
  BY <1>14, MasterAssumption
  DEF InitFails, Dies, SendChld, NoteEarly, Running, Waits, Unblocked, Live, Order, TypeOK, Workers, Signals, QuitSigs, vars, mvars, wvars, hist, count
<1>15. ASSUME NEW w \in Workers, Serve(w) PROVE Waits'
  BY <1>15, MasterAssumption
  DEF Serve, Running, Waits, Unblocked, Live, Order, TypeOK, Workers, Signals, QuitSigs, vars, mvars, wvars, hist, count
<1>16. ASSUME NEW w \in Workers, TakeQuit(w) PROVE Waits'
  BY <1>16, MasterAssumption
  DEF TakeQuit, Running, Waits, Unblocked, Live, Order, TypeOK, Workers, Signals, QuitSigs, vars, mvars, wvars, hist, count
<1>17. ASSUME NEW w \in Workers, Finish(w) PROVE Waits'
  BY <1>17, MasterAssumption
  DEF Finish, Dies, SendChld, NoteEarly, Running, Waits, Unblocked, Live, Order, TypeOK, Workers, Signals, QuitSigs, vars, mvars, wvars, hist, count
<1>18. ASSUME NEW w \in Workers, Crash(w) PROVE Waits'
  BY <1>18, MasterAssumption
  DEF Crash, Dies, SendChld, NoteEarly, Waits, Unblocked, Live, Order, TypeOK, Workers, Signals, QuitSigs, vars, mvars, wvars, hist, count
<1>19. ASSUME NEW w \in Workers, StopWorker(w) PROVE Waits'
  BY <1>19, MasterAssumption
  DEF StopWorker, SendChld, NoteEarly, Running, Waits, Unblocked, Live, Order, TypeOK, Workers, Signals, QuitSigs, vars, mvars, wvars, hist, count
<1>20. ASSUME NEW w \in Workers, ContWorker(w) PROVE Waits'
  BY <1>20, MasterAssumption
  DEF ContWorker, SendChld, Waits, Unblocked, Live, Order, TypeOK, Workers, Signals, QuitSigs, vars, mvars, wvars, hist, count
<1>21. CASE UNCHANGED vars
  BY <1>21, MasterAssumption
  DEF Waits, Unblocked, Live, Order, TypeOK, Workers, Signals, QuitSigs, vars, mvars, wvars, hist, count
<1> QED
  BY <1>1, <1>2, <1>3, <1>4, <1>5, <1>6, <1>7, <1>8, <1>9, <1>10, <1>11, <1>12, <1>13, <1>14, <1>15, <1>16, <1>17, <1>18, <1>19, <1>20, <1>21
  DEF Next, MasterStep, WorkerStep, Environment

(* Every step of the master, its workers and the environment is one of the *)
(* supervisor, or one that it does not see.                                *)
LEMMA SuperStep ==
  ASSUME TypeOK, Order, Waits, Order', [Next]_vars
  PROVE  [Super!Next]_(Super!svars)
<1>1. CASE ForkFirst
  BY <1>1, MasterAssumption
  DEF ForkFirst, Fork, Super!Next, Super!svars, Super!Start, Super!WorkerEnds, Super!Collect, Super!Tell, Super!Leave, WorkerState, Waits, Unblocked, Live, Order, TypeOK, Workers, Signals, QuitSigs, vars, mvars, wvars, hist, count
<1>2. CASE ForkFirstFails
  BY <1>2, MasterAssumption
  DEF ForkFirstFails, Super!Next, Super!svars, Super!Start, Super!WorkerEnds, Super!Collect, Super!Tell, Super!Leave, WorkerState, Waits, Unblocked, Live, Order, TypeOK, Workers, Signals, QuitSigs, vars, mvars, wvars, hist, count
<1>3. CASE AssignPid
  BY <1>3, MasterAssumption
  DEF AssignPid, Super!Next, Super!svars, Super!Start, Super!WorkerEnds, Super!Collect, Super!Tell, Super!Leave, WorkerState, Waits, Unblocked, Live, Order, TypeOK, Workers, Signals, QuitSigs, vars, mvars, wvars, hist, count
<1>4. CASE BlockSignals
  BY <1>4, MasterAssumption
  DEF BlockSignals, Super!Next, Super!svars, Super!Start, Super!WorkerEnds, Super!Collect, Super!Tell, Super!Leave, WorkerState, Waits, Unblocked, Live, Order, TypeOK, Workers, Signals, QuitSigs, vars, mvars, wvars, hist, count
<1>5. CASE Wake
  BY <1>5, MasterAssumption
  DEF Wake, Super!Next, Super!svars, Super!Start, Super!WorkerEnds, Super!Collect, Super!Tell, Super!Leave, WorkerState, Waits, Unblocked, Live, Order, TypeOK, Workers, Signals, QuitSigs, vars, mvars, wvars, hist, count
<1>6. CASE SuspendReturns
  BY <1>6, MasterAssumption
  DEF SuspendReturns, Super!Next, Super!svars, Super!Start, Super!WorkerEnds, Super!Collect, Super!Tell, Super!Leave, WorkerState, Waits, Unblocked, Live, Order, TypeOK, Workers, Signals, QuitSigs, vars, mvars, wvars, hist, count
<1>7. CASE React
  BY <1>7, MasterAssumption
  DEF React, Fork, ForkFails, Super!Next, Super!svars, Super!Start, Super!WorkerEnds, Super!Collect, Super!Tell, Super!Leave, WorkerState, Waits, Unblocked, Live, Order, TypeOK, Workers, Signals, QuitSigs, vars, mvars, wvars, hist, count
<1>8. CASE Notify
  BY <1>8, MasterAssumption
  DEF Notify, KillWorker, Super!Next, Super!svars, Super!Start, Super!WorkerEnds, Super!Collect, Super!Tell, Super!Leave, WorkerState, Waits, Unblocked, Live, Order, TypeOK, Workers, Signals, QuitSigs, vars, mvars, wvars, hist, count
<1>9. CASE Reap
  BY <1>9, MasterAssumption
  DEF Reap, WaitsFor, Super!Next, Super!svars, Super!Start, Super!WorkerEnds, Super!Collect, Super!Tell, Super!Leave, WorkerState, Waits, Unblocked, Live, Order, TypeOK, Workers, Signals, QuitSigs, vars, mvars, wvars, hist, count
<1>10. CASE NoChild
  BY <1>10, MasterAssumption
  DEF NoChild, WaitsFor, Super!Next, Super!svars, Super!Start, Super!WorkerEnds, Super!Collect, Super!Tell, Super!Leave, WorkerState, Waits, Unblocked, Live, Order, TypeOK, Workers, Signals, QuitSigs, vars, mvars, wvars, hist, count
<1>11. ASSUME NEW s \in Signals, Handle(s) PROVE [Super!Next]_(Super!svars)
  BY <1>11, MasterAssumption
  DEF Handle, Super!Next, Super!svars, Super!Start, Super!WorkerEnds, Super!Collect, Super!Tell, Super!Leave, WorkerState, Waits, Unblocked, Live, Order, TypeOK, Workers, Signals, QuitSigs, vars, mvars, wvars, hist, count
<1>12. ASSUME NEW s \in OperatorSigs, Operator(s) PROVE [Super!Next]_(Super!svars)
  BY <1>12, MasterAssumption
  DEF Operator, NoteEarly, Super!Next, Super!svars, Super!Start, Super!WorkerEnds, Super!Collect, Super!Tell, Super!Leave, WorkerState, Waits, Unblocked, Live, Order, TypeOK, Workers, Signals, QuitSigs, vars, mvars, wvars, hist, count
<1>13. ASSUME NEW w \in Workers, EnterWorker(w) PROVE [Super!Next]_(Super!svars)
  BY <1>13, MasterAssumption
  DEF EnterWorker, Running, Super!Next, Super!svars, Super!Start, Super!WorkerEnds, Super!Collect, Super!Tell, Super!Leave, WorkerState, Waits, Unblocked, Live, Order, TypeOK, Workers, Signals, QuitSigs, vars, mvars, wvars, hist, count
<1>14. ASSUME NEW w \in Workers, InitFails(w) PROVE [Super!Next]_(Super!svars)
  BY <1>14, MasterAssumption
  DEF InitFails, Dies, SendChld, NoteEarly, Running, Super!Next, Super!svars, Super!Start, Super!WorkerEnds, Super!Collect, Super!Tell, Super!Leave, WorkerState, Waits, Unblocked, Live, Order, TypeOK, Workers, Signals, QuitSigs, vars, mvars, wvars, hist, count
<1>15. ASSUME NEW w \in Workers, Serve(w) PROVE [Super!Next]_(Super!svars)
  BY <1>15, MasterAssumption
  DEF Serve, Running, Super!Next, Super!svars, Super!Start, Super!WorkerEnds, Super!Collect, Super!Tell, Super!Leave, WorkerState, Waits, Unblocked, Live, Order, TypeOK, Workers, Signals, QuitSigs, vars, mvars, wvars, hist, count
<1>16. ASSUME NEW w \in Workers, TakeQuit(w) PROVE [Super!Next]_(Super!svars)
  BY <1>16, MasterAssumption
  DEF TakeQuit, Running, Super!Next, Super!svars, Super!Start, Super!WorkerEnds, Super!Collect, Super!Tell, Super!Leave, WorkerState, Waits, Unblocked, Live, Order, TypeOK, Workers, Signals, QuitSigs, vars, mvars, wvars, hist, count
<1>17. ASSUME NEW w \in Workers, Finish(w) PROVE [Super!Next]_(Super!svars)
  BY <1>17, MasterAssumption
  DEF Finish, Dies, SendChld, NoteEarly, Running, Super!Next, Super!svars, Super!Start, Super!WorkerEnds, Super!Collect, Super!Tell, Super!Leave, WorkerState, Waits, Unblocked, Live, Order, TypeOK, Workers, Signals, QuitSigs, vars, mvars, wvars, hist, count
<1>18. ASSUME NEW w \in Workers, Crash(w) PROVE [Super!Next]_(Super!svars)
  BY <1>18, MasterAssumption
  DEF Crash, Dies, SendChld, NoteEarly, Super!Next, Super!svars, Super!Start, Super!WorkerEnds, Super!Collect, Super!Tell, Super!Leave, WorkerState, Waits, Unblocked, Live, Order, TypeOK, Workers, Signals, QuitSigs, vars, mvars, wvars, hist, count
<1>19. ASSUME NEW w \in Workers, StopWorker(w) PROVE [Super!Next]_(Super!svars)
  BY <1>19, MasterAssumption
  DEF StopWorker, SendChld, NoteEarly, Running, Super!Next, Super!svars, Super!Start, Super!WorkerEnds, Super!Collect, Super!Tell, Super!Leave, WorkerState, Waits, Unblocked, Live, Order, TypeOK, Workers, Signals, QuitSigs, vars, mvars, wvars, hist, count
<1>20. ASSUME NEW w \in Workers, ContWorker(w) PROVE [Super!Next]_(Super!svars)
  BY <1>20, MasterAssumption
  DEF ContWorker, SendChld, Super!Next, Super!svars, Super!Start, Super!WorkerEnds, Super!Collect, Super!Tell, Super!Leave, WorkerState, Waits, Unblocked, Live, Order, TypeOK, Workers, Signals, QuitSigs, vars, mvars, wvars, hist, count
<1>21. CASE UNCHANGED vars
  BY <1>21, MasterAssumption
  DEF Super!Next, Super!svars, Super!Start, Super!WorkerEnds, Super!Collect, Super!Tell, Super!Leave, WorkerState, Waits, Unblocked, Live, Order, TypeOK, Workers, Signals, QuitSigs, vars, mvars, wvars, hist, count
<1> QED
  BY <1>1, <1>2, <1>3, <1>4, <1>5, <1>6, <1>7, <1>8, <1>9, <1>10, <1>11, <1>12, <1>13, <1>14, <1>15, <1>16, <1>17, <1>18, <1>19, <1>20, <1>21
  DEF Next, MasterStep, WorkerStep, Environment

(* The master keeps the promise of module Supervisor.                      *)
THEOREM MasterSupervises == Spec => Supervises
<1>1. Init => Super!Init
  BY DEF Init, Super!Init, WorkerState
<1>2. Init => Waits
  BY DEF Init, Waits
<1>3. Spec => []Waits
  BY <1>2, WaitsStep, TypeCorrect, OrderInvariant, PTL DEF Spec
<1>4. TypeOK /\ Order /\ Waits /\ Order' /\ [Next]_vars => [Super!Next]_(Super!svars)
  BY SuperStep
<1> QED
  BY <1>1, <1>3, <1>4, TypeCorrect, OrderInvariant, PTL
  DEF Spec, Supervises, Super!Spec
=============================================================================
