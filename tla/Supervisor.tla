----------------------------- MODULE Supervisor -----------------------------
(***************************************************************************)
(* What the master process of plume promises (src/base/main.c), without a  *)
(* word of signals: it supervises one worker at a time, starts the next    *)
(* one only when it has collected the last, and never leaves a worker      *)
(* running that it has not told to quit.  Module Master implements it.     *)
(***************************************************************************)
EXTENDS Naturals

VARIABLES
  started, \* how many workers were started
  worker,  \* the last one: "none" yet, "up", "down" (dead) or "collected"
  told,    \* it was told to quit
  running  \* the supervisor runs

svars == <<started, worker, told, running>>

Init == started = 0 /\ worker = "none" /\ told = FALSE /\ running = TRUE

(* fork()                                                                  *)
Start ==
  /\ running /\ worker \in {"none", "collected"}
  /\ started' = started + 1 /\ worker' = "up" /\ told' = FALSE
  /\ UNCHANGED running

(* The worker exits or is killed, whatever becomes of the supervisor.      *)
WorkerEnds ==
  /\ worker = "up" /\ worker' = "down"
  /\ UNCHANGED <<started, told, running>>

(* waitpid()                                                               *)
Collect ==
  /\ running /\ worker = "down" /\ worker' = "collected"
  /\ UNCHANGED <<started, told, running>>

(* The worker is told to make place for a new configuration.               *)
Tell ==
  /\ running /\ worker = "up" /\ told' = TRUE
  /\ UNCHANGED <<started, worker, running>>

(* The supervisor ends, with a last word to a worker that is still there.  *)
Leave ==
  /\ running /\ running' = FALSE
  /\ told' = (told \/ worker = "up")
  /\ UNCHANGED <<started, worker>>

Next == Start \/ WorkerEnds \/ Collect \/ Tell \/ Leave

Spec == Init /\ [][Next]_svars
=============================================================================
