---------------------------- MODULE Worker_proofs ----------------------------
(***************************************************************************)
(* Proofs about module Worker, for every number of threads and every       *)
(* combination of failures: the types, that slots stay in range and no two *)
(* threads dispatch with the same one, and that the contexts are freed     *)
(* after the last thread has ended; and, for quit signals that come after  *)
(* start-up, that a quit that has reached the dispatcher is never undone.  *)
(***************************************************************************)
EXTENDS Worker, FiniteSetTheorems, TLAPS

MainPcs == {"start", "create", "creating", "run", "open", "cas", "loop", "try",
            "global", "timer", "local", "close", "destroy", "shutdown", "end",
            "join"}
DispPcs == {"open", "cas", "loop", "try", "global", "timer", "local", "close"}
StartedPcs == DispPcs \cup {"check", "dec"}
PoolPcs == StartedPcs \cup {"none", "wait", "done"}

(* Types that need no counting.                                            *)
Types ==
  /\ proc \in {"alive", "exited", "crashed"} /\ up \in BOOLEAN
  /\ tpc \in [Threads -> MainPcs \cup PoolPcs]
  /\ tpc[0] \in MainPcs /\ \A t \in Pool : tpc[t] \in PoolPcs
  /\ curr_slot \in [Threads -> Int]
  /\ tm_status \in {"INIT", "RUN", "SHUTDOWN"} /\ tm_active \in Int
  /\ e_signaled \in BOOLEAN /\ nextthrd \in 1 .. ThrdN + 1
  /\ disp_status \in {"RUNNING", "SHUTDOWN"}
  /\ disp_lock \in Threads \cup {NoThread, Destroyed}
  /\ inhandler \subseteq Threads /\ nquit \in Nat /\ sigquit \in BOOLEAN
  /\ joined \subseteq Pool

(* The pool threads that have taken a slot and not given it back.          *)
Started == {t \in Pool : tpc[t] \in StartedPcs}

(* tm_active_thrdn counts them.                                            *)
Counted == tm_active = Cardinality(Started)

(* Slots stay inside the arrays they select from.                          *)
SlotRange == \A t \in Threads : curr_slot[t] \in 0 .. ThrdN - 1

(* The start event keeps the pool waiting until the main thread has        *)
(* created every thread, so nothing that the main thread resets while it   *)
(* creates them is in use.                                                 *)
StartOrder ==
  /\ ~e_signaled => \A t \in Pool : tpc[t] \in {"none", "wait"}
  /\ tpc[0] \in {"start", "create", "creating"} => ~e_signaled
  /\ tpc[0] \in {"start", "create"} => \A t \in Pool : tpc[t] = "none"
  /\ tpc[0] = "creating" => \A t \in Pool : t >= nextthrd => tpc[t] = "none"

(* While tm_status is not SHUTDOWN no slot has been given back, so the     *)
(* slots of the started threads are distinct and at most tm_active; a slot *)
(* that is taken twice is taken by a thread that then sees SHUTDOWN.       *)
Slots ==
  /\ curr_slot[0] = 0
  /\ \A t \in Pool : tpc[t] \in StartedPcs => curr_slot[t] > 0
  /\ tm_status # "SHUTDOWN" =>
       /\ \A t \in Pool : tpc[t] \notin {"dec", "done"}
       /\ \A t \in Pool : tpc[t] \in StartedPcs => curr_slot[t] <= tm_active
       /\ \A t, u \in Pool : t # u /\ tpc[t] \in StartedPcs /\ tpc[u] \in StartedPcs
                           => curr_slot[t] # curr_slot[u]
  /\ \A t, u \in Pool : t # u /\ tpc[t] \in DispPcs /\ tpc[u] \in DispPcs
                      => curr_slot[t] # curr_slot[u]

(* What pthread_join() has established.                                    *)
Joins ==
  /\ tpc[0] # "join" => joined = {}
  /\ \A t \in joined : tpc[t] \in {"none", "done"}
  /\ CtxOutlivesThreads

(* A quit signal comes only after start-up, and the handler's two writes   *)
(* come in the order tm_status, disp_status.                               *)
QuitOrder ==
  /\ nquit = 0 =>
       /\ ~sigquit /\ inhandler = {} /\ disp_status = "RUNNING"
       /\ tpc[0] \notin {"close", "destroy", "shutdown", "end", "join"}
       /\ \A t \in Pool : tpc[t] # "close"
  /\ nquit # 0 => \A t \in Threads :
       tpc[t] \notin {"start", "create", "creating", "run", "none", "wait",
                     "open", "cas"}
  /\ nquit # 0 /\ tm_status # "SHUTDOWN" =>
       /\ inhandler = {} /\ disp_status = "RUNNING"
       /\ tpc[0] \notin {"close", "destroy", "shutdown", "end", "join"}
       /\ \A t \in Pool : tpc[t] \notin {"close", "check"}

-----------------------------------------------------------------------------
(* The thread numbers are what the definitions say.                        *)
LEMMA ThreadFacts ==
  /\ 0 \in Threads /\ 0 \notin Pool /\ Pool \subseteq Threads
  /\ \A t \in Threads : t = 0 \/ t \in Pool
  /\ \A i \in 1 .. ThrdN + 1 : i < ThrdN => i \in Pool
BY WorkerAssumption DEF Threads, Pool

(* Every step keeps the types.                                             *)
LEMMA TypesStep ==
  ASSUME Types, [Next]_vars
  PROVE  Types'
<1>3. CASE CreateBegin
  <2> USE <1>3 DEF CreateBegin, Types
  <2>1. nextthrd' \in 1 .. ThrdN + 1
    BY WorkerAssumption
  <2>2. e_signaled' \in BOOLEAN
    OBVIOUS
  <2>3. tm_active' \in Int /\ tm_status' \in {"INIT", "RUN", "SHUTDOWN"}
    OBVIOUS
  <2>4. /\ tpc' \in [Threads -> MainPcs \cup PoolPcs]
        /\ tpc'[0] \in MainPcs /\ \A t \in Pool : tpc'[t] \in PoolPcs
    <3>1. tpc' = [tpc EXCEPT ![0] = "creating"]
      BY DEF Goto
    <3> QED
      BY <3>1, ThreadFacts DEF MainPcs
  <2>5. /\ proc' \in {"alive", "exited", "crashed"} /\ up' \in BOOLEAN
        /\ curr_slot' \in [Threads -> Int]
    OBVIOUS
  <2>6. /\ disp_status' \in {"RUNNING", "SHUTDOWN"}
        /\ disp_lock' \in Threads \cup {NoThread, Destroyed}
    BY DEF disp
  <2>7. /\ inhandler' \subseteq Threads /\ nquit' \in Nat
        /\ sigquit' \in BOOLEAN /\ joined' \subseteq Pool
    BY DEF sigs
  <2> HIDE <1>3 DEF CreateBegin
  <2> QED
    BY <2>1, <2>2, <2>3, <2>4, <2>5, <2>6, <2>7
<1>4. CASE StartFails
  <2> USE <1>4 DEF StartFails, Types
  <2>1. nextthrd' \in 1 .. ThrdN + 1
    BY WorkerAssumption
  <2>2. e_signaled' \in BOOLEAN
    OBVIOUS
  <2>3. tm_active' \in Int /\ tm_status' \in {"INIT", "RUN", "SHUTDOWN"}
    OBVIOUS
  <2>4. /\ tpc' \in [Threads -> MainPcs \cup PoolPcs]
        /\ tpc'[0] \in MainPcs /\ \A t \in Pool : tpc'[t] \in PoolPcs
    <3>1. tpc' = [tpc EXCEPT ![0] = "open"]
      BY DEF Goto
    <3> QED
      BY <3>1, ThreadFacts DEF MainPcs
  <2>5. /\ proc' \in {"alive", "exited", "crashed"} /\ up' \in BOOLEAN
        /\ curr_slot' \in [Threads -> Int]
    OBVIOUS
  <2>6. /\ disp_status' \in {"RUNNING", "SHUTDOWN"}
        /\ disp_lock' \in Threads \cup {NoThread, Destroyed}
    BY DEF disp
  <2>7. /\ inhandler' \subseteq Threads /\ nquit' \in Nat
        /\ sigquit' \in BOOLEAN /\ joined' \subseteq Pool
    BY DEF sigs
  <2> HIDE <1>4 DEF StartFails
  <2> QED
    BY <2>1, <2>2, <2>3, <2>4, <2>5, <2>6, <2>7
<1> USE ThreadFacts
    DEF Types, MainPcs, PoolPcs, StartedPcs, DispPcs, At, Goto, tvars, pool, disp, sigs
<1>1. CASE PluginInit
  BY <1>1 DEF PluginInit
<1>2. CASE InitFails
  BY <1>2 DEF InitFails
<1>5. CASE CreateThread
  BY <1>5, WorkerAssumption DEF CreateThread
<1>6. CASE RunBegin
  BY <1>6 DEF RunBegin
<1>7. CASE RunSignal
  BY <1>7 DEF RunSignal
<1>8. CASE RunDone
  BY <1>8 DEF RunDone
<1>9. CASE PluginDestroy
  BY <1>9 DEF PluginDestroy
<1>10. CASE DispShutdown
  BY <1>10 DEF DispShutdown
<1>11. CASE ThreadsEnd
  BY <1>11 DEF ThreadsEnd
<1>12. CASE JoinCrashes
  BY <1>12 DEF JoinCrashes
<1>13. CASE CtxDestroy
  BY <1>13 DEF CtxDestroy
<1>14. CASE SendQuit
  BY <1>14 DEF SendQuit
<1>15. ASSUME NEW t \in Pool, ThreadStart(t) PROVE Types'
  BY <1>15 DEF ThreadStart
<1>16. ASSUME NEW t \in Pool, ThreadCheck(t) PROVE Types'
  BY <1>16 DEF ThreadCheck
<1>17. ASSUME NEW t \in Pool, ThreadEnd(t) PROVE Types'
  BY <1>17 DEF ThreadEnd
<1>18. ASSUME NEW t \in Pool, Join(t) PROVE Types'
  BY <1>18 DEF Join
<1>19. ASSUME NEW t \in Threads, OpenLog(t) PROVE Types'
  BY <1>19 DEF OpenLog, AfterDisp
<1>20. ASSUME NEW t \in Threads, EnterLoop(t) PROVE Types'
  BY <1>20 DEF EnterLoop
<1>21. ASSUME NEW t \in Threads, LoopTop(t) PROVE Types'
  BY <1>21 DEF LoopTop
<1>22. ASSUME NEW t \in Threads, TryLock(t) PROVE Types'
  BY <1>22 DEF TryLock
<1>23. ASSUME NEW t \in Threads, GlobalDone(t) PROVE Types'
  BY <1>23 DEF GlobalDone, HandlersRun
<1>24. ASSUME NEW t \in Threads, LocalPoll(t) PROVE Types'
  BY <1>24 DEF LocalPoll
<1>25. ASSUME NEW t \in Threads, LocalDone(t) PROVE Types'
  BY <1>25 DEF LocalDone, HandlersRun
<1>26. ASSUME NEW t \in Threads, LeaveDisp(t) PROVE Types'
  BY <1>26 DEF LeaveDisp, AfterDisp
<1>27. ASSUME NEW t \in Threads, HandlerThreads(t) PROVE Types'
  BY <1>27 DEF HandlerThreads
<1>28. ASSUME NEW t \in Threads, HandlerDisp(t) PROVE Types'
  BY <1>28 DEF HandlerDisp
<1>29. CASE UNCHANGED vars
  BY <1>29 DEF vars
<1> QED
  BY <1>1, <1>2, <1>3, <1>4, <1>5, <1>6, <1>7, <1>8, <1>9, <1>10, <1>11,
     <1>12, <1>13, <1>14, <1>15, <1>16, <1>17, <1>18, <1>19, <1>20, <1>21,
     <1>22, <1>23, <1>24, <1>25, <1>26, <1>27, <1>28, <1>29
  DEF Next, MainStep, ThreadStep, Terminated

LEMMA TypesInvariant == Spec => []Types
<1>1. ASSUME Init PROVE Types
  <2> USE <1>1, ThreadFacts, WorkerAssumption DEF Init
  <2>1. /\ tpc \in [Threads -> MainPcs \cup PoolPcs]
        /\ tpc[0] \in MainPcs /\ \A t \in Pool : tpc[t] \in PoolPcs
    BY DEF MainPcs, PoolPcs
  <2>2. curr_slot \in [Threads -> Int] /\ nextthrd \in 1 .. ThrdN + 1
    OBVIOUS
  <2> QED
    BY <2>1, <2>2 DEF Types
<1> QED
  BY <1>1, TypesStep, PTL DEF Spec

(* Every step keeps the start-up order.                                    *)
LEMMA StartOrderStep ==
  ASSUME Types, StartOrder, [Next]_vars
  PROVE  StartOrder'
<1> USE ThreadFacts
    DEF StartOrder, Types, MainPcs, PoolPcs, StartedPcs, DispPcs, At, Goto, tvars, pool, disp, sigs
<1>1. CASE PluginInit
  BY <1>1 DEF PluginInit
<1>2. CASE InitFails
  BY <1>2 DEF InitFails
<1>3. CASE CreateBegin
  BY <1>3 DEF CreateBegin
<1>4. CASE StartFails
  BY <1>4 DEF StartFails
<1>5. CASE CreateThread
  <2>1. nextthrd \in Pool /\ nextthrd \in Int
    BY <1>5 DEF CreateThread
  <2>2. /\ tpc[0] = "creating" /\ ~e_signaled /\ ~e_signaled'
        /\ nextthrd' = nextthrd + 1
        /\ tpc' = [tpc EXCEPT ![nextthrd] = "wait"] \/ tpc' = tpc
    BY <1>5 DEF CreateThread
  <2>3. \A t \in Pool : t \in Int
    BY WorkerAssumption DEF Pool
  <2> QED
    BY <2>1, <2>2, <2>3
<1>6. CASE RunBegin
  BY <1>6 DEF RunBegin
<1>7. CASE RunSignal
  BY <1>7 DEF RunSignal
<1>8. CASE RunDone
  BY <1>8 DEF RunDone
<1>9. CASE PluginDestroy
  BY <1>9 DEF PluginDestroy
<1>10. CASE DispShutdown
  BY <1>10 DEF DispShutdown
<1>11. CASE ThreadsEnd
  BY <1>11 DEF ThreadsEnd
<1>12. CASE JoinCrashes
  BY <1>12 DEF JoinCrashes
<1>13. CASE CtxDestroy
  BY <1>13 DEF CtxDestroy
<1>14. CASE SendQuit
  BY <1>14 DEF SendQuit
<1>15. ASSUME NEW t \in Pool, ThreadStart(t) PROVE StartOrder'
  BY <1>15 DEF ThreadStart
<1>16. ASSUME NEW t \in Pool, ThreadCheck(t) PROVE StartOrder'
  BY <1>16 DEF ThreadCheck
<1>17. ASSUME NEW t \in Pool, ThreadEnd(t) PROVE StartOrder'
  BY <1>17 DEF ThreadEnd
<1>18. ASSUME NEW t \in Pool, Join(t) PROVE StartOrder'
  BY <1>18 DEF Join
<1>19. ASSUME NEW t \in Threads, OpenLog(t) PROVE StartOrder'
  BY <1>19 DEF OpenLog, AfterDisp
<1>20. ASSUME NEW t \in Threads, EnterLoop(t) PROVE StartOrder'
  BY <1>20 DEF EnterLoop
<1>21. ASSUME NEW t \in Threads, LoopTop(t) PROVE StartOrder'
  BY <1>21 DEF LoopTop
<1>22. ASSUME NEW t \in Threads, TryLock(t) PROVE StartOrder'
  BY <1>22 DEF TryLock
<1>23. ASSUME NEW t \in Threads, GlobalDone(t) PROVE StartOrder'
  BY <1>23 DEF GlobalDone, HandlersRun
<1>24. ASSUME NEW t \in Threads, LocalPoll(t) PROVE StartOrder'
  BY <1>24 DEF LocalPoll
<1>25. ASSUME NEW t \in Threads, LocalDone(t) PROVE StartOrder'
  BY <1>25 DEF LocalDone, HandlersRun
<1>26. ASSUME NEW t \in Threads, LeaveDisp(t) PROVE StartOrder'
  BY <1>26 DEF LeaveDisp, AfterDisp
<1>27. ASSUME NEW t \in Threads, HandlerThreads(t) PROVE StartOrder'
  BY <1>27 DEF HandlerThreads
<1>28. ASSUME NEW t \in Threads, HandlerDisp(t) PROVE StartOrder'
  BY <1>28 DEF HandlerDisp
<1>29. CASE UNCHANGED vars
  BY <1>29 DEF vars
<1> QED
  BY <1>1, <1>2, <1>3, <1>4, <1>5, <1>6, <1>7, <1>8, <1>9, <1>10, <1>11,
     <1>12, <1>13, <1>14, <1>15, <1>16, <1>17, <1>18, <1>19, <1>20, <1>21,
     <1>22, <1>23, <1>24, <1>25, <1>26, <1>27, <1>28, <1>29
  DEF Next, MainStep, ThreadStep, Terminated

LEMMA StartOrderInvariant == Spec => []StartOrder
<1>1. Init => StartOrder
  BY ThreadFacts DEF Init, StartOrder
<1> QED
  BY <1>1, StartOrderStep, TypesInvariant, PTL DEF Spec

(* A set that only pool threads are in is finite.                          *)
LEMMA StartedFinite ==
  /\ IsFiniteSet(Started) /\ Cardinality(Started) \in 0 .. ThrdN - 1
<1>1. IsFiniteSet(Pool) /\ Cardinality(Pool) = ThrdN - 1
  BY FS_Interval, WorkerAssumption DEF Pool
<1>2. Started \in SUBSET Pool
  BY DEF Started
<1>3. IsFiniteSet(Started) /\ Cardinality(Started) <= Cardinality(Pool)
  BY <1>1, <1>2, FS_Subset
<1> QED
  BY <1>1, <1>3, FS_CardinalityType, WorkerAssumption

(* A step that moves no pool thread into or out of the started ones and    *)
(* does not write the counter keeps the count.                             *)
LEMMA SameCount ==
  ASSUME Counted, UNCHANGED tm_active,
         \A t \in Pool : tpc[t] \in StartedPcs <=> tpc'[t] \in StartedPcs
  PROVE  Counted'
<1>1. Started' = Started
  BY DEF Started
<1> QED
  BY <1>1 DEF Counted

(* Every step keeps the count right.                                       *)
LEMMA CountedStep ==
  ASSUME Types, StartOrder, Counted, [Next]_vars
  PROVE  Counted'
<1> USE ThreadFacts
    DEF StartOrder, Types, MainPcs, PoolPcs, StartedPcs, DispPcs, At, Goto, tvars, pool, disp, sigs
<1>1. CASE PluginInit
  BY <1>1, SameCount DEF PluginInit
<1>2. CASE InitFails
  BY <1>2, SameCount DEF InitFails
<1>3. CASE CreateBegin
  <2>1. Started' = {}
    BY <1>3, SameCount DEF CreateBegin, Started
  <2>2. tm_active' = 0
    BY <1>3, SameCount DEF CreateBegin
  <2> QED
    BY <2>1, <2>2, FS_EmptySet DEF Counted
<1>4. CASE StartFails
  <2>1. Started' = {}
    BY <1>4, SameCount DEF StartFails, Started
  <2>2. tm_active' = 0
    BY <1>4, SameCount DEF StartFails
  <2> QED
    BY <2>1, <2>2, FS_EmptySet DEF Counted
<1>5. CASE CreateThread
  <2>1. nextthrd \in Pool /\ tpc[nextthrd] = "none"
    BY <1>5, WorkerAssumption DEF CreateThread, Pool
  <2> QED
    BY <1>5, <2>1, SameCount DEF CreateThread
<1>6. CASE RunBegin
  BY <1>6, SameCount DEF RunBegin
<1>7. CASE RunSignal
  BY <1>7, SameCount DEF RunSignal
<1>8. CASE RunDone
  BY <1>8, SameCount DEF RunDone
<1>9. CASE PluginDestroy
  BY <1>9, SameCount DEF PluginDestroy
<1>10. CASE DispShutdown
  BY <1>10, SameCount DEF DispShutdown
<1>11. CASE ThreadsEnd
  BY <1>11, SameCount DEF ThreadsEnd
<1>12. CASE JoinCrashes
  BY <1>12, SameCount DEF JoinCrashes
<1>13. CASE CtxDestroy
  BY <1>13, SameCount DEF CtxDestroy
<1>14. CASE SendQuit
  BY <1>14, SameCount DEF SendQuit
<1>15. ASSUME NEW t \in Pool, ThreadStart(t) PROVE Counted'
  <2>1. Started' = Started \cup {t} /\ t \notin Started
    BY <1>15, SameCount DEF ThreadStart, Started
  <2>2. tm_active' = tm_active + 1
    BY <1>15, SameCount DEF ThreadStart
  <2> QED
    BY <2>1, <2>2, StartedFinite, FS_AddElement DEF Counted
<1>16. ASSUME NEW t \in Pool, ThreadCheck(t) PROVE Counted'
  BY <1>16, SameCount DEF ThreadCheck
<1>17. ASSUME NEW t \in Pool, ThreadEnd(t) PROVE Counted'
  <2>1. Started' = Started \ {t} /\ t \in Started
    BY <1>17, SameCount DEF ThreadEnd, Started
  <2>2. tm_active' = tm_active - 1
    BY <1>17, SameCount DEF ThreadEnd
  <2> QED
    BY <2>1, <2>2, StartedFinite, FS_RemoveElement DEF Counted
<1>18. ASSUME NEW t \in Pool, Join(t) PROVE Counted'
  BY <1>18, SameCount DEF Join
<1>19. ASSUME NEW t \in Threads, OpenLog(t) PROVE Counted'
  BY <1>19, SameCount DEF OpenLog, AfterDisp
<1>20. ASSUME NEW t \in Threads, EnterLoop(t) PROVE Counted'
  BY <1>20, SameCount DEF EnterLoop
<1>21. ASSUME NEW t \in Threads, LoopTop(t) PROVE Counted'
  BY <1>21, SameCount DEF LoopTop
<1>22. ASSUME NEW t \in Threads, TryLock(t) PROVE Counted'
  BY <1>22, SameCount DEF TryLock
<1>23. ASSUME NEW t \in Threads, GlobalDone(t) PROVE Counted'
  BY <1>23, SameCount DEF GlobalDone, HandlersRun
<1>24. ASSUME NEW t \in Threads, LocalPoll(t) PROVE Counted'
  BY <1>24, SameCount DEF LocalPoll
<1>25. ASSUME NEW t \in Threads, LocalDone(t) PROVE Counted'
  BY <1>25, SameCount DEF LocalDone, HandlersRun
<1>26. ASSUME NEW t \in Threads, LeaveDisp(t) PROVE Counted'
  BY <1>26, SameCount DEF LeaveDisp, AfterDisp
<1>27. ASSUME NEW t \in Threads, HandlerThreads(t) PROVE Counted'
  BY <1>27, SameCount DEF HandlerThreads
<1>28. ASSUME NEW t \in Threads, HandlerDisp(t) PROVE Counted'
  BY <1>28, SameCount DEF HandlerDisp
<1>29. CASE UNCHANGED vars
  BY <1>29, SameCount DEF vars
<1> QED
  BY <1>1, <1>2, <1>3, <1>4, <1>5, <1>6, <1>7, <1>8, <1>9, <1>10, <1>11,
     <1>12, <1>13, <1>14, <1>15, <1>16, <1>17, <1>18, <1>19, <1>20, <1>21,
     <1>22, <1>23, <1>24, <1>25, <1>26, <1>27, <1>28, <1>29
  DEF Next, MainStep, ThreadStep, Terminated

LEMMA CountedInvariant == Spec => []Counted
<1>1. ASSUME Init PROVE Counted
  <2>1. Started = {}
    BY <1>1, ThreadFacts DEF Init, Started, StartedPcs, DispPcs
  <2> QED
    BY <1>1, <2>1, FS_EmptySet DEF Init, Counted
<1> QED
  BY <1>1, CountedStep, TypesInvariant, StartOrderInvariant, PTL DEF Spec

(* Only a thread that starts writes a slot, and it takes a number of a     *)
(* started thread.                                                         *)
LEMMA SlotRangeStep ==
  ASSUME Types, StartOrder, Counted, Counted', SlotRange, [Next]_vars
  PROVE  SlotRange'
<1>1. CASE UNCHANGED curr_slot
  BY <1>1 DEF SlotRange
<1>2. ASSUME NEW t \in Pool, ThreadStart(t) PROVE SlotRange'
  <2>1. curr_slot' = [curr_slot EXCEPT ![t] = tm_active']
    BY <1>2 DEF ThreadStart
  <2>2. tm_active' = Cardinality(Started')
    BY DEF Counted
  <2>3. Cardinality(Started') \in 0 .. ThrdN - 1
    <3> DEFINE S == {u \in Pool : tpc'[u] \in StartedPcs}
    <3>1. IsFiniteSet(Pool) /\ Cardinality(Pool) = ThrdN - 1
      BY FS_Interval, WorkerAssumption DEF Pool
    <3>2. S \in SUBSET Pool
      OBVIOUS
    <3>3. IsFiniteSet(S) /\ Cardinality(S) <= Cardinality(Pool)
      BY <3>1, <3>2, FS_Subset
    <3>4. Cardinality(S) \in 0 .. ThrdN - 1
      BY <3>1, <3>3, FS_CardinalityType, WorkerAssumption
    <3> QED
      BY <3>4 DEF Started
  <2> QED
    BY <2>1, <2>2, <2>3 DEF SlotRange, Types
<1> QED
  BY <1>1, <1>2
  DEF Next, MainStep, ThreadStep, Terminated, vars, tvars, PluginInit,
      InitFails, CreateBegin, StartFails, CreateThread, RunBegin, RunSignal,
      RunDone, PluginDestroy, DispShutdown, ThreadsEnd, Join, JoinCrashes,
      CtxDestroy, SendQuit, HandlerThreads, HandlerDisp, ThreadCheck,
      ThreadEnd, OpenLog, EnterLoop, LoopTop, TryLock, GlobalDone, LocalPoll,
      LocalDone, LeaveDisp

LEMMA SlotRangeInvariant == Spec => []SlotRange
<1>1. Init => SlotRange
  BY WorkerAssumption DEF Init, SlotRange
<1> QED
  BY <1>1, SlotRangeStep, CountedStep, TypesInvariant, StartOrderInvariant,
     CountedInvariant, PTL DEF Spec

(* A slot is always a valid index of the arrays of pollers, timer lists    *)
(* and logs, whatever fails and however many quits come.                   *)
THEOREM SlotsAreInRange == Spec => []SlotsInRange
<1>1. SlotRange => SlotsInRange
  BY WorkerAssumption DEF SlotRange, SlotsInRange
<1> QED
  BY <1>1, SlotRangeInvariant, PTL

(* The types; the count makes the bounds of tm_active and of the slots.    *)
THEOREM TypeCorrect == Spec => []TypeOK
<1>1. ASSUME Types, Counted, SlotRange PROVE TypeOK
  <2>1. tm_active \in 0 .. ThrdN - 1
    BY <1>1, StartedFinite DEF Counted
  <2>2. curr_slot \in [Threads -> Nat]
    BY <1>1, WorkerAssumption DEF Types, SlotRange
  <2>3. tpc \in [Threads -> {"start", "create", "creating", "run", "none",
                "wait", "check", "open", "cas", "loop", "try", "global",
                "timer", "local", "close", "dec", "done", "destroy",
                "shutdown", "end", "join"}]
    BY <1>1 DEF Types, MainPcs, PoolPcs, StartedPcs, DispPcs
  <2> QED
    BY <1>1, <2>1, <2>2, <2>3 DEF Types, TypeOK
<1> QED
  BY <1>1, TypesInvariant, CountedInvariant, SlotRangeInvariant, PTL

(* Every step keeps the slots apart.                                       *)
LEMMA SlotsStep ==
  ASSUME Types, StartOrder, Counted, Slots, [Next]_vars
  PROVE  Slots'
<1> USE ThreadFacts
    DEF Slots, StartOrder, Types, MainPcs, PoolPcs, StartedPcs, DispPcs, At, Goto, tvars, pool, disp, sigs
<1>1. CASE PluginInit
  BY <1>1 DEF PluginInit
<1>2. CASE InitFails
  BY <1>2 DEF InitFails
<1>3. CASE CreateBegin
  BY <1>3 DEF CreateBegin
<1>4. CASE StartFails
  BY <1>4 DEF StartFails
<1>5. CASE CreateThread
  BY <1>5 DEF CreateThread
<1>6. CASE RunBegin
  BY <1>6 DEF RunBegin
<1>7. CASE RunSignal
  BY <1>7 DEF RunSignal
<1>8. CASE RunDone
  BY <1>8 DEF RunDone
<1>9. CASE PluginDestroy
  BY <1>9 DEF PluginDestroy
<1>10. CASE DispShutdown
  BY <1>10 DEF DispShutdown
<1>11. CASE ThreadsEnd
  BY <1>11 DEF ThreadsEnd
<1>12. CASE JoinCrashes
  BY <1>12 DEF JoinCrashes
<1>13. CASE CtxDestroy
  BY <1>13 DEF CtxDestroy
<1>14. CASE SendQuit
  BY <1>14 DEF SendQuit
<1>15. ASSUME NEW t \in Pool, ThreadStart(t) PROVE Slots'
  <2>1. /\ tpc[t] = "wait" /\ tpc' = [tpc EXCEPT ![t] = "check"]
        /\ curr_slot' = [curr_slot EXCEPT ![t] = tm_active + 1]
        /\ tm_active' = tm_active + 1 /\ UNCHANGED tm_status
    BY <1>15 DEF ThreadStart
  <2>2. tm_active \in Nat
    BY StartedFinite DEF Counted
  <2> QED
    BY <2>1, <2>2
<1>16. ASSUME NEW t \in Pool, ThreadCheck(t) PROVE Slots'
  BY <1>16 DEF ThreadCheck
<1>17. ASSUME NEW t \in Pool, ThreadEnd(t) PROVE Slots'
  BY <1>17 DEF ThreadEnd
<1>18. ASSUME NEW t \in Pool, Join(t) PROVE Slots'
  BY <1>18 DEF Join
<1>19. ASSUME NEW t \in Threads, OpenLog(t) PROVE Slots'
  BY <1>19 DEF OpenLog, AfterDisp
<1>20. ASSUME NEW t \in Threads, EnterLoop(t) PROVE Slots'
  BY <1>20 DEF EnterLoop
<1>21. ASSUME NEW t \in Threads, LoopTop(t) PROVE Slots'
  BY <1>21 DEF LoopTop
<1>22. ASSUME NEW t \in Threads, TryLock(t) PROVE Slots'
  BY <1>22 DEF TryLock
<1>23. ASSUME NEW t \in Threads, GlobalDone(t) PROVE Slots'
  BY <1>23 DEF GlobalDone, HandlersRun
<1>24. ASSUME NEW t \in Threads, LocalPoll(t) PROVE Slots'
  BY <1>24 DEF LocalPoll
<1>25. ASSUME NEW t \in Threads, LocalDone(t) PROVE Slots'
  BY <1>25 DEF LocalDone, HandlersRun
<1>26. ASSUME NEW t \in Threads, LeaveDisp(t) PROVE Slots'
  BY <1>26 DEF LeaveDisp, AfterDisp
<1>27. ASSUME NEW t \in Threads, HandlerThreads(t) PROVE Slots'
  BY <1>27 DEF HandlerThreads
<1>28. ASSUME NEW t \in Threads, HandlerDisp(t) PROVE Slots'
  BY <1>28 DEF HandlerDisp
<1>29. CASE UNCHANGED vars
  BY <1>29 DEF vars
<1> QED
  BY <1>1, <1>2, <1>3, <1>4, <1>5, <1>6, <1>7, <1>8, <1>9, <1>10, <1>11,
     <1>12, <1>13, <1>14, <1>15, <1>16, <1>17, <1>18, <1>19, <1>20, <1>21,
     <1>22, <1>23, <1>24, <1>25, <1>26, <1>27, <1>28, <1>29
  DEF Next, MainStep, ThreadStep, Terminated

(* No two threads are in the dispatcher with the same slot: each poller,   *)
(* timer list and log belongs to one thread, whenever quit signals come    *)
(* and whatever fails.                                                     *)
THEOREM SlotsAreUnique == Spec => []SlotsUnique
<1>1. Init => Slots
  BY ThreadFacts DEF Init, Slots, StartedPcs, DispPcs
<1>2. Types /\ Slots => SlotsUnique
  BY ThreadFacts
  DEF Types, Slots, SlotsUnique, InDisp, InLoop, DispPcs, StartedPcs
<1>3. Types /\ StartOrder /\ Counted /\ Slots /\ [Next]_vars => Slots'
  BY SlotsStep
<1> QED
  BY <1>1, <1>2, <1>3, TypesInvariant, StartOrderInvariant, CountedInvariant,
     PTL DEF Spec

(* Every step keeps what has been joined.                                  *)
LEMMA JoinsStep ==
  ASSUME Types, StartOrder, Joins, [Next]_vars
  PROVE  Joins'
<1> USE ThreadFacts
    DEF Joins, CtxOutlivesThreads, StartOrder, Types, MainPcs, PoolPcs, StartedPcs, DispPcs, At, Goto, tvars, pool, disp, sigs
<1>1. CASE PluginInit
  BY <1>1 DEF PluginInit
<1>2. CASE InitFails
  BY <1>2 DEF InitFails
<1>3. CASE CreateBegin
  BY <1>3 DEF CreateBegin
<1>4. CASE StartFails
  BY <1>4 DEF StartFails
<1>5. CASE CreateThread
  BY <1>5 DEF CreateThread
<1>6. CASE RunBegin
  BY <1>6 DEF RunBegin
<1>7. CASE RunSignal
  BY <1>7 DEF RunSignal
<1>8. CASE RunDone
  BY <1>8 DEF RunDone
<1>9. CASE PluginDestroy
  BY <1>9 DEF PluginDestroy
<1>10. CASE DispShutdown
  BY <1>10 DEF DispShutdown
<1>11. CASE ThreadsEnd
  BY <1>11 DEF ThreadsEnd
<1>12. CASE JoinCrashes
  BY <1>12 DEF JoinCrashes
<1>13. CASE CtxDestroy
  BY <1>13 DEF CtxDestroy
<1>14. CASE SendQuit
  BY <1>14 DEF SendQuit
<1>15. ASSUME NEW t \in Pool, ThreadStart(t) PROVE Joins'
  BY <1>15 DEF ThreadStart
<1>16. ASSUME NEW t \in Pool, ThreadCheck(t) PROVE Joins'
  BY <1>16 DEF ThreadCheck
<1>17. ASSUME NEW t \in Pool, ThreadEnd(t) PROVE Joins'
  BY <1>17 DEF ThreadEnd
<1>18. ASSUME NEW t \in Pool, Join(t) PROVE Joins'
  BY <1>18 DEF Join
<1>19. ASSUME NEW t \in Threads, OpenLog(t) PROVE Joins'
  BY <1>19 DEF OpenLog, AfterDisp
<1>20. ASSUME NEW t \in Threads, EnterLoop(t) PROVE Joins'
  BY <1>20 DEF EnterLoop
<1>21. ASSUME NEW t \in Threads, LoopTop(t) PROVE Joins'
  BY <1>21 DEF LoopTop
<1>22. ASSUME NEW t \in Threads, TryLock(t) PROVE Joins'
  BY <1>22 DEF TryLock
<1>23. ASSUME NEW t \in Threads, GlobalDone(t) PROVE Joins'
  BY <1>23 DEF GlobalDone, HandlersRun
<1>24. ASSUME NEW t \in Threads, LocalPoll(t) PROVE Joins'
  BY <1>24 DEF LocalPoll
<1>25. ASSUME NEW t \in Threads, LocalDone(t) PROVE Joins'
  BY <1>25 DEF LocalDone, HandlersRun
<1>26. ASSUME NEW t \in Threads, LeaveDisp(t) PROVE Joins'
  BY <1>26 DEF LeaveDisp, AfterDisp
<1>27. ASSUME NEW t \in Threads, HandlerThreads(t) PROVE Joins'
  BY <1>27 DEF HandlerThreads
<1>28. ASSUME NEW t \in Threads, HandlerDisp(t) PROVE Joins'
  BY <1>28 DEF HandlerDisp
<1>29. CASE UNCHANGED vars
  BY <1>29 DEF vars
<1> QED
  BY <1>1, <1>2, <1>3, <1>4, <1>5, <1>6, <1>7, <1>8, <1>9, <1>10, <1>11,
     <1>12, <1>13, <1>14, <1>15, <1>16, <1>17, <1>18, <1>19, <1>20, <1>21,
     <1>22, <1>23, <1>24, <1>25, <1>26, <1>27, <1>28, <1>29
  DEF Next, MainStep, ThreadStep, Terminated

(* The contexts are freed only after every other thread has ended.         *)
THEOREM ContextsOutliveThreads == Spec => []CtxOutlivesThreads
<1>1. Init => Joins
  BY DEF Init, Joins, CtxOutlivesThreads
<1>2. Joins => CtxOutlivesThreads
  BY DEF Joins
<1>3. Types /\ StartOrder /\ Joins /\ [Next]_vars => Joins'
  BY JoinsStep
<1> QED
  BY <1>1, <1>2, <1>3, TypesInvariant, StartOrderInvariant, PTL DEF Spec

(* Every step keeps the order in which a quit takes effect.                *)
LEMMA QuitOrderStep ==
  ASSUME ~EarlyQuit, ~OpenMayFail, Types, StartOrder, Slots, QuitOrder,
         [Next]_vars
  PROVE  QuitOrder'
<1> USE ThreadFacts
    DEF QuitOrder, Settled, InLoop, Slots, StartOrder, Types, MainPcs, PoolPcs, StartedPcs, DispPcs, At, Goto, tvars, pool, disp, sigs
<1>1. CASE PluginInit
  BY <1>1 DEF PluginInit
<1>2. CASE InitFails
  BY <1>2 DEF InitFails
<1>3. CASE CreateBegin
  BY <1>3 DEF CreateBegin
<1>4. CASE StartFails
  BY <1>4 DEF StartFails
<1>5. CASE CreateThread
  BY <1>5 DEF CreateThread
<1>6. CASE RunBegin
  BY <1>6 DEF RunBegin
<1>7. CASE RunSignal
  BY <1>7 DEF RunSignal
<1>8. CASE RunDone
  BY <1>8 DEF RunDone
<1>9. CASE PluginDestroy
  BY <1>9 DEF PluginDestroy
<1>10. CASE DispShutdown
  BY <1>10 DEF DispShutdown
<1>11. CASE ThreadsEnd
  BY <1>11 DEF ThreadsEnd
<1>12. CASE JoinCrashes
  BY <1>12 DEF JoinCrashes
<1>13. CASE CtxDestroy
  BY <1>13 DEF CtxDestroy
<1>14. CASE SendQuit
  BY <1>14 DEF SendQuit
<1>15. ASSUME NEW t \in Pool, ThreadStart(t) PROVE QuitOrder'
  BY <1>15 DEF ThreadStart
<1>16. ASSUME NEW t \in Pool, ThreadCheck(t) PROVE QuitOrder'
  BY <1>16 DEF ThreadCheck
<1>17. ASSUME NEW t \in Pool, ThreadEnd(t) PROVE QuitOrder'
  BY <1>17 DEF ThreadEnd
<1>18. ASSUME NEW t \in Pool, Join(t) PROVE QuitOrder'
  BY <1>18 DEF Join
<1>19. ASSUME NEW t \in Threads, OpenLog(t) PROVE QuitOrder'
  BY <1>19 DEF OpenLog, AfterDisp
<1>20. ASSUME NEW t \in Threads, EnterLoop(t) PROVE QuitOrder'
  BY <1>20 DEF EnterLoop
<1>21. ASSUME NEW t \in Threads, LoopTop(t) PROVE QuitOrder'
  BY <1>21 DEF LoopTop
<1>22. ASSUME NEW t \in Threads, TryLock(t) PROVE QuitOrder'
  BY <1>22 DEF TryLock
<1>23. ASSUME NEW t \in Threads, GlobalDone(t) PROVE QuitOrder'
  BY <1>23 DEF GlobalDone, HandlersRun
<1>24. ASSUME NEW t \in Threads, LocalPoll(t) PROVE QuitOrder'
  BY <1>24 DEF LocalPoll
<1>25. ASSUME NEW t \in Threads, LocalDone(t) PROVE QuitOrder'
  BY <1>25 DEF LocalDone, HandlersRun
<1>26. ASSUME NEW t \in Threads, LeaveDisp(t) PROVE QuitOrder'
  BY <1>26 DEF LeaveDisp, AfterDisp
<1>27. ASSUME NEW t \in Threads, HandlerThreads(t) PROVE QuitOrder'
  BY <1>27 DEF HandlerThreads
<1>28. ASSUME NEW t \in Threads, HandlerDisp(t) PROVE QuitOrder'
  BY <1>28 DEF HandlerDisp
<1>29. CASE UNCHANGED vars
  BY <1>29 DEF vars
<1> QED
  BY <1>1, <1>2, <1>3, <1>4, <1>5, <1>6, <1>7, <1>8, <1>9, <1>10, <1>11,
     <1>12, <1>13, <1>14, <1>15, <1>16, <1>17, <1>18, <1>19, <1>20, <1>21,
     <1>22, <1>23, <1>24, <1>25, <1>26, <1>27, <1>28, <1>29
  DEF Next, MainStep, ThreadStep, Terminated

(* A quit signal that comes after start-up is never undone: no step sets   *)
(* disp_status back once it is SHUTDOWN.                                   *)
THEOREM QuitIsNotUndone ==
  ASSUME ~EarlyQuit, ~OpenMayFail
  PROVE  Spec => QuitNotUndone
<1>1. Init => QuitOrder /\ Slots
  BY ThreadFacts DEF Init, QuitOrder, Slots, StartedPcs, DispPcs
<1>2. Types /\ StartOrder /\ Counted /\ Slots /\ QuitOrder /\ [Next]_vars
        => QuitOrder' /\ Slots'
  BY QuitOrderStep, SlotsStep
<1>3. Types /\ QuitOrder /\ [Next]_vars
        => [disp_status = "SHUTDOWN" => disp_status' = "SHUTDOWN"]_vars
  <2> SUFFICES ASSUME Types, QuitOrder, Next, disp_status = "SHUTDOWN"
               PROVE  disp_status' = "SHUTDOWN"
    OBVIOUS
  <2>1. nquit # 0 /\ \A t \in Threads : tpc[t] # "cas"
    BY DEF QuitOrder
  <2>2. CASE MainStep
    BY <2>2
    DEF MainStep, disp, PluginInit, InitFails, CreateBegin, StartFails,
        CreateThread, RunBegin, RunSignal, RunDone, PluginDestroy,
        DispShutdown, ThreadsEnd, Join, JoinCrashes, CtxDestroy
  <2>3. CASE SendQuit \/ Terminated
    BY <2>3 DEF SendQuit, Terminated, vars, disp
  <2>4. ASSUME NEW t \in Threads, ThreadStep(t) \/ HandlerThreads(t)
        PROVE  disp_status' = "SHUTDOWN"
    BY <2>1, <2>4
    DEF ThreadStep, disp, At, OpenLog, EnterLoop, LoopTop, TryLock, GlobalDone,
        LocalPoll, LocalDone, LeaveDisp, HandlerDisp, HandlerThreads,
        ThreadStart, ThreadCheck, ThreadEnd
  <2> QED
    BY <2>2, <2>3, <2>4 DEF Next
<1> QED
  BY <1>1, <1>2, <1>3, TypesInvariant, StartOrderInvariant, CountedInvariant,
     PTL DEF Spec, QuitNotUndone
=============================================================================
