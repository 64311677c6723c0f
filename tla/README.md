# Plume in TLA+

Plume is a small multi-threaded server framework in C: a master process that
supervises one worker process, a worker that runs a pool of dispatcher threads
over epoll, a configuration language, and plugins (an echo server; an HTTP
server that is unfinished but can be followed as far as it goes). This directory
models that core, checks it with TLC and proves every safety property of the runs
with TLAPS. All paths are relative to the repository;
`base/`, `lib/` and `plugin/` are below `src/src/`.

    tlc -workers 2 -config echo_threads.cfg MCEcho.tla     # one model-checking run
    tlapm Master_proofs.tla                                # the proofs of a component

## 1. Inventory

| part | code | state it keeps | operations | hard behaviour |
|---|---|---|---|---|
| master | `base/main.c` | `plm_sigquit`, `plm_sigint`, `plm_sigterm`, `plm_sighup`, `plm_chlddone`, `worker_pid`, signal mask | fork, sigsuspend loop, `plm_sig_handler`, `plm_get_chld_status` | asynchronous handlers, `waitpid` in a handler, crashes, failing fork, inherited masks |
| worker process | `base/main.c`, `base/plm_dispatcher.c`, `base/plm_plugin_base.c`, `lib/plm_threads.c`, `lib/plm_sync_mech.c` | `tm_status`, `tm_active_thrdn`, start event, slots, `disp_status`, `disp_lock` | start-up, thread creation, dispatcher loop, quit handler, shutdown, join, destruction | two status words written in two steps from a signal handler; threads that fail to start |
| event I/O, descriptors | `lib/plm_event.c`, `lib/plm_epoll.c`, `lib/plm_comm.c` | handler table, descriptor table, one global and one local poller per thread | arm, poll, accept, read, write, close | descriptor numbers reused by other threads, failing `epoll_ctl`, an uninitialised table |
| echo plugin | `plugin/echo/plm_echo.c` | client objects, listener | accept loop, read, reply, free | read-after-write loops, half-closed peers, leaks |
| lookaside lists | `lib/plm_lookaside_list.c`, used by `lib/plm_buffer.c` | list, lock, options, counters | alloc, free, destroy | lock scope, options in a union, destruction under use |
| timers | `lib/plm_timer.c`, `base/plm_dispatcher.c` | a sorted list per thread, ONE current time | add, del, run | a shared clock read twice, handlers that add timers |
| configuration and contexts | `base/plm_conf.c`, `base/plm_ctx.c`, `base/plm_plugin_base.c` | block count, stack of contexts, stack of variables, level records, context list | read a line, block begin and end, set, define, register, destroy | three stacks that must agree, uninitialised locals, a list freed while iterated |
| HTTP parser | `plugin/http/plm_http_parser.c` | `hp_state`, `hp_parsed` | parse what has arrived, report lines, go on later | a message cut anywhere |
| log | `lib/plm_log.c` | one thread-local `FILE` | open, write, close | close with an inverted test |
| HTTP plugin | `plugin/http/plm_http_request.c`, `plm_http_backend.c`, `plm_http_event_io.c`, close handlers of `lib/plm_comm.c` | conn objects, their buffers, parser states, the selection counter, the close handlers of a descriptor | accept, read, parse, select, reply, close | two threads selecting at once, descriptors reused with old close handlers, seven ways out of one function |
| HTTP callbacks | `plm_http_request.c`, `lib/plm_hash.c`, `lib/plm_string.c` | the request, its hash table of fields, the parser's user data | request line, field, end of header | user data that changes hands, allocations failing half way, an uninitialised pointer |
| memory pool | `lib/plm_mempool.c` | list of blocks, the free rest of the newest | alloc, destroy | two allocations in one call, rounding |
| URL | `plm_http_parser_url` | | split | delimiters searched in the wrong part |
| command line, daemon, pid file, CPU affinity | `base/main.c`, `base/plm_plugin_base.c` | | | start-up text and I/O |

How they interact. The operator sends signals to the master (`plume -s quit`,
`-s reconfigure`); the master forks the worker and sends it SIGQUIT; the kernel
tells the master of the worker's end by SIGCHLD. The worker loads the
configuration (plugins' contexts), creates its threads, and each thread turns in
`plm_disp_proc`: take the dispatcher's lock or skip, poll the global poller (the
listener), run timers, poll its own poller, call the handlers of events. A
handler may accept, read, write, close, allocate from a lookaside list, add
timers. A quit handler in the worker writes two status words which the threads
read; the main thread then destroys tables and plugins, joins the threads and
destroys the contexts.

What makes each part correct, in a line: two workers never run at once and no
event is slept over (master); a quit is final and threads never share a slot
(worker); a connection belongs to one thread and one client object until it is
closed, and is always armed or in someone's hands (echo); an object is in one
place (lookaside); a timer runs once, and its thread is awake for it (timers); a
setter never gets another plugin's context and the loader's stacks agree
(configuration); a parse result should not depend on how the stream is cut (HTTP
parser: how far that holds is in section 2, where it fails in section 5); a buffer belongs to one live connection and a header is answered once
(HTTP plugin); what a request stores never overlaps, whichever allocation fails
(HTTP callbacks and pool).

## 2. Modules

Each `MCxxx` module instantiates `xxx` for TLC (symmetry, descriptor numbers).
Operators named "Mutant of ..." are deliberately wrong variants of a definition,
kept next to it; no specification uses them. They record which mistake in the
code each property would catch (`mutants` in PROJECT.json).

### Master

State: the flags of `main.c`, `worker_pid` (0 until `main()` assigns it), the set
of pending signals, the subset `due` that ended the current `sigsuspend`, and per
worker its life cycle, exit kind, inherited mask, pending SIGQUIT, and whether
SIGSTOP holds it. Workers are numbered by fork. Code position: `mpc`.

`ForkFirst`, `ForkFirstFails`, `AssignPid`, `BlockSignals` are `main()`; `Wake`,
`SuspendReturns`, `React`, `Notify` are one turn of `plm_master_proc_loop`;
`Handle`, `Reap`, `NoChild` are `plm_sig_handler` with the `waitpid` inside it
(`inwait` while it waits); `EnterWorker`, `InitFails`, `Serve`, `TakeQuit`,
`Finish` are what the master can see of a worker; `Crash`, `StopWorker`,
`ContWorker` and `Operator` are the environment. A handler runs wherever its
signal is not blocked, that is also between fork and the assignment of
`worker_pid`. `faults` is history: it notes an event before the loop and a failed
fork, so that one run explores them and the properties say what they still
promise afterwards.

`Supervisor` is the abstract specification: start, collect, tell, leave, without
signals. `Master!Supervises` is that Master implements it, the worker being the
one forked last; it contains that workers do not overlap (`NoOverlap`) and that
none is left untold (`QuitPassedOn`).

### Worker

State: the fields of `thrd_mgr`, `disp_status`, `disp_lock`, per thread where it
is and its slot, a quit signal pending and the threads that stand between the two
writes of the handler. Thread 0 is the main thread. `PluginInit`, `InitFails`,
`StartFails`, `CreateBegin`, `CreateThread`, `RunBegin`, `RunSignal`, `RunDone` are the
start-up; `ThreadStart`, `ThreadCheck`, `OpenLog`, `EnterLoop`, `LoopTop`,
`TryLock`, `GlobalDone`, `LocalPoll`, `LocalDone`, `LeaveDisp`, `AfterDisp`,
`ThreadEnd` a thread; `PluginDestroy`, `DispShutdown`, `ThreadsEnd`, `Join`,
`CtxDestroy` the end; `HandlerThreads` and `HandlerDisp` the quit handler. The
compare-and-set of `plm_disp_proc` (SHUTDOWN to RUNNING) is part of `EnterLoop`.

### Echo

Two or more threads, their pollers, the listener in the global poller, the
descriptor table (`cf_open`, `cf_associate`), the handler table (`onread`,
`onwrite`), kernel descriptors, client objects and the peers. Actions follow one
callback from the poll to the next: `TakeListener`, `Accept`, `AcceptFails`,
`AcceptSetup`, `AcceptGivesUp`, `AcceptDone` (the accept loop and the re-arming of
the listener), `TakeEvent`, `ReadData`, `ReadRest`, `ReadAgain`, `ReadEnd`,
`WriteThenRead`, `WriteThenWait`, `CloseAsserts`/`CloseEntry`, `KernelClose`,
`FreeClient`; `Connect`, `Send`, `PeerCloses`, `PeerResets` are the clients.
Payloads are counted chunks. `close` is three steps, because the number may be
accepted by another thread as soon as the kernel has it back. A failed assertion
or a table index out of range is recorded in `failed`.

`fault` is a history variable: it becomes TRUE when `epoll_ctl` fails on a
descriptor it could have worked on, or when `malloc` gave the table memory that
is not zero. Four of the properties promise their part until then, so that
the same run explores the faults and what they leave behind (`OneAcceptor`
holds through them). Nobody ignores SIGPIPE, so `WriteKills` ends the process when
a reply goes to a connection that an earlier failed write has shut down, or that
its peer has closed and reset.

### Lookaside

`plm_lookaside_list_alloc`, `_free` and `_destroy` step by step around `ll_lock`.
The options are what the union makes of them: `OnOff` gives all three the value of
the last assignment. `system` is malloc's side, `tagged` and `dirty` say
what an object's header and memory hold, `held[t]` and `fresh[t]` which objects a
caller has and which of them it has not written to yet. The clearing is a step of its
own after the unlock, so it may come when another thread has the object; what a
caller then finds (its own write gone, or another's in an object that it has not
written to) is what `ZeroedWithThreads` excludes.
A failing check of a tag would abort the process; `OnePlace` says it never does.

`Allocator` is the abstract specification: an object is with the system, in the
list or with one thread, and moves between them in one step; one is taken from
the system only when the list has none, and the list keeps at most one more than
its limit. `Lookaside!Allocates` is that the locked code implements it, with a
place read off the variables between the lock and the counters.

### Timer

One dispatcher turn per thread: `Global` (poll), `Update` (read the clock into the
one shared `current_time_ms`), `Fire`/`NoneDue` (run expired timers; the handler
may add or delete), `Sleep` (compute the timeout from `current_time_ms` as it is
NOW, the code reads it again), `TimesOut`, and `Local`, an event of the thread's own
poller, which somebody outside decides about. `Tick` is the clock; it goes on
whatever the threads do. Two variables are history: `slow`, that time has passed
in a thread that was awake, and `moved`, the threads between whose last look at the
list and whose computation of the timeout another thread wrote `current_time_ms`.
`NeverLate` is promised until `slow`. For handlers that take any time
`EndlessOnlyIfMoved` says when a thread with a timer sleeps without limit: only if it
is `moved`. `TimersRun` is the liveness: if time goes on, a timer in a list runs,
with no help of outside events, unless it is removed, or `plm_timer_del` follows its
garbage pointer, or its thread is in such an endless sleep.

### Conf

A line is what the scanner makes of it: a command with parameter and brace, a
closing brace, or a variable definition. `ReadIns`, `ReadClose`, `ReadDefine` each
are one whole line: parsing, registration of a context (`CtxRegister`), the
setter (`SetCmd`), and what the loader does for the brace (`BlockBeg`,
`BlockEnd`). `Eof` is the final check, `CtxDestroy` is `plm_ctx_destroy`.
Every read of memory that the code has not initialised (`curr_ctx` without a
current node, `cl` on a closing brace, a freed list node) is a choice from
`Garbage`: NULL, the value an earlier line left there, or one that cannot be
read. A failing line aborts, as the code does. A failing allocation inside
`plm_ctx_register` is not modelled: its result is ignored by
`plm_conf_cmd_line_push`, and the context is then missing from lists that no property
looks at. `Written` restricts the files to
what an author writes: main's instructions in main's block, a plugin's in its
block, after it is loaded.

Two defects cancel in `SetterFits`: a closing brace executes the command of an
earlier line again, and the context of the enclosing block is not restored, so the
repeated setter still meets the context it had. The mutant that restores the
context makes the repeated setter run on a foreign one. The property is
therefore checked without blocks inside a plugin's block; with `Nested = TRUE`
and two plugins an instruction after the inner block is given the inner
plugin's context.

### HttpParser

`plm_http_parser_req`/`_resp`: `Call(n)` delivers n more bytes and calls, the other
actions are one turn each of the parser's loops (`FirstLine`, `BadLine`, `Field`,
`FieldBreaks`, `BadField`, `Incomplete`, `HeaderCr`, `HeaderCrBad`). A byte is one
of a few tokens. The caller is an ideal one, which keeps what was not parsed; what
the real one does is in HttpConn. How the bytes are divided into calls is free; two
history variables remember what the properties have to know of it: `together`, that
a call was given two line ends before the blank line, after which the cursor is wrong
(`plm_http_parser.c:221`), and `apart`, that a call ended right before the blank line,
which is then parsed as a field. `ParsedIsReported` says for every division that the
count of bytes parsed is that of the lines reported, and that these are the lines of
the message in their order until `together`. `Verdict` says for lines that arrive one
by one, cut anywhere, both outcomes: the verdict of the whole message, or, when
`apart`, an error. What comes out of a message whose lines arrived `together` is not
promised: lines are skipped, or the parser reads behind what it was given.

### HttpUrl, Mempool, HttpRequest

`HttpUrl` is `plm_http_parser_url` over sequences of colons, slashes and other
bytes; `Written` puts a URL together and `UrlSplit` compares. `Mempool` is the pool
as a record and `plm_mempool_alloc` as the set of its outcomes, with offsets,
rounding and either of its two `malloc` calls failing. `HttpRequest` composes
both with HttpParser: each parser step that calls back is joined with
`plm_http_on_reqline`, `plm_http_on_field` or `plm_http_on_hdr_done` (`RFirstLine`,
`RField`, `RFieldBreaks`, `RLastField`, `RFieldConn`, `RHeaderCr`; `RQuiet` is the
steps without a callback). The state is the pool, the parser's user data, the
request with its hash table, and whether a body is expected. A name is a sequence
of letters long enough for `plm_strcasecmp` to treat it as the code treats the
real one: that function stops at the first letter that is EQUAL, so names of
one length and one first letter are the same to it. `Port` keeps 16 bits.

### HttpConn

The plugin from `accept` to `close` on several threads. `TakeListener`, `Accept`,
`AcceptConn`, `AcceptGivesUp`, `AcceptEnds`, `Relisten` are `plm_http_accept`;
`TakeEvent` and `Read...` the beginning of `plm_http_read_req`; a `Parse...` action
is one thing the parser can make of the bytes, with its callbacks (`ParseLine`,
`ParseField`, `ParseHeader`, `ParseLf`, `ParseDone`, `ParsePart`, `ParseBad`,
`ParseWild`); `SelectGet` and `SelectInc` the two atomic steps of
`plm_http_backend_select`; `Reply` and `Rearm` the end; `CloseHandler`,
`CloseNoHandler`, `KernelClose` are `plm_comm_close`; `CloseServer` is the main
thread at the end of the worker. `failed` records an exit, a failed assertion, a
wild pointer, a double free or SIGPIPE. `stale` (history) becomes TRUE when a number
is accepted whose entry is closed and still has close handlers, `raced` when two
threads were inside a selection, `wrapped` when the selection counter has passed its
largest value. The table of descriptors starts with zeroes here; what other memory
does is `echo_uninit`.

`NothingLost` is about what is left behind when a thread goes back to its poller.
`due` and `replies` count the replies a conn is owed and has been given. An open
connection in no thread's hands has all of them (`Paid`), and is armed or was given
up for one of three reasons, each with the state that the code then leaves:
`Refused` (a bad request was answered and reading is shut down), `Ended` (the read
returned 0, or the buffer was full, after a request line), `Dropped` (a part of a
body had nobody to take it). In the last two the code closes nothing and waits for
nothing more; in `Ended` a request whose header is not complete is never answered
(section 5).

`plm_http_request.c` does not compile: three error codes (`PLM_ERR_BADREQ` and two
more) and two flag bits are declared nowhere. All they do is choose between three
replies, each of which is the empty string of length 1, so nothing of the model
depends on them. `plm_http_backend_forward` is empty and never reached, since
`plm_http_backend_select` returns 0.

### Not modelled

* The log: one thread-local `FILE` and a level. Its reopening needs a second call of
  `plm_disp_proc` by a thread, which Worker shows to happen only when an open fails
  or a quit is undone; what its inverted test leads to is a use of freed memory.
* HTTP responses and forwarding (`hc_resps` is never filled, the functions are
  stubs), the text of request and status lines, the addresses of `http_listen` and
  `http_backend`.
* `plm_mempool_destroy`, `plm_timer_destroy`, `plm_hash_find`, `_delete`, `_foreach`:
  called at the end of an object's life or from nowhere.
* Command line, daemonising, the pid file, CPU affinity, single-process mode:
  start-up I/O. Outgoing connections, UDP and files of `plm_comm.c`: no caller.
* The signal handlers log (`syslog`, `plm_log_write`), which is not async-signal-safe:
  what a handler does to a lock it interrupts is outside the models.

## 3. Runs

Bounds are the constants of the .cfg files; every counter against a bound is a
guard of the action it limits.

| run | question | bounds | distinct states |
|---|---|---|---|
| `master_faults` | `Supervises`: the master implements Supervisor. `SleepsOnlyWhenServed`: no recorded work while it sleeps. `QuitStopsMaster`, `CrashReplaced`, `InitFailureStopsMaster`: a quit ends it, a crash is repaired, a worker that cannot start ends it. Any interleaving, handlers before the loop, failing forks, stopped and crashing workers. | 4 workers, 2 signals, 1 crash, 1 stop | 64 958 |
| `worker_faults` | `SlotsUnique`, `CtxOutlivesThreads` under every fault of the start-up. | 4 threads, 1 quit at any time | 753 977 |
| `worker_quit` | `QuitNotUndone`, `QuitStops`, `MainBecomesWorker`. | 3 threads, 2 quits, no faults | 14 210 |
| `echo_threads` | `OneAcceptor`, `AssertionsHold`, `ClientsExclusive`, `ArmedIsServed`, `NothingLost`. | 2 threads, 2 descriptors, 3 clients, 3 connections, 2 chunks, all faults | 794 890 |
| `echo_live` | `PeerCloseNoticed`: a finished peer's descriptor is closed. `BacklogServed`: a waiting connection is accepted. | 2 threads, 2 descriptors, 2 connections, 2 chunks | 33 414 |
| `lookaside_threads` | `Allocates`: the list implements Allocator. `OnePlace`, `ZeroedWithThreads`. | 3 threads, 3 objects, 4 allocations, limit 0 | 71 266 |
| `timer_threads` | `RunsOnce`; `NeverLate`: no timer runs, or waits, past its time while time passes only in sleeping threads; `EndlessOnlyIfMoved`: a thread with a timer polls without limit only after another moved the time; `TimersRun`. | 2 threads, 2 timers, clock to 2, with deletion | 380 243 |
| `conf_tidy` | `StacksAgree`, `SetterFits`, `VarsScoped`. | files of 9 lines, 2 plugins, 1 name, one main block | 39 245 |
| `http_request` | `ParsedIsReported`: what is counted as parsed was reported, for any division into calls. `Verdict`: that of the whole message for lines that arrive one by one, with its one exception. `PoolSound`, `FieldsKept`, `UserDataRestored`: the request built by the callbacks. `UrlSplit`. | 3 fields of 3 kinds, 2 URLs, 2 block sizes, every division into calls, any `malloc` failing; URLs of up to 2 letters a part and a path of 3 bytes | 662 052 |
| `http_conns` | `ListenerServed`, `BuffersOwned`, `NothingLost`: nobody is left without the reply it is owed, or without being waited for but for three named cases; `AnsweredOnce`, `EvenUnlessRaced`, `BreaksOnlyReused`. | 2 threads, 2 descriptors, 2 connections, 3 chunks, 1 reset at a time, 2 backends, a counter that wraps after 2, allocation and `epoll_ctl` failing | 1 696 413 |
| `master_second_reload` | finding: `ServingWorkerQuits` is violated. | 3 workers, 2 SIGHUP | |
| `http_fd_reused` | finding: `FreedOnce` is violated. | as `http_conns` | |

Why the bounds suffice to see the interesting cases. Master: a replacement needs
two workers, a replacement of a replacement three, a crash during a reload four;
two signals make every pair of coinciding events. Worker: four threads are the
main one, one that fails to be created, one that ends early and one that starts
after it, the case in which slots could repeat. Echo: two threads can race for one
descriptor number; three connections over two numbers make one number be
reused while the other lives; two chunks distinguish "more to read" from "read
all". Lookaside: with limit 0 the list still takes one object, so list, malloc and
both paths of free are used; three threads allow one in the lock, one waiting
and Main draining. Timer: two timers are needed to be out of order, a handler that
adds one with delta 0 makes a third turn; a clock of two ticks is one between the two
reads of the shared time and one in a sleep. Conf: nine lines hold a main block with
both plugins loaded and used and a variable shadowed in a block. HTTP
request: three fields let a wrong offset after the first survive to a later one,
and put a failing allocation between two that work; block sizes of 2 and 9 make
an object longer than the first block, equal to the rest of one, and shorter. HTTP
connections: two threads race for the selection and for a number; two
connections over one number are the second life of a close handler; three chunks
are a header in two reads and something after it; a counter that wraps after 2
goes negative within one run.

Deadlock is checked for Worker, Lookaside, Conf and HttpRequest; they stop only in
their `Terminated` action. Master, Echo, HttpConn and Timer may really stop (the
operator or the clients stop coming, the clock is bounded), and their .cfg files
say so.

### Fairness

* Master (`FairSpec`): weak fairness of the master's own steps and of the steps of
  workers that are not stopped: the kernel schedules them. The operator and
  crashes have none.
* Worker (`FairSpec`): weak fairness of each thread's steps and of the delivery of
  a signal that is pending.
* Echo (`FairSpec`): weak fairness of a thread's steps inside callbacks; strong
  fairness of taking a ready event and of taking the listener. Every turn of
  `plm_disp_proc` polls both pollers, and epoll's ready list is first in first out,
  so an event that is ready again and again is eventually taken. The clients have
  none.
* Timer (`FairSpec`): weak fairness of each thread's own steps, `TimesOut` among them:
  `epoll_wait` returns when its timeout is over. `Local` has none, since nobody
  outside has to send an event, and `epoll_wait` with a negative timeout need never
  return. Time has none either: that the clock reaches its bound is the premise of
  `TimersRun`.

The HTTP plugin has no liveness property: connections that were answered badly,
ended or asked with a body are given up without being closed, and a poll that
takes an event turns into a process that exits when `epoll_ctl` fails.

## 4. Proofs

Each `xxx_proofs` module proves the following about `xxx` for every value of its
constants, from the module's named assumption on them (`MasterAssumption`, ...) and
what the last column adds.

| theorem | states | if |
|---|---|---|
| `Master_proofs!TypeCorrect` | `TypeOK` | |
| `Master_proofs!WorkersNeverOverlap` | `NoOverlap` | |
| `Master_proofs!QuitIsPassedOn` | `QuitPassedOn` | |
| `Master_proofs!MasterSleepsOnlyWhenServed` | `SleepsOnlyWhenServed` | |
| `Master_proofs!OnlyAskedForReplacements` | `InitFailureStopsMaster` (until an event is early, `fork` fails, or a worker is killed while a reconfiguration is about it) | |
| `Master_proofs!MasterSupervises` | `Supervises`: Master implements Supervisor | |
| `Worker_proofs!TypeCorrect` | `TypeOK` | |
| `Worker_proofs!SlotsAreInRange` | `SlotsInRange` | |
| `Worker_proofs!SlotsAreUnique` | `SlotsUnique` | |
| `Worker_proofs!ContextsOutliveThreads` | `CtxOutlivesThreads` | |
| `Worker_proofs!QuitIsNotUndone` | `QuitNotUndone` | no quit during the start-up, no log fails to open |
| `Lookaside_proofs!TypeCorrect` | `TypeOK`: also that no tag check aborts | `~Racing` |
| `Lookaside_proofs!OnePlaceHolds` | `OnePlace` | `~Racing` |
| `Lookaside_proofs!ZeroedHolds` | `ZeroedWithThreads` | `~Racing` |
| `Lookaside_proofs!AllocatesHolds` | `Allocates`: Lookaside implements Allocator | `~Racing` |
| `Echo_proofs!TypeCorrect` | `TypeOK` | |
| `Echo_proofs!OneAcceptorHolds` | `OneAcceptor` | |
| `Echo_proofs!AssertionsHoldAlways` | `AssertionsHold` (until a fault) | |
| `Echo_proofs!ClientsExclusiveHolds` | `ClientsExclusive` (until a fault) | |
| `Echo_proofs!ArmedIsServedHolds` | `ArmedIsServed` (until a fault) | |
| `Echo_proofs!NothingLostHolds` | `NothingLost` (until a fault) | |
| `Echo_proofs!AssertionsNeedNoMore` | no assertion ever fails | a table of zeroes, `~CtlMayFail` |
| `HttpConn_proofs!TypeCorrect` | `TypeOK` | |
| `HttpConn_proofs!ListenerServedHolds` | `ListenerServed` | |
| `HttpConn_proofs!BuffersOwnedHolds` | `BuffersOwned` (until `stale`) | |
| `HttpConn_proofs!ArmedIsServedHolds` | `ArmedIsServed` (until `stale`) | |
| `HttpConn_proofs!NothingLostHolds` | `NothingLost` | |
| `HttpConn_proofs!AnsweredOnceHolds` | `AnsweredOnce` | |
| `HttpConn_proofs!EvenUnlessRacedHolds` | `EvenUnlessRaced` | |
| `HttpConn_proofs!InArrayUntilWrapped` | `BackendInArray` until `wrapped`, races included | |
| `HttpConn_proofs!BreaksOnlyReusedHolds` | `BreaksOnlyReused` | |
| `Timer_proofs!TypeCorrect` | `TypeOK` | |
| `Timer_proofs!RunsOnceHolds` | `RunsOnce` | |
| `Timer_proofs!NeverLateHolds` | `NeverLate` (until `slow`) | |
| `Timer_proofs!EndlessOnlyIfMovedHolds` | `EndlessOnlyIfMoved` | |
| `Conf_proofs!TypeCorrect` | `TypeOK` | |
| `Conf_proofs!StacksAgreeHolds` | `StacksAgree` | `Tidy` |
| `Conf_proofs!SetterFitsHolds` | `SetterFits` | `Tidy`, `Nested = FALSE` |
| `Conf_proofs!VarsScopedHolds` | `VarsScoped` | `Tidy`, `Tops = 1` |
| `HttpRequest_proofs!RequestIsParser` | a request in the making takes only steps of HttpParser | |
| `HttpRequest_proofs!TypeCorrect` | `RTypeOK` | |
| `HttpRequest_proofs!ParsedIsReportedHolds` | `ParsedIsReported`, of HttpParser and HttpRequest | |
| `HttpRequest_proofs!VerdictHolds` | `Verdict`, of HttpParser and HttpRequest (until `together`) | |
| `HttpRequest_proofs!PoolSoundHolds` | `PoolSound` | |
| `HttpRequest_proofs!FieldsKeptHolds` | `FieldsKept` | |
| `HttpRequest_proofs!UserDataRestoredHolds` | `UserDataRestored` | |
| `HttpRequest_proofs!UrlTakenApart` | what `UrlSplit` says, for parts of any length | |
| `HttpRequest_proofs!UrlSplitHolds` | `UrlSplit` | |

The conditions are those of the runs and name circumstances of section 5 that
break the property: a list destroyed while threads use it (`Racing`), braces that are hidden or close nothing (`Tidy` is
`Braces = {"yes"}` and `Strays = FALSE`), a plugin's block inside a plugin's block
(`Nested`), a second block at the top level (`Tops`), which drops the variables
defined between the two. What is in parentheses behind a property is a part of the
property itself, said with a history variable, so that the run goes through the
circumstance: a fault, a number used again, time that passed in a busy thread, two
line ends in a call of the HTTP parser. The theorems on the pool, the hash table, the
user data and the parser's counts need none of it: they hold whatever the parser makes
of the bytes.

Arguments. *Master.* `NoOverlap` is not inductive: nothing in it says that the
worker the master forgets is dead. `Order` adds it: every worker but the last is
reaped, a set `plm_chlddone` means that the last one is reaped too, and while the
master is between fork and assignment the last one is the one it will name.
`plm_chlddone` is set only by a successful `waitpid`, and cleared only together
with the fork. `Served` is the corresponding strengthening for sleeping: each flag
implies that the code position is still one from which the loop will look at it.
The refinement needs both, and `worker_pid` to name the last worker once it is
assigned (`Order`): then each step is one of Supervisor's or leaves its
variables alone. `InitFailureStopsMaster` is about a step, and the flag that
decides it was set long before: `Owed` says that `plm_sighup` is set only while a
reconfiguration concerns the current worker or, once that is reaped, the next, and
`plm_chlddone` only when one concerned the worker that is gone, or when that was
killed. Both hold as long as no killed worker had a reconfiguration about it
(`HupNotOutlived`), which is the property's premise. It needs `Served`
for the time before the loop, when there is no worker to be asked about.

*Worker.* Slots are values of `tm_active_thrdn`, so `SlotRange` and `Slots` need
`Counted`: that counter equals the cardinality of the set of threads that have
started and not ended. `StartOrder` says that the pool waits for the start event
until every thread is created, so what the main thread resets meanwhile is in no
use. While `tm_status` is not SHUTDOWN no slot has been given back, so slots are
distinct; afterwards a slot may be taken twice, but by a thread that then sees
SHUTDOWN and leaves without dispatching (`Slots`). `Joins` ties the main thread's
position to the set of joined threads, which gives `ContextsOutliveThreads`.
`QuitOrder` says that after the handler's first write no thread is left in front
of the compare-and-set that undoes the second.

*Lookaside.* `OnePlace` does not say who may change the list. `Locked` does: a thread
between lock and unlock is the one `ll_lock` names (or there is only one thread);
`Args` says that a thread about to unlink an object still has the head of the list
in its hand, which is true because of the lock; `Distinct` and `Apart` that no
object is twice in the list or in two hands; `Tags` that whatever malloc gave out
carries the tag, so that no check aborts; `MainLast` that only Main is left when the
list is destroyed. `ZeroedWithThreads` follows from `Apart`: only the one caller that has
an object clears it or writes to it, although both happen without the lock. For the
refinement each object's place is read off these
variables, every step moves at most one object, and the count of places "list" is
the length of the list (`Distinct`).

*Echo and HttpConn.* The invariant is one of ownership. `OneOwner`: an open
descriptor is armed in a poller or in the hands of exactly one thread. Everything
else follows the owner: which table entries are open and associated
(`TablesAgree`, `Entries`), which handlers are set (`Handlers`), which client or
conn belongs to it (`OneClient`, `OneConn`, `Heads`), and that nothing is left over
(`Kept`). Accepting the number of a closed descriptor is harmless because the entry
is closed BEFORE the kernel has the number back; a thread between the two is an
owner still. In Echo all of it holds until `fault`; in HttpConn ownership holds always
and the part about entries and buffers until `stale`, which is why
`BreaksOnlyReused` can name the one cause of a double free. `Answered` counts
replies against headers, with one outstanding for a thread that is on its way to
reply; `Owed` is its other half, for `NothingLost`: at most one reply is missing, and
then the conn is with a thread in front of the reply, so what such a thread leaves
behind is paid (or reset); `Even` says what the counts of the backends are for every value of the
counter, by quotient and remainder.

*Timer.* `RunsOnce` is inductive with the types, given that insertion and deletion
at a searched position keep every other element once (lemmas on sequences).
`NeverLate` needs `Punctual`, which holds until `slow`: lists are sorted, so the head is
the next one; no timer expires after it is due (the shared time it was set from is at
most the clock); what is left after a turn is not due yet (`RunOut`); a sleeping
thread wakes for its head (`WakesInTime`); and no time passes between reading the
clock and going to sleep (`TimeTaken`). `EndlessOnlyIfMoved` is proved without any of
it: of a thread that is not `moved`, what is left is later than `current_time_ms` up
to the computation of the timeout (`RunOutUnlessMoved`), which is therefore positive.

*Conf.* `Blocks` ties the count, the depth and the current node to the blocks of the
text. The marks on the stack of variables cannot be counted by induction over the
stack; `Layers` therefore gives the position `base[i]` at which the definitions of
block i begin: they are followed by the block's mark and the next block's
definitions, up to the end of the stack. Opening, closing and defining shift the
positions (`LayersPush`, `LayersPop`, `LayersDefine`); the map from blocks to marks is
a bijection, hence `StacksAgree`, and the first position at which a name is defined is
that of its first definition in the innermost block that has one (`FirstAt`),
hence `VarsScoped`. `Contexts` is the reason why the repeated command at a closing
brace is harmless: the current context is that of the plugin whose block is open
and of the command that would be repeated.

*HttpRequest.* The parser is proved first, for itself. `Shape` says that what the
caller holds is the end of what was sent, `Progress` that the lines reported are the
first ones, none of them junk, and that the state names where in the message the
parser is; `Stage` has a form for the inside of a call (`Busy`: bytes taken plus the
cursor are the lines reported, plus CR and LF of the blank line) and one for between
two calls (`Idle`). These (`ParserInv`) hold until `together`: that a message has a line
end behind every third token and no call has two of them leaves a call with at most
one turn that reports (`AtLine`). What holds for every division is `WideInv`: the
cursor may be wrong, but `hp_parsed` still counts what was reported, in tokens. For
the verdict, `ApartInv` says that as long as no call ended right before the blank line
that line is met behind the last field of the same call, unless a callback broke off;
`BlankInv` that after such a call the parser is in front of the blank line with nothing
left to expect but a field, and then in error. `RequestSteps` carries all of it over to HttpRequest:
a step with callbacks is a step of the parser. The pool (`PoolInv`): every object is
behind the head of its block and, in the newest block, before `m_curr`; `m_curr` and
`m_curr_free` add up to the block; so a new object is behind all others. The lemmas
below it are arithmetic: rounding up, and the least multiple of the block size that
holds an object. `FieldsIn` counts, for each bucket, the accepted fields from any
one on; putting a field in front shifts all of them by one. `RequestInv` joins them
with the user data, `EndInv` and `CountInv` add the end of a header and the number of
fields. For `UrlSplit` each of the searches is located in the URL as it was put
together (`FoundAt`).

The invariants were run as invariants of the small instance before each proof.

What the proofs changed. `FieldsKept` counts fields by `Cardinality` instead of
filtering the sequence of accepted ones; the two say the same. The assumption on
HttpRequest's constants says what a URL and a field are. The type invariant of Conf claimed that a current node
always has a context, which a stray brace breaks; HttpConn counted selections
without noting that the counter had wrapped, so `Even` was not inductive (history
variable `wrapped`); two result operators of HttpConn had overlapping cases; `NothingLost`
of HttpConn counted any connection with `hc_eof` or a body as given up, where now the
state that each of the three ways leaves is spelled out and nothing owed may be
outstanding. The runs were repeated after each.

Only model-checked: all liveness (`QuitStopsMaster`, `CrashReplaced`, `QuitStops`,
`MainBecomesWorker`, `PeerCloseNoticed`, `BacklogServed`, `TimersRun`), because fairness
and ENABLED are outside the prover. Every other property of a passing run has a
theorem. The two runs that find a violation refute what they check.

## 5. Disagreements

Where the code does not do what its documentation, comments or assertions say.
The first two are runs; the others have a configuration beside them that makes TLC
show the trace (with the MC module of the part; HttpParser for `http_together` and
`http_hdr_done`). They are the reason for the corresponding constants
(`EarlyQuit`, `Racing`, `Strays`, ...), which switch the circumstances off in the
passing runs, and for the history variables (`faults`, `fault`, `stale`, `moved`,
`together`, ...) with which properties of these runs say when they hold.

| configuration | what happens | where |
|---|---|---|
| `master_second_reload` | a worker forked by the loop inherits the blocked SIGQUIT; the next reload or quit never reaches it | `base/main.c:453` |
| `http_fd_reused` | close handlers are never taken off a descriptor; the next connection with the number has its handler called for ever and its buffer freed twice | `lib/plm_comm.c:128`, `lib/plm_comm.h:77` |
| `echo_ctl_fails` | the reply's arming fails, the descriptor is closed, a handler already taken closes it again: `assert(commfd->cf_open == 1)` fails | `plugin/echo/plm_echo.c:238`, `lib/plm_comm.c:126` |
| `master_stale_hup` | `plm_sighup` survives a worker that crashed during a reload; a worker that fails to initialise is then taken for the reload's end and forked again (`FailureAlwaysStopsMaster`) | `base/main.c:187` |
| `master_early_quit` | a quit handled before the signals are blocked is recorded, then slept over | `base/main.c:447` |
| `worker_early_quit` | a quit during start-up is overwritten and the worker serves for ever | `base/plm_dispatcher.c:132`, `lib/plm_threads.c:80,99` |
| `worker_create_fails` | a thread that cannot be created leaves the main thread waiting for a count for ever | `lib/plm_threads.c:104` |
| `worker_unclean` | tables are destroyed before the threads that use them are joined | `base/plm_plugin_base.c:219-227` |
| `echo_uninit` | `assert(cf_open == 0)` reads memory that nobody cleared | `lib/plm_comm.c:56,178` |
| `echo_maxfd` | a descriptor not below `maxfd` indexes past the tables | `lib/plm_comm.c:178` |
| `lookaside_destroy` | the lock is destroyed while threads still use the list | `lib/plm_lookaside_list.c:111` |
| `timer_race` | another thread moves the shared clock between test and subtraction; the poll gets a negative timeout and has no limit (`NeverSleepsForever`; the passing run says that this is the only way) | `lib/plm_timer.c:193` |
| `timer_del` | deletion searches with an uninitialised object and may drop another timer | `lib/plm_timer.c:151` |
| `conf_parent` | the blocks inside a top-level block share one node; a second plugin block is registered under the first | `base/plm_conf.c:627-646` |
| `conf_sublist` | a sub context goes into the main list, not its parent's | `base/plm_ctx.c:87` |
| `conf_destroy` | the first node's callback frees the list that is iterated; contexts may stay unfreed | `base/plm_ctx.c:121` |
| `conf_unclosed` | a stray closing brace makes up for a missing one | `base/plm_conf.c:191` |
| `http_together` | the cursor moves by the count of the whole call; of a header in one read, lines are skipped or read behind the bytes received (`ReportedInOrder`) | `plugin/http/plm_http_parser.c:221` |
| `http_hdr_done` | CR and LF of the blank line in two calls: no `hp_on_hdr_done` | `plugin/http/plm_http_parser.c:381` |

Also seen, without a configuration of their own. Conf: a blank after a brace hides
it from the count (`base/plm_conf.c:148`; `conf_unclosed` with `Braces = {"yes", "lost"}`
and `Strays = FALSE` shows it). Parser: a blank line whose call before
ended with the last field is parsed as a field, and the good message rejected
(`Verdict` says so). Echo: `plm_echo_accept` ignores a failure to arm the listener
again, after which nobody accepts; SIGPIPE ends the worker. Master: it forks a
worker again and again when the loader aborts on a file (an abort is a signal,
not an exit). Lookaside: the three options are a union, so that without thread
safety zeroing and tags are off too (`ZeroedWhenAsked`, `plm_lookaside_list.h:72`); the
list holds one object more than its limit (`HighLevelIsMax`,
`plm_lookaside_list.c:190`). Timer: a timer is set from the time of the last turn and
may run early (`NotEarly`, `plm_timer.c:128`). Conf: the search for a level pops past
the last record (`RecordsSuffice`, `plm_ctx.c:94`); `$a=$b` looks up `a`
(`LinkTakesNamed`, `plm_conf.c:320-328`). HTTP connections: a client that has sent a
request line and then half-closes, or fills the 1K buffer with its header, is neither
answered nor waited for nor closed (`Ended`, `plm_http_request.c:422-425`: `hc_eof` is
set and nobody reads it); conn objects are never given back, connections that
have been answered with an error are never closed; `plm_comm_ignore` returns 0
for every error, so EAGAIN closes; a header whose blank line came in two reads is
answered again at every later read; the selected index is negative once the
counter has wrapped (`BackendInArray`); a failing `epoll_ctl` ends the worker. HTTP
requests: `plm_http_on_hdr_done` uses a pointer that it has not set;
`plm_casecmp` stops at the first letter that is equal, so names of one length
and one first letter are the same and `content-length` is not recognised; the test
for keep-alive of `Proxy-Connection` is inverted; a failure of `plm_hash_init` is not
noticed, and the insertion goes through a null pointer; a negative length
announces a body; a port is kept modulo 65536; `plm_http_parser_url` takes a
colon of the path for the one before the port, and loses a port without a slash
behind it. Log: `fclose` is tested the wrong way round.

## 6. Plan

1. Done: Master with Supervisor, Worker, Echo, Lookaside with Allocator, Timer, Conf,
   HttpParser, HttpUrl, Mempool, HttpRequest and HttpConn with their runs; a proof of
   every property of theirs that is not liveness.
2. Proofs: that Echo's invariant still holds after each kind of fault; which lines of a
   header in one read the parser reports.
3. Abstract specifications: a set of timers that run after they are due that Timer
   implements; a whole-message parser that HttpParser implements.
4. Composition: Worker with Lookaside, to derive `Racing` from the shutdown order
   instead of assuming it; the single-process mode.
