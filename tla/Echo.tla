-------------------------------- MODULE Echo --------------------------------
(***************************************************************************)
(* The life of a client connection in the worker's threads: the echo       *)
(* plugin (src/plugin/echo/plm_echo.c) on top of the descriptor table      *)
(* (src/lib/plm_comm.c), the handler table (src/lib/plm_event.c) and the   *)
(* one-shot epoll pollers (src/lib/plm_epoll.c).                           *)
(*                                                                         *)
(* The listener is in the process-global poller, which any thread polls;   *)
(* an accepted connection is registered in the poller of the thread that   *)
(* accepted it.  A descriptor number is free for accept() in ANY thread    *)
(* from the moment close() runs, so the table entry, the handler entry and *)
(* the client object of a closed connection meet the next connection with  *)
(* the same number.  Start-up and shutdown of the threads are module       *)
(* Worker.                                                                 *)
(***************************************************************************)
EXTENDS Naturals, FiniteSets

CONSTANTS
  Threads,      \* the dispatching threads; each has its own poller
  Fds,          \* descriptor numbers accept() can return
  MaxFd,        \* maxfd: the number of entries of the two tables
  Clients,      \* addresses of struct plm_echo_client objects
  Null,         \* the null pointer; not a client and not a thread
  EchoStr,      \* is echo_str configured (reply with it, discard the input)?
  MaxConns,     \* bound: connections clients open
  MaxSends,     \* bound: chunks of data clients send
  ZeroTable,    \* did malloc() return zeroed memory for commfd_array?
  CtlMayFail,   \* may epoll_ctl() fail?
  AllocMayFail  \* may the allocation of a client fail?

ASSUME EchoAssumption ==
  /\ Fds \subseteq Nat /\ MaxFd \in Nat
  /\ Null \notin Clients /\ Null \notin Threads
  /\ EchoStr \in BOOLEAN /\ ZeroTable \in BOOLEAN
  /\ CtlMayFail \in BOOLEAN /\ AllocMayFail \in BOOLEAN
  /\ MaxConns \in Nat /\ MaxSends \in Nat

VARIABLES
  cf_open, cf_associate, \* the descriptor table: open flag, added-to-epoll flag
  onread, onwrite,       \* the handler table: client data of each handler
  kopen,                 \* descriptors open in the kernel
  poller,                \* the thread in whose poller a descriptor is
  armed,                 \* "in", "out" or "no": the one-shot registration
  lis_armed,             \* the listener is armed in the global poller
  backlog,               \* connections waiting for accept()
  inbox, fin, rst,       \* per descriptor: unread chunks, FIN seen, RST seen
  shutwr,                \* descriptors shut down for writing
  alloc,                 \* client objects in use
  tpc, cur,              \* each thread: where it is, what it works on
  failed,                \* what ended or broke the process, or "no"
  fault,                 \* history: a call that could have worked failed, or malloc() was not zero
  nconn, nsend           \* counters against the bounds

table  == <<cf_open, cf_associate>>
hand   == <<onread, onwrite>>
epoll  == <<poller, armed, lis_armed>>
peer   == <<backlog, inbox, fin, rst, nconn, nsend>>
vars == <<table, hand, kopen, epoll, peer, shutwr, alloc, tpc, cur, failed, fault>>

(* A thread's work: descriptor, pending read and write callbacks, the      *)
(* object to free after a close, and whether it is inside the accept loop. *)
NoWork == [fd |-> 0, rd |-> Null, wr |-> Null, free |-> Null, acc |-> FALSE]

Init ==
  /\ cf_open \in IF ZeroTable THEN {[f \in Fds |-> FALSE]} ELSE [Fds -> BOOLEAN]
  /\ cf_associate \in IF ZeroTable THEN {[f \in Fds |-> FALSE]}
                                   ELSE [Fds -> BOOLEAN]
  /\ onread = [f \in Fds |-> Null] /\ onwrite = [f \in Fds |-> Null]
  /\ kopen = {} /\ poller = [f \in Fds |-> Null]
  /\ armed = [f \in Fds |-> "no"] /\ lis_armed = TRUE
  /\ backlog = 0 /\ inbox = [f \in Fds |-> 0] /\ fin = {} /\ rst = {}
  /\ shutwr = {} /\ alloc = {}
  /\ tpc = [t \in Threads |-> "poll"] /\ cur = [t \in Threads |-> NoWork]
  /\ failed = "no" /\ nconn = 0 /\ nsend = 0
  /\ fault = (\E f \in Fds : cf_open[f] \/ cf_associate[f])

At(t, pc) == failed = "no" /\ tpc[t] = pc
Goto(t, pc, work) ==
  /\ tpc' = [tpc EXCEPT ![t] = pc]
  /\ cur' = [cur EXCEPT ![t] = work]

-----------------------------------------------------------------------------
(* plm_epoll_io_ctl() on the poller of thread t: EPOLL_CTL_ADD fails when  *)
(* the descriptor is there already, EPOLL_CTL_MOD when it is not.          *)

CtlWorks(t, f) ==
  /\ f \in kopen
  /\ IF cf_associate[f] THEN poller[f] = t ELSE poller[f] # t

Ctl(t, f, dir) ==
  /\ CtlWorks(t, f)
  /\ armed' = [armed EXCEPT ![f] = dir]
  /\ poller' = [poller EXCEPT ![f] = t]
  /\ cf_associate' = [cf_associate EXCEPT ![f] = TRUE]
  /\ UNCHANGED <<cf_open, lis_armed, fault>>

(* The added flag is taken back after a failed ADD.                        *)
CtlFails(t, f) ==
  /\ CtlMayFail \/ ~CtlWorks(t, f)
  /\ fault' = (fault \/ CtlWorks(t, f))
  /\ UNCHANGED <<table, epoll>>

(* plm_event_io_read() and plm_event_io_write() store the handler first.   *)
EventRead(f, c) == onread' = [onread EXCEPT ![f] = c] /\ UNCHANGED onwrite
(* Mutant of EventWrite: the callback is stored for the wrong direction.   *)
EventWriteAsRead(f, c) == onread' = [onread EXCEPT ![f] = c] /\ UNCHANGED onwrite

EventWrite(f, c) == onwrite' = [onwrite EXCEPT ![f] = c] /\ UNCHANGED onread

-----------------------------------------------------------------------------
(* plm_echo_accept(), in the thread that polls the global poller.          *)

(* Mutant of TakeListener: the listener is registered without EPOLLONESHOT.*)
TakeListenerKeeps(t) ==
  /\ At(t, "poll") /\ lis_armed /\ backlog > 0
  /\ Goto(t, "accept", NoWork)
  /\ UNCHANGED <<table, hand, kopen, epoll, peer, shutwr, alloc, failed, fault>>

(* The listener's event is taken; it is one-shot.                          *)
TakeListener(t) ==
  /\ At(t, "poll") /\ lis_armed /\ backlog > 0
  /\ lis_armed' = FALSE
  /\ Goto(t, "accept", NoWork)
  /\ UNCHANGED <<table, hand, kopen, poller, armed, peer, shutwr, alloc, failed, fault>>

(* accept() gives the lowest free number.                                  *)
Accept(t) ==
  /\ At(t, "accept") /\ backlog > 0
  /\ \E f \in Fds \ kopen :
       /\ \A g \in Fds \ kopen : f <= g
       /\ kopen' = kopen \cup {f}
       /\ Goto(t, "setup", [NoWork EXCEPT !.fd = f, !.acc = TRUE])
  /\ backlog' = backlog - 1
  /\ UNCHANGED <<table, hand, epoll, inbox, fin, rst, nconn, nsend, shutwr,
                 alloc, failed, fault>>

(* The table index is not compared with maxfd, and the entry is asserted   *)
(* to be closed.                                                           *)
AcceptFails(t) ==
  /\ At(t, "setup")
  /\ \/ cur[t].fd >= MaxFd /\ failed' = "bound"
     \/ cur[t].fd < MaxFd /\ cf_open[cur[t].fd] /\ failed' = "accept"
  /\ UNCHANGED <<table, hand, kopen, epoll, peer, shutwr, alloc, tpc, cur, fault>>

(* The entry is marked open, a client allocated and the connection armed   *)
(* for reading.                                                            *)
AcceptSetup(t) ==
  LET f == cur[t].fd IN
  /\ At(t, "setup") /\ f < MaxFd /\ ~cf_open[f]
  /\ \E c \in Clients \ alloc :
       /\ alloc' = alloc \cup {c}
       /\ EventRead(f, c)
  /\ CtlWorks(t, f)
  /\ cf_open' = [cf_open EXCEPT ![f] = TRUE]
  /\ cf_associate' = [cf_associate EXCEPT ![f] = TRUE]
  /\ poller' = [poller EXCEPT ![f] = t]
  /\ armed' = [armed EXCEPT ![f] = "in"]
  /\ Goto(t, "accept", NoWork)
  /\ UNCHANGED <<kopen, lis_armed, peer, shutwr, failed, fault>>

(* No client, or no event: the client is freed and the connection closed.  *)
AcceptGivesUp(t) ==
  LET f == cur[t].fd IN
  /\ At(t, "setup") /\ f < MaxFd /\ ~cf_open[f]
  /\ \/ (AllocMayFail \/ alloc = Clients) /\ UNCHANGED <<hand, fault>>
     \/ /\ CtlMayFail \/ ~CtlWorks(t, f)
        /\ \E c \in Clients \ alloc : EventRead(f, c)
        /\ fault' = (fault \/ CtlWorks(t, f))
  /\ cf_open' = [cf_open EXCEPT ![f] = TRUE]
  /\ Goto(t, "close", cur[t])
  /\ UNCHANGED <<cf_associate, kopen, epoll, peer, shutwr, alloc, failed>>

(* Mutant of AcceptDone: the listener is not armed again.                  *)
AcceptDoneUnarmed(t) ==
  /\ At(t, "accept") /\ (backlog = 0 \/ Fds \subseteq kopen)
  /\ Goto(t, "poll", NoWork)
  /\ UNCHANGED <<table, hand, kopen, epoll, peer, shutwr, alloc, failed, fault>>

(* accept() fails: the backlog is empty or no number is left; the listener *)
(* is armed again, and a failure of that is not noticed.                   *)
AcceptDone(t) ==
  /\ At(t, "accept") /\ (backlog = 0 \/ Fds \subseteq kopen)
  /\ \/ lis_armed' = TRUE /\ UNCHANGED fault
     \/ CtlMayFail /\ lis_armed' = FALSE /\ fault' = TRUE
  /\ Goto(t, "poll", NoWork)
  /\ UNCHANGED <<table, hand, kopen, poller, armed, peer, shutwr, alloc, failed>>

-----------------------------------------------------------------------------
(* plm_epoll_io_poll() of the thread's own poller.                         *)

Hangup(f) == f \in rst \/ (f \in fin /\ f \in shutwr)
Readable(f) == inbox[f] > 0 \/ f \in fin \/ f \in rst

(* Mutant of TakeEvent: the callbacks stay in the handler table.           *)
TakeEventKeeps(t, f) ==
  LET in  == (armed[f] = "in" /\ Readable(f)) \/ Hangup(f)
      out == armed[f] = "out" \/ Hangup(f)
  IN
  /\ At(t, "poll") /\ f \in kopen /\ poller[f] = t /\ armed[f] # "no"
  /\ in \/ out
  /\ armed' = [armed EXCEPT ![f] = "no"]
  /\ Goto(t, "handle", [NoWork EXCEPT !.fd = f,
                                      !.rd = IF in THEN onread[f] ELSE Null,
                                      !.wr = IF out THEN onwrite[f] ELSE Null])
  /\ UNCHANGED <<table, hand, kopen, poller, lis_armed, peer, shutwr, alloc, failed, fault>>

(* One ready descriptor: its callbacks are taken out of the handler table. *)
(* Any bit but EPOLLOUT takes the read callback, any but EPOLLIN the write *)
(* callback, so a hang-up takes both.                                      *)
TakeEvent(t, f) ==
  LET in  == (armed[f] = "in" /\ Readable(f)) \/ Hangup(f)
      out == armed[f] = "out" \/ Hangup(f)
      rd  == IF in THEN onread[f] ELSE Null
      wr  == IF out THEN onwrite[f] ELSE Null
  IN
  /\ At(t, "poll") /\ f \in kopen /\ poller[f] = t /\ armed[f] # "no"
  /\ in \/ out
  /\ armed' = [armed EXCEPT ![f] = "no"]
  /\ onread' = IF in THEN [onread EXCEPT ![f] = Null] ELSE onread
  /\ onwrite' = IF out THEN [onwrite EXCEPT ![f] = Null] ELSE onwrite
  /\ Goto(t, "handle", [NoWork EXCEPT !.fd = f, !.rd = rd, !.wr = wr])
  /\ UNCHANGED <<table, kopen, poller, lis_armed, peer, shutwr, alloc, failed, fault>>

-----------------------------------------------------------------------------
(* plm_echo_read() and plm_echo_write().                                   *)

(* What read() says, and how much of the input it takes: plm_echo_eat      *)
(* reads everything, plm_echo_read_content one buffer.                     *)
ReadResult(f) ==
  IF f \notin kopen THEN "error"
  ELSE IF inbox[f] > 0 THEN "data"
  ELSE IF f \in rst THEN "error"
  ELSE IF f \in fin THEN "eof"
  ELSE "again"

ReadRest(f) == IF EchoStr \/ inbox[f] = 0 THEN 0 ELSE inbox[f] - 1

(* The callback w is over; go on with what is left of the event.           *)
Continue(t, work) ==
  Goto(t, IF work.rd = Null /\ work.wr = Null THEN "poll" ELSE "handle", work)

(* Data came: ask for writability; when that fails the connection is       *)
(* closed but the client is not freed.                                     *)
ReadData(t) ==
  LET f == cur[t].fd IN
  /\ At(t, "handle") /\ cur[t].rd # Null /\ ReadResult(f) = "data"
  /\ inbox' = [inbox EXCEPT ![f] = ReadRest(f)]
  /\ EventWrite(f, cur[t].rd)
  /\ \/ Ctl(t, f, "out") /\ Continue(t, [cur[t] EXCEPT !.rd = Null])
     \/ CtlFails(t, f) /\ Goto(t, "close", [cur[t] EXCEPT !.rd = Null])
  /\ UNCHANGED <<kopen, backlog, fin, rst, nconn, nsend, shutwr, alloc, failed>>

(* Mutant of ReadAgain: EAGAIN is ignored.                                 *)
ReadAgainIgnored(t) ==
  LET f == cur[t].fd IN
  /\ At(t, "handle") /\ cur[t].rd # Null /\ ReadResult(f) = "again"
  /\ Continue(t, [cur[t] EXCEPT !.rd = Null])
  /\ UNCHANGED <<table, hand, kopen, epoll, peer, shutwr, alloc, failed, fault>>

(* Nothing there: arm again; the result is not looked at.                  *)
ReadAgain(t) ==
  LET f == cur[t].fd IN
  /\ At(t, "handle") /\ cur[t].rd # Null /\ ReadResult(f) = "again"
  /\ EventRead(f, cur[t].rd)
  /\ Ctl(t, f, "in") \/ CtlFails(t, f)
  /\ Continue(t, [cur[t] EXCEPT !.rd = Null])
  /\ UNCHANGED <<kopen, peer, shutwr, alloc, failed>>

(* End of file or an error: close, then free the client.                   *)
ReadEnd(t) ==
  /\ At(t, "handle") /\ cur[t].rd # Null
  /\ ReadResult(cur[t].fd) \in {"eof", "error"}
  /\ Goto(t, "close", [cur[t] EXCEPT !.rd = Null, !.free = cur[t].rd])
  /\ UNCHANGED <<table, hand, kopen, epoll, peer, shutwr, alloc, failed, fault>>

(* Everything was written, from the client's own buffer: read again.       *)
WriteThenRead(t) ==
  LET f == cur[t].fd IN
  /\ At(t, "handle") /\ cur[t].rd = Null /\ cur[t].wr # Null
  /\ f \in kopen /\ f \notin rst /\ f \notin shutwr /\ ~EchoStr
  /\ Goto(t, "handle", [cur[t] EXCEPT !.rd = cur[t].wr, !.wr = Null])
  /\ UNCHANGED <<table, hand, kopen, epoll, peer, shutwr, alloc, failed, fault>>

(* A write to a connection that is shut down for writing, or that the peer *)
(* has closed and then reset, raises SIGPIPE; one that was only reset is an*)
(* error.                                                                  *)
RaisesSignal(f) == f \in kopen /\ (f \in shutwr \ rst \/ f \in rst \cap fin)

(* Nobody has asked for SIGPIPE to be ignored: the process dies of it.     *)
WriteKills(t) ==
  /\ At(t, "handle") /\ cur[t].rd = Null /\ cur[t].wr # Null
  /\ RaisesSignal(cur[t].fd)
  /\ failed' = "sigpipe"
  /\ UNCHANGED <<table, hand, kopen, epoll, peer, shutwr, alloc, tpc, cur, fault>>

(* Mutant of WriteThenWait: after the reply nothing is armed.              *)
WriteThenIdle(t) ==
  LET f == cur[t].fd IN
  /\ At(t, "handle") /\ cur[t].rd = Null /\ cur[t].wr # Null
  /\ \/ /\ f \in kopen /\ f \notin rst /\ f \notin shutwr /\ EchoStr
        /\ UNCHANGED shutwr
     \/ ~RaisesSignal(f) /\ shutwr' = shutwr \cup ({f} \cap kopen)
  /\ EventRead(f, cur[t].wr)
  /\ Goto(t, "poll", NoWork)
  /\ UNCHANGED <<table, kopen, epoll, peer, alloc, failed, fault>>

(* Everything was written from echo_str, or the write failed half-way and  *)
(* the connection is shut down: wait for input.  When that cannot be       *)
(* asked for, the connection is closed and the client not freed.           *)
WriteThenWait(t) ==
  LET f == cur[t].fd IN
  /\ At(t, "handle") /\ cur[t].rd = Null /\ cur[t].wr # Null
  /\ \/ /\ f \in kopen /\ f \notin rst /\ f \notin shutwr /\ EchoStr
        /\ UNCHANGED shutwr
     \/ ~RaisesSignal(f) /\ shutwr' = shutwr \cup ({f} \cap kopen)
  /\ EventRead(f, cur[t].wr)
  /\ \/ Ctl(t, f, "in") /\ Goto(t, "poll", NoWork)
     \/ CtlFails(t, f) /\ Goto(t, "close", [cur[t] EXCEPT !.wr = Null])
  /\ UNCHANGED <<kopen, peer, alloc, failed>>

-----------------------------------------------------------------------------
(* plm_comm_close(), then plm_echo_free_client() where the caller does so. *)

CloseAsserts(t) ==
  /\ At(t, "close") /\ ~cf_open[cur[t].fd]
  /\ failed' = "close"
  /\ UNCHANGED <<table, hand, kopen, epoll, peer, shutwr, alloc, tpc, cur, fault>>

(* Mutant of CloseEntry: cf_open is not cleared.                           *)
CloseEntryStaysOpen(t) ==
  LET f == cur[t].fd IN
  /\ At(t, "close") /\ cf_open[f]
  /\ cf_associate' = [cf_associate EXCEPT ![f] = FALSE]
  /\ Goto(t, "kclose", cur[t])
  /\ UNCHANGED <<cf_open, hand, kopen, epoll, peer, shutwr, alloc, failed, fault>>

(* The entry is closed BEFORE the number is given back to the kernel.      *)
CloseEntry(t) ==
  LET f == cur[t].fd IN
  /\ At(t, "close") /\ cf_open[f]
  /\ cf_open' = [cf_open EXCEPT ![f] = FALSE]
  /\ cf_associate' = [cf_associate EXCEPT ![f] = FALSE]
  /\ Goto(t, "kclose", cur[t])
  /\ UNCHANGED <<hand, kopen, epoll, peer, shutwr, alloc, failed, fault>>

(* close(): the kernel forgets the connection and its registration.        *)
KernelClose(t) ==
  LET f == cur[t].fd IN
  /\ At(t, "kclose")
  /\ kopen' = kopen \ {f} /\ fin' = fin \ {f} /\ rst' = rst \ {f}
  /\ shutwr' = shutwr \ {f} /\ inbox' = [inbox EXCEPT ![f] = 0]
  /\ poller' = [poller EXCEPT ![f] = Null]
  /\ armed' = [armed EXCEPT ![f] = "no"]
  /\ Goto(t, "free", cur[t])
  /\ UNCHANGED <<table, hand, lis_armed, backlog, nconn, nsend, alloc, failed, fault>>

FreeClient(t) ==
  /\ At(t, "free")
  /\ alloc' = alloc \ {cur[t].free}
  /\ IF cur[t].acc THEN Goto(t, "accept", NoWork)
                   ELSE Continue(t, [cur[t] EXCEPT !.free = Null])
  /\ UNCHANGED <<table, hand, kopen, epoll, peer, shutwr, failed, fault>>

-----------------------------------------------------------------------------
(* The clients on the network.                                             *)

Connect ==
  /\ nconn < MaxConns /\ failed = "no"
  /\ nconn' = nconn + 1 /\ backlog' = backlog + 1
  /\ UNCHANGED <<table, hand, kopen, epoll, inbox, fin, rst, nsend, shutwr,
                 alloc, tpc, cur, failed, fault>>

Send(f) ==
  /\ f \in kopen /\ f \notin fin /\ f \notin rst /\ nsend < MaxSends
  /\ failed = "no"
  /\ nsend' = nsend + 1 /\ inbox' = [inbox EXCEPT ![f] = @ + 1]
  /\ UNCHANGED <<table, hand, kopen, epoll, backlog, fin, rst, nconn, shutwr,
                 alloc, tpc, cur, failed, fault>>

PeerCloses(f) ==
  /\ f \in kopen /\ f \notin fin \cup rst /\ failed = "no"
  /\ fin' = fin \cup {f}
  /\ UNCHANGED <<table, hand, kopen, epoll, backlog, inbox, rst, nconn, nsend,
                 shutwr, alloc, tpc, cur, failed, fault>>

PeerResets(f) ==
  /\ f \in kopen /\ f \notin rst /\ failed = "no"
  /\ rst' = rst \cup {f} /\ inbox' = [inbox EXCEPT ![f] = 0]
  /\ UNCHANGED <<table, hand, kopen, epoll, backlog, fin, nconn, nsend, shutwr,
                 alloc, tpc, cur, failed, fault>>

ThreadStep(t) ==
  \/ TakeListener(t) \/ Accept(t) \/ AcceptFails(t) \/ AcceptSetup(t)
  \/ AcceptGivesUp(t) \/ AcceptDone(t) \/ (\E f \in Fds : TakeEvent(t, f))
  \/ ReadData(t) \/ ReadAgain(t) \/ ReadEnd(t) \/ WriteThenRead(t)
  \/ WriteThenWait(t) \/ WriteKills(t) \/ CloseAsserts(t) \/ CloseEntry(t)
  \/ KernelClose(t) \/ FreeClient(t)

Peers == Connect \/ \E f \in Fds : Send(f) \/ PeerCloses(f) \/ PeerResets(f)

Next == Peers \/ \E t \in Threads : ThreadStep(t)

Spec == Init /\ [][Next]_vars
(* The scheduler runs every thread.  A turn of the dispatcher polls the    *)
(* global poller (some thread gets the lock) and then the thread's own,    *)
(* whose ready list is first-in first-out, so neither the listener nor a   *)
(* ready connection is passed over for ever.  The network owes nothing.    *)
FairSpec ==
  /\ Spec
  /\ \A t \in Threads : WF_vars(ThreadStep(t))
  /\ \A t \in Threads, f \in Fds : SF_vars(TakeEvent(t, f))
  /\ SF_vars(\E t \in Threads : TakeListener(t))

-----------------------------------------------------------------------------
(* Properties.                                                             *)

Pcs == {"poll", "accept", "setup", "handle", "close", "kclose", "free"}
Works == [fd : Fds \cup {0}, rd : Clients \cup {Null}, wr : Clients \cup {Null},
          free : Clients \cup {Null}, acc : BOOLEAN]

(* The tables, the pollers and the threads' work hold what the code's      *)
(* structures can hold, also after an assertion has failed.                *)
TypeOK ==
  /\ cf_open \in [Fds -> BOOLEAN] /\ cf_associate \in [Fds -> BOOLEAN]
  /\ onread \in [Fds -> Clients \cup {Null}]
  /\ onwrite \in [Fds -> Clients \cup {Null}]
  /\ kopen \subseteq Fds /\ poller \in [Fds -> Threads \cup {Null}]
  /\ armed \in [Fds -> {"in", "out", "no"}] /\ lis_armed \in BOOLEAN
  /\ backlog \in Nat /\ inbox \in [Fds -> Nat]
  /\ fin \subseteq kopen /\ rst \subseteq kopen /\ shutwr \subseteq kopen
  /\ alloc \subseteq Clients
  /\ tpc \in [Threads -> Pcs]
  /\ cur \in [Threads -> Works]
  /\ failed \in {"no", "accept", "close", "bound", "sigpipe"}
  /\ fault \in BOOLEAN /\ nconn \in Nat /\ nsend \in Nat

(* The clients thread t holds a pointer to that it will still use.         *)
Uses(t) == {cur[t].rd, cur[t].wr, cur[t].free} \ {Null}

(* plm_echo_accept() never runs in two threads, whatever fails: the        *)
(* listener's registration is one-shot and is renewed by the last step of  *)
(* the handler only.                                                       *)
Accepting(t) == tpc[t] \in {"accept", "setup"} \/ cur[t].acc
OneAcceptor ==
  \A t, u \in Threads : Accepting(t) => ~lis_armed /\ (Accepting(u) => t = u)

(* While epoll_ctl() has not failed, over a table that was zero at first,  *)
(* no assertion of plm_comm.c fails: an accepted number always finds its   *)
(* entry closed, whichever thread closed it last, and a descriptor is      *)
(* closed once.                                                            *)
AssertionsHold == failed \in {"accept", "close"} => fault

(* What the assertions themselves say (plm_comm.c:126, 178), whatever      *)
(* fails.                                                                  *)
AssertionsNeverFail == failed \notin {"accept", "close"}

(* Every descriptor number is inside the table of maxfd entries.           *)
FdsInTable == failed # "bound"

(* Until a fault, a callback runs, or will run, with a client that has not *)
(* been freed and that no other thread is working on.                      *)
ClientsExclusive ==
  ~fault => \A t \in Threads :
    /\ Uses(t) \subseteq alloc
    /\ \A u \in Threads \ {t} : Uses(t) \cap Uses(u) = {}

(* Until a fault, an armed connection has its callback: the client of the  *)
(* handler that will be called is allocated, belongs to no other           *)
(* connection, and no thread holds it at the same time.                    *)
ArmedIsServed ==
  ~fault => \A f \in Fds : armed[f] # "no" =>
    LET c == IF armed[f] = "in" THEN onread[f] ELSE onwrite[f] IN
    /\ c \in alloc
    /\ \A t \in Threads : c \notin Uses(t)
    /\ \A g \in Fds \ {f} : armed[g] # "no" => c \notin {onread[g], onwrite[g]}

(* Until a fault nothing gets stuck or leaks: an open connection is armed  *)
(* or in the hands of a thread, and so is every client object.             *)
Held(f) == \E t \in Threads : tpc[t] # "poll" /\ cur[t].fd = f
NothingLost ==
  ~fault =>
    /\ \A f \in kopen : armed[f] # "no" \/ Held(f)
    /\ \A c \in alloc :
         \/ \E t \in Threads : c \in Uses(t)
         \/ \E f \in kopen : armed[f] # "no" /\ c \in {onread[f], onwrite[f]}

(* A connection whose peer has closed is closed by the server, however its *)
(* handlers arm it again (plm_echo_read, plm_echo_write), unless a write   *)
(* has killed the worker, and the connections with it.                     *)
PeerCloseNoticed == \A f \in Fds : (f \in fin) ~> (f \notin kopen \/ failed = "sigpipe")

(* A connection in the backlog is accepted while a number is free and the  *)
(* worker lives: the one-shot listener is always armed again               *)
(* (plm_echo_accept).                                                      *)
BacklogServed ==
  (backlog > 0) ~> (backlog = 0 \/ Fds \subseteq kopen \/ failed = "sigpipe")
=============================================================================
