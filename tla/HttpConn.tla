------------------------------ MODULE HttpConn ------------------------------
(***************************************************************************)
(* The life of a connection of the http plugin                             *)
(* (src/plugin/http/plm_http_request.c): accepted, read and parsed, a      *)
(* backend selected (plm_http_backend.c), answered (plm_http_event_io.c),  *)
(* closed through the close handlers of the descriptor (plm_comm.c).  The  *)
(* parser is seen from its caller: a read may bring any bytes, and a Parse *)
(* action is one thing the parser can make of them, its callbacks with it; *)
(* its inside is module HttpParser, that of the callbacks HttpRequest.  As *)
(* in module Echo the listener is in the process-global poller, a          *)
(* connection in the poller of the thread that accepted it, and a number   *)
(* is free for any thread once it is closed.                               *)
(***************************************************************************)
EXTENDS Integers, Sequences, FiniteSets

CONSTANTS
  Threads,      \* the dispatching threads
  Fds,          \* descriptor numbers accept() can return
  Conns,        \* addresses of struct plm_http_conn objects
  Bufs,         \* addresses of 1K buffers
  Null,         \* the null pointer; no thread
  Backends,     \* the number of configured backends
  CurrMax,      \* the largest int: the selection counter wraps after it
  AllocMayFail, \* may an allocation fail?
  CtlMayFail,   \* may epoll_ctl() fail?
  MaxConns,     \* bound: connections clients open
  MaxSends,     \* bound: chunks clients send
  MaxResets     \* bound: connections that are reset at a time

ASSUME HttpConnAssumption ==
  /\ Fds \subseteq Nat /\ Null \notin Conns \cup Bufs \cup Threads
  /\ Backends \in Nat \ {0} /\ CurrMax \in Nat
  /\ AllocMayFail \in BOOLEAN /\ CtlMayFail \in BOOLEAN
  /\ MaxConns \in Nat /\ MaxSends \in Nat /\ MaxResets \in Nat

VARIABLES
  cf_open, cf_associate, \* the descriptor table: open, added to epoll
  cf_handler,    \* its close handlers: the conn of each, the head first
  onread,        \* the handler table: the conn plm_http_read_req is given
  kopen,         \* descriptors open in the kernel
  poller,        \* the thread in whose poller a descriptor is
  armed,         \* descriptors whose one-shot registration is pending
  lis_armed,     \* the listener is armed in the global poller
  http_server,   \* the listener is open
  backlog, inbox, fin, rst, \* the peers: waiting, unread chunks, FIN, RST
  shutrd,        \* descriptors shut down for reading
  conn,          \* the conn objects
  conns,         \* those taken from hc_conn_pool
  bufs,          \* buffers taken from the buffer pool
  curr,          \* the selection counter
  tpc, cur,      \* each thread: where it is, what it works on
  failed,        \* why the process is gone or its memory broken, or "no"
  stale,         \* history: a number was accepted that had close handlers
  raced,         \* history: two threads were inside a selection
  wrapped,       \* history: the selection counter has wrapped
  picked,        \* history: how often each backend was selected
  replies, due,  \* history: replies to a conn, and headers that ask for one
  nconn, nsend   \* counters against the bounds

table == <<cf_open, cf_handler>>
epoll == <<onread, poller, armed, cf_associate>>
lis   == <<lis_armed, http_server>>
peer  == <<backlog, inbox, fin, rst, nconn, nsend>>
mem   == <<conns, bufs>>
back  == <<curr, raced, wrapped, picked>>
hist  == <<replies, due>>
vars  == <<table, epoll, lis, kopen, peer, shutrd, conn, mem, back, tpc, cur,
           failed, stale, hist>>

NoWork == [fd |-> 0, conn |-> Null, acc |-> FALSE, m |-> 0]

(* memset() of a new conn, and plm_http_parser_init().  "left" is what     *)
(* hc_offset says is in the buffer: nothing, the beginning of a line, or   *)
(* all that the buffer can hold; "dropped" is history: a part of a body    *)
(* was read and not used.                                                  *)
NewConn(b) == [buf |-> b, reqs |-> 0, hp_state |-> "NONE", hp_data |-> "conn",
               body |-> FALSE, hc_eof |-> FALSE, bad |-> FALSE, left |-> "none",
               dropped |-> FALSE]

(* plm_http_open_server() has succeeded.                                   *)
Init ==
  /\ cf_open = [f \in Fds |-> FALSE] /\ cf_associate = [f \in Fds |-> FALSE]
  /\ cf_handler = [f \in Fds |-> <<>>] /\ onread = [f \in Fds |-> Null]
  /\ kopen = {} /\ poller = [f \in Fds |-> Null] /\ armed = {}
  /\ lis_armed = TRUE /\ http_server = TRUE
  /\ backlog = 0 /\ inbox = [f \in Fds |-> 0] /\ fin = {} /\ rst = {}
  /\ shutrd = {} /\ conn = [c \in Conns |-> NewConn(Null)]
  /\ conns = {} /\ bufs = {} /\ curr = 0
  /\ tpc = [t \in Threads |-> "poll"] /\ cur = [t \in Threads |-> NoWork]
  /\ failed = "no" /\ stale = FALSE /\ raced = FALSE /\ wrapped = FALSE
  /\ picked = [b \in 0 .. Backends - 1 |-> 0]
  /\ replies = [c \in Conns |-> 0] /\ due = [c \in Conns |-> 0]
  /\ nconn = 0 /\ nsend = 0

At(t, pc) == failed = "no" /\ tpc[t] = pc
Goto(t, pc, work) ==
  /\ tpc' = [tpc EXCEPT ![t] = pc]
  /\ cur' = [cur EXCEPT ![t] = work]

(* plm_epoll_io_ctl() on the poller of thread t: EPOLL_CTL_ADD or _MOD.    *)
CtlWorks(t, f) ==
  /\ f \in kopen
  /\ IF cf_associate[f] THEN poller[f] = t ELSE poller[f] # t

(* PLM_EVT_DRV_READ: plm_event_io_read(); when that fails the process      *)
(* exits.                                                                  *)
Arm(t, f, c) ==
  /\ onread' = [onread EXCEPT ![f] = c]
  /\ \/ /\ CtlWorks(t, f)
        /\ armed' = armed \cup {f} /\ poller' = [poller EXCEPT ![f] = t]
        /\ cf_associate' = [cf_associate EXCEPT ![f] = TRUE]
        /\ UNCHANGED failed
     \/ /\ CtlMayFail \/ ~CtlWorks(t, f)
        /\ failed' = "exit" /\ UNCHANGED <<armed, poller, cf_associate>>

-----------------------------------------------------------------------------
(* plm_http_accept(), in the thread that polls the global poller.          *)

TakeListener(t) ==
  /\ At(t, "poll") /\ lis_armed /\ backlog > 0
  /\ lis_armed' = FALSE
  /\ Goto(t, "accept", NoWork)
  /\ UNCHANGED <<table, epoll, http_server, kopen, peer, shutrd, conn, mem,
                 back, failed, stale, hist>>

(* plm_comm_accept(): accept() gives the lowest free number, the table     *)
(* entry is asserted to be closed, and opened.  Its close handlers stay as *)
(* the last connection with this number has left them.                     *)
Accept(t) ==
  /\ At(t, "accept") /\ backlog > 0
  /\ \E f \in Fds \ kopen :
       /\ \A g \in Fds \ kopen : f <= g
       /\ kopen' = kopen \cup {f}
       /\ failed' = IF cf_open[f] THEN "assert" ELSE failed
       /\ cf_open' = [cf_open EXCEPT ![f] = TRUE]
       /\ stale' = (stale \/ (~cf_open[f] /\ cf_handler[f] # <<>>))
       /\ Goto(t, "conn", [NoWork EXCEPT !.fd = f, !.acc = TRUE])
  /\ backlog' = backlog - 1
  /\ UNCHANGED <<cf_handler, epoll, lis, inbox, fin, rst, nconn, nsend, shutrd,
                 conn, mem, back, hist>>

(* Mutant of AcceptConn: the close handler is not registered.              *)
AcceptConnNoHandler(t) ==
  LET f == cur[t].fd IN
  /\ At(t, "conn")
  /\ \E c \in Conns \ conns, b \in Bufs \ bufs :
       /\ conns' = conns \cup {c} /\ bufs' = bufs \cup {b}
       /\ conn' = [conn EXCEPT ![c] = NewConn(b)]
       /\ Arm(t, f, c)
  /\ Goto(t, "accept", NoWork)
  /\ UNCHANGED <<table, lis, kopen, peer, shutrd, back, stale, hist>>

(* plm_http_conn_alloc(), plm_comm_add_close_handler() in front of the     *)
(* others, and the first registration.                                     *)
AcceptConn(t) ==
  LET f == cur[t].fd IN
  /\ At(t, "conn")
  /\ \E c \in Conns \ conns, b \in Bufs \ bufs :
       /\ conns' = conns \cup {c} /\ bufs' = bufs \cup {b}
       /\ conn' = [conn EXCEPT ![c] = NewConn(b)]
       /\ cf_handler' = [cf_handler EXCEPT ![f] = <<c>> \o @]
       /\ Arm(t, f, c)
  /\ Goto(t, "accept", NoWork)
  /\ UNCHANGED <<cf_open, lis, kopen, peer, shutrd, back, stale, hist>>

(* No conn, or no buffer and the conn given back: close, leave the loop.   *)
AcceptGivesUp(t) ==
  /\ At(t, "conn")
  /\ AllocMayFail \/ conns = Conns \/ bufs = Bufs
  /\ Goto(t, "close", cur[t])
  /\ UNCHANGED <<table, epoll, lis, kopen, peer, shutrd, conn, mem, back,
                 failed, stale, hist>>

(* accept() fails: nobody waits, no number is left, or the listener was    *)
(* closed.                                                                 *)
AcceptEnds(t) ==
  /\ At(t, "accept") /\ (backlog = 0 \/ Fds \subseteq kopen)
  /\ Goto(t, "relisten", NoWork)
  /\ UNCHANGED <<table, epoll, lis, kopen, peer, shutrd, conn, mem, back,
                 failed, stale, hist>>

(* Mutant of Relisten: a failure is not noticed, as in plm_echo_accept().  *)
RelistenUnnoticed(t) ==
  /\ At(t, "relisten")
  /\ \/ http_server /\ lis_armed' = TRUE
     \/ (CtlMayFail \/ ~http_server) /\ UNCHANGED lis_armed
  /\ Goto(t, "poll", NoWork)
  /\ UNCHANGED <<table, epoll, http_server, kopen, peer, shutrd, conn, mem,
                 back, failed, stale, hist>>

(* The listener is armed again, or the process exits.                      *)
Relisten(t) ==
  /\ At(t, "relisten")
  /\ \/ http_server /\ lis_armed' = TRUE /\ UNCHANGED failed
     \/ (CtlMayFail \/ ~http_server) /\ failed' = "exit" /\ UNCHANGED lis_armed
  /\ Goto(t, "poll", NoWork)
  /\ UNCHANGED <<table, epoll, http_server, kopen, peer, shutrd, conn, mem,
                 back, stale, hist>>

-----------------------------------------------------------------------------
(* plm_http_read_req(): the event, and what read() says.                   *)

Readable(f) == inbox[f] > 0 \/ f \in fin \cup rst \cup shutrd

(* The one-shot registration is used up, the callback taken.               *)
TakeEvent(t, f) ==
  /\ At(t, "poll") /\ f \in kopen \cap armed /\ poller[f] = t /\ Readable(f)
  /\ armed' = armed \ {f} /\ onread' = [onread EXCEPT ![f] = Null]
  /\ Goto(t, "read", [NoWork EXCEPT !.fd = f, !.conn = onread[f]])
  /\ UNCHANGED <<table, poller, cf_associate, lis, kopen, peer, shutrd, conn,
                 mem, back, failed, stale, hist>>

Set(c, new) == conn' = [conn EXCEPT ![c] = new]

(* A read() into a full buffer asks for no byte and gets none.             *)
ReadResult(f, c) ==
  IF f \notin kopen THEN "error"
  ELSE IF conn[c].left = "full" THEN "eof"
  ELSE IF inbox[f] > 0 THEN "data"
  ELSE IF f \in rst \/ f \notin fin \cup shutrd THEN "error"
  ELSE "eof"

(* Any error closes, EAGAIN too: plm_comm_ignore() always returns 0.  So   *)
(* does the end of the input of a client that has asked for nothing.       *)
ReadCloses(t) ==
  LET f == cur[t].fd  c == cur[t].conn IN
  /\ At(t, "read")
  /\ \/ ReadResult(f, c) = "error"
     \/ ReadResult(f, c) = "eof" /\ conn[c].reqs = 0
  /\ Goto(t, "close", cur[t])
  /\ UNCHANGED <<table, epoll, lis, kopen, peer, shutrd, conn, mem, back,
                 failed, stale, hist>>

(* Otherwise the end is noted; nobody looks at the connection any more.    *)
ReadEof(t) ==
  LET f == cur[t].fd  c == cur[t].conn IN
  /\ At(t, "read") /\ ReadResult(f, c) = "eof" /\ conn[c].reqs > 0
  /\ Set(c, [conn[c] EXCEPT !.hc_eof = TRUE])
  /\ Goto(t, "poll", NoWork)
  /\ UNCHANGED <<table, epoll, lis, kopen, peer, shutrd, mem, back, failed,
                 stale, hist>>

(* Data comes: a chunk is taken out of the socket.                         *)
ReadChunk(t) ==
  /\ At(t, "read") /\ ReadResult(cur[t].fd, cur[t].conn) = "data"
  /\ inbox' = [inbox EXCEPT ![cur[t].fd] = @ - 1]
  /\ UNCHANGED <<table, lis, kopen, backlog, fin, rst, nconn, nsend, mem, back,
                 stale, replies>>

(* With a body expected plm_http_body_process() does nothing with it, and  *)
(* nothing is armed.                                                       *)
ReadBody(t) ==
  /\ ReadChunk(t) /\ conn[cur[t].conn].body
  /\ Set(cur[t].conn, [conn[cur[t].conn] EXCEPT !.dropped = TRUE])
  /\ Goto(t, "poll", NoWork)
  /\ UNCHANGED <<epoll, shutrd, failed, due>>

(* What stays in the buffer when nothing of it is parsed.  hc_offset is    *)
(* then the n of this read alone: what was left by an earlier one is       *)
(* forgotten, and was in front of the new bytes, in the place of which the *)
(* parser is given the first n of the buffer.                              *)
Unparsed(c) == IF conn[c].left = "none" THEN {"part", "full"} ELSE {"part"}

Again(t) == Arm(t, cur[t].fd, cur[t].conn) /\ Goto(t, "poll", NoWork)
Parsing(t) == ReadChunk(t) /\ ~conn[cur[t].conn].body

(* The request line, and the fields behind it in the same read, with the   *)
(* CR of the blank line or not: plm_http_on_reqline() makes the request    *)
(* the user data of the parser, or fails and leaves the conn there.  Both  *)
(* go on reading.                                                          *)
ParseLine(t) ==
  LET c == cur[t].conn  old == [conn[c] EXCEPT !.left = "none"] IN
  /\ Parsing(t) /\ old.hp_state = "NONE"
  /\ \/ \E st \in {"RL_DONE", "HDR_CR"} :
          Set(c, [old EXCEPT !.hp_state = st, !.hp_data = "req", !.reqs = @ + 1])
     \/ AllocMayFail /\ Set(c, [old EXCEPT !.hp_state = "RL_DONE"])
  /\ Again(t)
  /\ UNCHANGED <<shutrd, due>>

(* A field, or one that plm_http_on_field() cannot store; with the CR of   *)
(* the blank line behind it or not.                                        *)
ParseField(t) ==
  LET c == cur[t].conn  old == [conn[c] EXCEPT !.left = "none"] IN
  /\ Parsing(t) /\ old.hp_state = "RL_DONE" /\ old.hp_data = "req"
  /\ \/ Set(c, old)
     \/ Set(c, [old EXCEPT !.hp_state = "HDR_CR"])
     \/ AllocMayFail /\ Set(c, [old EXCEPT !.left = "part"])
  /\ Again(t)
  /\ UNCHANGED <<shutrd, due>>

(* plm_http_on_field() takes a conn for a request; or                      *)
(* plm_http_on_hdr_done() uses a pointer that it has not set.              *)
ParseWild(t) ==
  /\ Parsing(t) /\ conn[cur[t].conn].hp_state \in {"NONE", "RL_DONE"}
  /\ failed' = "wild"
  /\ UNCHANGED <<epoll, shutrd, conn, tpc, cur, due>>

(* The blank line, and all that is in front of it in the same read.  The   *)
(* pointer happens to be the request: the header is done, the parser ready *)
(* for the next one, a body expected after a content length.               *)
ParseHeader(t) ==
  LET c == cur[t].conn  new == IF conn[c].hp_state = "NONE" THEN 1 ELSE 0 IN
  /\ Parsing(t)
  /\ conn[c].hp_state = "NONE" \/ (conn[c].hp_state = "RL_DONE" /\ conn[c].hp_data = "req")
  /\ \E len \in BOOLEAN :
       Set(c, [conn[c] EXCEPT !.left = "none", !.hp_state = "NONE", !.hp_data = "conn",
                              !.reqs = @ + new, !.body = len])
  /\ due' = [due EXCEPT ![c] = @ + 1]
  /\ Goto(t, "select", cur[t])
  /\ UNCHANGED <<epoll, shutrd, failed>>

(* The LF of the blank line in a call of its own: done without the         *)
(* callback.                                                               *)
ParseLf(t) ==
  LET c == cur[t].conn IN
  /\ Parsing(t) /\ conn[c].hp_state = "HDR_CR"
  /\ Set(c, [conn[c] EXCEPT !.left = "none", !.hp_state = "HDR_DONE"])
  /\ due' = [due EXCEPT ![c] = @ + 1]
  /\ Goto(t, "select", cur[t])
  /\ UNCHANGED <<epoll, shutrd, failed>>

(* From then on the parser is done with whatever it is given, and has      *)
(* parsed none of it.                                                      *)
ParseDone(t) ==
  LET c == cur[t].conn IN
  /\ Parsing(t) /\ conn[c].hp_state = "HDR_DONE"
  /\ \E k \in Unparsed(c) : Set(c, [conn[c] EXCEPT !.left = k])
  /\ Goto(t, "select", cur[t])
  /\ UNCHANGED <<epoll, shutrd, failed, due>>

(* Mutant of ParsePart: what the parser says is not looked at, the request *)
(* processed at every read.                                                *)
ParsePartProcessed(t) ==
  LET c == cur[t].conn IN
  /\ Parsing(t) /\ conn[c].hp_state \in {"NONE", "RL_DONE"}
  /\ \E k \in Unparsed(c) : Set(c, [conn[c] EXCEPT !.left = k])
  /\ Goto(t, "select", cur[t])
  /\ UNCHANGED <<epoll, shutrd, failed, due>>

(* Mutant of ParsePart: nothing is armed, as after the body.               *)
ParsePartForgets(t) ==
  LET c == cur[t].conn IN
  /\ Parsing(t) /\ conn[c].hp_state \in {"NONE", "RL_DONE"}
  /\ \E k \in Unparsed(c) : Set(c, [conn[c] EXCEPT !.left = k])
  /\ Goto(t, "poll", NoWork)
  /\ UNCHANGED <<epoll, shutrd, failed, due>>

(* No line end: wait for more.                                             *)
ParsePart(t) ==
  LET c == cur[t].conn IN
  /\ Parsing(t) /\ conn[c].hp_state \in {"NONE", "RL_DONE"}
  /\ \E k \in Unparsed(c) : Set(c, [conn[c] EXCEPT !.left = k])
  /\ Again(t)
  /\ UNCHANGED <<shutrd, due>>

(* A bad request: reading is shut down, a reply written, nothing armed.    *)
ParseBad(t) ==
  LET c == cur[t].conn  f == cur[t].fd IN
  /\ Parsing(t) /\ conn[c].hp_state # "HDR_DONE"
  /\ shutrd' = shutrd \cup {f}
  /\ Set(c, [conn[c] EXCEPT !.bad = TRUE])
  /\ due' = [due EXCEPT ![c] = @ + 1]
  /\ Goto(t, "replybad", cur[t])
  /\ UNCHANGED <<epoll, failed>>

-----------------------------------------------------------------------------
(* plm_http_req_process(): plm_http_backend_select() is a read and an      *)
(* increment, each atomic; it returns 0, so nothing is forwarded, reading  *)
(* is shut down and an error replied.                                      *)

(* The remainder has the sign of the counter in C.                         *)
Remainder(n) == IF n >= 0 THEN n % Backends ELSE -((-n) % Backends)

SelectGet(t) ==
  /\ At(t, "select")
  /\ raced' = (raced \/ \E u \in Threads \ {t} : tpc[u] = "inc")
  /\ Goto(t, "inc", [cur[t] EXCEPT !.m = Remainder(curr)])
  /\ UNCHANGED <<table, epoll, lis, kopen, peer, shutrd, conn, mem, curr,
                 wrapped, picked, failed, stale, hist>>

(* Mutant of SelectInc: the counter stays.                                 *)
SelectIncNot(t) ==
  LET m == cur[t].m IN
  /\ At(t, "inc")
  /\ picked' = IF m \in DOMAIN picked THEN [picked EXCEPT ![m] = @ + 1] ELSE picked
  /\ shutrd' = shutrd \cup ({cur[t].fd} \cap kopen)
  /\ Goto(t, "reply", cur[t])
  /\ UNCHANGED <<table, epoll, lis, kopen, peer, conn, mem, raced, failed,
                 stale, hist, curr, wrapped>>

SelectInc(t) ==
  LET m == cur[t].m IN
  /\ At(t, "inc")
  /\ curr' = IF curr = CurrMax THEN -CurrMax - 1 ELSE curr + 1
  /\ wrapped' = (wrapped \/ curr = CurrMax)
  /\ picked' = IF m \in DOMAIN picked THEN [picked EXCEPT ![m] = @ + 1] ELSE picked
  /\ shutrd' = shutrd \cup ({cur[t].fd} \cap kopen)
  /\ Goto(t, "reply", cur[t])
  /\ UNCHANGED <<table, epoll, lis, kopen, peer, conn, mem, raced, failed,
                 stale, hist>>

(* plm_http_schedule_reply() and plm_http_event_write(): one byte, written *)
(* at once.  After an error plm_http_schedule_reply_done() does nothing    *)
(* either; a client that has closed and reset gives the process SIGPIPE,   *)
(* which it does not ignore.                                               *)
Reply(t) ==
  LET f == cur[t].fd  c == cur[t].conn IN
  /\ tpc[t] \in {"reply", "replybad"} /\ failed = "no"
  /\ \/ f \notin rst /\ replies' = [replies EXCEPT ![c] = @ + 1] /\ UNCHANGED failed
     \/ f \in rst \ fin /\ UNCHANGED <<replies, failed>>
     \/ f \in rst \cap fin /\ failed' = "sigpipe" /\ UNCHANGED replies
  /\ IF tpc[t] = "reply" THEN Goto(t, "rearm", cur[t]) ELSE Goto(t, "poll", NoWork)
  /\ UNCHANGED <<table, epoll, lis, kopen, peer, shutrd, conn, mem, back, stale, due>>

(* After a request the connection is read again.                           *)
Rearm(t) ==
  /\ At(t, "rearm")
  /\ Again(t)
  /\ UNCHANGED <<table, lis, kopen, peer, shutrd, conn, mem, back, stale, hist>>

-----------------------------------------------------------------------------
(* plm_comm_close().                                                       *)

(* Mutant of EntryCloses: the entry stays open, which nobody notices       *)
(* before the kernel gives the number again.                               *)
EntryClosesNot(f) ==
  /\ cf_associate' = [cf_associate EXCEPT ![f] = FALSE]
  /\ UNCHANGED cf_open

(* The entry is closed; nobody is given the number before the kernel has   *)
(* closed it too.                                                          *)
EntryCloses(f) ==
  /\ cf_open' = [cf_open EXCEPT ![f] = FALSE]
  /\ cf_associate' = [cf_associate EXCEPT ![f] = FALSE]

(* What is called is always the head of the list; the loop ends when that  *)
(* has no successor.  plm_http_conn_free() gives the buffer back, not the  *)
(* conn, and forgets neither.                                              *)
CloseHandler(t) ==
  LET f == cur[t].fd  b == conn[cf_handler[f][1]].buf IN
  /\ At(t, "close") /\ cf_handler[f] # <<>>
  /\ failed' = IF ~cf_open[f] THEN "assert" ELSE IF b \notin bufs THEN "double" ELSE failed
  /\ bufs' = bufs \ {b}
  /\ \/ /\ Len(cf_handler[f]) > 1
        /\ UNCHANGED <<cf_open, cf_associate, tpc, cur>>
     \/ /\ Len(cf_handler[f]) = 1
        /\ EntryCloses(f) /\ Goto(t, "kclose", cur[t])
  /\ UNCHANGED <<cf_handler, onread, poller, armed, lis, kopen, peer, shutrd,
                 conn, conns, back, stale, hist>>

CloseNoHandler(t) ==
  LET f == cur[t].fd IN
  /\ At(t, "close") /\ cf_handler[f] = <<>>
  /\ failed' = IF ~cf_open[f] THEN "assert" ELSE failed
  /\ EntryCloses(f) /\ Goto(t, "kclose", cur[t])
  /\ UNCHANGED <<cf_handler, onread, poller, armed, lis, kopen, peer, shutrd,
                 conn, mem, back, stale, hist>>

(* close(): the kernel forgets the connection and its registration.        *)
KernelClose(t) ==
  LET f == cur[t].fd IN
  /\ At(t, "kclose")
  /\ kopen' = kopen \ {f} /\ fin' = fin \ {f} /\ rst' = rst \ {f}
  /\ shutrd' = shutrd \ {f} /\ inbox' = [inbox EXCEPT ![f] = 0]
  /\ poller' = [poller EXCEPT ![f] = Null] /\ armed' = armed \ {f}
  /\ Goto(t, IF cur[t].acc THEN "relisten" ELSE "poll", NoWork)
  /\ UNCHANGED <<table, onread, cf_associate, lis, backlog, nconn, nsend, conn,
                 mem, back, failed, stale, hist>>

(* plm_http_close_server(), in the main thread when the worker ends, while *)
(* other threads may still run.                                            *)
CloseServer ==
  /\ failed = "no" /\ http_server
  /\ http_server' = FALSE /\ lis_armed' = FALSE /\ backlog' = 0
  /\ curr' = 0
  /\ UNCHANGED <<table, epoll, kopen, inbox, fin, rst, nconn, nsend, shutrd,
                 conn, mem, raced, wrapped, picked, tpc, cur, failed, stale, hist>>

-----------------------------------------------------------------------------
(* The clients on the network.                                             *)

OnlyPeer == UNCHANGED <<table, epoll, lis, kopen, shutrd, conn, mem, back, tpc,
                        cur, failed, stale, hist>>

Connect ==
  /\ failed = "no" /\ http_server /\ nconn < MaxConns
  /\ nconn' = nconn + 1 /\ backlog' = backlog + 1
  /\ UNCHANGED <<inbox, fin, rst, nsend>> /\ OnlyPeer

Send(f) ==
  /\ failed = "no" /\ f \in kopen \ (fin \cup rst) /\ nsend < MaxSends
  /\ nsend' = nsend + 1 /\ inbox' = [inbox EXCEPT ![f] = @ + 1]
  /\ UNCHANGED <<backlog, fin, rst, nconn>> /\ OnlyPeer

PeerCloses(f) ==
  /\ failed = "no" /\ f \in kopen \ (fin \cup rst)
  /\ fin' = fin \cup {f}
  /\ UNCHANGED <<backlog, inbox, rst, nconn, nsend>> /\ OnlyPeer

PeerResets(f) ==
  /\ failed = "no" /\ f \in kopen \ rst /\ Cardinality(rst) < MaxResets
  /\ rst' = rst \cup {f} /\ inbox' = [inbox EXCEPT ![f] = 0]
  /\ UNCHANGED <<backlog, fin, nconn, nsend>> /\ OnlyPeer

ThreadStep(t) ==
  \/ TakeListener(t) \/ Accept(t) \/ AcceptConn(t)
  \/ AcceptGivesUp(t) \/ AcceptEnds(t) \/ Relisten(t)
  \/ (\E f \in Fds : TakeEvent(t, f))
  \/ ReadCloses(t) \/ ReadEof(t) \/ ReadBody(t) \/ ParseLine(t)
  \/ ParseField(t) \/ ParseWild(t) \/ ParseHeader(t) \/ ParseLf(t)
  \/ ParseDone(t) \/ ParsePart(t) \/ ParseBad(t)
  \/ SelectGet(t) \/ SelectInc(t) \/ Reply(t) \/ Rearm(t)
  \/ CloseHandler(t) \/ CloseNoHandler(t) \/ KernelClose(t)

Peers ==
  \/ Connect
  \/ \E f \in Fds : PeerCloses(f) \/ PeerResets(f) \/ Send(f)

Next == CloseServer \/ Peers \/ \E t \in Threads : ThreadStep(t)

Spec == Init /\ [][Next]_vars

-----------------------------------------------------------------------------
(* Properties.                                                             *)

ConnTypes == [buf : Bufs \cup {Null}, reqs : Nat,
              hp_state : {"NONE", "RL_DONE", "HDR_CR", "HDR_DONE"},
              hp_data : {"conn", "req"}, body : BOOLEAN, hc_eof : BOOLEAN,
              bad : BOOLEAN, left : {"none", "part", "full"}, dropped : BOOLEAN]
Pcs == {"poll", "accept", "conn", "relisten", "read", "select", "inc", "reply",
        "replybad", "rearm", "close", "kclose"}
Works == [fd : Fds \cup {0}, conn : Conns \cup {Null}, acc : BOOLEAN,
          m : -Backends .. Backends]

(* Every variable keeps the shape that the code's structures give it: the  *)
(* conn's parser is in a state it enumerates, the registered descriptors   *)
(* and those of the peers are open ones (plm_http_request.c).              *)
TypeOK ==
  /\ cf_open \in [Fds -> BOOLEAN] /\ cf_associate \in [Fds -> BOOLEAN]
  /\ cf_handler \in [Fds -> Seq(Conns)] /\ onread \in [Fds -> Conns \cup {Null}]
  /\ kopen \subseteq Fds /\ armed \subseteq kopen
  /\ poller \in [Fds -> Threads \cup {Null}]
  /\ lis_armed \in BOOLEAN /\ http_server \in BOOLEAN
  /\ backlog \in Nat /\ inbox \in [Fds -> Nat]
  /\ fin \subseteq kopen /\ rst \subseteq kopen /\ shutrd \subseteq kopen
  /\ conn \in [Conns -> ConnTypes]
  /\ conns \subseteq Conns /\ bufs \subseteq Bufs
  /\ curr \in -CurrMax - 1 .. CurrMax
  /\ tpc \in [Threads -> Pcs] /\ cur \in [Threads -> Works]
  /\ failed \in {"no", "exit", "assert", "wild", "double", "sigpipe"}
  /\ replies \in [Conns -> Nat] /\ due \in [Conns -> Nat]
  /\ picked \in [0 .. Backends - 1 -> Nat] /\ nconn \in Nat /\ nsend \in Nat
  /\ stale \in BOOLEAN /\ raced \in BOOLEAN /\ wrapped \in BOOLEAN

HasFd(t, f) == tpc[t] \notin {"poll", "accept", "relisten"} /\ cur[t].fd = f
Accepting(t) ==
  tpc[t] \in {"accept", "conn", "relisten"} \/ (tpc[t] # "poll" /\ cur[t].acc)

(* As long as the process lives and the server is open, the listener is    *)
(* armed or in the hands of exactly one thread: unlike plm_echo_accept(),  *)
(* plm_http_accept() does not go on with a listener it could not arm.      *)
ListenerServed ==
  failed = "no" /\ http_server =>
    Cardinality({t \in Threads : Accepting(t)}) = IF lis_armed THEN 0 ELSE 1

(* The connections whose close handler has not been called.                *)
Live == {f \in Fds : cf_open[f] /\ cf_handler[f] # <<>>}
BufOf(f) == conn[cf_handler[f][1]].buf

(* Until a number is used again, the buffers that are out are those of the *)
(* live connections, each with one of its own: plm_http_conn_free() runs   *)
(* once for each, before the number is free.                               *)
BuffersOwned ==
  ~stale /\ failed = "no" =>
    /\ \A f, g \in Live : BufOf(f) = BufOf(g) => f = g
    /\ {BufOf(f) : f \in Live} = bufs

(* Until a number is used again, plm_http_read_req() is called with the    *)
(* conn of this connection, which has its buffer and is in no thread's     *)
(* hands meanwhile.                                                        *)
ArmedIsServed ==
  ~stale => \A f \in armed :
    /\ cf_handler[f] = <<onread[f]>> /\ BufOf(f) \in bufs
    /\ \A t \in Threads : ~HasFd(t, f)

(* plm_http_read_req() leaves a connection for good, without closing it,   *)
(* in three cases: after the reply to a bad request, with reading shut     *)
(* down; at the end of the input, or with the buffer full, once there was  *)
(* a request line, complete header or not; and with part of a body.        *)
Refused(f, c) == c.bad /\ f \in shutrd
Ended(f, c)   == c.hc_eof /\ c.reqs > 0 /\ (c.left = "full" \/ f \in fin \cup shutrd)
Dropped(c)    == c.body /\ c.dropped
GivenUp(f) == LET c == conn[cf_handler[f][1]] IN Refused(f, c) \/ Ended(f, c) \/ Dropped(c)

(* Every complete header and every bad request has had its reply, unless   *)
(* the client has reset the connection.                                    *)
Paid(f, c) == replies[c] >= due[c] \/ f \in rst

(* While the process lives, an open connection that no thread has in hand  *)
(* has been answered all that it was owed, and is armed, or was left for   *)
(* one of the three reasons: plm_http_read_req() re-arms or gives up only  *)
(* after the reply, and forgets no other connection.                       *)
NothingLost ==
  failed = "no" => \A f \in kopen :
    \/ \E t \in Threads : HasFd(t, f)
    \/ /\ cf_handler[f] # <<>> /\ Paid(f, cf_handler[f][1])
       /\ f \in armed \/ GivenUp(f)

(* A header is answered at most once, as long as its blank line has not    *)
(* come in two reads.                                                      *)
AnsweredOnce ==
  \A c \in Conns : conn[c].hp_state # "HDR_DONE" => replies[c] <= due[c]

(* The backends are selected evenly as long as no two threads were inside  *)
(* plm_http_backend_select() at once, the counter has not wrapped and the  *)
(* server is open.                                                         *)
EvenUnlessRaced ==
  ~raced /\ ~wrapped /\ http_server =>
    \A a, b \in DOMAIN picked : picked[a] <= picked[b] + 1

(* The selected backend is one of the array; not so once the counter has   *)
(* wrapped (plm_http_backend.c:75).                                        *)
BackendInArray == \A t \in Threads : tpc[t] = "inc" => cur[t].m \in DOMAIN picked

(* "close the specific fd and call all the close handler" (plm_comm.h): a  *)
(* handler is called for its own connection only, so nothing is freed      *)
(* twice.                                                                  *)
FreedOnce == failed # "double"

(* A buffer is freed twice, or an entry found in the wrong state, only     *)
(* after a number has been used again.                                     *)
BreaksOnlyReused == failed \in {"double", "assert"} => stale
=============================================================================
