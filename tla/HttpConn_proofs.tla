-------------------------- MODULE HttpConn_proofs --------------------------
(***************************************************************************)
(* Proofs about module HttpConn, for every number of threads, descriptors, *)
(* conns, buffers and backends, whatever the clients send and whichever    *)
(* calls fail.                                                             *)
(*                                                                         *)
(* The invariant follows a descriptor and its conn from accept() to        *)
(* close(): one thread has it, or it is armed, or it has been given up;    *)
(* the conn goes with it, at the head of the close handlers.  A second     *)
(* part holds until a number with close handlers is used again (stale).    *)
(***************************************************************************)
EXTENDS HttpConn, FiniteSetTheorems, SequenceTheorems, TLAPS

(* Where a thread has a descriptor, and where it serves a request.         *)
Serving == {"read", "select", "inc", "reply", "replybad", "rearm"}
Busy == Serving \cup {"conn", "close", "kclose"}

(* What a thread works on, by where it is.                                 *)
JobFits ==
  \A t \in Threads :
    /\ cur[t].acc => tpc[t] \in {"conn", "close", "kclose"}
    /\ tpc[t] = "conn" => cur[t].acc
    /\ tpc[t] \in Busy => cur[t].fd \in Fds
    /\ cur[t].conn # Null <=> tpc[t] \in Busy /\ ~cur[t].acc

(* The listener is armed or with one thread.                               *)
Listener ==
  failed = "no" /\ http_server =>
    /\ lis_armed => \A t \in Threads : ~Accepting(t)
    /\ ~lis_armed => \E t \in Threads : Accepting(t) /\ \A u \in Threads : Accepting(u) => u = t

(* A descriptor is with one thread, or armed.                              *)
Has(t, f) == tpc[t] \in Busy /\ cur[t].fd = f
OneOwner ==
  \A t \in Threads, f \in Fds : Has(t, f) =>
    f \in kopen /\ f \notin armed /\ \A u \in Threads : Has(u, f) => u = t

(* A conn is with one thread, or is the client data of one descriptor.     *)
OneConn ==
  /\ \A t \in Threads : cur[t].conn # Null =>
       /\ cur[t].conn \in conns
       /\ \A u \in Threads \ {t} : cur[u].conn # cur[t].conn
       /\ \A f \in Fds : onread[f] # cur[t].conn
  /\ \A f \in Fds : onread[f] # Null =>
       /\ onread[f] \in conns
       /\ \A g \in Fds \ {f} : onread[g] # onread[f]

(* The first close handler of a connection is that of its conn, and of no  *)
(* other connection.                                                       *)
First(f) == cf_handler[f][1]
Heads ==
  /\ \A f \in Fds : cf_handler[f] # <<>> =>
       /\ First(f) \in conns
       /\ \A g \in Fds \ {f} : cf_handler[g] # <<>> => First(g) # First(f)
  /\ \A t \in Threads, f \in Fds : Has(t, f) /\ cur[t].conn # Null =>
       cf_handler[f] # <<>> /\ First(f) = cur[t].conn
  /\ \A f \in armed : cf_handler[f] # <<>> /\ First(f) = onread[f]

(* An open descriptor is armed, given up, or with a thread.                *)
LeftFor(f, c, down, ended) ==
  \/ c.bad /\ f \in down
  \/ c.hc_eof /\ c.reqs > 0 /\ (c.left = "full" \/ f \in ended \cup down)
  \/ c.body /\ c.dropped
Left(f) == cf_handler[f] # <<>> /\ LeftFor(f, conn[First(f)], shutrd, fin)
Kept ==
  /\ failed = "no" => \A f \in kopen :
       f \in armed \/ Left(f) \/ \E t \in Threads : Has(t, f)
  /\ \A t \in Threads : tpc[t] = "replybad" =>
       conn[cur[t].conn].bad /\ cur[t].fd \in shutrd

Owners == OneOwner /\ OneConn /\ Heads /\ Kept

(* Until a number is used again: the entries agree with the kernel, a      *)
(* connection has one close handler once it has a conn, and the buffers    *)
(* that are out are those of the live connections.                         *)
Entries ==
  \A f \in Fds :
    /\ cf_open[f] <=> f \in kopen /\ \A t \in Threads : Has(t, f) => tpc[t] # "kclose"
    /\ cf_handler[f] = <<>> \/ Len(cf_handler[f]) = 1
    /\ \A t \in Threads : Has(t, f) /\ cur[t].acc => cf_handler[f] = <<>>
Buffers ==
  /\ \A f, g \in Live : BufOf(f) = BufOf(g) => f = g
  /\ \A f \in Live : BufOf(f) \in bufs
  /\ \A b \in bufs : \E f \in Live : BufOf(f) = b
UnlessReused == (~stale => Entries /\ Buffers) /\ BreaksOnlyReused

(* A thread that is about to reply has a header that asks for it.          *)
Replying == {"select", "inc", "reply", "replybad"}
Answered ==
  \A c \in Conns : c \notin conns \/ conn[c].hp_state # "HDR_DONE" =>
    /\ replies[c] <= due[c]
    /\ \A t \in Threads : cur[t].conn = c /\ tpc[t] \in Replying => replies[c] < due[c]

(* The backends have been selected in turn, curr times in all.             *)
Even ==
  ~raced /\ ~wrapped /\ http_server =>
    /\ curr >= 0
    /\ \A t \in Threads : tpc[t] = "inc" =>
         cur[t].m = curr % Backends /\ \A u \in Threads : tpc[u] = "inc" => u = t
    /\ \A b \in 0 .. Backends - 1 :
         picked[b] = IF b < curr % Backends THEN curr \div Backends + 1
                                            ELSE curr \div Backends

(* Until the counter has wrapped it selects a backend of the array.        *)
InArray == ~wrapped => curr >= 0 /\ BackendInArray

(* A header that is not answered yet is with a thread that is about to     *)
(* reply; a reset connection is owed nothing.                              *)
Owing(f, c) == replies[c] + 1 >= due[c] \/ f \in rst
Owed ==
  /\ \A c \in Conns \ conns : replies[c] >= due[c]
  /\ \A t \in Threads :
       /\ tpc[t] \in {"read", "rearm"} => Paid(cur[t].fd, cur[t].conn)
       /\ tpc[t] \in Replying => Owing(cur[t].fd, cur[t].conn)
  /\ \A f \in kopen : cf_handler[f] # <<>> =>
       Paid(f, First(f)) \/ \E t \in Threads : Has(t, f)

Inv == TypeOK /\ JobFits /\ Listener /\ Owners /\ UnlessReused /\ Answered /\ Owed
       /\ Even /\ InArray

-----------------------------------------------------------------------------
(* The records, and arithmetic.                                            *)

LEMMA WorkTypes ==
  /\ NoWork \in Works
  /\ \A f \in Fds : [NoWork EXCEPT !.fd = f, !.acc = TRUE] \in Works
  /\ \A f \in Fds, c \in Conns \cup {Null} : [NoWork EXCEPT !.fd = f, !.conn = c] \in Works
  /\ \A w \in Works, m \in -Backends .. Backends : [w EXCEPT !.m = m] \in Works
<1>1. 0 \in -Backends .. Backends
  BY HttpConnAssumption
<1>2. \A w \in Works, m \in -Backends .. Backends : [w EXCEPT !.m = m] \in Works
  BY DEF Works
<1> QED
  BY <1>1, <1>2 DEF NoWork, Works

LEMMA WorkIs ==
  /\ NoWork.conn = Null /\ NoWork.acc = FALSE
  /\ \A f : LET w == [NoWork EXCEPT !.fd = f, !.acc = TRUE] IN
       w.fd = f /\ w.conn = Null /\ w.acc = TRUE
  /\ \A f, c : LET w == [NoWork EXCEPT !.fd = f, !.conn = c] IN
       w.fd = f /\ w.conn = c /\ w.acc = FALSE
  /\ \A v \in Works : \A m : LET w == [v EXCEPT !.m = m] IN
       w.fd = v.fd /\ w.conn = v.conn /\ w.acc = v.acc /\ w.m = m
BY DEF NoWork, Works

(* What reading and parsing leave alone in a conn: its buffer, and that    *)
(* the parser is done for ever.                                            *)
Grown(v, w) ==
  w \in ConnTypes /\ w.buf = v.buf /\ (v.hp_state = "HDR_DONE" => w.hp_state = "HDR_DONE")

LEMMA ConnGrows ==
  ASSUME NEW v \in ConnTypes
  PROVE  /\ Grown(v, v)
         /\ LET w == [v EXCEPT !.hc_eof = TRUE] IN
              Grown(v, w) /\ w.hc_eof /\ w.reqs = v.reqs /\ w.left = v.left
         /\ LET w == [v EXCEPT !.dropped = TRUE] IN
              Grown(v, w) /\ w.dropped /\ w.body = v.body
         /\ Grown(v, [v EXCEPT !.bad = TRUE]) /\ [v EXCEPT !.bad = TRUE].bad
         /\ \A k \in {"none", "part", "full"} :
              Grown(v, [v EXCEPT !.left = k]) /\ [v EXCEPT !.left = k].hp_state = v.hp_state
         /\ Grown(v, [v EXCEPT !.left = "none", !.hp_state = "HDR_DONE"])
BY DEF Grown, ConnTypes

LEMMA ConnParses ==
  ASSUME NEW v \in ConnTypes, v.hp_state \in {"NONE", "RL_DONE"}
  PROVE  /\ \A st \in {"RL_DONE", "HDR_CR"} :
              /\ Grown(v, [v EXCEPT !.hp_state = st])
              /\ Grown(v, [v EXCEPT !.hp_state = st, !.hp_data = "req", !.reqs = @ + 1])
         /\ \A n \in {0, 1}, len \in BOOLEAN :
              Grown(v, [v EXCEPT !.left = "none", !.hp_state = "NONE", !.hp_data = "conn",
                                 !.reqs = @ + n, !.body = len])
<1>1. v.reqs + 1 \in Nat /\ v.reqs + 0 \in Nat
  BY DEF ConnTypes
<1>2. \A st \in {"RL_DONE", "HDR_CR"} : Grown(v, [v EXCEPT !.hp_state = st])
  BY DEF Grown, ConnTypes
<1>3. ASSUME NEW st \in {"RL_DONE", "HDR_CR"}
      PROVE  Grown(v, [v EXCEPT !.hp_state = st, !.hp_data = "req", !.reqs = @ + 1])
  BY <1>1, <1>3 DEF Grown, ConnTypes
<1>4. ASSUME NEW n \in {0, 1}, NEW len \in BOOLEAN
      PROVE  Grown(v, [v EXCEPT !.left = "none", !.hp_state = "NONE", !.hp_data = "conn",
                                !.reqs = @ + n, !.body = len])
  <2>1. v.reqs + n \in Nat
    BY <1>1
  <2> QED
    BY <2>1 DEF Grown, ConnTypes
<1> QED
  BY <1>2, <1>3, <1>4

LEMMA GrownTrans ==
  ASSUME NEW u, NEW v, NEW w, Grown(u, v), Grown(v, w)
  PROVE  Grown(u, w)
BY DEF Grown

(* Division by a constant, one step further.                               *)
LEMMA DivMod ==
  ASSUME NEW n \in Nat, NEW d \in Nat \ {0}
  PROVE  /\ n % d \in 0 .. d - 1 /\ n \div d \in Nat
         /\ n % d < d - 1 => (n + 1) % d = (n % d) + 1 /\ (n + 1) \div d = n \div d
         /\ n % d = d - 1 => (n + 1) % d = 0 /\ (n + 1) \div d = (n \div d) + 1
<1> DEFINE q == n \div d  r == n % d
<1>1. n = d * q + r /\ r \in 0 .. d - 1 /\ q \in Int
  OBVIOUS
<1>2. q \in Nat
  BY <1>1
<1> QED
  BY <1>1, <1>2

(* The initial state has the invariant.                                    *)
LEMMA InvInit == Init => Inv
<1> SUFFICES ASSUME Init PROVE Inv
  OBVIOUS
<1> USE HttpConnAssumption DEF Init
<1>1. NewConn(Null) \in ConnTypes /\ NoWork \in Works
  BY WorkTypes DEF NewConn, ConnTypes
<1>2. TypeOK
  <2>1. picked \in [0 .. Backends - 1 -> Nat]
    OBVIOUS
  <2>2. cf_handler \in [Fds -> Seq(Conns)]
    OBVIOUS
  <2>3. curr \in -CurrMax - 1 .. CurrMax
    OBVIOUS
  <2> QED
    BY <1>1, <2>1, <2>2, <2>3 DEF TypeOK, Pcs
<1>3. \A t \in Threads : cur[t].conn = Null /\ ~cur[t].acc /\ tpc[t] = "poll"
  BY DEF NoWork
<1>4. JobFits /\ Listener
  BY <1>3 DEF JobFits, Listener, Accepting, Busy, Serving
<1>5. OneOwner /\ OneConn /\ Heads /\ Kept
  BY <1>3 DEF OneOwner, OneConn, Heads, Kept, Has, Busy, Serving
<1>6. Answered
  BY <1>3 DEF Answered, Replying
<1>10. Owed
  BY <1>3 DEF Owed, Replying
<1>7. Even
  <2>1. 0 % Backends = 0 /\ 0 \div Backends = 0
    OBVIOUS
  <2> QED
    BY <1>3, <2>1 DEF Even
<1>9. InArray
  BY <1>3 DEF InArray, BackendInArray
<1>8. Entries /\ Buffers
  BY <1>3 DEF Entries, Buffers, Live, Has, Busy, Serving
<1> QED
  BY <1>2, <1>4, <1>5, <1>6, <1>7, <1>8, <1>9, <1>10 DEF Inv, Owners, UnlessReused, BreaksOnlyReused

-----------------------------------------------------------------------------
(* What the steps of a thread have in common.                              *)

LEMMA GotoTypes ==
  ASSUME TypeOK, NEW t \in Threads, \E pc \in Pcs, w \in Works : Goto(t, pc, w)
  PROVE  tpc' \in [Threads -> Pcs] /\ cur' \in [Threads -> Works]
BY DEF TypeOK, Goto

(* The work of a thread after it has gone on; the others' is as it was.    *)
LEMMA GotoIs ==
  ASSUME TypeOK, NEW t \in Threads, NEW pc, NEW w, Goto(t, pc, w)
  PROVE  /\ tpc'[t] = pc /\ cur'[t] = w
         /\ \A u \in Threads \ {t} : tpc'[u] = tpc[u] /\ cur'[u] = cur[u]
BY DEF TypeOK, Goto

LEMMA ArmTypes ==
  ASSUME TypeOK, NEW t \in Threads, NEW f, NEW c \in Conns, Arm(t, f, c)
  PROVE  /\ onread' \in [Fds -> Conns \cup {Null}] /\ armed' \subseteq kopen
         /\ poller' \in [Fds -> Threads \cup {Null}]
         /\ cf_associate' \in [Fds -> BOOLEAN] /\ failed' \in {failed, "exit"}
BY ZenonT(60) DEF TypeOK, Arm, CtlWorks

(* A thread in a callback has the descriptor and the conn of one           *)
(* connection, and is not accepting.                                       *)
LEMMA ServingWorks ==
  ASSUME TypeOK, JobFits, NEW t \in Threads, tpc[t] \in Serving
  PROVE  cur[t] \in Works /\ cur[t].fd \in Fds /\ cur[t].conn \in Conns /\ cur[t].acc = FALSE
<1>1. cur[t] \in Works
  BY DEF TypeOK
<1>2. cur[t].acc = FALSE
  <2>1. cur[t].acc \in BOOLEAN /\ ~cur[t].acc
    BY <1>1 DEF JobFits, Serving, Works
  <2> QED
    BY <2>1
<1> QED
  BY <1>1, <1>2 DEF JobFits, Serving, Busy, Works

LEMMA DataMeans ==
  ASSUME NEW f, NEW c, ReadResult(f, c) = "data"
  PROVE  f \in kopen /\ inbox[f] > 0
BY DEF ReadResult

LEMMA ChunkTypes ==
  ASSUME TypeOK, NEW t \in Threads, ReadChunk(t)
  PROVE  inbox' \in [Fds -> Nat]
<1>1. cur[t].fd \in kopen /\ inbox[cur[t].fd] > 0
  BY DataMeans DEF ReadChunk
<1>2. inbox[cur[t].fd] - 1 \in Nat
  BY <1>1 DEF TypeOK
<1> QED
  BY <1>2 DEF TypeOK, ReadChunk

(* The steps that parse, and what they do to the conn of the thread.       *)
Parses(t) ==
  ParseLine(t) \/ ParseField(t) \/ ParseHeader(t) \/ ParseLf(t) \/ ParseDone(t)
  \/ ParsePart(t) \/ ParseBad(t)

LEMMA ParseEffect ==
  ASSUME TypeOK, JobFits, NEW t \in Threads, Parses(t)
  PROVE  \E w : Grown(conn[cur[t].conn], w) /\ Set(cur[t].conn, w)
<1> DEFINE v == conn[cur[t].conn]
<1>1. Parsing(t) /\ tpc[t] = "read"
  BY DEF Parses, ParseLine, ParseField, ParseHeader, ParseLf, ParseDone, ParsePart, ParseBad,
     Parsing, ReadChunk, At
<1>2. v \in ConnTypes
  BY <1>1, ServingWorks DEF TypeOK, Serving
<1>3. /\ Grown(v, v) /\ Grown(v, [v EXCEPT !.bad = TRUE])
      /\ \A k \in {"none", "part", "full"} :
            Grown(v, [v EXCEPT !.left = k]) /\ [v EXCEPT !.left = k].hp_state = v.hp_state
      /\ Grown(v, [v EXCEPT !.left = "none", !.hp_state = "HDR_DONE"])
  BY <1>2, ConnGrows
<1> DEFINE old == [v EXCEPT !.left = "none"]
<1>4. old \in ConnTypes /\ Grown(v, old) /\ old.hp_state = v.hp_state
  BY <1>3 DEF Grown
<1>5. CASE ParseLine(t)
  <2>1. old.hp_state = "NONE"
    BY <1>5 DEF ParseLine
  <2>2. \A st \in {"RL_DONE", "HDR_CR"} :
          /\ Grown(old, [old EXCEPT !.hp_state = st])
          /\ Grown(old, [old EXCEPT !.hp_state = st, !.hp_data = "req", !.reqs = @ + 1])
    <3> HIDE DEF old
    <3> QED
      BY <1>4, <2>1, ConnParses
  <2>3. \/ \E st \in {"RL_DONE", "HDR_CR"} :
             Set(cur[t].conn, [old EXCEPT !.hp_state = st, !.hp_data = "req", !.reqs = @ + 1])
        \/ Set(cur[t].conn, [old EXCEPT !.hp_state = "RL_DONE"])
    BY <1>5 DEF ParseLine
  <2> HIDE DEF old
  <2> QED
    BY <1>4, <2>2, <2>3, GrownTrans
<1>6. CASE ParseField(t)
  <2>1. old.hp_state = "RL_DONE"
    BY <1>6 DEF ParseField
  <2>2. \/ Set(cur[t].conn, old)
        \/ Set(cur[t].conn, [old EXCEPT !.hp_state = "HDR_CR"])
        \/ Set(cur[t].conn, [old EXCEPT !.left = "part"])
    BY <1>6 DEF ParseField
  <2> HIDE DEF old
  <2>3. Grown(old, [old EXCEPT !.hp_state = "HDR_CR"]) /\ Grown(old, [old EXCEPT !.left = "part"])
    BY <1>4, <2>1, ConnParses, ConnGrows
  <2> QED
    BY <1>4, <2>2, <2>3, GrownTrans
<1>7. CASE ParseHeader(t)
  <2>1. PICK len \in BOOLEAN, n \in {0, 1} :
          Set(cur[t].conn, [v EXCEPT !.left = "none", !.hp_state = "NONE", !.hp_data = "conn",
                                     !.reqs = @ + n, !.body = len])
    BY <1>7 DEF ParseHeader
  <2>2. v.hp_state \in {"NONE", "RL_DONE"}
    BY <1>7 DEF ParseHeader
  <2>3. Grown(v, [v EXCEPT !.left = "none", !.hp_state = "NONE", !.hp_data = "conn",
                           !.reqs = @ + n, !.body = len])
    <3> HIDE DEF v
    <3> QED
      BY <1>2, <2>2, ConnParses
  <2> QED
    BY <2>1, <2>3
<1>8. CASE ParseLf(t)
  BY <1>3, <1>8 DEF ParseLf
<1>9. CASE ParseDone(t) \/ ParsePart(t)
  <2>1. PICK k \in Unparsed(cur[t].conn) : Set(cur[t].conn, [v EXCEPT !.left = k])
    BY <1>9 DEF ParseDone, ParsePart
  <2>2. k \in {"none", "part", "full"}
    BY <2>1 DEF Unparsed
  <2> QED
    BY <1>3, <2>1, <2>2
<1>10. CASE ParseBad(t)
  BY <1>3, <1>10 DEF ParseBad
<1> QED
  BY <1>5, <1>6, <1>7, <1>8, <1>9, <1>10 DEF Parses

-----------------------------------------------------------------------------
(* Every step keeps the types.                                             *)

LEMMA TypeAccept ==
  ASSUME TypeOK, JobFits, NEW t \in Threads,
         \/ TakeListener(t) \/ Accept(t) \/ AcceptConn(t)
         \/ AcceptGivesUp(t) \/ AcceptEnds(t) \/ Relisten(t)
  PROVE  TypeOK'
<1> DEFINE Turn == \E pc \in Pcs, w \in Works : Goto(t, pc, w)
<1>0. cur[t] \in Works
  BY DEF TypeOK
<1>1. CASE TakeListener(t)
  <2>1. Turn
    BY <1>1, WorkTypes DEF TakeListener, Pcs
  <2> QED
    BY <1>1, <2>1, GotoTypes DEF TypeOK, TakeListener, table, epoll, peer, mem, back, hist
<1>2. CASE Accept(t)
  <2>1. PICK f \in Fds \ kopen :
          /\ kopen' = kopen \cup {f}
          /\ failed' = IF cf_open[f] THEN "assert" ELSE failed
          /\ cf_open' = [cf_open EXCEPT ![f] = TRUE]
          /\ stale' = (stale \/ (~cf_open[f] /\ cf_handler[f] # <<>>))
          /\ Goto(t, "conn", [NoWork EXCEPT !.fd = f, !.acc = TRUE])
    BY <1>2 DEF Accept
  <2>2. Turn
    BY <2>1, WorkTypes DEF Pcs
  <2>3. backlog' \in Nat
    <3>1. backlog \in Nat /\ backlog > 0 /\ backlog' = backlog - 1
      BY <1>2 DEF TypeOK, Accept
    <3> QED
      BY <3>1
  <2>4. UNCHANGED <<cf_handler, epoll, lis, inbox, fin, rst, nconn, nsend, shutrd,
                    conn, mem, back, hist>>
    BY <1>2 DEF Accept
  <2> QED
    BY <2>1, <2>2, <2>3, <2>4, GotoTypes DEF TypeOK, epoll, lis, mem, back, hist
<1>3. CASE AcceptConn(t)
  <2>1. PICK c \in Conns \ conns, b \in Bufs \ bufs :
          /\ conns' = conns \cup {c} /\ bufs' = bufs \cup {b}
          /\ conn' = [conn EXCEPT ![c] = NewConn(b)]
          /\ cf_handler' = [cf_handler EXCEPT ![cur[t].fd] = <<c>> \o @]
          /\ Arm(t, cur[t].fd, c)
    BY <1>3 DEF AcceptConn
  <2>2. Turn
    BY <1>3, WorkTypes DEF AcceptConn, Pcs
  <2>3. NewConn(b) \in ConnTypes
    BY DEF NewConn, ConnTypes
  <2>4. cf_handler' \in [Fds -> Seq(Conns)]
    <3>1. cf_handler \in [Fds -> Seq(Conns)] /\ <<c>> \in Seq(Conns)
      BY DEF TypeOK
    <3>2. \A f \in Fds : <<c>> \o cf_handler[f] \in Seq(Conns)
      BY <3>1
    <3> QED
      BY <2>1, <3>1, <3>2
  <2>5. conns' \subseteq Conns /\ bufs' \subseteq Bufs /\ conn' \in [Conns -> ConnTypes]
    BY <2>1, <2>3 DEF TypeOK
  <2>6. UNCHANGED <<cf_open, lis, kopen, peer, shutrd, back, stale, hist>>
    BY <1>3 DEF AcceptConn
  <2> QED
    BY <2>1, <2>2, <2>4, <2>5, <2>6, GotoTypes, ArmTypes, ZenonT(60) DEF TypeOK, lis, peer, back, hist
<1>4. CASE AcceptGivesUp(t) \/ AcceptEnds(t)
  <2>1. Turn
    BY <1>0, <1>4, WorkTypes DEF AcceptGivesUp, AcceptEnds, Pcs
  <2> QED
    BY <1>4, <2>1, GotoTypes DEF TypeOK, AcceptGivesUp, AcceptEnds, table, epoll, lis, peer,
       mem, back, hist
<1>5. CASE Relisten(t)
  <2>1. Turn
    BY <1>5, WorkTypes DEF Relisten, Pcs
  <2> QED
    BY <1>5, <2>1, GotoTypes DEF TypeOK, Relisten, table, epoll, peer, mem, back, hist
<1> QED
  BY <1>1, <1>2, <1>3, <1>4, <1>5

LEMMA TypeRead ==
  ASSUME TypeOK, JobFits, NEW t \in Threads,
         \/ \E f \in Fds : TakeEvent(t, f)
         \/ ReadCloses(t) \/ ReadEof(t) \/ ReadBody(t) \/ ParseWild(t)
  PROVE  TypeOK'
<1> DEFINE Turn == \E pc \in Pcs, w \in Works : Goto(t, pc, w)
<1>0. cur[t] \in Works
  BY DEF TypeOK
<1>1. ASSUME NEW f \in Fds, TakeEvent(t, f) PROVE TypeOK'
  <2>1. Goto(t, "read", [NoWork EXCEPT !.fd = f, !.conn = onread[f]])
    BY <1>1 DEF TakeEvent
  <2>2. onread[f] \in Conns \cup {Null} /\ "read" \in Pcs
    BY DEF TypeOK, Pcs
  <2>3. [NoWork EXCEPT !.fd = f, !.conn = onread[f]] \in Works
    BY <2>2, WorkTypes
  <2>4. Turn
    BY <2>1, <2>2, <2>3
  <2> QED
    BY <1>1, <2>4, GotoTypes DEF TypeOK, TakeEvent, table, lis, peer, mem, back, hist
<1>2. CASE ReadCloses(t)
  <2>1. Turn
    BY <1>0, <1>2 DEF ReadCloses, Pcs
  <2> QED
    BY <1>2, <2>1, GotoTypes DEF TypeOK, ReadCloses, table, epoll, lis, peer, mem, back, hist
<1>3. CASE ReadEof(t)
  <2>1. Turn
    BY <1>3, WorkTypes DEF ReadEof, Pcs
  <2>2. conn' = [conn EXCEPT ![cur[t].conn] = [conn[cur[t].conn] EXCEPT !.hc_eof = TRUE]]
    BY <1>3 DEF ReadEof, Set
  <2>3. conn[cur[t].conn] \in ConnTypes
    BY <1>3, ServingWorks DEF TypeOK, Serving, ReadEof, At
  <2>4. conn' \in [Conns -> ConnTypes]
    BY <2>2, <2>3, ConnGrows DEF TypeOK, Grown
  <2> QED
    BY <1>3, <2>1, <2>4, GotoTypes DEF TypeOK, ReadEof, table, epoll, lis, peer, mem, back, hist
<1>4. CASE ReadBody(t)
  <2>1. Turn
    BY <1>4, WorkTypes DEF ReadBody, Pcs
  <2>2. ReadChunk(t)
    BY <1>4 DEF ReadBody
  <2>3. UNCHANGED <<table, lis, kopen, backlog, fin, rst, nconn, nsend, mem, back, stale, replies>>
    BY <2>2 DEF ReadChunk
  <2>4. conn' = [conn EXCEPT ![cur[t].conn] = [conn[cur[t].conn] EXCEPT !.dropped = TRUE]]
    BY <1>4 DEF ReadBody, Set
  <2>5. conn[cur[t].conn] \in ConnTypes
    BY <2>2, ServingWorks DEF TypeOK, Serving, ReadChunk, At
  <2>6. conn' \in [Conns -> ConnTypes]
    BY <2>4, <2>5, ConnGrows DEF TypeOK, Grown
  <2> QED
    BY <1>4, <2>1, <2>2, <2>3, <2>6, GotoTypes, ChunkTypes DEF TypeOK, ReadBody, table, epoll,
       lis, mem, back
<1>5. CASE ParseWild(t)
  <2>1. ReadChunk(t)
    BY <1>5 DEF ParseWild, Parsing
  <2>2. UNCHANGED <<table, lis, kopen, backlog, fin, rst, nconn, nsend, mem, back, stale, replies>>
    BY <2>1 DEF ReadChunk
  <2> QED
    BY <1>5, <2>1, <2>2, ChunkTypes DEF TypeOK, ParseWild, table, epoll, lis, mem, back
<1> QED
  BY <1>1, <1>2, <1>3, <1>4, <1>5

LEMMA TypeParse ==
  ASSUME TypeOK, JobFits, NEW t \in Threads, Parses(t)
  PROVE  TypeOK'
<1> DEFINE c == cur[t].conn
<1>1. ReadChunk(t) /\ tpc[t] = "read"
  BY DEF Parses, ParseLine, ParseField, ParseHeader, ParseLf, ParseDone, ParsePart, ParseBad,
     Parsing, ReadChunk, At
<1>2. cur[t] \in Works /\ cur[t].fd \in kopen /\ c \in Conns
  BY <1>1, ServingWorks, DataMeans DEF Serving, ReadChunk
<1>3. UNCHANGED <<table, lis, kopen, backlog, fin, rst, nconn, nsend, mem, back, stale, replies>>
  BY <1>1 DEF ReadChunk
<1>4. conn' \in [Conns -> ConnTypes]
  BY <1>2, ParseEffect DEF TypeOK, Set, Grown
<1>5. \E pc \in Pcs, w \in Works : Goto(t, pc, w)
  BY <1>2, WorkTypes DEF Parses, ParseLine, ParseField, ParseHeader, ParseLf, ParseDone,
     ParsePart, ParseBad, Again, Pcs
<1>6. due' \in [Conns -> Nat]
  <2>1. due' = due \/ due' = [due EXCEPT ![c] = @ + 1]
    BY DEF Parses, ParseLine, ParseField, ParseHeader, ParseLf, ParseDone, ParsePart, ParseBad
  <2>2. due \in [Conns -> Nat] /\ due[c] + 1 \in Nat
    BY <1>2 DEF TypeOK
  <2> HIDE DEF c
  <2> QED
    BY <2>1, <2>2
<1>7. shutrd' \subseteq kopen
  BY <1>2 DEF TypeOK, Parses, ParseLine, ParseField, ParseHeader, ParseLf, ParseDone, ParsePart,
     ParseBad
<1>8. Arm(t, cur[t].fd, c) \/ UNCHANGED <<epoll, failed>>
  BY DEF Parses, ParseLine, ParseField, ParseHeader, ParseLf, ParseDone, ParsePart, ParseBad, Again
<1>9. /\ onread' \in [Fds -> Conns \cup {Null}] /\ armed' \subseteq kopen
      /\ poller' \in [Fds -> Threads \cup {Null}]
      /\ cf_associate' \in [Fds -> BOOLEAN] /\ failed' \in {failed, "exit"}
  BY <1>2, <1>8, ArmTypes DEF TypeOK, epoll
<1> QED
  BY <1>1, <1>3, <1>4, <1>5, <1>6, <1>7, <1>9, GotoTypes, ChunkTypes DEF TypeOK, table, lis,
     mem, back

(* The index that plm_http_backend_select() takes.                         *)
LEMMA RemainderIs ==
  ASSUME NEW n \in Int
  PROVE  Remainder(n) \in -Backends .. Backends /\ (n >= 0 => Remainder(n) = n % Backends)
<1>1. \A k \in Nat : k % Backends \in 0 .. Backends - 1
  BY HttpConnAssumption, DivMod
<1>2. n >= 0 \/ -n \in Nat
  OBVIOUS
<1> QED
  BY <1>1, <1>2, HttpConnAssumption DEF Remainder

LEMMA TypeReply ==
  ASSUME TypeOK, JobFits, NEW t \in Threads,
         SelectGet(t) \/ SelectInc(t) \/ Reply(t) \/ Rearm(t)
  PROVE  TypeOK'
<1> DEFINE Turn == \E pc \in Pcs, w \in Works : Goto(t, pc, w)
<1>0. tpc[t] \in {"select", "inc", "reply", "replybad", "rearm"}
  BY DEF SelectGet, SelectInc, Reply, Rearm, At
<1>1. cur[t] \in Works /\ cur[t].fd \in Fds /\ cur[t].conn \in Conns
  BY <1>0, ServingWorks DEF Serving
<1>2. CASE SelectGet(t)
  <2>1. Goto(t, "inc", [cur[t] EXCEPT !.m = Remainder(curr)])
    BY <1>2 DEF SelectGet
  <2>2. curr \in Int
    BY HttpConnAssumption DEF TypeOK
  <2>3. [cur[t] EXCEPT !.m = Remainder(curr)] \in Works
    BY <1>1, <2>2, WorkTypes, RemainderIs
  <2>4. Turn
    BY <2>1, <2>3 DEF Pcs
  <2>5. raced' \in BOOLEAN
    BY <1>2 DEF SelectGet, TypeOK
  <2> QED
    BY <1>2, <2>4, <2>5, GotoTypes DEF TypeOK, SelectGet, table, epoll, lis, peer, mem, hist
<1>3. CASE SelectInc(t)
  <2>1. Turn
    BY <1>1, <1>3 DEF SelectInc, Pcs
  <2>2. curr' \in -CurrMax - 1 .. CurrMax /\ wrapped' \in BOOLEAN
    BY <1>3, HttpConnAssumption DEF SelectInc, TypeOK
  <2>3. picked' \in [0 .. Backends - 1 -> Nat]
    <3>1. picked \in [0 .. Backends - 1 -> Nat]
      BY DEF TypeOK
    <3>2. picked' = picked \/ \E m \in DOMAIN picked : picked' = [picked EXCEPT ![m] = @ + 1]
      BY <1>3 DEF SelectInc
    <3>3. \A m \in DOMAIN picked : picked[m] + 1 \in Nat
      BY <3>1
    <3> QED
      BY <3>1, <3>2, <3>3
  <2>4. shutrd' \subseteq kopen
    BY <1>3 DEF SelectInc, TypeOK
  <2> QED
    BY <1>3, <2>1, <2>2, <2>3, <2>4, GotoTypes DEF TypeOK, SelectInc, table, epoll, lis, peer,
       mem, hist
<1>4. CASE Reply(t)
  <2>1. Turn
    BY <1>1, <1>4, WorkTypes DEF Reply, Pcs
  <2>2. replies' \in [Conns -> Nat] /\ failed' \in {failed, "sigpipe"}
    <3>1. replies' = replies \/ replies' = [replies EXCEPT ![cur[t].conn] = replies[cur[t].conn] + 1]
      BY <1>4 DEF Reply
    <3>2. replies \in [Conns -> Nat] /\ replies[cur[t].conn] + 1 \in Nat
      BY <1>1 DEF TypeOK
    <3>3. failed' \in {failed, "sigpipe"}
      BY <1>4 DEF Reply
    <3> DEFINE n == replies[cur[t].conn] + 1
    <3> HIDE DEF n
    <3> QED
      BY <3>1, <3>2, <3>3 DEF n
  <2> QED
    BY <1>4, <2>1, <2>2, GotoTypes DEF TypeOK, Reply, table, epoll, lis, peer, mem, back
<1>5. CASE Rearm(t)
  <2>1. Turn
    BY <1>5, WorkTypes DEF Rearm, Again, Pcs
  <2>2. Arm(t, cur[t].fd, cur[t].conn)
    BY <1>5 DEF Rearm, Again
  <2> QED
    BY <1>1, <1>5, <2>1, <2>2, GotoTypes, ArmTypes DEF TypeOK, Rearm, table, lis, peer, mem,
       back, hist
<1> QED
  BY <1>2, <1>3, <1>4, <1>5

LEMMA TypeClose ==
  ASSUME TypeOK, NEW t \in Threads,
         CloseHandler(t) \/ CloseNoHandler(t) \/ KernelClose(t)
  PROVE  TypeOK'
<1>0. cur[t] \in Works
  BY DEF TypeOK
<1>1. CASE CloseHandler(t)
  <2>1. tpc' \in [Threads -> Pcs] /\ cur' \in [Threads -> Works]
    BY <1>0, <1>1, GotoTypes DEF CloseHandler, Pcs, TypeOK
  <2>2. cf_open' \in [Fds -> BOOLEAN] /\ cf_associate' \in [Fds -> BOOLEAN]
    BY <1>1 DEF CloseHandler, EntryCloses, TypeOK
  <2>3. bufs' \subseteq Bufs /\ failed' \in {failed, "assert", "double"}
    BY <1>1 DEF CloseHandler, TypeOK
  <2> QED
    BY <1>1, <2>1, <2>2, <2>3 DEF TypeOK, CloseHandler, lis, peer, back, hist
<1>2. CASE CloseNoHandler(t)
  <2>1. tpc' \in [Threads -> Pcs] /\ cur' \in [Threads -> Works]
    BY <1>0, <1>2, GotoTypes DEF CloseNoHandler, Pcs
  <2>2. cf_open' \in [Fds -> BOOLEAN] /\ cf_associate' \in [Fds -> BOOLEAN]
    BY <1>2 DEF CloseNoHandler, EntryCloses, TypeOK
  <2> QED
    BY <1>2, <2>1, <2>2 DEF TypeOK, CloseNoHandler, lis, peer, mem, back, hist
<1>3. CASE KernelClose(t)
  <2>1. tpc' \in [Threads -> Pcs] /\ cur' \in [Threads -> Works]
    BY <1>3, WorkTypes, GotoTypes DEF KernelClose, Pcs
  <2> QED
    BY <1>3, <2>1 DEF TypeOK, KernelClose, table, lis, mem, back, hist
<1> QED
  BY <1>1, <1>2, <1>3

LEMMA TypeElse ==
  ASSUME TypeOK, CloseServer \/ Peers
  PROVE  TypeOK'
<1>1. CASE CloseServer
  <2>1. curr' \in -CurrMax - 1 .. CurrMax
    BY <1>1, HttpConnAssumption DEF CloseServer
  <2> QED
    BY <1>1, <2>1 DEF CloseServer, TypeOK, table, epoll, mem, hist
<1>2. CASE Peers
  <2>1. OnlyPeer
    BY <1>2 DEF Peers, Connect, Send, PeerCloses, PeerResets
  <2>2. backlog' \in Nat /\ nconn' \in Nat /\ nsend' \in Nat
    BY <1>2, SMTT(30) DEF Peers, Connect, Send, PeerCloses, PeerResets, TypeOK
  <2>3. inbox' \in [Fds -> Nat]
    <3>1. \/ inbox' = inbox
          \/ \E f \in Fds : inbox' = [inbox EXCEPT ![f] = @ + 1] \/ inbox' = [inbox EXCEPT ![f] = 0]
      BY <1>2 DEF Peers, Connect, Send, PeerCloses, PeerResets
    <3>2. inbox \in [Fds -> Nat] /\ \A f \in Fds : inbox[f] + 1 \in Nat
      BY DEF TypeOK
    <3> QED
      BY <3>1, <3>2
  <2>4. fin' \subseteq kopen /\ rst' \subseteq kopen
    BY <1>2 DEF Peers, Connect, Send, PeerCloses, PeerResets, TypeOK
  <2> QED
    BY <2>1, <2>2, <2>3, <2>4 DEF OnlyPeer, TypeOK, table, epoll, lis, mem, back, hist
<1> QED
  BY <1>1, <1>2

-----------------------------------------------------------------------------
(* The shapes of a step: a thread goes on with its connection, arms it and *)
(* leaves it, or leaves it for good.  At most its own conn is written.     *)

OnlyItsConn(t) ==
  conn' = conn \/ \E w : tpc[t] \in Serving /\ Grown(conn[cur[t].conn], w) /\ Set(cur[t].conn, w)

Untouched ==
  /\ UNCHANGED <<lis_armed, http_server, cf_handler, kopen, conns, stale, fin, rst>>
  /\ shutrd \subseteq shutrd'

GoesOn(t) ==
  /\ tpc[t] \in Busy /\ failed = "no" /\ Untouched /\ UNCHANGED <<armed, onread>>
  /\ OnlyItsConn(t)
  /\ \E pc \in Busy \ {"conn"}, w \in Works :
       /\ Goto(t, pc, w) /\ w.fd = cur[t].fd /\ w.conn = cur[t].conn /\ w.acc = cur[t].acc
       /\ pc \in {"close", "kclose"} \/ tpc[t] \in Serving
       /\ pc = "replybad" => conn'[cur[t].conn].bad /\ cur[t].fd \in shutrd'

Rearms(t) ==
  /\ tpc[t] \in Serving /\ failed = "no" /\ Untouched /\ OnlyItsConn(t) /\ Again(t)

Leaves(t) ==
  /\ tpc[t] \in Serving /\ failed = "no" /\ Untouched /\ UNCHANGED <<armed, onread>>
  /\ OnlyItsConn(t) /\ Goto(t, "poll", NoWork)
  /\ failed' = "no" => LeftFor(cur[t].fd, conn'[cur[t].conn], shutrd', fin')

LEMMA ParseShapes ==
  ASSUME TypeOK, JobFits, NEW t \in Threads, Parses(t)
  PROVE  /\ tpc[t] = "read" /\ Untouched /\ OnlyItsConn(t) /\ UNCHANGED <<cf_open, bufs>>
         /\ ParseLine(t) \/ ParseField(t) \/ ParsePart(t) => Rearms(t)
         /\ ParseHeader(t) \/ ParseLf(t) \/ ParseDone(t) \/ ParseBad(t) => GoesOn(t)
<1>1. ReadChunk(t) /\ tpc[t] = "read" /\ failed = "no"
  BY DEF Parses, ParseLine, ParseField, ParseHeader, ParseLf, ParseDone, ParsePart, ParseBad,
     Parsing, ReadChunk, At
<1>2. tpc[t] \in Serving /\ tpc[t] \in Busy /\ "select" \in Busy /\ "replybad" \in Busy
  BY <1>1 DEF Serving, Busy
<1>3. cur[t] \in Works /\ cur[t].conn \in Conns
  BY <1>2, ServingWorks
<1>4. OnlyItsConn(t)
  BY <1>2, ParseEffect DEF OnlyItsConn
<1>5. Untouched /\ UNCHANGED <<cf_open, bufs>>
  <2>1. shutrd \subseteq shutrd'
    BY DEF Parses, ParseLine, ParseField, ParseHeader, ParseLf, ParseDone, ParsePart, ParseBad
  <2> QED
    BY <1>1, <2>1 DEF ReadChunk, Untouched, table, lis, mem
<1>6. ASSUME ParseLine(t) \/ ParseField(t) \/ ParsePart(t) PROVE Again(t)
  BY <1>6 DEF ParseLine, ParseField, ParsePart
<1>7. ASSUME ParseHeader(t) \/ ParseLf(t) \/ ParseDone(t)
      PROVE  Goto(t, "select", cur[t]) /\ UNCHANGED <<armed, onread>>
  BY <1>7 DEF ParseHeader, ParseLf, ParseDone, epoll
<1>8. ASSUME ParseBad(t)
      PROVE  /\ Goto(t, "replybad", cur[t]) /\ UNCHANGED <<armed, onread>>
             /\ conn'[cur[t].conn].bad /\ cur[t].fd \in shutrd'
  <2>1. conn' = [conn EXCEPT ![cur[t].conn] = [conn[cur[t].conn] EXCEPT !.bad = TRUE]]
    BY <1>8 DEF ParseBad, Set
  <2>2. conn[cur[t].conn] \in ConnTypes
    BY <1>3 DEF TypeOK
  <2>3. conn'[cur[t].conn] = [conn[cur[t].conn] EXCEPT !.bad = TRUE]
    BY <1>3, <2>1 DEF TypeOK
  <2> QED
    BY <1>8, <2>2, <2>3, ConnGrows DEF ParseBad, epoll
<1>9. ASSUME ParseHeader(t) \/ ParseLf(t) \/ ParseDone(t) \/ ParseBad(t)
      PROVE  \E pc \in {"select", "replybad"} :
               /\ Goto(t, pc, cur[t]) /\ UNCHANGED <<armed, onread>>
               /\ pc = "replybad" => conn'[cur[t].conn].bad /\ cur[t].fd \in shutrd'
  BY <1>7, <1>8, <1>9
<1> QED
  BY <1>1, <1>2, <1>3, <1>4, <1>5, <1>6, <1>9 DEF Rearms, GoesOn

LEMMA ReadShapes ==
  ASSUME TypeOK, JobFits, NEW t \in Threads
  PROVE  /\ ReadCloses(t) => GoesOn(t)
         /\ ReadEof(t) \/ ReadBody(t) => Leaves(t)
<1>1. ASSUME ReadCloses(t) PROVE GoesOn(t)
  BY <1>1 DEF ReadCloses, GoesOn, At, Busy, Serving, Untouched, table, lis, mem, epoll, peer,
     OnlyItsConn, TypeOK
<1>2. ASSUME ReadEof(t) PROVE Leaves(t)
  <2>1. tpc[t] \in Serving /\ cur[t].conn \in Conns
    BY <1>2, ServingWorks DEF ReadEof, At, Serving
  <2>2. PICK w : w = [conn[cur[t].conn] EXCEPT !.hc_eof = TRUE] /\ Set(cur[t].conn, w)
    BY <1>2 DEF ReadEof
  <2>3. /\ Grown(conn[cur[t].conn], w) /\ w.hc_eof
        /\ w.reqs = conn[cur[t].conn].reqs /\ w.left = conn[cur[t].conn].left
    BY <2>1, <2>2, ConnGrows DEF TypeOK
  <2>4. conn'[cur[t].conn] = w
    BY <2>1, <2>2 DEF Set, TypeOK
  <2>5. w.reqs > 0 /\ (w.left = "full" \/ cur[t].fd \in fin \cup shutrd)
    BY <1>2, <2>3 DEF ReadEof, ReadResult
  <2>6. LeftFor(cur[t].fd, conn'[cur[t].conn], shutrd', fin')
    BY <1>2, <2>3, <2>4, <2>5 DEF LeftFor, ReadEof, peer
  <2> QED
    BY <1>2, <2>1, <2>2, <2>3, <2>6 DEF ReadEof, Leaves, At, Untouched, table, lis, mem, epoll,
       peer, OnlyItsConn
<1>3. ASSUME ReadBody(t) PROVE Leaves(t)
  <2>1. tpc[t] \in Serving /\ cur[t].conn \in Conns
    BY <1>3, ServingWorks DEF ReadBody, ReadChunk, At, Serving
  <2>2. PICK w : w = [conn[cur[t].conn] EXCEPT !.dropped = TRUE] /\ Set(cur[t].conn, w)
    BY <1>3 DEF ReadBody
  <2>3. Grown(conn[cur[t].conn], w) /\ w.dropped /\ w.body
    BY <1>3, <2>1, <2>2, ConnGrows DEF TypeOK, ReadBody
  <2>4. conn'[cur[t].conn] = w
    BY <2>1, <2>2 DEF Set, TypeOK
  <2> QED
    BY <1>3, <2>1, <2>2, <2>3, <2>4 DEF ReadBody, ReadChunk, Leaves, LeftFor, At, Untouched,
       table, lis, mem, epoll, OnlyItsConn
<1> QED
  BY <1>1, <1>2, <1>3

LEMMA ReplyShapes ==
  ASSUME TypeOK, JobFits, Kept, NEW t \in Threads
  PROVE  /\ SelectGet(t) \/ SelectInc(t) => GoesOn(t)
         /\ Rearm(t) => Rearms(t)
         /\ Reply(t) => IF tpc[t] = "reply" THEN GoesOn(t) ELSE Leaves(t)
<1>0. cur[t] \in Works
  BY DEF TypeOK
<1>1. ASSUME SelectGet(t) PROVE GoesOn(t)
  <2>1. Goto(t, "inc", [cur[t] EXCEPT !.m = Remainder(curr)])
    BY <1>1 DEF SelectGet
  <2>2. curr \in Int
    BY HttpConnAssumption DEF TypeOK
  <2> DEFINE w == [cur[t] EXCEPT !.m = Remainder(curr)]
  <2>3. w \in Works /\ w.fd = cur[t].fd /\ w.conn = cur[t].conn /\ w.acc = cur[t].acc
    <3>1. w \in Works
      BY <1>0, <2>2, WorkTypes, RemainderIs
    <3> QED
      BY <1>0, <3>1, WorkIs
  <2>4. tpc[t] \in Serving /\ tpc[t] \in Busy /\ "inc" \in Busy
    BY <1>1 DEF SelectGet, At, Busy, Serving
  <2>5. failed = "no" /\ Untouched /\ UNCHANGED <<armed, onread, conn>>
    BY <1>1 DEF SelectGet, At, Untouched, table, lis, mem, epoll, peer
  <2>6. Goto(t, "inc", w)
    BY <2>1
  <2> HIDE DEF w
  <2> QED
    BY <2>3, <2>4, <2>5, <2>6 DEF GoesOn, OnlyItsConn
<1>2. ASSUME SelectInc(t) PROVE GoesOn(t)
  BY <1>0, <1>2 DEF SelectInc, GoesOn, At, Busy, Serving, Untouched, table, lis, mem, epoll,
     peer, OnlyItsConn
<1>3. ASSUME Rearm(t) PROVE Rearms(t)
  BY <1>3 DEF Rearm, Rearms, At, Serving, Untouched, table, lis, mem, peer, OnlyItsConn
<1>4. ASSUME Reply(t), tpc[t] = "reply" PROVE GoesOn(t)
  BY <1>0, <1>4 DEF Reply, GoesOn, Busy, Serving, Untouched, table, lis, mem, epoll, peer,
     OnlyItsConn
<1>5. ASSUME Reply(t), tpc[t] # "reply" PROVE Leaves(t)
  BY <1>5 DEF Reply, Leaves, LeftFor, Serving, Untouched, table, lis, mem, epoll, peer,
     OnlyItsConn, Kept
<1> QED
  BY <1>1, <1>2, <1>3, <1>4, <1>5

LEMMA CloseShapes ==
  ASSUME TypeOK, JobFits, NEW t \in Threads,
         AcceptGivesUp(t) \/ CloseHandler(t) \/ CloseNoHandler(t)
  PROVE  GoesOn(t)
<1>0. cur[t] \in Works /\ {"close", "kclose"} \subseteq Busy \ {"conn"} /\ "conn" \in Busy
  BY DEF TypeOK, Busy
<1>1. /\ failed = "no" /\ Untouched /\ UNCHANGED <<armed, onread, conn>>
      /\ tpc[t] \in {"conn", "close"}
  BY DEF AcceptGivesUp, CloseHandler, CloseNoHandler, At, Untouched, table, lis, mem, epoll, peer
<1>2. \E pc \in {"close", "kclose"} : Goto(t, pc, cur[t])
  <2>1. ASSUME tpc[t] = "close", UNCHANGED <<tpc, cur>> PROVE Goto(t, "close", cur[t])
    BY <2>1 DEF Goto, TypeOK
  <2> QED
    BY <2>1 DEF AcceptGivesUp, CloseHandler, CloseNoHandler, At
<1> QED
  BY <1>0, <1>1, <1>2 DEF GoesOn, OnlyItsConn

-----------------------------------------------------------------------------
(* The work of the threads, and the listener.                              *)

Accepts(pc, w) == pc \in {"accept", "conn", "relisten"} \/ (pc # "poll" /\ w.acc)

(* A thread may go on with work that fits, when it goes on accepting or    *)
(* not, takes the listener, or arms it again; or when the process ends.    *)
LEMMA JobGoto ==
  ASSUME TypeOK, JobFits, Listener, NEW t \in Threads, NEW pc, NEW w, Goto(t, pc, w),
         w.acc => pc \in {"conn", "close", "kclose"}, pc = "conn" => w.acc,
         pc \in Busy => w.fd \in Fds, w.conn # Null <=> pc \in Busy /\ ~w.acc,
         failed = "no", http_server' = http_server,
         \/ lis_armed' = lis_armed /\ (Accepts(pc, w) <=> Accepting(t))
         \/ lis_armed /\ ~lis_armed' /\ Accepts(pc, w)
         \/ lis_armed' /\ Accepting(t) /\ ~Accepts(pc, w)
         \/ failed' # "no"
  PROVE  JobFits' /\ Listener'
<1>1. /\ tpc'[t] = pc /\ cur'[t] = w
      /\ \A u \in Threads \ {t} : tpc'[u] = tpc[u] /\ cur'[u] = cur[u]
  BY GotoIs
<1>2. JobFits'
  BY <1>1 DEF JobFits
<1>3. \A u \in Threads \ {t} : Accepting(u)' <=> Accepting(u)
  BY <1>1 DEF Accepting
<1>4. Accepting(t)' <=> Accepts(pc, w)
  BY <1>1 DEF Accepting, Accepts
<1>5. lis_armed \in BOOLEAN
  BY DEF TypeOK
<1>6. Listener'
  BY <1>3, <1>4, <1>5 DEF Listener
<1> QED
  BY <1>2, <1>6

LEMMA ArmedHasConn ==
  ASSUME TypeOK, Heads, NEW f \in armed
  PROVE  f \in Fds /\ onread[f] \in Conns
<1>1. f \in Fds /\ cf_handler[f] # <<>> /\ First(f) = onread[f]
  BY DEF TypeOK, Heads
<1>2. cf_handler[f] \in Seq(Conns)
  BY <1>1 DEF TypeOK
<1> QED
  BY <1>1, <1>2 DEF First

LEMMA JobStep ==
  ASSUME TypeOK, JobFits, Listener, Owners, Next
  PROVE  JobFits' /\ Listener'
<1>0. Heads /\ Kept
  BY DEF Owners
<1>1. CASE Peers
  BY <1>1 DEF Peers, Connect, Send, PeerCloses, PeerResets, OnlyPeer, JobFits, Listener,
     Accepting, lis
<1>2. CASE CloseServer
  BY <1>2 DEF CloseServer, JobFits, Listener
<1>3. ASSUME NEW t \in Threads, ThreadStep(t) PROVE JobFits' /\ Listener'
  <2>0. cur[t] \in Works
    BY DEF TypeOK
  <2>1. ASSUME GoesOn(t) PROVE JobFits' /\ Listener'
    <3>1. PICK pc \in Busy \ {"conn"}, w \in Works :
            /\ Goto(t, pc, w) /\ w.fd = cur[t].fd /\ w.conn = cur[t].conn /\ w.acc = cur[t].acc
            /\ pc \in {"close", "kclose"} \/ tpc[t] \in Serving
      BY <2>1 DEF GoesOn
    <3>2. tpc[t] \in Busy /\ failed = "no" /\ UNCHANGED <<lis_armed, http_server>>
      BY <2>1 DEF GoesOn, Untouched
    <3>3. /\ w.acc => pc \in {"close", "kclose"}
          /\ w.fd \in Fds /\ (w.conn # Null <=> ~w.acc)
      BY <3>1, <3>2 DEF JobFits, Serving
    <3>4. Accepts(pc, w) <=> Accepting(t)
      BY <3>1, <3>2 DEF Accepts, Accepting, Busy, Serving, JobFits
    <3> QED
      BY <3>1, <3>2, <3>3, <3>4, JobGoto
  <2>2. ASSUME Rearms(t) \/ Leaves(t) PROVE JobFits' /\ Listener'
    <3>1. /\ tpc[t] \in Serving /\ failed = "no" /\ UNCHANGED <<lis_armed, http_server>>
          /\ Goto(t, "poll", NoWork)
      BY <2>2 DEF Rearms, Leaves, Untouched, Again
    <3>2. ~Accepting(t)
      BY <3>1, ServingWorks DEF Accepting, Serving
    <3> QED
      BY <3>1, <3>2, WorkIs, JobGoto DEF Accepts, Busy, Serving
  <2>3. CASE TakeListener(t)
    <3>1. /\ Goto(t, "accept", NoWork) /\ lis_armed /\ ~lis_armed' /\ failed = "no"
          /\ http_server' = http_server
      BY <2>3 DEF TakeListener, At
    <3> QED
      BY <3>1, WorkIs, JobGoto DEF Accepts, Busy, Serving
  <2>4. CASE Accept(t)
    <3>1. PICK f \in Fds : Goto(t, "conn", [NoWork EXCEPT !.fd = f, !.acc = TRUE])
      BY <2>4 DEF Accept
    <3>2. PICK w : w = [NoWork EXCEPT !.fd = f, !.acc = TRUE]
      OBVIOUS
    <3>3. w.fd = f /\ w.acc = TRUE /\ w.conn = Null
      BY <3>2, WorkIs
    <3>4. /\ UNCHANGED <<lis_armed, http_server>> /\ Accepting(t) /\ failed = "no"
      BY <2>4 DEF Accept, At, Accepting, lis
    <3> QED
      BY <3>1, <3>2, <3>3, <3>4, JobGoto DEF Accepts
  <2>5. CASE AcceptConn(t) \/ AcceptEnds(t)
    <3>1. PICK pc \in {"accept", "relisten"} :
            /\ Goto(t, pc, NoWork) /\ UNCHANGED <<lis_armed, http_server>>
            /\ Accepting(t) /\ failed = "no"
      BY <2>5 DEF AcceptConn, AcceptEnds, At, Accepting, lis
    <3> QED
      BY <3>1, WorkIs, JobGoto DEF Accepts, Busy, Serving
  <2>6. CASE Relisten(t)
    <3>1. /\ Goto(t, "poll", NoWork) /\ http_server' = http_server /\ Accepting(t)
          /\ failed = "no" /\ (lis_armed' \/ failed' # "no")
      BY <2>6 DEF Relisten, At, Accepting
    <3> QED
      BY <3>1, WorkIs, JobGoto DEF Accepts, Busy, Serving
  <2>7. ASSUME NEW f \in Fds, TakeEvent(t, f) PROVE JobFits' /\ Listener'
    <3>1. PICK w : w = [NoWork EXCEPT !.fd = f, !.conn = onread[f]]
      OBVIOUS
    <3>2. /\ Goto(t, "read", w) /\ UNCHANGED <<lis_armed, http_server>> /\ failed = "no"
          /\ tpc[t] = "poll" /\ f \in armed
      BY <2>7, <3>1 DEF TakeEvent, At, lis
    <3>3. w.fd = f /\ w.acc = FALSE /\ w.conn # Null
      BY <1>0, <3>1, <3>2, WorkIs, ArmedHasConn, HttpConnAssumption
    <3> QED
      BY <3>2, <3>3, JobGoto DEF Accepts, Accepting, Busy, Serving, JobFits
  <2>8. CASE KernelClose(t)
    <3>1. PICK pc : /\ pc = IF cur[t].acc THEN "relisten" ELSE "poll"
                    /\ Goto(t, pc, NoWork)
      BY <2>8 DEF KernelClose
    <3>2. UNCHANGED <<lis_armed, http_server>> /\ failed = "no" /\ tpc[t] = "kclose"
      BY <2>8 DEF KernelClose, At, lis
    <3>3. Accepts(pc, NoWork) <=> Accepting(t)
      BY <3>1, <3>2, WorkIs DEF Accepts, Accepting
    <3> QED
      BY <3>1, <3>2, <3>3, WorkIs, JobGoto DEF Busy, Serving
  <2>9. CASE ParseWild(t)
    BY <2>9 DEF ParseWild, JobFits, Listener
  <2> QED
    BY <1>0, <1>3, <2>1, <2>2, <2>3, <2>4, <2>5, <2>6, <2>7, <2>8, <2>9, ParseShapes, ReadShapes,
       ReplyShapes, CloseShapes DEF ThreadStep, Parses
<1> QED
  BY <1>1, <1>2, <1>3 DEF Next

-----------------------------------------------------------------------------
(* Who has a descriptor, and a conn.                                       *)

LEMMA ItsConn ==
  ASSUME TypeOK, JobFits, NEW t \in Threads, OnlyItsConn(t)
  PROVE  \A c \in Conns :
           /\ conn'[c].buf = conn[c].buf
           /\ conn[c].hp_state = "HDR_DONE" => conn'[c].hp_state = "HDR_DONE"
           /\ conn'[c] # conn[c] => tpc[t] \in Serving /\ c = cur[t].conn
<1>1. CASE conn' = conn
  BY <1>1
<1>2. ASSUME NEW w, tpc[t] \in Serving, Grown(conn[cur[t].conn], w), Set(cur[t].conn, w)
      PROVE  \A c \in Conns :
               /\ conn'[c].buf = conn[c].buf
               /\ conn[c].hp_state = "HDR_DONE" => conn'[c].hp_state = "HDR_DONE"
               /\ conn'[c] # conn[c] => tpc[t] \in Serving /\ c = cur[t].conn
  <2>1. cur[t].conn \in Conns
    BY <1>2, ServingWorks
  <2>2. conn'[cur[t].conn] = w /\ \A c \in Conns : c # cur[t].conn => conn'[c] = conn[c]
    BY <1>2, <2>1 DEF Set, TypeOK
  <2> QED
    BY <1>2, <2>2 DEF Grown
<1> QED
  BY <1>1, <1>2 DEF OnlyItsConn

LEMMA FirstIs ==
  ASSUME TypeOK, NEW f \in Fds, cf_handler[f] # <<>>
  PROVE  First(f) \in Conns /\ First(f) = cf_handler[f][1] /\ Len(cf_handler[f]) \in Nat \ {0}
<1>1. cf_handler[f] \in Seq(Conns)
  BY DEF TypeOK
<1> QED
  BY <1>1 DEF First

(* The thread that has a descriptor and its conn changes no other          *)
(* connection.                                                             *)
LEMMA OthersLeft ==
  ASSUME TypeOK, JobFits, Heads, NEW t \in Threads, Untouched, OnlyItsConn(t),
         NEW f \in Fds, Left(f), ~Has(t, f)
  PROVE  Left(f)'
<1>1. cf_handler[f] # <<>> /\ cf_handler'[f] = cf_handler[f]
  BY DEF Left, Untouched
<1>2. First(f) \in Conns /\ First(f) = cf_handler[f][1]
  BY <1>1, FirstIs
<1>3. ASSUME tpc[t] \in Serving PROVE First(f) # cur[t].conn
  <2>1. cur[t].fd \in Fds /\ cur[t].conn \in Conns /\ Has(t, cur[t].fd)
    BY <1>3, ServingWorks DEF Has, Busy
  <2>2. /\ cf_handler[cur[t].fd] # <<>> /\ First(cur[t].fd) = cur[t].conn
        /\ cur[t].fd # f
    BY <2>1, HttpConnAssumption DEF Heads, Has
  <2> QED
    BY <1>1, <2>1, <2>2 DEF Heads
<1>4. conn'[First(f)] = conn[First(f)]
  BY <1>2, <1>3, ItsConn
<1> QED
  BY <1>1, <1>2, <1>4 DEF Left, LeftFor, First, Untouched

(* A thread in a callback has the descriptor of the head's conn.           *)
LEMMA ServingHas ==
  ASSUME TypeOK, JobFits, Heads, NEW t \in Threads, tpc[t] \in Serving
  PROVE  /\ cur[t].fd \in Fds /\ cur[t].conn \in Conns /\ cur[t].conn # Null
         /\ Has(t, cur[t].fd)
         /\ cf_handler[cur[t].fd] # <<>> /\ First(cur[t].fd) = cur[t].conn
<1>1. cur[t].fd \in Fds /\ cur[t].conn \in Conns /\ Has(t, cur[t].fd)
  BY ServingWorks DEF Has, Busy
<1>2. cur[t].conn # Null
  BY <1>1, HttpConnAssumption
<1> QED
  BY <1>1, <1>2 DEF Heads

(* A thread that gives a bad reply keeps a conn that is marked.            *)
LEMMA OthersBad ==
  ASSUME TypeOK, JobFits, OneConn, Kept, NEW t \in Threads, OnlyItsConn(t),
         shutrd \subseteq shutrd', NEW u \in Threads \ {t}, tpc[u] = "replybad"
  PROVE  conn'[cur[u].conn].bad /\ cur[u].fd \in shutrd'
<1>1. cur[u].conn \in Conns /\ conn[cur[u].conn].bad /\ cur[u].fd \in shutrd
  BY ServingWorks DEF Serving, Kept
<1>2. cur[u].conn # Null
  BY <1>1, HttpConnAssumption
<1>3. tpc[t] \in Serving => cur[u].conn # cur[t].conn
  BY <1>2 DEF OneConn
<1> QED
  BY <1>1, <1>3, ItsConn

LEMMA OwnersGoOn ==
  ASSUME TypeOK, JobFits, Owners, NEW t \in Threads, GoesOn(t)
  PROVE  Owners'
<1>0. OneOwner /\ OneConn /\ Heads /\ Kept
  BY DEF Owners
<1>1. PICK pc \in Busy, w \in Works :
        /\ Goto(t, pc, w) /\ w.fd = cur[t].fd /\ w.conn = cur[t].conn /\ w.acc = cur[t].acc
        /\ pc = "replybad" => conn'[cur[t].conn].bad /\ cur[t].fd \in shutrd'
  BY DEF GoesOn
<1>2. /\ tpc'[t] = pc /\ cur'[t] = w
      /\ \A u \in Threads \ {t} : tpc'[u] = tpc[u] /\ cur'[u] = cur[u]
  BY <1>1, GotoIs
<1>3. /\ tpc[t] \in Busy /\ failed = "no" /\ Untouched /\ OnlyItsConn(t)
      /\ UNCHANGED <<armed, onread, kopen, cf_handler, conns>>
  BY DEF GoesOn, Untouched
<1>4. \A u \in Threads, f \in Fds : Has(u, f)' <=> Has(u, f)
  BY <1>1, <1>2, <1>3 DEF Has
<1>5. \A u \in Threads : cur'[u].conn = cur[u].conn
  BY <1>1, <1>2
<1>6. OneOwner' /\ OneConn'
  BY <1>0, <1>3, <1>4, <1>5 DEF OneOwner, OneConn
<1>7. Heads'
  BY <1>0, <1>3, <1>4, <1>5 DEF Heads, First
<1>8. Kept'
  <2>1. ASSUME NEW f \in kopen PROVE f \in armed \/ Left(f)' \/ \E u \in Threads : Has(u, f)'
    <3>1. f \in Fds
      BY DEF TypeOK
    <3> QED
      BY <1>0, <1>3, <1>4, <3>1, OthersLeft DEF Kept
  <2>2. \A u \in Threads : tpc'[u] = "replybad" =>
          conn'[cur'[u].conn].bad /\ cur'[u].fd \in shutrd'
    BY <1>0, <1>1, <1>2, <1>3, OthersBad DEF Untouched
  <2> QED
    BY <1>3, <2>1, <2>2 DEF Kept
<1> QED
  BY <1>6, <1>7, <1>8 DEF Owners

LEMMA OwnersRearm ==
  ASSUME TypeOK, JobFits, Owners, NEW t \in Threads, Rearms(t)
  PROVE  Owners'
<1>0. OneOwner /\ OneConn /\ Heads /\ Kept
  BY DEF Owners
<1> DEFINE f == cur[t].fd  c == cur[t].conn
<1>1. /\ tpc[t] \in Serving /\ failed = "no" /\ Untouched /\ OnlyItsConn(t)
      /\ UNCHANGED <<kopen, cf_handler, conns>> /\ Goto(t, "poll", NoWork)
      /\ onread' = [onread EXCEPT ![f] = c]
      /\ armed' = armed \cup {f} \/ (armed' = armed /\ failed' # "no")
  BY DEF Rearms, Untouched, Again, Arm
<1>2. /\ tpc'[t] = "poll" /\ cur'[t] = NoWork
      /\ \A u \in Threads \ {t} : tpc'[u] = tpc[u] /\ cur'[u] = cur[u]
  BY <1>1, GotoIs
<1>3. f \in Fds /\ c \in Conns /\ c # Null /\ Has(t, f) /\ cf_handler[f] # <<>> /\ First(f) = c
  BY <1>0, <1>1, ServingHas
<1>4. /\ \A g \in Fds : ~Has(t, g)'
      /\ \A u \in Threads \ {t}, g \in Fds : Has(u, g)' <=> Has(u, g)
  BY <1>2 DEF Has, Busy, Serving
<1>5. cur'[t].conn = Null /\ \A u \in Threads \ {t} : cur'[u].conn = cur[u].conn
  BY <1>2, WorkIs
<1>6. onread'[f] = c /\ \A g \in Fds \ {f} : onread'[g] = onread[g]
  BY <1>1, <1>3 DEF TypeOK
<1> HIDE DEF f, c
<1>7. OneOwner'
  BY <1>0, <1>1, <1>3, <1>4 DEF OneOwner
<1>8. OneConn'
  <2>1. c \in conns /\ (\A u \in Threads \ {t} : cur[u].conn # c) /\ \A g \in Fds : onread[g] # c
    BY <1>0, <1>3 DEF OneConn, c
  <2> QED
    BY <1>0, <1>1, <1>3, <1>5, <1>6, <2>1 DEF OneConn
<1>9. Heads'
  BY <1>0, <1>1, <1>3, <1>4, <1>5, <1>6, ZenonT(60) DEF Heads, First, TypeOK
<1>10. Kept'
  <2>1. ASSUME NEW g \in kopen, failed' = "no"
        PROVE  g \in armed' \/ Left(g)' \/ \E u \in Threads : Has(u, g)'
    <3>1. g \in Fds /\ (Has(t, g) => g = f)
      BY DEF TypeOK, Has, f
    <3> QED
      BY <1>0, <1>1, <1>3, <1>4, <2>1, <3>1, OthersLeft DEF Kept
  <2>2. \A u \in Threads : tpc'[u] = "replybad" =>
          conn'[cur'[u].conn].bad /\ cur'[u].fd \in shutrd'
    BY <1>0, <1>1, <1>2, OthersBad DEF Untouched
  <2> QED
    BY <1>1, <2>1, <2>2 DEF Kept
<1> QED
  BY <1>7, <1>8, <1>9, <1>10 DEF Owners

LEMMA OwnersLeave ==
  ASSUME TypeOK, JobFits, Owners, NEW t \in Threads, Leaves(t)
  PROVE  Owners'
<1>0. OneOwner /\ OneConn /\ Heads /\ Kept
  BY DEF Owners
<1>f. PICK f : f = cur[t].fd
  OBVIOUS
<1>c. PICK c : c = cur[t].conn
  OBVIOUS
<1>1. /\ tpc[t] \in Serving /\ failed = "no" /\ Untouched /\ OnlyItsConn(t)
      /\ UNCHANGED <<kopen, cf_handler, conns, armed, onread>> /\ Goto(t, "poll", NoWork)
      /\ failed' = "no" => LeftFor(f, conn'[c], shutrd', fin')
  BY <1>f, <1>c DEF Leaves, Untouched
<1>2. /\ tpc'[t] = "poll" /\ cur'[t] = NoWork
      /\ \A u \in Threads \ {t} : tpc'[u] = tpc[u] /\ cur'[u] = cur[u]
  BY <1>1, GotoIs
<1>3. f \in Fds /\ c \in Conns /\ Has(t, f) /\ cf_handler[f] # <<>> /\ First(f) = c
  BY <1>0, <1>1, <1>f, <1>c, ServingHas
<1>4. /\ \A g \in Fds : ~Has(t, g)'
      /\ \A u \in Threads \ {t}, g \in Fds : Has(u, g)' <=> Has(u, g)
  BY <1>2 DEF Has, Busy, Serving
<1>5. cur'[t].conn = Null /\ \A u \in Threads \ {t} : cur'[u].conn = cur[u].conn
  BY <1>2, WorkIs
<1>6. failed' = "no" => Left(f)'
  BY <1>1, <1>3 DEF Left, First
<1>7. OneOwner'
  BY <1>0, <1>1, <1>3, <1>4 DEF OneOwner
<1>8. OneConn'
  BY <1>0, <1>1, <1>5 DEF OneConn
<1>9. Heads'
  BY <1>0, <1>1, <1>4, <1>5 DEF Heads, First
<1>10. Kept'
  <2>1. ASSUME NEW g \in kopen, failed' = "no"
        PROVE  g \in armed' \/ Left(g)' \/ \E u \in Threads : Has(u, g)'
    <3>1. g \in Fds /\ (Has(t, g) => g = f)
      BY <1>f DEF TypeOK, Has
    <3> QED
      BY <1>0, <1>1, <1>4, <1>6, <2>1, <3>1, OthersLeft DEF Kept
  <2>2. \A u \in Threads : tpc'[u] = "replybad" =>
          conn'[cur'[u].conn].bad /\ cur'[u].fd \in shutrd'
    BY <1>0, <1>1, <1>2, OthersBad DEF Untouched
  <2> QED
    BY <1>1, <2>1, <2>2 DEF Kept
<1> QED
  BY <1>7, <1>8, <1>9, <1>10 DEF Owners

(* While the conns and the close handlers stay, what is given up stays so. *)
LEMMA SameLeft ==
  ASSUME TypeOK, UNCHANGED <<cf_handler, conn>>
  PROVE  \A f \in Fds : (f \in shutrd => f \in shutrd') /\ (f \in fin => f \in fin') =>
           (Left(f) => Left(f)')
BY DEF Left, LeftFor, First

LEMMA OwnersListen ==
  ASSUME TypeOK, JobFits, Owners, NEW t \in Threads,
         TakeListener(t) \/ AcceptEnds(t) \/ Relisten(t)
  PROVE  Owners'
<1>0. OneOwner /\ OneConn /\ Heads /\ Kept
  BY DEF Owners
<1>1. PICK pc \in {"accept", "relisten", "poll"} : Goto(t, pc, NoWork)
  BY DEF TakeListener, AcceptEnds, Relisten
<1>2. /\ UNCHANGED <<kopen, cf_handler, conns, conn, armed, onread>> /\ failed = "no"
      /\ tpc[t] \in {"poll", "accept", "relisten"}
  BY DEF TakeListener, AcceptEnds, Relisten, At, table, epoll, mem
<1>s. UNCHANGED <<shutrd, fin>>
  BY DEF TakeListener, AcceptEnds, Relisten, peer
<1>3. /\ tpc'[t] = pc /\ cur'[t] = NoWork
      /\ \A u \in Threads \ {t} : tpc'[u] = tpc[u] /\ cur'[u] = cur[u]
  BY <1>1, GotoIs
<1>4. \A u \in Threads, g \in Fds : Has(u, g)' <=> Has(u, g)
  BY <1>2, <1>3 DEF Has, Busy, Serving
<1>5. \A u \in Threads : cur'[u].conn = cur[u].conn
  BY <1>2, <1>3, WorkIs DEF JobFits, Busy, Serving
<1>6. OneOwner' /\ OneConn' /\ Heads'
  BY <1>0, <1>2, <1>4, <1>5 DEF OneOwner, OneConn, Heads, First
<1>7. Kept'
  <2>1. \A u \in Threads : tpc'[u] = "replybad" => tpc[u] = "replybad" /\ cur'[u] = cur[u]
    BY <1>3
  <2>2. \A f \in Fds : Left(f) => Left(f)'
    BY <1>2, <1>s, SameLeft
  <2> QED
    BY <1>0, <1>2, <1>s, <1>4, <2>1, <2>2 DEF Kept, TypeOK
<1> QED
  BY <1>6, <1>7 DEF Owners

LEMMA OwnersAccept ==
  ASSUME TypeOK, JobFits, Owners, NEW t \in Threads, Accept(t)
  PROVE  Owners'
<1>0. OneOwner /\ OneConn /\ Heads /\ Kept
  BY DEF Owners
<1>1. PICK f \in Fds \ kopen : kopen' = kopen \cup {f}
                               /\ Goto(t, "conn", [NoWork EXCEPT !.fd = f, !.acc = TRUE])
  BY DEF Accept
<1>2. /\ UNCHANGED <<cf_handler, conns, conn, armed, onread, shutrd, fin>> /\ failed = "no"
      /\ tpc[t] = "accept"
  BY DEF Accept, At, epoll, mem
<1>3. PICK w : w = [NoWork EXCEPT !.fd = f, !.acc = TRUE]
  OBVIOUS
<1>4. /\ tpc'[t] = "conn" /\ cur'[t] = w /\ w.fd = f /\ w.conn = Null
      /\ \A u \in Threads \ {t} : tpc'[u] = tpc[u] /\ cur'[u] = cur[u]
  BY <1>1, <1>3, GotoIs, WorkIs
<1>5. /\ \A g \in Fds : Has(t, g)' <=> g = f
      /\ \A u \in Threads \ {t}, g \in Fds : Has(u, g)' <=> Has(u, g)
      /\ \A g \in Fds : ~Has(t, g)
  BY <1>2, <1>4 DEF Has, Busy, Serving
<1>6. \A u \in Threads : cur'[u].conn = cur[u].conn
  BY <1>2, <1>4 DEF JobFits, Busy, Serving
<1>7. OneOwner'
  <2>1. f \notin armed /\ \A u \in Threads : ~Has(u, f)
    BY <1>0, <1>1 DEF OneOwner, TypeOK
  <2> QED
    BY <1>0, <1>1, <1>2, <1>5, <2>1 DEF OneOwner
<1>8. OneConn'
  BY <1>0, <1>2, <1>6 DEF OneConn
<1>9. Heads'
  BY <1>0, <1>2, <1>4, <1>5, <1>6 DEF Heads, First
<1>10. Kept'
  <2>1. \A u \in Threads : tpc'[u] = "replybad" => tpc[u] = "replybad" /\ cur'[u] = cur[u]
    BY <1>4
  <2>2. \A g \in Fds : Left(g) => Left(g)'
    BY <1>2, SameLeft
  <2> QED
    BY <1>0, <1>1, <1>2, <1>5, <2>1, <2>2, ZenonT(60) DEF Kept, TypeOK
<1> QED
  BY <1>7, <1>8, <1>9, <1>10 DEF Owners

LEMMA OwnersConn ==
  ASSUME TypeOK, JobFits, Owners, NEW t \in Threads, AcceptConn(t)
  PROVE  Owners'
<1>0. OneOwner /\ OneConn /\ Heads /\ Kept
  BY DEF Owners
<1>1. PICK f : f = cur[t].fd
  OBVIOUS
<1>2. /\ tpc[t] = "conn" /\ failed = "no" /\ Goto(t, "accept", NoWork)
      /\ UNCHANGED <<kopen, shutrd, fin>>
  BY DEF AcceptConn, At, peer
<1>3. f \in Fds /\ Has(t, f) /\ cur[t].conn = Null
  BY <1>1, <1>2 DEF JobFits, Has, Busy
<1>4. PICK c \in Conns \ conns, b \in Bufs \ bufs :
        /\ conns' = conns \cup {c} /\ conn' = [conn EXCEPT ![c] = NewConn(b)]
        /\ cf_handler' = [cf_handler EXCEPT ![f] = <<c>> \o @]
        /\ Arm(t, f, c)
  BY <1>1 DEF AcceptConn
<1>5. /\ onread' = [onread EXCEPT ![f] = c]
      /\ armed' = armed \cup {f} \/ (armed' = armed /\ failed' # "no")
  BY <1>4 DEF Arm
<1>6. /\ tpc'[t] = "accept" /\ cur'[t].conn = Null
      /\ \A u \in Threads \ {t} : tpc'[u] = tpc[u] /\ cur'[u] = cur[u]
  BY <1>2, GotoIs, WorkIs
<1>7. /\ \A g \in Fds : ~Has(t, g)'
      /\ \A u \in Threads \ {t}, g \in Fds : Has(u, g)' <=> Has(u, g)
  BY <1>6 DEF Has, Busy, Serving
<1>8. onread'[f] = c /\ \A g \in Fds \ {f} : onread'[g] = onread[g]
  BY <1>3, <1>5 DEF TypeOK
<1>9. /\ cf_handler'[f] # <<>> /\ First(f)' = c
      /\ \A g \in Fds \ {f} : cf_handler'[g] = cf_handler[g] /\ First(g)' = First(g)
  <2>1. cf_handler[f] \in Seq(Conns) /\ cf_handler'[f] = <<c>> \o cf_handler[f]
    BY <1>3, <1>4 DEF TypeOK
  <2>2. cf_handler'[f] # <<>> /\ cf_handler'[f][1] = c
    BY <2>1
  <2>3. \A g \in Fds \ {f} : cf_handler'[g] = cf_handler[g]
    BY <1>4 DEF TypeOK
  <2> QED
    BY <2>2, <2>3 DEF First
<1>10. \A d \in Conns : d # c => conn'[d] = conn[d]
  BY <1>4 DEF TypeOK
<1>11. OneOwner'
  BY <1>0, <1>2, <1>3, <1>5, <1>7 DEF OneOwner
<1>12. OneConn'
  <2>1. (\A u \in Threads : cur[u].conn # c) /\ \A g \in Fds : onread[g] # c
    BY <1>0, <1>4, HttpConnAssumption DEF OneConn
  <2> QED
    BY <1>0, <1>3, <1>4, <1>6, <1>8, <2>1 DEF OneConn
<1>13. Heads'
  <2>1. \A g \in Fds : cf_handler[g] # <<>> => First(g) # c
    BY <1>0, <1>4 DEF Heads
  <2>2. \A u \in Threads \ {t} : ~Has(u, f)
    BY <1>0, <1>3 DEF OneOwner
  <2>3. ASSUME NEW g \in Fds, cf_handler'[g] # <<>>
        PROVE  /\ First(g)' \in conns'
               /\ \A j \in Fds \ {g} : cf_handler'[j] # <<>> => First(j)' # First(g)'
    BY <1>0, <1>4, <1>9, <2>1, <2>3 DEF Heads
  <2>4. ASSUME NEW u \in Threads, NEW g \in Fds, Has(u, g)', cur'[u].conn # Null
        PROVE  cf_handler'[g] # <<>> /\ First(g)' = cur'[u].conn
    <3>1. u # t /\ Has(u, g) /\ cur'[u] = cur[u] /\ g # f
      BY <1>6, <1>7, <2>2, <2>4
    <3> QED
      BY <1>0, <1>9, <2>4, <3>1 DEF Heads
  <2>5. ASSUME NEW g \in armed' PROVE cf_handler'[g] # <<>> /\ First(g)' = onread'[g]
    <3>1. g \in Fds /\ (g = f \/ g \in armed)
      BY <1>3, <1>5, <2>5 DEF TypeOK
    <3> QED
      BY <1>0, <1>8, <1>9, <3>1 DEF Heads
  <2> QED
    BY <2>3, <2>4, <2>5 DEF Heads
<1>14. Kept'
  <2>1. ASSUME NEW g \in kopen, failed' = "no"
        PROVE  g \in armed' \/ Left(g)' \/ \E u \in Threads : Has(u, g)'
    <3>1. g \in Fds /\ (Has(t, g) => g = f)
      BY <1>1 DEF TypeOK, Has
    <3>2. ASSUME g # f, Left(g) PROVE Left(g)'
      <4>1. cf_handler[g] # <<>> /\ First(g) \in Conns /\ First(g) # c
        BY <1>0, <1>4, <3>1, <3>2, FirstIs DEF Left, Heads
      <4>2. cf_handler'[g] = cf_handler[g] /\ First(g)' = First(g)
        BY <1>9, <3>1, <3>2
      <4> QED
        BY <1>2, <1>10, <3>2, <4>1, <4>2 DEF Left
    <3> QED
      BY <1>0, <1>2, <1>5, <1>7, <2>1, <3>1, <3>2 DEF Kept
  <2>2. ASSUME NEW u \in Threads, tpc'[u] = "replybad"
        PROVE  conn'[cur'[u].conn].bad /\ cur'[u].fd \in shutrd'
    <3>1. u # t /\ tpc[u] = "replybad" /\ cur'[u] = cur[u]
      BY <1>6, <2>2
    <3>2. cur[u].conn \in Conns /\ conn[cur[u].conn].bad /\ cur[u].fd \in shutrd
      BY <1>0, <3>1, ServingWorks DEF Serving, Kept
    <3>3. cur[u].conn \in conns
      BY <1>0, <3>2, HttpConnAssumption DEF OneConn
    <3> QED
      BY <1>2, <1>4, <1>10, <3>1, <3>2, <3>3
  <2> QED
    BY <1>2, <2>1, <2>2 DEF Kept
<1> QED
  BY <1>11, <1>12, <1>13, <1>14 DEF Owners

LEMMA OwnersEvent ==
  ASSUME TypeOK, JobFits, Owners, NEW t \in Threads, NEW f \in Fds, TakeEvent(t, f)
  PROVE  Owners'
<1>0. OneOwner /\ OneConn /\ Heads /\ Kept
  BY DEF Owners
<1>1. PICK w : w = [NoWork EXCEPT !.fd = f, !.conn = onread[f]]
  OBVIOUS
<1>2. /\ tpc[t] = "poll" /\ f \in armed /\ f \in kopen /\ failed = "no" /\ Goto(t, "read", w)
      /\ armed' = armed \ {f} /\ onread' = [onread EXCEPT ![f] = Null]
      /\ UNCHANGED <<kopen, cf_handler, conns, conn, shutrd, fin>>
  BY <1>1 DEF TakeEvent, At, table, mem, peer
<1>3. /\ tpc'[t] = "read" /\ cur'[t] = w /\ w.fd = f /\ w.conn = onread[f]
      /\ \A u \in Threads \ {t} : tpc'[u] = tpc[u] /\ cur'[u] = cur[u]
  BY <1>1, <1>2, GotoIs, WorkIs
<1>4. /\ \A g \in Fds : (Has(t, g)' <=> g = f) /\ ~Has(t, g)
      /\ \A u \in Threads \ {t}, g \in Fds : Has(u, g)' <=> Has(u, g)
      /\ \A u \in Threads : ~Has(u, f)
  BY <1>0, <1>2, <1>3 DEF Has, Busy, Serving, OneOwner
<1>5. onread'[f] = Null /\ \A g \in Fds \ {f} : onread'[g] = onread[g]
  BY <1>2 DEF TypeOK
<1>6. onread[f] # Null /\ cur[t].conn = Null
  BY <1>0, <1>2, ArmedHasConn, HttpConnAssumption DEF JobFits, Busy, Serving
<1>7. OneOwner'
  BY <1>0, <1>2, <1>4 DEF OneOwner
<1>8. OneConn'
  BY <1>0, <1>2, <1>3, <1>5, <1>6 DEF OneConn
<1>9. Heads'
  <2>1. \A g \in Fds : cf_handler'[g] = cf_handler[g] /\ First(g)' = First(g)
    BY <1>2 DEF First
  <2>2. cf_handler[f] # <<>> /\ First(f) = onread[f] /\ armed \subseteq Fds
    BY <1>0, <1>2 DEF Heads, TypeOK
  <2> QED
    BY <1>0, <1>2, <1>3, <1>4, <1>5, <2>1, <2>2 DEF Heads
<1>10. Kept'
  <2>1. \A u \in Threads : tpc'[u] = "replybad" => tpc[u] = "replybad" /\ cur'[u] = cur[u]
    BY <1>3
  <2>2. \A g \in Fds : Left(g) => Left(g)'
    BY <1>2, SameLeft
  <2> QED
    BY <1>0, <1>2, <1>4, <2>1, <2>2, ZenonT(60) DEF Kept, TypeOK
<1> QED
  BY <1>7, <1>8, <1>9, <1>10 DEF Owners

LEMMA OwnersKernel ==
  ASSUME TypeOK, JobFits, Owners, NEW t \in Threads, KernelClose(t)
  PROVE  Owners'
<1>0. OneOwner /\ OneConn /\ Heads /\ Kept
  BY DEF Owners
<1>1. PICK f : f = cur[t].fd
  OBVIOUS
<1>2. PICK pc \in {"relisten", "poll"} : Goto(t, pc, NoWork)
  BY DEF KernelClose
<1>3. /\ tpc[t] = "kclose" /\ failed = "no" /\ kopen' = kopen \ {f} /\ armed' = armed \ {f}
      /\ UNCHANGED <<onread, cf_handler, conns, conn>>
      /\ shutrd' = shutrd \ {f} /\ fin' = fin \ {f}
  BY <1>1 DEF KernelClose, At, table, mem
<1>4. /\ tpc'[t] = pc /\ cur'[t].conn = Null
      /\ \A u \in Threads \ {t} : tpc'[u] = tpc[u] /\ cur'[u] = cur[u]
  BY <1>2, GotoIs, WorkIs
<1>5. /\ \A g \in Fds : ~Has(t, g)' /\ (Has(t, g) <=> g = f)
      /\ \A u \in Threads \ {t}, g \in Fds : Has(u, g)' <=> Has(u, g)
  BY <1>1, <1>3, <1>4 DEF Has, Busy, Serving
<1>6. f \in Fds
  BY <1>1, <1>3 DEF JobFits, Busy
<1>7. OneOwner'
  BY <1>0, <1>3, <1>5, <1>6 DEF OneOwner
<1>8. OneConn' /\ Heads'
  BY <1>0, <1>3, <1>4, <1>5 DEF OneConn, Heads, First
<1>9. Kept'
  <2>1. \A u \in Threads : tpc'[u] = "replybad" => tpc[u] = "replybad" /\ cur'[u] = cur[u]
    BY <1>4
  <2>2. \A g \in Fds \ {f} : Left(g) => Left(g)'
    BY <1>3, SameLeft
  <2>3. \A u \in Threads : tpc[u] = "replybad" => cur[u].fd # f
    BY <1>0, <1>3, <1>5, <1>6 DEF OneOwner, Has, Busy, Serving
  <2>4. \A u \in Threads : tpc'[u] = "replybad" =>
          conn'[cur'[u].conn].bad /\ cur'[u].fd \in shutrd'
    BY <1>0, <1>3, <2>1, <2>3 DEF Kept
  <2>5. ASSUME NEW g \in kopen', failed' = "no"
        PROVE  g \in armed' \/ Left(g)' \/ \E u \in Threads : Has(u, g)'
    <3>1. g \in Fds \ {f} /\ g \in kopen
      BY <1>3, <2>5 DEF TypeOK
    <3>2. g \in armed \/ Left(g) \/ \E u \in Threads \ {t} : Has(u, g)
      BY <1>0, <1>3, <1>5, <3>1 DEF Kept
    <3> QED
      BY <1>3, <1>5, <2>2, <3>1, <3>2
  <2> QED
    BY <2>4, <2>5 DEF Kept
<1> QED
  BY <1>7, <1>8, <1>9 DEF Owners

LEMMA OwnersStep ==
  ASSUME TypeOK, JobFits, Owners, Next
  PROVE  Owners'
<1>0. Kept
  BY DEF Owners
<1>1. CASE CloseServer \/ Peers
  <2>1. /\ UNCHANGED <<cf_handler, conn, conns, kopen, armed, onread, tpc, cur, shutrd, failed>>
        /\ fin \subseteq fin'
    BY <1>1 DEF CloseServer, Peers, Connect, Send, PeerCloses, PeerResets, OnlyPeer, table,
       epoll, mem
  <2>2. \A f \in Fds : Left(f) => Left(f)'
    BY <2>1, SameLeft
  <2>3. Kept'
    BY <1>0, <2>1, <2>2 DEF Kept, Has, TypeOK
  <2> QED
    BY <2>1, <2>3 DEF Owners, OneOwner, OneConn, Heads, Has, First
<1>2. ASSUME NEW t \in Threads, ThreadStep(t) PROVE Owners'
  <2>1. CASE ParseWild(t)
    BY <2>1 DEF ParseWild, Parsing, ReadChunk, Owners, OneOwner, OneConn, Heads, Kept, Has,
       First, Left, LeftFor, table, epoll, mem
  <2>2. CASE Reply(t)
    BY <1>0, <2>2, ReplyShapes, OwnersGoOn, OwnersLeave
  <2>3. CASE TakeListener(t) \/ AcceptEnds(t) \/ Relisten(t)
    BY <2>3, OwnersListen
  <2>4. CASE Accept(t) \/ AcceptConn(t) \/ KernelClose(t) \/ \E f \in Fds : TakeEvent(t, f)
    BY <2>4, OwnersAccept, OwnersConn, OwnersKernel, OwnersEvent
  <2>5. CASE AcceptGivesUp(t) \/ CloseHandler(t) \/ CloseNoHandler(t)
    BY <2>5, CloseShapes, OwnersGoOn
  <2>6. CASE ReadCloses(t) \/ ReadEof(t) \/ ReadBody(t)
    BY <2>6, ReadShapes, OwnersGoOn, OwnersLeave
  <2>7. CASE Parses(t)
    BY <2>7, ParseShapes, OwnersGoOn, OwnersRearm DEF Parses
  <2>8. CASE SelectGet(t) \/ SelectInc(t) \/ Rearm(t)
    BY <1>0, <2>8, ReplyShapes, OwnersGoOn, OwnersRearm
  <2> QED
    BY <1>2, <2>1, <2>2, <2>3, <2>4, <2>5, <2>6, <2>7, <2>8 DEF ThreadStep, Parses
<1> QED
  BY <1>1, <1>2 DEF Next

-----------------------------------------------------------------------------
(* Until a number with close handlers is used again.                       *)

(* A step that neither accepts nor closes.                                 *)
LEMMA ReusedQuiet ==
  ASSUME TypeOK, JobFits, Heads, UnlessReused, NEW t \in Threads, OnlyItsConn(t),
         UNCHANGED <<kopen, cf_handler, cf_open, bufs, stale>>,
         failed' \notin {"double", "assert"},
         NEW pc, NEW w, Goto(t, pc, w), pc # "kclose", tpc[t] # "kclose",
         w.acc => tpc[t] \in Busy /\ cur[t].acc /\ w.fd = cur[t].fd
  PROVE  UnlessReused'
<1>1. /\ tpc'[t] = pc /\ cur'[t] = w
      /\ \A u \in Threads \ {t} : tpc'[u] = tpc[u] /\ cur'[u] = cur[u]
  BY GotoIs
<1>2. ASSUME NEW u \in Threads, NEW f \in Fds
      PROVE  /\ Has(u, f)' /\ tpc'[u] = "kclose" <=> Has(u, f) /\ tpc[u] = "kclose"
             /\ Has(u, f)' /\ cur'[u].acc => Has(u, f) /\ cur[u].acc
  BY <1>1 DEF Has
<1>3. \A f \in Fds : cf_handler[f] # <<>> => BufOf(f)' = BufOf(f)
  BY FirstIs, ItsConn DEF BufOf
<1>4. Live' = Live
  BY DEF Live
<1>5. ASSUME ~stale, Entries, Buffers PROVE Entries' /\ Buffers'
  <2>1. Entries'
    BY <1>2, <1>5 DEF Entries
  <2>2. \A f \in Live : BufOf(f)' = BufOf(f)
    BY <1>3 DEF Live
  <2>3. Buffers'
    BY <1>4, <1>5, <2>2 DEF Buffers
  <2> QED
    BY <2>1, <2>3
<1> QED
  BY <1>5 DEF UnlessReused, BreaksOnlyReused

LEMMA ReusedAccept ==
  ASSUME TypeOK, JobFits, Owners, UnlessReused, NEW t \in Threads, Accept(t)
  PROVE  UnlessReused'
<1>1. PICK f \in Fds \ kopen :
        /\ kopen' = kopen \cup {f} /\ failed' = IF cf_open[f] THEN "assert" ELSE failed
        /\ cf_open' = [cf_open EXCEPT ![f] = TRUE]
        /\ stale' = (stale \/ (~cf_open[f] /\ cf_handler[f] # <<>>))
        /\ Goto(t, "conn", [NoWork EXCEPT !.fd = f, !.acc = TRUE])
  BY DEF Accept
<1>2. UNCHANGED <<cf_handler, conn, bufs>> /\ failed = "no" /\ tpc[t] = "accept"
  BY DEF Accept, At, mem
<1>3. PICK w : w = [NoWork EXCEPT !.fd = f, !.acc = TRUE]
  OBVIOUS
<1>4. /\ tpc'[t] = "conn" /\ cur'[t] = w /\ w.fd = f
      /\ \A u \in Threads \ {t} : tpc'[u] = tpc[u] /\ cur'[u] = cur[u]
  BY <1>1, <1>3, GotoIs, WorkIs
<1>5. /\ \A g \in Fds : (Has(t, g)' <=> g = f) /\ ~Has(t, g)
      /\ \A u \in Threads \ {t}, g \in Fds : Has(u, g)' <=> Has(u, g)
      /\ \A u \in Threads : ~Has(u, f)
  BY <1>1, <1>2, <1>4 DEF Has, Busy, Serving, Owners, OneOwner
<1>6. cf_open'[f] /\ \A g \in Fds \ {f} : cf_open'[g] = cf_open[g]
  BY <1>1 DEF TypeOK
<1>7. ASSUME ~stale' PROVE Entries' /\ Buffers' /\ failed' = "no"
  <2>0. ~stale /\ Entries /\ Buffers /\ ~cf_open[f]
    BY <1>1, <1>7 DEF UnlessReused, TypeOK, Entries
  <2>1. ~stale /\ cf_handler[f] = <<>> /\ Entries /\ Buffers
    BY <1>1, <1>7, <2>0
  <2>2. failed' = "no"
    BY <1>1, <1>2, <2>0
  <2>3. Entries'
    <3>1. \A u \in Threads \ {t} : tpc'[u] = tpc[u] /\ cur'[u].acc = cur[u].acc
      BY <1>4
    <3> QED
      BY <1>1, <1>2, <1>4, <1>5, <1>6, <2>1, <3>1 DEF Entries
  <2>4. Live' = Live
    BY <1>2, <1>6, <2>1 DEF Live
  <2>5. Buffers'
    BY <1>2, <2>1, <2>4 DEF Buffers, BufOf
  <2> QED
    BY <2>2, <2>3, <2>5
<1> QED
  BY <1>7 DEF UnlessReused, BreaksOnlyReused

LEMMA ReusedConn ==
  ASSUME TypeOK, JobFits, Owners, UnlessReused, NEW t \in Threads, AcceptConn(t)
  PROVE  UnlessReused'
<1>1. PICK f : f = cur[t].fd
  OBVIOUS
<1>2. /\ tpc[t] = "conn" /\ failed = "no" /\ Goto(t, "accept", NoWork)
      /\ UNCHANGED <<kopen, cf_open, stale>>
  BY DEF AcceptConn, At
<1>3. f \in Fds /\ Has(t, f) /\ cur[t].acc
  BY <1>1, <1>2 DEF JobFits, Has, Busy
<1>4. PICK c \in Conns \ conns, b \in Bufs \ bufs :
        /\ bufs' = bufs \cup {b} /\ conn' = [conn EXCEPT ![c] = NewConn(b)]
        /\ cf_handler' = [cf_handler EXCEPT ![f] = <<c>> \o @]
        /\ Arm(t, f, c)
  BY <1>1 DEF AcceptConn
<1>5. failed' \in {"no", "exit"}
  BY <1>2, <1>4 DEF Arm
<1>6. /\ tpc'[t] = "accept"
      /\ \A u \in Threads \ {t} : tpc'[u] = tpc[u] /\ cur'[u] = cur[u]
  BY <1>2, GotoIs
<1>7. /\ \A g \in Fds : ~Has(t, g)'
      /\ \A u \in Threads \ {t}, g \in Fds : Has(u, g)' <=> Has(u, g)
  BY <1>6 DEF Has, Busy, Serving
<1>8. ASSUME ~stale PROVE Entries' /\ Buffers'
  <2>1. Entries /\ Buffers
    BY <1>8 DEF UnlessReused
  <2>2. /\ cf_handler[f] = <<>> /\ \A u \in Threads \ {t} : ~Has(u, f)
        /\ f \in kopen /\ cf_open[f]
    BY <1>2, <1>3, <2>1 DEF Entries, Owners, OneOwner
  <2>3. cf_handler'[f] = <<c>>
    BY <1>3, <1>4, <2>2 DEF TypeOK
  <2>4. cf_handler'[f] # <<>> /\ Len(cf_handler'[f]) = 1 /\ cf_handler'[f][1] = c
    BY <2>3
  <2>5. \A g \in Fds \ {f} : cf_handler'[g] = cf_handler[g]
    BY <1>4 DEF TypeOK
  <2>6. Entries'
    <3>1. \A u \in Threads \ {t} : tpc'[u] = tpc[u] /\ cur'[u].acc = cur[u].acc
      BY <1>6
    <3>2. ASSUME NEW g \in Fds \ {f}
          PROVE  (\A u \in Threads : Has(u, g)' => tpc'[u] # "kclose")
                   <=> (\A u \in Threads : Has(u, g) => tpc[u] # "kclose")
      BY <1>2, <1>6, <1>7, <3>1, <3>2
    <3>3. ASSUME NEW g \in Fds \ {f}
          PROVE  /\ cf_open'[g] <=> g \in kopen' /\ \A u \in Threads : Has(u, g)' => tpc'[u] # "kclose"
                 /\ cf_handler'[g] = <<>> \/ Len(cf_handler'[g]) = 1
                 /\ \A u \in Threads : Has(u, g)' /\ cur'[u].acc => cf_handler'[g] = <<>>
      BY <1>2, <1>7, <2>1, <2>5, <3>1, <3>2, <3>3 DEF Entries
    <3>4. \A u \in Threads : ~Has(u, f)'
      BY <1>3, <1>7, <2>2
    <3> QED
      BY <1>2, <2>2, <2>4, <3>3, <3>4 DEF Entries
  <2>7. Live' = Live \cup {f} /\ f \notin Live
    BY <1>2, <1>3, <2>2, <2>4, <2>5 DEF Live
  <2>8. BufOf(f)' = b
    BY <1>4, <2>4 DEF BufOf, NewConn, TypeOK
  <2>9. ASSUME NEW g \in Live PROVE BufOf(g)' = BufOf(g)
    <3>1. g \in Fds \ {f} /\ cf_handler[g] # <<>>
      BY <2>2, <2>9 DEF Live
    <3>2. First(g) = cf_handler[g][1] /\ First(g) \in Conns /\ First(g) \in conns
      BY <3>1, FirstIs DEF Owners, Heads
    <3>3. conn'[First(g)] = conn[First(g)]
      BY <1>4, <3>2 DEF TypeOK
    <3> QED
      BY <2>5, <3>1, <3>2, <3>3 DEF BufOf
  <2>10. Buffers'
    BY <1>4, <2>1, <2>7, <2>8, <2>9 DEF Buffers
  <2> QED
    BY <2>6, <2>10
<1> QED
  BY <1>2, <1>5, <1>8 DEF UnlessReused, BreaksOnlyReused

(* plm_comm_close() finds an open entry, its handler frees the buffer of   *)
(* this connection.                                                        *)
LEMMA ReusedClose ==
  ASSUME TypeOK, JobFits, Owners, UnlessReused, NEW t \in Threads,
         CloseHandler(t) \/ CloseNoHandler(t)
  PROVE  UnlessReused'
<1>1. PICK f : f = cur[t].fd
  OBVIOUS
<1>2. tpc[t] = "close" /\ failed = "no" /\ UNCHANGED <<kopen, cf_handler, conn, stale>>
  BY DEF CloseHandler, CloseNoHandler, At, mem
<1>3. f \in Fds /\ Has(t, f)
  BY <1>1, <1>2 DEF JobFits, Has, Busy
<1>4. ASSUME ~stale PROVE Entries' /\ Buffers' /\ failed' = "no"
  <2>1. Entries /\ Buffers
    BY <1>4 DEF UnlessReused
  <2>2. /\ \A u \in Threads \ {t} : ~Has(u, f)
        /\ f \in kopen /\ cf_open[f]
    BY <1>2, <1>3, <2>1 DEF Entries, Owners, OneOwner
  <2>3. cf_handler[f] = <<>> \/ Len(cf_handler[f]) = 1
    BY <1>3, <2>1 DEF Entries
  <2>4. cf_handler[f] # <<>> => f \in Live /\ BufOf(f) \in bufs
    BY <1>3, <2>1, <2>2 DEF Live, Buffers
  <2>5. /\ failed' = "no"
        /\ cf_open' = [cf_open EXCEPT ![f] = FALSE] /\ Goto(t, "kclose", cur[t])
        /\ bufs' = IF cf_handler[f] = <<>> THEN bufs ELSE bufs \ {BufOf(f)}
    <3>1. CASE CloseHandler(t)
      <4>1. cf_handler[f] # <<>> /\ bufs' = bufs \ {BufOf(f)} /\ failed' = "no"
        BY <1>1, <1>2, <2>2, <2>4, <3>1 DEF CloseHandler, BufOf
      <4>2. Len(cf_handler[f]) = 1
        BY <2>3, <4>1
      <4>3. EntryCloses(f) /\ Goto(t, "kclose", cur[t])
        <5>1. ~(1 > 1)
          OBVIOUS
        <5> QED
          BY <1>1, <3>1, <4>2, <5>1, ZenonT(30) DEF CloseHandler
      <4> QED
        BY <4>1, <4>3 DEF EntryCloses
    <3>2. CASE CloseNoHandler(t)
      BY <1>1, <1>2, <2>2, <3>2 DEF CloseNoHandler, EntryCloses, mem
    <3> QED
      BY <3>1, <3>2
  <2>6. /\ tpc'[t] = "kclose" /\ cur'[t] = cur[t]
        /\ \A u \in Threads \ {t} : tpc'[u] = tpc[u] /\ cur'[u] = cur[u]
    BY <2>5, GotoIs
  <2>7. \A u \in Threads, g \in Fds : Has(u, g)' <=> Has(u, g)
    BY <1>2, <2>6 DEF Has, Busy
  <2>8. ~cf_open'[f] /\ \A g \in Fds \ {f} : cf_open'[g] = cf_open[g]
    BY <1>3, <2>5 DEF TypeOK
  <2>9. Entries'
    <3>1. \A u \in Threads : cur'[u].acc = cur[u].acc
      BY <2>6
    <3>2. ASSUME NEW g \in Fds \ {f}, NEW u \in Threads, Has(u, g)'
          PROVE  Has(u, g) /\ tpc'[u] = tpc[u]
      BY <1>1, <2>6, <2>7, <3>2 DEF Has
    <3>3. ASSUME NEW g \in Fds \ {f}, NEW u \in Threads, Has(u, g)
          PROVE  Has(u, g)' /\ tpc'[u] = tpc[u]
      BY <1>1, <2>6, <2>7, <3>3 DEF Has
    <3>4. ASSUME NEW g \in Fds \ {f}
          PROVE  cf_open'[g] <=> g \in kopen' /\ \A u \in Threads : Has(u, g)' => tpc'[u] # "kclose"
      <4>1. (\A u \in Threads : Has(u, g)' => tpc'[u] # "kclose")
              <=> (\A u \in Threads : Has(u, g) => tpc[u] # "kclose")
        BY <3>2, <3>3, <3>4
      <4> QED
        BY <1>2, <2>1, <2>8, <3>4, <4>1 DEF Entries
    <3>5. Has(t, f)' /\ tpc'[t] = "kclose"
      BY <1>3, <2>6, <2>7
    <3> QED
      BY <1>2, <2>1, <2>7, <2>8, <3>1, <3>4, <3>5 DEF Entries
  <2>10. Live' = Live \ {f}
    BY <1>2, <2>8 DEF Live
  <2>11. \A g \in Live' : BufOf(g)' = BufOf(g)
    BY <1>2 DEF BufOf
  <2>12. Buffers'
    <3>1. CASE cf_handler[f] = <<>>
      <4>1. f \notin Live
        BY <3>1 DEF Live
      <4> QED
        BY <2>1, <2>5, <2>10, <2>11, <3>1, <4>1 DEF Buffers
    <3>2. CASE cf_handler[f] # <<>>
      BY <2>1, <2>4, <2>5, <2>10, <2>11, <3>2 DEF Buffers
    <3> QED
      BY <3>1, <3>2
  <2> QED
    BY <2>5, <2>9, <2>12
<1> QED
  BY <1>2, <1>4 DEF UnlessReused, BreaksOnlyReused

LEMMA ReusedKernel ==
  ASSUME TypeOK, JobFits, Owners, UnlessReused, NEW t \in Threads, KernelClose(t)
  PROVE  UnlessReused'
<1>1. PICK f : f = cur[t].fd
  OBVIOUS
<1>2. PICK pc \in {"relisten", "poll"} : Goto(t, pc, NoWork)
  BY DEF KernelClose
<1>3. /\ tpc[t] = "kclose" /\ failed = "no" /\ failed' = "no" /\ kopen' = kopen \ {f}
      /\ UNCHANGED <<cf_open, cf_handler, conn, bufs, stale>>
  BY <1>1 DEF KernelClose, At, table, mem
<1>4. /\ tpc'[t] = pc
      /\ \A u \in Threads \ {t} : tpc'[u] = tpc[u] /\ cur'[u].acc = cur[u].acc /\ cur'[u].fd = cur[u].fd
  BY <1>2, GotoIs
<1>5. /\ \A g \in Fds : ~Has(t, g)' /\ (Has(t, g) <=> g = f)
      /\ \A u \in Threads \ {t}, g \in Fds : Has(u, g)' <=> Has(u, g)
  BY <1>1, <1>3, <1>4 DEF Has, Busy, Serving
<1>6. f \in Fds
  BY <1>1, <1>3 DEF JobFits, Busy
<1>7. ASSUME ~stale PROVE Entries' /\ Buffers'
  <2>1. Entries /\ Buffers
    BY <1>7 DEF UnlessReused
  <2>2. ~cf_open[f]
    BY <1>3, <1>5, <1>6, <2>1 DEF Entries
  <2>3. ASSUME NEW g \in Fds
        PROVE  cf_open'[g] <=> g \in kopen' /\ \A u \in Threads : Has(u, g)' => tpc'[u] # "kclose"
    <3>1. CASE g = f
      BY <1>3, <2>2, <3>1
    <3>2. CASE g # f
      <4>1. (\A u \in Threads : Has(u, g)' => tpc'[u] # "kclose")
              <=> (\A u \in Threads : Has(u, g) => tpc[u] # "kclose")
        BY <1>4, <1>5, <3>2
      <4> QED
        BY <1>3, <2>1, <3>2, <4>1 DEF Entries
    <3> QED
      BY <3>1, <3>2
  <2>4. Entries'
    BY <1>3, <1>4, <1>5, <2>1, <2>3 DEF Entries
  <2>5. Buffers'
    BY <1>3, <2>1 DEF Buffers, Live, BufOf
  <2> QED
    BY <2>4, <2>5
<1> QED
  BY <1>3, <1>7 DEF UnlessReused, BreaksOnlyReused

LEMMA ReusedStep ==
  ASSUME TypeOK, JobFits, Owners, UnlessReused, Next
  PROVE  UnlessReused'
<1>0. Heads /\ Kept
  BY DEF Owners
<1>1. CASE CloseServer \/ Peers
  BY <1>1 DEF CloseServer, Peers, Connect, Send, PeerCloses, PeerResets, OnlyPeer, UnlessReused,
     BreaksOnlyReused, Entries, Buffers, Has, Live, BufOf, table, mem
<1>2. ASSUME NEW t \in Threads, ThreadStep(t) PROVE UnlessReused'
  <2>0. cur[t] \in Works /\ (cur[t].acc => tpc[t] \in Busy) /\ ~NoWork.acc
    BY WorkIs DEF TypeOK, JobFits, Busy
  <2>1. ASSUME OnlyItsConn(t), UNCHANGED <<kopen, cf_handler, cf_open, bufs, stale>>,
               failed' \notin {"double", "assert"}, tpc[t] # "kclose",
               \E pc \in Pcs \ {"kclose"} : Goto(t, pc, NoWork) \/ Goto(t, pc, cur[t])
        PROVE  UnlessReused'
    BY <1>0, <2>0, <2>1, ReusedQuiet
  <2>2. CASE TakeListener(t) \/ AcceptEnds(t) \/ Relisten(t) \/ AcceptGivesUp(t) \/ ReadCloses(t)
    BY <2>1, <2>2 DEF TakeListener, AcceptEnds, Relisten, AcceptGivesUp, ReadCloses, At, Pcs,
       OnlyItsConn, table, mem
  <2>3. ASSUME NEW f \in Fds, TakeEvent(t, f) PROVE UnlessReused'
    <3>1. PICK w : w = [NoWork EXCEPT !.fd = f, !.conn = onread[f]]
      OBVIOUS
    <3>2. /\ Goto(t, "read", w) /\ OnlyItsConn(t) /\ failed' = "no" /\ tpc[t] = "poll"
          /\ UNCHANGED <<kopen, cf_handler, cf_open, bufs, stale>>
      BY <2>3, <3>1 DEF TakeEvent, At, OnlyItsConn, table, mem
    <3>3. ~w.acc
      BY <3>1, WorkIs
    <3> QED
      BY <1>0, <3>2, <3>3, ReusedQuiet
  <2>4. CASE ReadEof(t) \/ ReadBody(t)
    <3>1. Leaves(t)
      BY <2>4, ReadShapes
    <3>2. UNCHANGED <<cf_open, bufs>> /\ failed' = failed
      BY <2>4 DEF ReadEof, ReadBody, ReadChunk, table, mem
    <3> QED
      BY <2>1, <3>1, <3>2 DEF Leaves, Untouched, Serving, Pcs
  <2>5. CASE Parses(t)
    <3>1. tpc[t] = "read" /\ Untouched /\ OnlyItsConn(t) /\ UNCHANGED <<cf_open, bufs>>
      BY <2>5, ParseShapes
    <3>2. /\ failed' \in {"no", "exit"}
          /\ \E pc \in Pcs \ {"kclose"} : Goto(t, pc, NoWork) \/ Goto(t, pc, cur[t])
      BY <2>5 DEF Parses, ParseLine, ParseField, ParseHeader, ParseLf, ParseDone, ParsePart,
         ParseBad, Parsing, ReadChunk, At, Again, Arm, Pcs
    <3> QED
      BY <2>1, <3>1, <3>2 DEF Untouched
  <2>6. CASE ParseWild(t)
    <3>1. Goto(t, tpc[t], cur[t]) /\ tpc[t] = "read"
      BY <2>6 DEF ParseWild, Parsing, ReadChunk, At, Goto, TypeOK
    <3>2. OnlyItsConn(t) /\ UNCHANGED <<kopen, cf_handler, cf_open, bufs, stale>> /\ failed' = "wild"
      BY <2>6 DEF ParseWild, Parsing, ReadChunk, OnlyItsConn, table, mem
    <3> QED
      BY <2>1, <3>1, <3>2 DEF Pcs
  <2>7. CASE SelectGet(t)
    <3>1. PICK w : w = [cur[t] EXCEPT !.m = Remainder(curr)]
      OBVIOUS
    <3>2. /\ Goto(t, "inc", w) /\ OnlyItsConn(t) /\ failed' = "no" /\ tpc[t] = "select"
          /\ UNCHANGED <<kopen, cf_handler, cf_open, bufs, stale>>
      BY <2>7, <3>1 DEF SelectGet, At, OnlyItsConn, table, mem
    <3>3. w.acc = cur[t].acc /\ w.fd = cur[t].fd
      BY <2>0, <3>1, WorkIs
    <3> QED
      BY <1>0, <2>0, <3>2, <3>3, ReusedQuiet
  <2>8. CASE SelectInc(t) \/ Reply(t)
    BY <2>1, <2>8 DEF SelectInc, Reply, At, Pcs, OnlyItsConn, table, mem
  <2>9. CASE Rearm(t)
    <3>1. Rearms(t) /\ UNCHANGED <<cf_open, bufs>> /\ failed' \in {"no", "exit"}
      BY <1>0, <2>9, ReplyShapes DEF Rearm, At, Again, Arm, table, mem
    <3> QED
      BY <2>1, <3>1 DEF Rearms, Again, Untouched, Serving, Pcs
  <2> QED
    BY <1>2, <2>2, <2>3, <2>4, <2>5, <2>6, <2>7, <2>8, <2>9, ReusedAccept, ReusedConn,
       ReusedClose, ReusedKernel DEF ThreadStep, Parses
<1> QED
  BY <1>1, <1>2 DEF Next

(* Where a step takes its thread.                                          *)
LEMMA Targets ==
  ASSUME NEW t \in Threads
  PROVE  /\ TakeListener(t) \/ AcceptConn(t) => \E w : Goto(t, "accept", w)
         /\ Accept(t) => \E w : Goto(t, "conn", w)
         /\ AcceptGivesUp(t) \/ ReadCloses(t) => \E w : Goto(t, "close", w)
         /\ AcceptEnds(t) => \E w : Goto(t, "relisten", w)
         /\ Relisten(t) \/ ReadEof(t) \/ ReadBody(t) => \E w : Goto(t, "poll", w)
         /\ Rearm(t) \/ ParseLine(t) \/ ParseField(t) \/ ParsePart(t) => \E w : Goto(t, "poll", w)
         /\ (\E f \in Fds : TakeEvent(t, f)) => \E w : Goto(t, "read", w)
         /\ ParseHeader(t) \/ ParseLf(t) \/ ParseDone(t) => \E w : Goto(t, "select", w)
         /\ ParseBad(t) => \E w : Goto(t, "replybad", w)
         /\ KernelClose(t) => \E pc \in {"relisten", "poll"} : \E w : Goto(t, pc, w)
<1>1. TakeListener(t) \/ AcceptConn(t) => \E w : Goto(t, "accept", w)
  BY DEF TakeListener, AcceptConn
<1>2. Accept(t) => \E w : Goto(t, "conn", w)
  BY DEF Accept
<1>3. AcceptGivesUp(t) \/ ReadCloses(t) => \E w : Goto(t, "close", w)
  BY DEF AcceptGivesUp, ReadCloses
<1>4. AcceptEnds(t) => \E w : Goto(t, "relisten", w)
  BY DEF AcceptEnds
<1>5. Relisten(t) \/ ReadEof(t) \/ ReadBody(t) => \E w : Goto(t, "poll", w)
  BY DEF Relisten, ReadEof, ReadBody
<1>6. Rearm(t) \/ ParseLine(t) \/ ParseField(t) \/ ParsePart(t) => \E w : Goto(t, "poll", w)
  BY DEF Rearm, ParseLine, ParseField, ParsePart, Again
<1>7. (\E f \in Fds : TakeEvent(t, f)) => \E w : Goto(t, "read", w)
  BY DEF TakeEvent
<1>8. ParseHeader(t) \/ ParseLf(t) \/ ParseDone(t) => \E w : Goto(t, "select", w)
  BY DEF ParseHeader, ParseLf, ParseDone
<1>9. ParseBad(t) => \E w : Goto(t, "replybad", w)
  BY DEF ParseBad
<1>10. KernelClose(t) => \E pc \in {"relisten", "poll"} : \E w : Goto(t, pc, w)
  BY DEF KernelClose
<1> QED
  BY <1>1, <1>2, <1>3, <1>4, <1>5, <1>6, <1>7, <1>8, <1>9, <1>10

-----------------------------------------------------------------------------
(* A header asks for every reply.                                          *)

(* A step that replies to nothing and takes no header.                     *)
LEMMA AnsweredSame ==
  ASSUME TypeOK, JobFits, Answered, NEW t \in Threads, OnlyItsConn(t),
         UNCHANGED <<conns, replies, due>>, NEW pc, NEW w, Goto(t, pc, w),
         pc \in Replying => tpc[t] \in Replying /\ w.conn = cur[t].conn
  PROVE  Answered'
<1>1. /\ tpc'[t] = pc /\ cur'[t] = w
      /\ \A u \in Threads \ {t} : tpc'[u] = tpc[u] /\ cur'[u] = cur[u]
  BY GotoIs
<1>2. \A u \in Threads : tpc'[u] \in Replying => tpc[u] \in Replying /\ cur'[u].conn = cur[u].conn
  BY <1>1
<1>3. \A c \in Conns : conn'[c].hp_state # "HDR_DONE" => conn[c].hp_state # "HDR_DONE"
  BY ItsConn
<1> QED
  BY <1>2, <1>3 DEF Answered

(* A header is taken, after one that was not the last; or the parser stays *)
(* done.                                                                   *)
LEMMA AnsweredHeader ==
  ASSUME TypeOK, JobFits, Owners, Answered, NEW t \in Threads,
         ParseHeader(t) \/ ParseLf(t) \/ ParseDone(t) \/ ParseBad(t)
  PROVE  Answered'
<1>1. PICK c : c = cur[t].conn
  OBVIOUS
<1>2. Parses(t) /\ Parsing(t)
  BY DEF Parses, ParseHeader, ParseLf, ParseDone, ParseBad
<1>3. tpc[t] = "read" /\ OnlyItsConn(t) /\ UNCHANGED <<conns, replies>>
  BY <1>2, ParseShapes DEF Parsing, ReadChunk, mem
<1>4. cur[t] \in Works /\ c \in Conns /\ c \in conns /\ \A u \in Threads \ {t} : cur[u].conn # c
  BY <1>1, <1>3, ServingWorks, HttpConnAssumption DEF Serving, Owners, OneConn
<1>5. PICK pc : Goto(t, pc, cur[t])
  BY DEF ParseHeader, ParseLf, ParseDone, ParseBad
<1>6. \A u \in Threads : cur'[u] = cur[u] /\ (u # t => tpc'[u] = tpc[u])
  BY <1>5, GotoIs
<1>7. \A d \in Conns : (d # c => conn'[d] = conn[d])
                       /\ (conn[d].hp_state = "HDR_DONE" => conn'[d].hp_state = "HDR_DONE")
  BY <1>1, <1>3, ItsConn
<1>8. (due' = due /\ conn[c].hp_state = "HDR_DONE") \/ due' = [due EXCEPT ![c] = @ + 1]
  BY <1>1 DEF ParseHeader, ParseLf, ParseDone, ParseBad
<1>9. \A d \in Conns : d # c => due'[d] = due[d]
  BY <1>8 DEF TypeOK
<1>10. ASSUME conn'[c].hp_state # "HDR_DONE" PROVE replies[c] < due'[c]
  <2>1. conn[c].hp_state # "HDR_DONE"
    BY <1>4, <1>7, <1>10
  <2>2. due'[c] = due[c] + 1 /\ due[c] \in Nat /\ replies[c] \in Nat
    BY <1>4, <1>8, <2>1 DEF TypeOK
  <2>3. replies[c] <= due[c]
    BY <1>4, <2>1 DEF Answered
  <2> QED
    BY <2>2, <2>3
<1>11. ASSUME NEW d \in Conns, d \notin conns \/ conn'[d].hp_state # "HDR_DONE"
       PROVE  /\ replies[d] <= due'[d]
              /\ \A u \in Threads : cur[u].conn = d /\ tpc'[u] \in Replying => replies[d] < due'[d]
  <2>1. CASE d = c
    <3>1. replies[c] < due'[c]
      BY <1>4, <1>10, <1>11, <2>1
    <3>2. replies[c] \in Nat /\ due'[c] \in Nat
      BY <1>4, <1>8 DEF TypeOK
    <3> QED
      BY <2>1, <3>1, <3>2
  <2>2. CASE d # c
    <3>1. \A u \in Threads : cur[u].conn = d => u # t
      BY <1>1, <2>2
    <3> QED
      BY <1>6, <1>7, <1>9, <1>11, <2>2, <3>1 DEF Answered
  <2> QED
    BY <2>1, <2>2
<1> QED
  BY <1>3, <1>6, <1>11 DEF Answered

LEMMA AnsweredReply ==
  ASSUME TypeOK, JobFits, Owners, Answered, NEW t \in Threads, Reply(t)
  PROVE  Answered'
<1>1. PICK c : c = cur[t].conn
  OBVIOUS
<1>2. tpc[t] \in Replying /\ tpc[t] \in Serving /\ UNCHANGED <<conns, conn, due>>
  BY DEF Reply, Replying, Serving, mem
<1>3. c \in Conns /\ c \in conns /\ \A u \in Threads \ {t} : cur[u].conn # c
  BY <1>1, <1>2, ServingWorks, HttpConnAssumption DEF Owners, OneConn
<1>4. PICK pc, w : Goto(t, pc, w) /\ pc \notin Replying
  BY DEF Reply, Replying
<1>5. tpc'[t] \notin Replying /\ \A u \in Threads \ {t} : tpc'[u] = tpc[u] /\ cur'[u] = cur[u]
  BY <1>4, GotoIs
<1>6. replies' = replies \/ replies' = [replies EXCEPT ![c] = @ + 1]
  BY <1>1 DEF Reply
<1>7. (\A d \in Conns : d # c => replies'[d] = replies[d]) /\ replies'[c] \in {replies[c], replies[c] + 1}
  BY <1>3, <1>6 DEF TypeOK
<1>8. ASSUME NEW d \in Conns, d \notin conns \/ conn[d].hp_state # "HDR_DONE"
      PROVE  /\ replies'[d] <= due[d]
             /\ \A u \in Threads : cur'[u].conn = d /\ tpc'[u] \in Replying => replies'[d] < due[d]
  <2>1. CASE d = c
    <3>1. replies[c] < due[c] /\ replies[c] \in Nat /\ due[c] \in Nat
      BY <1>1, <1>2, <1>3, <1>8, <2>1 DEF Answered, TypeOK
    <3>2. replies'[c] <= due[c]
      BY <1>7, <3>1
    <3>3. \A u \in Threads : cur'[u].conn = c => tpc'[u] \notin Replying
      BY <1>3, <1>5
    <3> QED
      BY <2>1, <3>2, <3>3
  <2>2. CASE d # c
    BY <1>5, <1>7, <1>8, <2>2 DEF Answered
  <2> QED
    BY <2>1, <2>2
<1> QED
  BY <1>2, <1>8 DEF Answered

LEMMA AnsweredConn ==
  ASSUME TypeOK, JobFits, Owners, Answered, NEW t \in Threads, AcceptConn(t)
  PROVE  Answered'
<1>1. PICK c \in Conns \ conns, b \in Bufs :
        conns' = conns \cup {c} /\ conn' = [conn EXCEPT ![c] = NewConn(b)]
  BY DEF AcceptConn
<1>2. Goto(t, "accept", NoWork) /\ UNCHANGED <<replies, due>>
  BY DEF AcceptConn, hist
<1>3. tpc'[t] = "accept" /\ \A u \in Threads \ {t} : tpc'[u] = tpc[u] /\ cur'[u] = cur[u]
  BY <1>2, GotoIs
<1>4. \A d \in Conns : d # c => conn'[d] = conn[d]
  BY <1>1 DEF TypeOK
<1>5. \A d \in Conns : d \notin conns' \/ conn'[d].hp_state # "HDR_DONE"
                         => d \notin conns \/ conn[d].hp_state # "HDR_DONE"
  BY <1>1, <1>4
<1>6. \A u \in Threads : tpc'[u] \in Replying => tpc[u] \in Replying /\ cur'[u] = cur[u]
  BY <1>3 DEF Replying
<1> QED
  BY <1>2, <1>5, <1>6 DEF Answered

LEMMA AnsweredStep ==
  ASSUME TypeOK, JobFits, Owners, Answered, Next
  PROVE  Answered'
<1>0. Kept
  BY DEF Owners
<1>1. CASE CloseServer \/ Peers
  BY <1>1 DEF CloseServer, Peers, Connect, Send, PeerCloses, PeerResets, OnlyPeer, Answered,
     mem, hist
<1>2. ASSUME NEW t \in Threads, ThreadStep(t) PROVE Answered'
  <2>0. cur[t] \in Works
    BY DEF TypeOK
  <2>1. ASSUME OnlyItsConn(t), UNCHANGED <<conns, replies, due>>,
               \E pc, w : Goto(t, pc, w) /\ pc \notin Replying
        PROVE  Answered'
    BY <2>1, AnsweredSame
  <2>2. CASE \/ TakeListener(t) \/ Accept(t) \/ AcceptGivesUp(t) \/ AcceptEnds(t) \/ Relisten(t)
             \/ ReadCloses(t) \/ KernelClose(t) \/ \E f \in Fds : TakeEvent(t, f)
    <3>1. UNCHANGED <<conns, conn, replies, due>>
      BY <2>2 DEF TakeListener, Accept, AcceptGivesUp, AcceptEnds, Relisten, ReadCloses,
         KernelClose, TakeEvent, mem, hist
    <3>2. \E pc, w : Goto(t, pc, w) /\ pc \notin Replying
      BY <2>2, Targets DEF Replying
    <3> QED
      BY <2>1, <3>1, <3>2 DEF OnlyItsConn
  <2>3. CASE CloseHandler(t) \/ CloseNoHandler(t)
    <3>1. UNCHANGED <<conns, conn, replies, due>> /\ tpc[t] = "close"
      BY <2>3 DEF CloseHandler, CloseNoHandler, At, mem, hist
    <3>2. Goto(t, "kclose", cur[t]) \/ UNCHANGED <<tpc, cur>>
      BY <2>3 DEF CloseHandler, CloseNoHandler
    <3>3. CASE UNCHANGED <<tpc, cur>>
      BY <3>1, <3>3 DEF Answered
    <3>4. CASE Goto(t, "kclose", cur[t])
      BY <2>1, <3>1, <3>4 DEF OnlyItsConn, Replying
    <3> QED
      BY <3>2, <3>3, <3>4
  <2>4. CASE ReadEof(t) \/ ReadBody(t)
    <3>1. Leaves(t)
      BY <2>4, ReadShapes
    <3>2. UNCHANGED <<conns, replies, due>>
      BY <2>4 DEF ReadEof, ReadBody, ReadChunk, mem, hist
    <3> QED
      BY <2>1, <3>1, <3>2 DEF Leaves, Replying
  <2>5. CASE ParseLine(t) \/ ParseField(t) \/ ParsePart(t)
    <3>1. OnlyItsConn(t) /\ Again(t) /\ UNCHANGED <<conns, replies, due>>
      BY <2>5, ParseShapes DEF Parses, ParseLine, ParseField, ParsePart, Parsing, ReadChunk, mem
    <3> QED
      BY <2>1, <3>1 DEF Again, Replying
  <2>6. CASE ParseWild(t)
    BY <2>6 DEF ParseWild, Parsing, ReadChunk, Answered, mem
  <2>7. CASE SelectGet(t)
    <3>1. PICK w : w = [cur[t] EXCEPT !.m = Remainder(curr)]
      OBVIOUS
    <3>2. /\ Goto(t, "inc", w) /\ OnlyItsConn(t) /\ UNCHANGED <<conns, replies, due>>
          /\ tpc[t] \in Replying
      BY <2>7, <3>1 DEF SelectGet, At, OnlyItsConn, Replying, mem, hist
    <3>3. w.conn = cur[t].conn
      BY <2>0, <3>1, WorkIs
    <3> QED
      BY <3>2, <3>3, AnsweredSame
  <2>8. CASE SelectInc(t)
    <3>1. /\ Goto(t, "reply", cur[t]) /\ OnlyItsConn(t) /\ UNCHANGED <<conns, replies, due>>
          /\ tpc[t] \in Replying
      BY <2>8 DEF SelectInc, At, OnlyItsConn, Replying, mem, hist
    <3> QED
      BY <3>1, AnsweredSame
  <2>9. CASE Rearm(t)
    BY <2>1, <2>9 DEF Rearm, Again, OnlyItsConn, Replying, mem, hist
  <2> QED
    BY <1>2, <2>2, <2>3, <2>4, <2>5, <2>6, <2>7, <2>8, <2>9, AnsweredHeader, AnsweredReply,
       AnsweredConn DEF ThreadStep
<1> QED
  BY <1>1, <1>2 DEF Next

-----------------------------------------------------------------------------
(* Every header is answered, before the connection is left.                *)

LEMMA OwedServing ==
  ASSUME TypeOK, JobFits, Owners, Owed, NEW t \in Threads, tpc[t] \in Serving,
         NEW f, f = cur[t].fd, NEW c, c = cur[t].conn, NEW pc, NEW w, Goto(t, pc, w),
         UNCHANGED <<conns, kopen, cf_handler, rst>>,
         \A d \in Conns \ {c} : replies'[d] = replies[d] /\ due'[d] = due[d],
         pc \in Busy => w.fd = f /\ w.conn = c,
         pc \in (Busy \cup {"poll"}) \ {"read"},
         pc \in {"rearm", "poll"} => Paid(f, c)', pc \in Replying => Owing(f, c)'
  PROVE  Owed'
<1>1. /\ tpc'[t] = pc /\ cur'[t] = w
      /\ \A u \in Threads \ {t} : tpc'[u] = tpc[u] /\ cur'[u] = cur[u]
  BY GotoIs
<1>2. /\ f \in Fds /\ c \in Conns /\ c # Null /\ Has(t, f)
      /\ cf_handler[f] # <<>> /\ First(f) = c
  BY ServingHas DEF Owners
<1>3. c \in conns /\ \A u \in Threads \ {t} : cur[u].conn # c
  BY <1>2 DEF Owners, OneConn
<1>4. ASSUME NEW d \in Conns \ conns PROVE replies'[d] >= due'[d]
  BY <1>3, <1>4 DEF Owed
<1>5. ASSUME NEW u \in Threads \ {t}, tpc[u] \in Serving PROVE cur[u].conn \in Conns \ {c}
  BY <1>3, <1>5, ServingWorks
<1>6. \A d \in Conns \ {c} : \A g : (Paid(g, d)' <=> Paid(g, d)) /\ (Owing(g, d)' <=> Owing(g, d))
  BY DEF Paid, Owing
<1>7. ASSUME NEW u \in Threads
      PROVE  /\ tpc'[u] \in {"read", "rearm"} => Paid(cur[u].fd, cur[u].conn)'
             /\ tpc'[u] \in Replying => Owing(cur[u].fd, cur[u].conn)'
  <2>1. CASE u = t
    BY <1>1, <2>1 DEF Busy, Serving, Replying, Paid, Owing
  <2>2. CASE u # t
    <3>1. tpc'[u] = tpc[u] /\ cur'[u] = cur[u]
      BY <1>1, <2>2
    <3>2. ASSUME tpc[u] \in {"read", "rearm"} \cup Replying
          PROVE  cur[u].conn \in Conns /\ cur[u].conn # c
      BY <1>5, <2>2, <3>2 DEF Serving, Replying
    <3> QED
      BY <3>1, <3>2 DEF Owed, Paid, Owing
  <2> QED
    BY <2>1, <2>2
<1>8. ASSUME NEW g \in kopen, cf_handler[g] # <<>>
      PROVE  Paid(g, First(g))' \/ \E u \in Threads : Has(u, g)'
  <2>0. g \in Fds /\ First(g)' = First(g) /\ First(g) \in Conns
    BY <1>8, FirstIs DEF TypeOK, First
  <2>1. CASE g = f
    <3>1. CASE pc \in Busy
      BY <1>1, <2>1, <3>1 DEF Has
    <3>2. CASE pc = "poll"
      BY <1>2, <2>0, <2>1, <3>2 DEF Paid
    <3> QED
      BY <3>1, <3>2
  <2>2. CASE g # f
    <3>1. First(g) # c
      BY <1>2, <1>8, <2>0, <2>2 DEF Owners, Heads
    <3>2. Paid(g, First(g)) => Paid(g, First(g))'
      BY <2>0, <3>1 DEF Paid
    <3>3. \A u \in Threads : Has(u, g) => Has(u, g)'
      BY <1>1, <2>2 DEF Has
    <3> QED
      BY <1>8, <3>2, <3>3 DEF Owed
  <2> QED
    BY <2>1, <2>2
<1> QED
  BY <1>4, <1>7, <1>8 DEF Owed

(* A step of a thread that serves nothing, and leaves all this alone.      *)
LEMMA OwedElsewhere ==
  ASSUME TypeOK, Owed, NEW t \in Threads, tpc[t] \notin Serving, NEW pc, NEW w, Goto(t, pc, w),
         UNCHANGED <<conns, kopen, cf_handler, rst, replies, due>>,
         pc \notin Serving, tpc[t] \in Busy => pc \in Busy /\ w.fd = cur[t].fd
  PROVE  Owed'
<1>1. /\ tpc'[t] = pc /\ cur'[t] = w
      /\ \A u \in Threads \ {t} : tpc'[u] = tpc[u] /\ cur'[u] = cur[u]
  BY GotoIs
<1>2. \A u \in Threads : tpc'[u] \in Serving => tpc'[u] = tpc[u] /\ cur'[u] = cur[u]
  BY <1>1
<1>3. \A u \in Threads, g \in Fds : Has(u, g) => Has(u, g)'
  BY <1>1 DEF Has
<1>4. \A u \in Threads :
        /\ tpc'[u] \in {"read", "rearm"} => Paid(cur[u].fd, cur[u].conn)'
        /\ tpc'[u] \in Replying => Owing(cur[u].fd, cur[u].conn)'
  BY <1>2 DEF Owed, Paid, Owing, Serving, Replying
<1>5. ASSUME NEW g \in kopen, cf_handler[g] # <<>>
      PROVE  Paid(g, First(g))' \/ \E u \in Threads : Has(u, g)'
  <2>1. First(g)' = First(g) /\ g \in Fds
    BY DEF First, TypeOK
  <2> QED
    BY <1>3, <1>5, <2>1 DEF Owed, Paid
<1> QED
  BY <1>4, <1>5 DEF Owed

LEMMA OwedAccept ==
  ASSUME TypeOK, JobFits, Owners, Owed, NEW t \in Threads, Accept(t)
  PROVE  Owed'
<1>1. PICK f \in Fds \ kopen : kopen' = kopen \cup {f}
                               /\ Goto(t, "conn", [NoWork EXCEPT !.fd = f, !.acc = TRUE])
  BY DEF Accept
<1>2. UNCHANGED <<conns, cf_handler, rst, replies, due>> /\ tpc[t] = "accept"
  BY DEF Accept, At, mem, hist
<1>w. PICK w : w = [NoWork EXCEPT !.fd = f, !.acc = TRUE]
  OBVIOUS
<1>3. /\ tpc'[t] = "conn" /\ cur'[t] = w /\ w.fd = f
      /\ \A u \in Threads \ {t} : tpc'[u] = tpc[u] /\ cur'[u] = cur[u]
  BY <1>1, <1>w, GotoIs, WorkIs
<1>4. \A u \in Threads : tpc'[u] \in Serving => tpc'[u] = tpc[u] /\ cur'[u] = cur[u]
  BY <1>3 DEF Serving
<1>5. Has(t, f)' /\ \A u \in Threads, g \in Fds : Has(u, g) => Has(u, g)'
  BY <1>2, <1>3 DEF Has, Busy, Serving
<1>6. \A u \in Threads :
        /\ tpc'[u] \in {"read", "rearm"} => Paid(cur[u].fd, cur[u].conn)'
        /\ tpc'[u] \in Replying => Owing(cur[u].fd, cur[u].conn)'
  BY <1>2, <1>4 DEF Owed, Paid, Owing, Serving, Replying
<1>7. ASSUME NEW g \in kopen', cf_handler[g] # <<>>
      PROVE  Paid(g, First(g))' \/ \E u \in Threads : Has(u, g)'
  <2>1. g = f \/ (g \in kopen /\ g \in Fds)
    BY <1>1, <1>7 DEF TypeOK
  <2> QED
    BY <1>2, <1>5, <1>7, <2>1 DEF Owed, Paid, First
<1> QED
  BY <1>2, <1>6, <1>7 DEF Owed

LEMMA OwedConn ==
  ASSUME TypeOK, JobFits, Owners, Owed, NEW t \in Threads, AcceptConn(t)
  PROVE  Owed'
<1>1. PICK f : f = cur[t].fd
  OBVIOUS
<1>2. /\ tpc[t] = "conn" /\ Goto(t, "accept", NoWork)
      /\ UNCHANGED <<kopen, rst, replies, due>>
  BY DEF AcceptConn, At, peer, hist
<1>3. f \in Fds /\ Has(t, f)
  BY <1>1, <1>2 DEF JobFits, Has, Busy
<1>4. PICK c \in Conns \ conns :
        conns' = conns \cup {c} /\ cf_handler' = [cf_handler EXCEPT ![f] = <<c>> \o @]
  BY <1>1 DEF AcceptConn
<1>5. /\ tpc'[t] = "accept"
      /\ \A u \in Threads \ {t} : tpc'[u] = tpc[u] /\ cur'[u] = cur[u]
  BY <1>2, GotoIs
<1>6. \A u \in Threads : tpc'[u] \in Serving => tpc'[u] = tpc[u] /\ cur'[u] = cur[u]
  BY <1>5 DEF Serving
<1>7. \A u \in Threads, g \in Fds : Has(u, g) /\ g # f => Has(u, g)'
  BY <1>1, <1>5 DEF Has
<1>8. First(f)' = c /\ \A g \in Fds \ {f} : cf_handler'[g] = cf_handler[g]
  <2>1. cf_handler[f] \in Seq(Conns) /\ cf_handler'[f] = <<c>> \o cf_handler[f]
    BY <1>3, <1>4 DEF TypeOK
  <2> QED
    BY <1>4, <2>1 DEF TypeOK, First
<1>9. \A u \in Threads :
        /\ tpc'[u] \in {"read", "rearm"} => Paid(cur[u].fd, cur[u].conn)'
        /\ tpc'[u] \in Replying => Owing(cur[u].fd, cur[u].conn)'
  BY <1>2, <1>6 DEF Owed, Paid, Owing, Serving, Replying
<1>10. ASSUME NEW g \in kopen, cf_handler'[g] # <<>>
       PROVE  Paid(g, First(g))' \/ \E u \in Threads : Has(u, g)'
  <2>1. CASE g = f
    BY <1>2, <1>4, <1>8, <2>1 DEF Owed, Paid
  <2>2. CASE g # f
    <3>1. g \in Fds /\ cf_handler[g] # <<>> /\ First(g)' = First(g)
      BY <1>8, <1>10, <2>2 DEF TypeOK, First
    <3> QED
      BY <1>2, <1>7, <2>2, <3>1 DEF Owed, Paid
  <2> QED
    BY <2>1, <2>2
<1>11. \A d \in Conns \ conns' : replies'[d] >= due'[d]
  BY <1>2, <1>4 DEF Owed
<1> QED
  BY <1>2, <1>9, <1>10, <1>11 DEF Owed

LEMMA OwedEvent ==
  ASSUME TypeOK, JobFits, Owners, Owed, NEW t \in Threads, NEW f \in Fds, TakeEvent(t, f)
  PROVE  Owed'
<1>1. /\ tpc[t] = "poll" /\ f \in armed /\ f \in kopen
      /\ Goto(t, "read", [NoWork EXCEPT !.fd = f, !.conn = onread[f]])
      /\ UNCHANGED <<kopen, cf_handler, conns, rst, replies, due>>
  BY DEF TakeEvent, At, table, mem, peer, hist
<1>w. PICK w : w = [NoWork EXCEPT !.fd = f, !.conn = onread[f]]
  OBVIOUS
<1>2. /\ tpc'[t] = "read" /\ cur'[t] = w /\ w.fd = f /\ w.conn = onread[f]
      /\ \A u \in Threads \ {t} : tpc'[u] = tpc[u] /\ cur'[u] = cur[u]
  BY <1>1, <1>w, GotoIs, WorkIs
<1>3. \A u \in Threads, g \in Fds : Has(u, g) => Has(u, g)'
  BY <1>1, <1>2 DEF Has, Busy, Serving
<1>4. Paid(f, onread[f])
  <2>1. cf_handler[f] # <<>> /\ First(f) = onread[f]
    BY <1>1 DEF Owners, Heads
  <2>2. \A u \in Threads : ~Has(u, f)
    BY <1>1 DEF Owners, OneOwner
  <2> QED
    BY <1>1, <2>1, <2>2 DEF Owed
<1>5. ASSUME NEW u \in Threads
      PROVE  /\ tpc'[u] \in {"read", "rearm"} => Paid(cur[u].fd, cur[u].conn)'
             /\ tpc'[u] \in Replying => Owing(cur[u].fd, cur[u].conn)'
  <2>1. CASE u = t
    BY <1>1, <1>2, <1>4, <2>1 DEF Paid, Replying
  <2>2. CASE u # t
    BY <1>1, <1>2, <2>2 DEF Owed, Paid, Owing
  <2> QED
    BY <2>1, <2>2
<1>6. ASSUME NEW g \in kopen, cf_handler[g] # <<>>
      PROVE  Paid(g, First(g))' \/ \E u \in Threads : Has(u, g)'
  BY <1>1, <1>3, <1>6 DEF Owed, Paid, First, TypeOK
<1> QED
  BY <1>1, <1>5, <1>6 DEF Owed

LEMMA OwedKernel ==
  ASSUME TypeOK, JobFits, Owners, Owed, NEW t \in Threads, KernelClose(t)
  PROVE  Owed'
<1>1. PICK f : f = cur[t].fd
  OBVIOUS
<1>2. PICK pc \in {"relisten", "poll"} : Goto(t, pc, NoWork)
  BY DEF KernelClose
<1>3. /\ tpc[t] = "kclose" /\ kopen' = kopen \ {f} /\ rst' = rst \ {f}
      /\ UNCHANGED <<cf_handler, conns, replies, due>>
  BY <1>1 DEF KernelClose, At, table, mem, hist
<1>4. /\ tpc'[t] = pc
      /\ \A u \in Threads \ {t} : tpc'[u] = tpc[u] /\ cur'[u] = cur[u]
  BY <1>2, GotoIs
<1>5. f \in Fds /\ Has(t, f)
  BY <1>1, <1>3 DEF JobFits, Has, Busy
<1>6. \A u \in Threads, g \in Fds : Has(u, g) /\ g # f => Has(u, g)'
  BY <1>1, <1>4 DEF Has
<1>7. ASSUME NEW u \in Threads, tpc'[u] \in Serving
      PROVE  tpc'[u] = tpc[u] /\ cur'[u] = cur[u] /\ cur[u].fd # f
  <2>1. u # t
    BY <1>4, <1>7 DEF Serving
  <2> QED
    BY <1>4, <1>5, <1>7, <2>1 DEF Owners, OneOwner, Has, Busy
<1>8. \A u \in Threads :
        /\ tpc'[u] \in {"read", "rearm"} => Paid(cur[u].fd, cur[u].conn)'
        /\ tpc'[u] \in Replying => Owing(cur[u].fd, cur[u].conn)'
  BY <1>3, <1>7 DEF Owed, Paid, Owing, Serving, Replying
<1>9. ASSUME NEW g \in kopen \ {f}, cf_handler[g] # <<>>
      PROVE  Paid(g, First(g))' \/ \E u \in Threads : Has(u, g)'
  BY <1>3, <1>6, <1>9 DEF Owed, Paid, First, TypeOK
<1> QED
  BY <1>3, <1>8, <1>9 DEF Owed

(* A header is taken, or the parser was done.                              *)
LEMMA OwedHeader ==
  ASSUME TypeOK, JobFits, Owners, Owed, NEW t \in Threads,
         ParseHeader(t) \/ ParseLf(t) \/ ParseDone(t) \/ ParseBad(t)
  PROVE  Owed'
<1>1. PICK f, c : f = cur[t].fd /\ c = cur[t].conn
  OBVIOUS
<1>2. Parses(t) /\ Parsing(t)
  BY DEF Parses, ParseHeader, ParseLf, ParseDone, ParseBad
<1>3. tpc[t] = "read" /\ UNCHANGED <<conns, kopen, cf_handler, rst, replies>>
  BY <1>2 DEF Parsing, ReadChunk, At, mem, table
<1>4. c \in Conns
  BY <1>1, <1>3, ServingWorks DEF Serving
<1>5. PICK pc \in {"select", "replybad"} : Goto(t, pc, cur[t])
  BY DEF ParseHeader, ParseLf, ParseDone, ParseBad
<1>6. due' = due \/ due' = [due EXCEPT ![c] = @ + 1]
  BY <1>1 DEF ParseHeader, ParseLf, ParseDone, ParseBad
<1>7. /\ \A d \in Conns \ {c} : due'[d] = due[d]
      /\ due'[c] \in {due[c], due[c] + 1} /\ due[c] \in Nat /\ replies[c] \in Nat
  BY <1>4, <1>6 DEF TypeOK
<1>8. Owing(f, c)'
  <2>1. Paid(f, c)
    BY <1>1, <1>3 DEF Owed
  <2>2. replies[c] >= due[c] => replies[c] + 1 >= due'[c]
    BY <1>7
  <2> QED
    BY <1>3, <2>1, <2>2 DEF Paid, Owing
<1>9. pc \in (Busy \cup {"poll"}) \ {"read"} /\ pc \notin {"rearm", "poll"} /\ tpc[t] \in Serving
  BY <1>3 DEF Busy, Serving
<1> QED
  BY <1>1, <1>3, <1>5, <1>7, <1>8, <1>9, OwedServing

LEMMA OwedReply ==
  ASSUME TypeOK, JobFits, Owners, Owed, NEW t \in Threads, Reply(t)
  PROVE  Owed'
<1>1. PICK f, c : f = cur[t].fd /\ c = cur[t].conn
  OBVIOUS
<1>2. /\ tpc[t] \in {"reply", "replybad"} /\ tpc[t] \in Serving
      /\ UNCHANGED <<conns, kopen, cf_handler, rst, due>>
  BY DEF Reply, Serving, mem, table, peer
<1>3. c \in Conns
  BY <1>1, <1>2, ServingWorks
<1>4. PICK pc, w : /\ Goto(t, pc, w) /\ pc \in {"rearm", "poll"}
                   /\ pc = "rearm" => w = cur[t]
  BY DEF Reply
<1>5. f \in rst \/ replies' = [replies EXCEPT ![c] = @ + 1]
  BY <1>1 DEF Reply
<1>6. replies' = replies \/ replies' = [replies EXCEPT ![c] = @ + 1]
  BY <1>1 DEF Reply
<1>7. \A d \in Conns \ {c} : replies'[d] = replies[d]
  BY <1>6 DEF TypeOK
<1>8. Paid(f, c)'
  <2>1. Owing(f, c)
    BY <1>1, <1>2 DEF Owed, Replying
  <2>2. CASE f \in rst
    BY <1>2, <2>2 DEF Paid
  <2>3. CASE f \notin rst
    <3>1. replies'[c] = replies[c] + 1
      BY <1>3, <1>5, <2>3 DEF TypeOK
    <3> QED
      BY <1>2, <2>1, <2>3, <3>1 DEF Paid, Owing
  <2> QED
    BY <2>2, <2>3
<1>9. pc \in (Busy \cup {"poll"}) \ {"read"} /\ pc \notin Replying /\ (pc \in Busy => pc = "rearm")
  BY <1>4 DEF Busy, Serving, Replying
<1> QED
  BY <1>1, <1>2, <1>4, <1>7, <1>8, <1>9, OwedServing

(* The other steps of a callback.                                          *)
LEMMA OwedSame ==
  ASSUME TypeOK, JobFits, Owners, Owed, NEW t \in Threads, tpc[t] \in Serving,
         UNCHANGED <<conns, kopen, cf_handler, rst, replies, due>>,
         NEW pc, NEW w, Goto(t, pc, w), pc \in {"close", "inc", "reply", "poll"},
         pc # "poll" => w.fd = cur[t].fd /\ w.conn = cur[t].conn,
         pc \in {"inc", "reply"} => tpc[t] \in Replying,
         pc = "poll" => tpc[t] \in {"read", "rearm"}
  PROVE  Owed'
<1>1. PICK f, c : f = cur[t].fd /\ c = cur[t].conn
  OBVIOUS
<1>2. pc = "poll" => Paid(f, c)'
  BY <1>1 DEF Owed, Paid
<1>3. pc \in Replying => Owing(f, c)'
  BY <1>1 DEF Owed, Owing, Replying
<1>4. pc \in (Busy \cup {"poll"}) \ {"read"} /\ pc # "rearm" /\ (pc \in Busy => pc # "poll")
  BY DEF Busy, Serving
<1> QED
  BY <1>1, <1>2, <1>3, <1>4, OwedServing

LEMMA OwedStep ==
  ASSUME TypeOK, JobFits, Owners, Owed, Next
  PROVE  Owed'
<1>1. CASE CloseServer \/ Peers
  <2>1. /\ UNCHANGED <<conns, kopen, cf_handler, tpc, cur, replies, due>>
        /\ rst \subseteq rst'
    BY <1>1 DEF CloseServer, Peers, Connect, Send, PeerCloses, PeerResets, OnlyPeer, table, mem,
       hist
  <2> QED
    BY <2>1, ZenonT(60) DEF Owed, Paid, Owing, Has, First
<1>2. ASSUME NEW t \in Threads, ThreadStep(t) PROVE Owed'
  <2>0. cur[t] \in Works
    BY DEF TypeOK
  <2>1. CASE TakeListener(t) \/ AcceptEnds(t) \/ Relisten(t)
    <3>1. PICK pc \in {"accept", "relisten", "poll"} : Goto(t, pc, NoWork)
      BY <2>1 DEF TakeListener, AcceptEnds, Relisten
    <3>2. /\ UNCHANGED <<conns, kopen, cf_handler, rst, replies, due>>
          /\ tpc[t] \in {"poll", "accept", "relisten"}
      BY <2>1 DEF TakeListener, AcceptEnds, Relisten, At, mem, table, peer, hist
    <3> QED
      BY <3>1, <3>2, OwedElsewhere DEF Busy, Serving
  <2>2. CASE AcceptGivesUp(t) \/ CloseHandler(t) \/ CloseNoHandler(t)
    <3>1. /\ UNCHANGED <<conns, kopen, cf_handler, rst, replies, due>>
          /\ tpc[t] \in {"conn", "close"}
      BY <2>2 DEF AcceptGivesUp, CloseHandler, CloseNoHandler, At, mem, table, peer, hist
    <3>2. \/ UNCHANGED <<tpc, cur>>
          \/ \E pc \in {"close", "kclose"} : Goto(t, pc, cur[t])
      BY <2>2 DEF AcceptGivesUp, CloseHandler, CloseNoHandler
    <3>3. CASE UNCHANGED <<tpc, cur>>
      BY <3>1, <3>3 DEF Owed, Paid, Owing, Has, First
    <3> QED
      BY <3>1, <3>2, <3>3, OwedElsewhere DEF Busy, Serving
  <2>3. CASE ReadCloses(t) \/ ReadEof(t) \/ ReadBody(t)
    <3>1. /\ UNCHANGED <<conns, kopen, cf_handler, rst, replies, due>> /\ tpc[t] = "read"
      BY <2>3 DEF ReadCloses, ReadEof, ReadBody, ReadChunk, At, mem, table, peer, hist
    <3>2. Goto(t, "close", cur[t]) \/ Goto(t, "poll", NoWork)
      BY <2>3 DEF ReadCloses, ReadEof, ReadBody
    <3> QED
      BY <3>1, <3>2, OwedSame DEF Serving
  <2>4. CASE ParseLine(t) \/ ParseField(t) \/ ParsePart(t)
    <3>1. /\ UNCHANGED <<conns, kopen, cf_handler, rst, replies, due>> /\ tpc[t] = "read"
          /\ Goto(t, "poll", NoWork)
      BY <2>4 DEF ParseLine, ParseField, ParsePart, Parsing, ReadChunk, Again, At, mem, table
    <3> QED
      BY <3>1, OwedSame DEF Serving
  <2>5. CASE ParseWild(t)
    BY <2>5 DEF ParseWild, Parsing, ReadChunk, Owed, Paid, Owing, Has, First, mem, table
  <2>6. CASE SelectGet(t) \/ SelectInc(t)
    <3>1. /\ UNCHANGED <<conns, kopen, cf_handler, rst, replies, due>>
          /\ tpc[t] \in {"select", "inc"}
      BY <2>6 DEF SelectGet, SelectInc, At, mem, table, peer, hist
    <3>w. PICK v : v = [cur[t] EXCEPT !.m = Remainder(curr)]
      OBVIOUS
    <3>v. v.fd = cur[t].fd /\ v.conn = cur[t].conn
      BY <2>0, <3>w, WorkIs
    <3>2. \E pc \in {"inc", "reply"} : \E w :
            Goto(t, pc, w) /\ w.fd = cur[t].fd /\ w.conn = cur[t].conn
      BY <2>6, <3>w, <3>v DEF SelectGet, SelectInc
    <3> QED
      BY <3>1, <3>2, OwedSame DEF Serving, Replying
  <2>7. CASE Rearm(t)
    <3>1. /\ UNCHANGED <<conns, kopen, cf_handler, rst, replies, due>> /\ tpc[t] = "rearm"
          /\ Goto(t, "poll", NoWork)
      BY <2>7 DEF Rearm, Again, At, mem, table, peer, hist
    <3> QED
      BY <3>1, OwedSame DEF Serving
  <2> QED
    BY <1>2, <2>1, <2>2, <2>3, <2>4, <2>5, <2>6, <2>7, OwedAccept, OwedConn, OwedEvent,
       OwedKernel, OwedHeader, OwedReply DEF ThreadStep
<1> QED
  BY <1>1, <1>2 DEF Next

-----------------------------------------------------------------------------
(* The backends are selected in turn.                                      *)

LEMMA EvenSame ==
  ASSUME TypeOK, Even, InArray, NEW t \in Threads, UNCHANGED <<back, http_server>>,
         \E pc, w : Goto(t, pc, w) /\ pc # "inc"
  PROVE  Even' /\ InArray'
<1>1. \A u \in Threads : tpc'[u] = "inc" => tpc[u] = "inc" /\ cur'[u] = cur[u]
  BY GotoIs
<1>2. UNCHANGED <<curr, raced, wrapped, picked>>
  BY DEF back
<1> QED
  BY <1>1, <1>2 DEF Even, InArray, BackendInArray

LEMMA EvenGet ==
  ASSUME TypeOK, Even, InArray, NEW t \in Threads, SelectGet(t)
  PROVE  Even' /\ InArray'
<1>1. PICK w : w = [cur[t] EXCEPT !.m = Remainder(curr)]
  OBVIOUS
<1>2. /\ Goto(t, "inc", w) /\ UNCHANGED <<curr, wrapped, picked, http_server>>
      /\ raced' = (raced \/ \E u \in Threads \ {t} : tpc[u] = "inc")
  BY <1>1 DEF SelectGet, lis
<1>3. /\ tpc'[t] = "inc" /\ cur'[t].m = Remainder(curr)
      /\ \A u \in Threads \ {t} : tpc'[u] = tpc[u] /\ cur'[u] = cur[u]
  <2>1. cur[t] \in Works
    BY DEF TypeOK
  <2>2. w.m = Remainder(curr)
    BY <1>1, <2>1, WorkIs
  <2> QED
    BY <1>2, <2>2, GotoIs
<1>4. ASSUME ~raced', ~wrapped, http_server
      PROVE  ~raced /\ cur'[t].m = curr % Backends /\ \A u \in Threads \ {t} : tpc'[u] # "inc"
  <2>1. ~raced /\ \A u \in Threads \ {t} : tpc[u] # "inc"
    BY <1>2, <1>4 DEF TypeOK
  <2>2. curr \in Int /\ curr >= 0
    BY <1>4, <2>1, HttpConnAssumption DEF Even, TypeOK
  <2> QED
    BY <1>3, <2>1, <2>2, RemainderIs
<1>5. ASSUME ~wrapped PROVE curr >= 0 /\ Remainder(curr) \in 0 .. Backends - 1
  <2>1. curr \in Nat
    BY <1>5, HttpConnAssumption DEF InArray, TypeOK
  <2>2. curr % Backends \in 0 .. Backends - 1
    BY <2>1, DivMod, HttpConnAssumption
  <2> QED
    BY <2>1, <2>2, RemainderIs
<1>6. DOMAIN picked = 0 .. Backends - 1 /\ picked' = picked
  BY <1>2 DEF TypeOK
<1>7. InArray'
  BY <1>2, <1>3, <1>5, <1>6 DEF InArray, BackendInArray
<1> QED
  BY <1>2, <1>3, <1>4, <1>7 DEF Even

LEMMA EvenInc ==
  ASSUME TypeOK, Even, InArray, NEW t \in Threads, SelectInc(t)
  PROVE  Even' /\ InArray'
<1>1. PICK m : m = cur[t].m
  OBVIOUS
<1>2. /\ tpc[t] = "inc" /\ Goto(t, "reply", cur[t]) /\ UNCHANGED <<raced, http_server>>
      /\ curr' = IF curr = CurrMax THEN -CurrMax - 1 ELSE curr + 1
      /\ wrapped' = (wrapped \/ curr = CurrMax)
      /\ picked' = IF m \in DOMAIN picked THEN [picked EXCEPT ![m] = @ + 1] ELSE picked
  BY <1>1 DEF SelectInc, At, lis
<1>3. tpc'[t] = "reply" /\ \A u \in Threads \ {t} : tpc'[u] = tpc[u]
  BY <1>2, GotoIs
<1>0. InArray'
  <2>1. ASSUME ~wrapped' PROVE curr' >= 0 /\ BackendInArray
    <3>1. ~wrapped /\ curr # CurrMax
      BY <1>2, <2>1 DEF TypeOK
    <3>2. curr >= 0 /\ BackendInArray /\ curr' = curr + 1 /\ curr \in Int
      BY <1>2, <3>1, HttpConnAssumption DEF InArray, TypeOK
    <3> QED
      BY <3>2
  <2>2. \A u \in Threads : tpc'[u] = "inc" => tpc[u] = "inc" /\ cur'[u] = cur[u]
    BY <1>2, GotoIs
  <2>3. DOMAIN picked' = DOMAIN picked
    BY <1>2 DEF TypeOK
  <2> QED
    BY <2>1, <2>2, <2>3 DEF InArray, BackendInArray
<1>4. SUFFICES ASSUME ~raced, ~wrapped', http_server
               PROVE  /\ curr' >= 0 /\ \A u \in Threads : tpc'[u] # "inc"
                      /\ \A b \in 0 .. Backends - 1 :
                           picked'[b] = IF b < curr' % Backends THEN curr' \div Backends + 1
                                                                ELSE curr' \div Backends
  BY <1>0, <1>2 DEF Even
<1>5. ~wrapped /\ curr # CurrMax /\ curr \in Nat /\ curr' = curr + 1
  <2>1. ~wrapped /\ curr # CurrMax
    BY <1>2, <1>4 DEF TypeOK
  <2>2. curr >= 0 /\ curr \in -CurrMax - 1 .. CurrMax
    BY <1>4, <2>1 DEF Even, TypeOK
  <2> QED
    BY <1>2, <2>1, <2>2, HttpConnAssumption
<1>6. /\ m = curr % Backends /\ \A u \in Threads \ {t} : tpc[u] # "inc"
      /\ \A b \in 0 .. Backends - 1 :
           picked[b] = IF b < curr % Backends THEN curr \div Backends + 1 ELSE curr \div Backends
  BY <1>1, <1>2, <1>4, <1>5 DEF Even
<1>7. /\ m \in 0 .. Backends - 1 /\ curr \div Backends \in Nat
      /\ m < Backends - 1 => curr' % Backends = m + 1 /\ curr' \div Backends = curr \div Backends
      /\ m = Backends - 1 => curr' % Backends = 0 /\ curr' \div Backends = curr \div Backends + 1
  BY <1>5, <1>6, DivMod, HttpConnAssumption
<1>8. picked'[m] = picked[m] + 1 /\ \A b \in 0 .. Backends - 1 : b # m => picked'[b] = picked[b]
  BY <1>2, <1>7 DEF TypeOK
<1>9. PICK q : q = curr \div Backends
  OBVIOUS
<1>10. ASSUME NEW b \in 0 .. Backends - 1
       PROVE  picked'[b] = IF b < curr' % Backends THEN curr' \div Backends + 1
                                                   ELSE curr' \div Backends
  <2>1. q \in Nat /\ Backends \in Nat \ {0}
    BY <1>7, <1>9, HttpConnAssumption
  <2>2. picked'[b] = IF b <= m THEN q + 1 ELSE q
    BY <1>6, <1>7, <1>8, <1>9, <2>1
  <2>3. CASE m < Backends - 1
    BY <1>7, <1>9, <2>1, <2>2, <2>3
  <2>4. CASE m = Backends - 1
    BY <1>7, <1>9, <2>1, <2>2, <2>4
  <2> QED
    BY <1>7, <2>1, <2>3, <2>4
<1> QED
  BY <1>3, <1>5, <1>6, <1>10

LEMMA EvenStep ==
  ASSUME TypeOK, JobFits, Even, InArray, Next
  PROVE  Even' /\ InArray'
<1>1. CASE CloseServer
  BY <1>1 DEF CloseServer, Even, InArray, BackendInArray
<1>2. CASE Peers
  BY <1>2 DEF Peers, Connect, Send, PeerCloses, PeerResets, OnlyPeer, Even, InArray, BackendInArray,
     back, lis
<1>3. ASSUME NEW t \in Threads, ThreadStep(t) PROVE Even' /\ InArray'
  <2>1. CASE \/ TakeListener(t) \/ Accept(t) \/ AcceptConn(t) \/ AcceptGivesUp(t)
             \/ AcceptEnds(t) \/ Relisten(t)
    <3>1. UNCHANGED <<back, http_server>>
      BY <2>1 DEF TakeListener, Accept, AcceptConn, AcceptGivesUp, AcceptEnds, Relisten, lis
    <3> QED
      BY <2>1, <3>1, Targets, EvenSame
  <2>2. CASE (\E f \in Fds : TakeEvent(t, f)) \/ ReadCloses(t) \/ ReadEof(t) \/ ReadBody(t)
    <3>1. UNCHANGED <<back, http_server>>
      BY <2>2 DEF TakeEvent, ReadCloses, ReadEof, ReadBody, ReadChunk, lis
    <3> QED
      BY <2>2, <3>1, Targets, EvenSame
  <2>3. CASE Parses(t)
    <3>1. UNCHANGED <<back, http_server>>
      BY <2>3 DEF Parses, ParseLine, ParseField, ParseHeader, ParseLf, ParseDone, ParsePart,
         ParseBad, Parsing, ReadChunk, lis
    <3>2. \E pc, w : Goto(t, pc, w) /\ pc # "inc"
      BY <2>3, Targets DEF Parses
    <3> QED
      BY <3>1, <3>2, EvenSame
  <2>4. CASE ParseWild(t)
    BY <2>4 DEF ParseWild, Parsing, ReadChunk, Even, InArray, BackendInArray, back, lis
  <2>5. CASE Reply(t) \/ Rearm(t)
    BY <2>5, EvenSame DEF Reply, Rearm, Again, lis
  <2>6. CASE CloseHandler(t) \/ CloseNoHandler(t) \/ KernelClose(t)
    <3>1. UNCHANGED <<back, http_server>>
      BY <2>6 DEF CloseHandler, CloseNoHandler, KernelClose, lis
    <3>2. (\E pc, w : Goto(t, pc, w) /\ pc # "inc") \/ UNCHANGED <<tpc, cur>>
      BY <2>6 DEF CloseHandler, CloseNoHandler, KernelClose
    <3>3. CASE UNCHANGED <<tpc, cur>>
      BY <3>1, <3>3 DEF Even, InArray, BackendInArray, back
    <3> QED
      BY <3>1, <3>2, <3>3, EvenSame
  <2> QED
    BY <1>3, <2>1, <2>2, <2>3, <2>4, <2>5, <2>6, EvenGet, EvenInc DEF ThreadStep, Parses
<1> QED
  BY <1>1, <1>2, <1>3 DEF Next

-----------------------------------------------------------------------------
(* Every step keeps the invariant.                                         *)
LEMMA InvStep == Inv /\ [Next]_vars => Inv'
<1> SUFFICES ASSUME Inv, [Next]_vars PROVE Inv'
  OBVIOUS
<1>1. CASE Next
  <2>1. TypeOK'
    <3>1. ASSUME NEW t \in Threads, ThreadStep(t) PROVE TypeOK'
      BY <3>1, TypeAccept, TypeRead, TypeParse, TypeReply, TypeClose DEF Inv, ThreadStep, Parses
    <3> QED
      BY <1>1, <3>1, TypeElse DEF Inv, Next
  <2> QED
    BY <1>1, <2>1, JobStep, OwnersStep, ReusedStep, AnsweredStep, OwedStep, EvenStep DEF Inv
<1>2. CASE UNCHANGED vars
  <2>1. TypeOK' /\ JobFits' /\ Listener' /\ Owners' /\ Answered' /\ Even' /\ InArray'
    BY <1>2 DEF Inv, vars, table, epoll, lis, peer, mem, back, hist, TypeOK, JobFits, Listener,
       Accepting, Owners, OneOwner, OneConn, Heads, Kept, Left, First, Has, Answered, Even,
       InArray, BackendInArray
  <2>2. UnlessReused'
    BY <1>2 DEF Inv, vars, table, mem, UnlessReused, BreaksOnlyReused, Entries, Buffers, Live,
       BufOf, Has
  <2>3. Owed'
    BY <1>2 DEF Inv, vars, table, peer, mem, hist, Owed, Paid, Owing, First, Has
  <2> QED
    BY <2>1, <2>2, <2>3 DEF Inv
<1> QED
  BY <1>1, <1>2

(* Every variable keeps its shape; registered descriptors are open ones.   *)
THEOREM TypeCorrect == Spec => []TypeOK
<1>1. Inv => TypeOK
  BY DEF Inv
<1> QED
  BY InvInit, InvStep, <1>1, PTL DEF Spec

(* While the process lives and the server is open, the listener is armed   *)
(* or in the hands of exactly one thread: plm_http_accept() arms it again  *)
(* or ends the process, whatever fails inside the accept loop.             *)
THEOREM ListenerServedHolds == Spec => []ListenerServed
<1>1. Inv => ListenerServed
  <2> SUFFICES ASSUME Inv, failed = "no", http_server
               PROVE  Cardinality({t \in Threads : Accepting(t)}) = IF lis_armed THEN 0 ELSE 1
    BY DEF ListenerServed
  <2>1. Listener
    BY DEF Inv
  <2>2. CASE lis_armed
    <3>1. {t \in Threads : Accepting(t)} = {}
      BY <2>1, <2>2 DEF Listener
    <3> QED
      BY <2>2, <3>1, FS_EmptySet
  <2>3. CASE ~lis_armed
    <3>1. PICK t \in Threads : Accepting(t) /\ \A u \in Threads : Accepting(u) => u = t
      BY <2>1, <2>3 DEF Listener
    <3>2. {u \in Threads : Accepting(u)} = {t}
      BY <3>1
    <3> QED
      BY <2>3, <3>2, FS_Singleton
  <2> QED
    BY <2>2, <2>3
<1> QED
  BY InvInit, InvStep, <1>1, PTL DEF Spec

(* Until a number is used again, the buffers that are out are those of the *)
(* live connections, each with its own: plm_http_conn_free() runs once for *)
(* each connection, before its number is free.                             *)
THEOREM BuffersOwnedHolds == Spec => []BuffersOwned
<1>1. Inv => BuffersOwned
  <2> SUFFICES ASSUME Inv, ~stale
               PROVE  /\ \A f, g \in Live : BufOf(f) = BufOf(g) => f = g
                      /\ {BufOf(f) : f \in Live} = bufs
    BY DEF BuffersOwned
  <2>1. Buffers
    BY DEF Inv, UnlessReused
  <2> QED
    BY <2>1 DEF Buffers
<1> QED
  BY InvInit, InvStep, <1>1, PTL DEF Spec

(* Until a number is used again, an armed descriptor has one close handler,*)
(* that of the conn that plm_http_read_req() will be called with, a buffer *)
(* that has not been freed, and no thread that is still busy with it.      *)
THEOREM ArmedIsServedHolds == Spec => []ArmedIsServed
<1>1. Inv => ArmedIsServed
  <2> SUFFICES ASSUME Inv, ~stale, NEW f \in armed
               PROVE  /\ cf_handler[f] = <<onread[f]>> /\ BufOf(f) \in bufs
                      /\ \A t \in Threads : ~HasFd(t, f)
    BY DEF ArmedIsServed
  <2>1. /\ f \in Fds /\ f \in kopen /\ cf_handler[f] # <<>> /\ First(f) = onread[f]
        /\ cf_handler[f] \in Seq(Conns)
    BY DEF Inv, TypeOK, Owners, Heads
  <2>2. \A t \in Threads : ~Has(t, f)
    BY <2>1 DEF Inv, Owners, OneOwner
  <2>3. Entries /\ Buffers
    BY DEF Inv, UnlessReused
  <2>4. cf_open[f] /\ Len(cf_handler[f]) = 1
    BY <2>1, <2>2, <2>3 DEF Entries
  <2>5. cf_handler[f] = <<onread[f]>>
    BY <2>1, <2>4 DEF First
  <2>6. BufOf(f) \in bufs
    BY <2>1, <2>3, <2>4 DEF Buffers, Live
  <2>7. \A t \in Threads : HasFd(t, f) => Has(t, f)
    BY DEF Inv, TypeOK, Pcs, HasFd, Has, Busy, Serving
  <2> QED
    BY <2>2, <2>5, <2>6, <2>7
<1> QED
  BY InvInit, InvStep, <1>1, PTL DEF Spec

(* While the process lives, an open connection that no thread has in hand  *)
(* has been answered all that it was owed, and is armed, or was left by    *)
(* plm_http_read_req() as refused, as ended or with part of a body.        *)
THEOREM NothingLostHolds == Spec => []NothingLost
<1>1. Inv => NothingLost
  <2> SUFFICES ASSUME Inv, failed = "no", NEW f \in kopen, ~\E t \in Threads : HasFd(t, f)
               PROVE  /\ cf_handler[f] # <<>> /\ Paid(f, cf_handler[f][1])
                      /\ f \in armed \/ GivenUp(f)
    BY DEF NothingLost
  <2>1. f \in Fds /\ ~\E t \in Threads : Has(t, f)
    BY DEF Inv, TypeOK, Has, HasFd, Busy, Serving
  <2>2. f \in armed \/ Left(f)
    BY <2>1 DEF Inv, Owners, Kept
  <2>3. cf_handler[f] # <<>>
    BY <2>2 DEF Left, Inv, Owners, Heads
  <2>4. Paid(f, First(f))
    BY <2>1, <2>3 DEF Inv, Owed
  <2>5. Left(f) => GivenUp(f)
    BY DEF Left, LeftFor, First, GivenUp, Refused, Ended, Dropped
  <2> QED
    BY <2>2, <2>3, <2>4, <2>5 DEF First
<1> QED
  BY InvInit, InvStep, <1>1, PTL DEF Spec

(* As long as its blank line has not come in two reads, no header is       *)
(* answered twice and nothing else is answered, whatever the clients send  *)
(* and however the threads interleave.                                     *)
THEOREM AnsweredOnceHolds == Spec => []AnsweredOnce
<1>1. Inv => AnsweredOnce
  BY DEF Inv, Answered, AnsweredOnce
<1> QED
  BY InvInit, InvStep, <1>1, PTL DEF Spec

(* plm_http_backend_select() goes round the backends, for every number of  *)
(* them, until two threads are inside it at once or the counter wraps.     *)
THEOREM EvenUnlessRacedHolds == Spec => []EvenUnlessRaced
<1>1. Inv => EvenUnlessRaced
  <2> SUFFICES ASSUME Inv, ~raced, ~wrapped, http_server,
                      NEW a \in DOMAIN picked, NEW b \in DOMAIN picked
               PROVE  picked[a] <= picked[b] + 1
    BY DEF EvenUnlessRaced
  <2>1. DOMAIN picked = 0 .. Backends - 1 /\ curr \in Nat
    BY HttpConnAssumption DEF Inv, TypeOK, Even
  <2>2. PICK q : q = curr \div Backends
    OBVIOUS
  <2>3. q \in Nat
    BY <2>1, <2>2, DivMod, HttpConnAssumption
  <2>4. picked[a] \in {q, q + 1} /\ picked[b] \in {q, q + 1}
    BY <2>1, <2>2 DEF Inv, Even
  <2> QED
    BY <2>3, <2>4
<1> QED
  BY InvInit, InvStep, <1>1, PTL DEF Spec

(* Also when threads race, the index that plm_http_backend_select() uses   *)
(* is in the array until the counter has wrapped.                          *)
THEOREM InArrayUntilWrapped == Spec => [](~wrapped => BackendInArray)
<1>1. Inv => (~wrapped => BackendInArray)
  BY DEF Inv, InArray
<1> QED
  BY InvInit, InvStep, <1>1, PTL DEF Spec

(* A buffer is freed twice, or an assertion of plm_comm.c fails, only      *)
(* after a number whose close handlers were left has been accepted again:  *)
(* no other interleaving does it.                                          *)
THEOREM BreaksOnlyReusedHolds == Spec => []BreaksOnlyReused
<1>1. Inv => BreaksOnlyReused
  BY DEF Inv, UnlessReused
<1> QED
  BY InvInit, InvStep, <1>1, PTL DEF Spec
=============================================================================
