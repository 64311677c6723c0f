---------------------------- MODULE Echo_proofs ----------------------------
(***************************************************************************)
(* Proofs about module Echo, for every number of threads, descriptors and  *)
(* clients, every echo_str, and whichever calls fail.                      *)
(*                                                                         *)
(* The invariant says who owns what.  An open descriptor is armed in a     *)
(* poller or in the hands of one thread; a client object goes with it: it  *)
(* is in the handler table while the descriptor is armed, and with the     *)
(* thread while it is not.  The tables follow the owner: cf_open is false  *)
(* for an open descriptor only between accept() and the opening of its     *)
(* entry, and between the closing of its entry and close().                *)
(***************************************************************************)
EXTENDS Echo, TLAPS

(* Where a thread has a descriptor in its hands.                           *)
Busy == {"setup", "handle", "close", "kclose"}

(* Only the thread that accepts has the flag of the accept loop.           *)
AccPc ==
  \A t \in Threads :
    /\ cur[t].acc => tpc[t] \in {"setup", "close", "kclose", "free"}
    /\ tpc[t] = "setup" => cur[t].acc
    /\ tpc[t] \in Busy \cup {"free"} => cur[t].fd \in Fds

Has(t, f) == tpc[t] \in Busy /\ cur[t].fd = f

(* A descriptor has one owner: a thread, or the poller it is armed in.     *)
OneOwner ==
  /\ \A t \in Threads, f \in Fds : Has(t, f) =>
       /\ f \in kopen /\ armed[f] = "no"
       /\ \A u \in Threads : Has(u, f) => u = t
  /\ \A f \in kopen : armed[f] = "no" => \E t \in Threads : Has(t, f)

(* The tables and the pollers agree with the owner.                        *)
Agrees(f) ==
  /\ cf_open[f] <=> /\ f \in kopen
                    /\ \A t \in Threads : Has(t, f) => tpc[t] \notin {"setup", "kclose"}
  /\ armed[f] # "no" => f \in kopen /\ cf_associate[f] /\ poller[f] # Null
  /\ \A t \in Threads : Has(t, f) =>
       /\ tpc[t] \in {"setup", "kclose"} => ~cf_associate[f]
       /\ tpc[t] = "setup" => poller[f] = Null
       /\ tpc[t] = "handle" => cf_associate[f] /\ poller[f] = t
  /\ f \notin kopen => ~cf_associate[f] /\ poller[f] = Null
TablesAgree == \A f \in Fds : Agrees(f)

(* An armed descriptor has a callback for what it is armed for, and no     *)
(* other is left in the handler table.                                     *)
Handlers ==
  \A f \in Fds :
    /\ armed[f] = "in" <=> onread[f] # Null
    /\ armed[f] = "out" <=> onwrite[f] # Null

(* What a thread works on: one client in a callback, that client after a   *)
(* close, none elsewhere.                                                  *)
WorkFits ==
  \A t \in Threads :
    /\ tpc[t] \notin {"close", "kclose", "free"} => cur[t].free = Null
    /\ tpc[t] # "handle" => cur[t].rd = Null /\ cur[t].wr = Null
    /\ tpc[t] = "handle" => (cur[t].rd = Null <=> cur[t].wr # Null)

(* A client object has one owner, and none is lost.                        *)
ClientOf(f) == IF armed[f] = "in" THEN onread[f] ELSE onwrite[f]
OneClient ==
  /\ \A t \in Threads :
       /\ Uses(t) \subseteq alloc
       /\ \A u \in Threads \ {t} : Uses(t) \cap Uses(u) = {}
  /\ \A f \in Fds : armed[f] # "no" =>
       /\ ClientOf(f) \in alloc
       /\ \A t \in Threads : ClientOf(f) \notin Uses(t)
       /\ \A g \in Fds \ {f} : armed[g] # "no" => ClientOf(g) # ClientOf(f)
  /\ \A c \in alloc :
       \/ \E t \in Threads : c \in Uses(t)
       \/ \E f \in Fds : armed[f] # "no" /\ c = ClientOf(f)

Sound == OneOwner /\ TablesAgree /\ Handlers /\ WorkFits /\ OneClient

Inv ==
  /\ TypeOK /\ AccPc /\ OneAcceptor /\ AssertionsHold
  /\ ~fault => Sound

-----------------------------------------------------------------------------
(* The initial state has the invariant.                                    *)
LEMMA InvInit == Init => Inv
<1> SUFFICES ASSUME Init PROVE Inv
  OBVIOUS
<1> USE EchoAssumption DEF Init
<1>1. NoWork \in Works
  BY DEF NoWork, Works
<1>2. /\ cf_open \in [Fds -> BOOLEAN] /\ cf_associate \in [Fds -> BOOLEAN]
  OBVIOUS
<1>3. TypeOK
  BY <1>1, <1>2 DEF TypeOK, Pcs
<1>4. AccPc /\ OneAcceptor /\ AssertionsHold
  BY DEF AccPc, Busy, OneAcceptor, Accepting, AssertionsHold, NoWork
<1>5. \A t \in Threads : Uses(t) = {} /\ \A f \in Fds : ~Has(t, f)
  BY DEF Uses, Has, Busy, NoWork
<1>6. ASSUME ~fault PROVE Sound
  <2>1. OneOwner
    BY <1>5 DEF OneOwner
  <2>2. \A f \in Fds : ~cf_open[f] /\ ~cf_associate[f]
    BY <1>6
  <2>3. TablesAgree
    BY <1>5, <2>2 DEF TablesAgree, Agrees
  <2>4. Handlers /\ WorkFits
    BY DEF Handlers, WorkFits, NoWork
  <2>5. OneClient
    BY <1>5 DEF OneClient
  <2> QED
    BY <2>1, <2>3, <2>4, <2>5 DEF Sound
<1> QED
  BY <1>3, <1>4, <1>6 DEF Inv

(* The kinds of work a thread takes up.                                    *)
LEMMA WorkTypes ==
  /\ NoWork \in Works
  /\ \A f \in Fds : [NoWork EXCEPT !.fd = f, !.acc = TRUE] \in Works
  /\ \A f \in Fds, rd, wr \in Clients \cup {Null} :
       [NoWork EXCEPT !.fd = f, !.rd = rd, !.wr = wr] \in Works
  /\ \A w \in Works :
       /\ w.rd \in Clients \cup {Null} /\ w.wr \in Clients \cup {Null}
       /\ w.free \in Clients \cup {Null} /\ w.acc \in BOOLEAN
       /\ [w EXCEPT !.rd = Null] \in Works /\ [w EXCEPT !.wr = Null] \in Works
       /\ [w EXCEPT !.free = Null] \in Works
       /\ [w EXCEPT !.rd = Null, !.free = w.rd] \in Works
       /\ [w EXCEPT !.rd = w.wr, !.wr = Null] \in Works
BY DEF NoWork, Works

-----------------------------------------------------------------------------
(* Every step keeps the types.                                             *)

LEMMA CtlTypes ==
  ASSUME TypeOK, NEW t \in Threads, NEW f, NEW dir \in {"in", "out"},
         Ctl(t, f, dir) \/ CtlFails(t, f)
  PROVE  /\ cf_open' \in [Fds -> BOOLEAN] /\ cf_associate' \in [Fds -> BOOLEAN]
         /\ poller' \in [Fds -> Threads \cup {Null}]
         /\ armed' \in [Fds -> {"in", "out", "no"}]
         /\ lis_armed' \in BOOLEAN /\ fault' \in BOOLEAN
BY ZenonT(60) DEF TypeOK, Ctl, CtlFails, CtlWorks, table, epoll

LEMMA GotoTypes ==
  ASSUME TypeOK, NEW t \in Threads, \E pc \in Pcs, w \in Works : Goto(t, pc, w)
  PROVE  tpc' \in [Threads -> Pcs] /\ cur' \in [Threads -> Works]
BY DEF TypeOK, Goto

LEMMA TypeAccept ==
  ASSUME TypeOK, AccPc, NEW t \in Threads,
         \/ TakeListener(t) \/ Accept(t) \/ AcceptFails(t) \/ AcceptSetup(t)
         \/ AcceptGivesUp(t) \/ AcceptDone(t)
  PROVE  TypeOK'
<1> DEFINE Turn == \E pc \in Pcs, w \in Works : Goto(t, pc, w)
<1>1. CASE TakeListener(t)
  <2>1. Turn
    BY <1>1, WorkTypes DEF TakeListener, Pcs
  <2> QED
    BY <1>1, <2>1, GotoTypes DEF TypeOK, TakeListener, table, hand, peer
<1>2. CASE Accept(t)
  <2>1. PICK f \in Fds \ kopen :
          kopen' = kopen \cup {f} /\ Goto(t, "setup", [NoWork EXCEPT !.fd = f, !.acc = TRUE])
    BY <1>2 DEF Accept
  <2>2. Turn
    BY <2>1, WorkTypes DEF Pcs
  <2>3. backlog' \in Nat
    <3>1. backlog \in Nat /\ backlog > 0 /\ backlog' = backlog - 1
      BY <1>2 DEF TypeOK, Accept
    <3> QED
      BY <3>1
  <2>4. /\ UNCHANGED <<table, hand, epoll, inbox, fin, rst, nconn, nsend, shutwr,
                       alloc, failed, fault>>
    BY <1>2 DEF Accept
  <2> QED
    BY <2>1, <2>2, <2>3, <2>4, GotoTypes DEF TypeOK, table, hand, epoll
<1>3. CASE AcceptFails(t)
  BY <1>3 DEF TypeOK, AcceptFails, table, hand, epoll, peer
<1>4. CASE AcceptSetup(t)
  <2>1. PICK c \in Clients \ alloc : alloc' = alloc \cup {c} /\ EventRead(cur[t].fd, c)
    BY <1>4 DEF AcceptSetup
  <2>2. Turn
    BY <1>4, WorkTypes DEF AcceptSetup, Pcs
  <2>3. onread' \in [Fds -> Clients \cup {Null}] /\ onwrite' = onwrite /\ alloc' \subseteq Clients
    BY <2>1 DEF TypeOK, EventRead
  <2> QED
    BY <1>4, <2>2, <2>3, GotoTypes DEF TypeOK, AcceptSetup, peer
<1>5. CASE AcceptGivesUp(t)
  <2>1. Turn
    BY <1>5 DEF TypeOK, AcceptGivesUp, Pcs
  <2>2. hand' = hand \/ \E c \in Clients : EventRead(cur[t].fd, c)
    BY <1>5 DEF AcceptGivesUp
  <2>3. onread' \in [Fds -> Clients \cup {Null}] /\ onwrite' = onwrite
    BY <2>2 DEF TypeOK, EventRead, hand
  <2>4. fault' \in BOOLEAN
    BY <1>5 DEF TypeOK, AcceptGivesUp, CtlWorks
  <2> QED
    BY <1>5, <2>1, <2>3, <2>4, GotoTypes DEF TypeOK, AcceptGivesUp, epoll, peer
<1>6. CASE AcceptDone(t)
  <2>1. Turn
    BY <1>6, WorkTypes DEF AcceptDone, Pcs
  <2> QED
    BY <1>6, <2>1, GotoTypes DEF TypeOK, AcceptDone, table, hand, peer
<1> QED
  BY <1>1, <1>2, <1>3, <1>4, <1>5, <1>6

LEMMA TypeHandle ==
  ASSUME TypeOK, AccPc, NEW t \in Threads,
         \/ \E f \in Fds : TakeEvent(t, f)
         \/ ReadData(t) \/ ReadAgain(t) \/ ReadEnd(t) \/ WriteThenRead(t)
         \/ WriteThenWait(t) \/ WriteKills(t)
  PROVE  TypeOK'
<1> DEFINE Turn == \E pc \in Pcs, w \in Works : Goto(t, pc, w)
<1>0. /\ cur[t] \in Works /\ [cur[t] EXCEPT !.rd = Null] \in Works
      /\ [cur[t] EXCEPT !.wr = Null] \in Works
      /\ [cur[t] EXCEPT !.rd = Null, !.free = cur[t].rd] \in Works
      /\ [cur[t] EXCEPT !.rd = cur[t].wr, !.wr = Null] \in Works
      /\ cur[t].rd \in Clients \cup {Null} /\ cur[t].wr \in Clients \cup {Null}
      /\ {"poll", "accept", "setup", "handle", "close", "kclose", "free"} = Pcs
  BY WorkTypes DEF TypeOK, Pcs
<1>1. ASSUME NEW f \in Fds, TakeEvent(t, f) PROVE TypeOK'
  <2>1. PICK rd, wr \in Clients \cup {Null} :
          Goto(t, "handle", [NoWork EXCEPT !.fd = f, !.rd = rd, !.wr = wr])
    BY <1>1 DEF TypeOK, TakeEvent
  <2>2. Turn
    BY <1>0, <2>1, WorkTypes
  <2> QED
    BY <1>1, <2>2, GotoTypes DEF TypeOK, TakeEvent, table, peer
<1>2. CASE ReadData(t)
  <2>1. Turn
    BY <1>0, <1>2 DEF ReadData, Continue
  <2>2. inbox' \in [Fds -> Nat]
    <3>1. cur[t].fd \in Fds /\ inbox \in [Fds -> Nat]
      BY <1>2 DEF TypeOK, AccPc, Busy, At, ReadData
    <3>2. ReadRest(cur[t].fd) \in Nat
      BY <3>1 DEF ReadRest
    <3>3. inbox' = [inbox EXCEPT ![cur[t].fd] = ReadRest(cur[t].fd)]
      BY <1>2 DEF ReadData
    <3> QED
      BY <3>1, <3>2, <3>3
  <2>3. onwrite' \in [Fds -> Clients \cup {Null}] /\ onread' = onread
    BY <1>0, <1>2 DEF TypeOK, ReadData, EventWrite
  <2>4. Ctl(t, cur[t].fd, "out") \/ CtlFails(t, cur[t].fd)
    BY <1>2 DEF ReadData
  <2> QED
    BY <1>2, <2>1, <2>2, <2>3, <2>4, CtlTypes, GotoTypes DEF TypeOK, ReadData
<1>3. CASE ReadAgain(t)
  <2>1. Turn
    BY <1>0, <1>3 DEF ReadAgain, Continue
  <2>2. onread' \in [Fds -> Clients \cup {Null}] /\ onwrite' = onwrite
    BY <1>0, <1>3 DEF TypeOK, ReadAgain, EventRead
  <2>3. Ctl(t, cur[t].fd, "in") \/ CtlFails(t, cur[t].fd)
    BY <1>3 DEF ReadAgain
  <2> QED
    BY <1>3, <2>1, <2>2, <2>3, CtlTypes, GotoTypes DEF TypeOK, ReadAgain, peer
<1>4. CASE ReadEnd(t)
  <2>1. Turn
    BY <1>0, <1>4 DEF ReadEnd
  <2> QED
    BY <1>4, <2>1, GotoTypes DEF TypeOK, ReadEnd, table, hand, epoll, peer
<1>5. CASE WriteThenRead(t)
  <2>1. Turn
    BY <1>0, <1>5 DEF WriteThenRead
  <2> QED
    BY <1>5, <2>1, GotoTypes DEF TypeOK, WriteThenRead, table, hand, epoll, peer
<1>6. CASE WriteThenWait(t)
  <2>1. Turn
    BY <1>0, <1>6, WorkTypes DEF WriteThenWait
  <2>2. onread' \in [Fds -> Clients \cup {Null}] /\ onwrite' = onwrite
    BY <1>0, <1>6 DEF TypeOK, WriteThenWait, EventRead
  <2>3. shutwr' \subseteq kopen
    BY <1>6 DEF TypeOK, WriteThenWait
  <2>4. Ctl(t, cur[t].fd, "in") \/ CtlFails(t, cur[t].fd)
    BY <1>6 DEF WriteThenWait
  <2> QED
    BY <1>6, <2>1, <2>2, <2>3, <2>4, CtlTypes, GotoTypes DEF TypeOK, WriteThenWait, peer
<1>7. CASE WriteKills(t)
  BY <1>7 DEF TypeOK, WriteKills, table, hand, epoll, peer
<1> QED
  BY <1>1, <1>2, <1>3, <1>4, <1>5, <1>6, <1>7

LEMMA TypeClose ==
  ASSUME TypeOK, NEW t \in Threads,
         CloseAsserts(t) \/ CloseEntry(t) \/ KernelClose(t) \/ FreeClient(t)
  PROVE  TypeOK'
<1> DEFINE Turn == \E pc \in Pcs, w \in Works : Goto(t, pc, w)
<1>0. cur[t] \in Works /\ [cur[t] EXCEPT !.free = Null] \in Works
  BY WorkTypes DEF TypeOK
<1>1. CASE CloseAsserts(t)
  BY <1>1 DEF TypeOK, CloseAsserts, table, hand, epoll, peer
<1>2. CASE CloseEntry(t)
  <2>1. Turn
    BY <1>0, <1>2 DEF CloseEntry, Pcs
  <2> QED
    BY <1>2, <2>1, GotoTypes DEF TypeOK, CloseEntry, hand, epoll, peer
<1>3. CASE KernelClose(t)
  <2>1. Turn
    BY <1>0, <1>3 DEF KernelClose, Pcs
  <2> QED
    BY <1>3, <2>1, GotoTypes DEF TypeOK, KernelClose, table, hand
<1>4. CASE FreeClient(t)
  <2>1. Turn
    BY <1>0, <1>4, WorkTypes DEF FreeClient, Continue, Pcs
  <2> QED
    BY <1>4, <2>1, GotoTypes DEF TypeOK, FreeClient, table, hand, epoll, peer
<1> QED
  BY <1>1, <1>2, <1>3, <1>4

LEMMA TypePeers ==
  ASSUME TypeOK, Peers
  PROVE  TypeOK'
BY DEF Peers, Connect, Send, PeerCloses, PeerResets, TypeOK, table, hand, epoll

-----------------------------------------------------------------------------
(* The work of a thread after it has gone on; the others' work is as it was.*)
LEMMA GotoIs ==
  ASSUME TypeOK, NEW t \in Threads, NEW pc, NEW w, Goto(t, pc, w)
  PROVE  /\ tpc'[t] = pc /\ cur'[t] = w
         /\ \A u \in Threads \ {t} : tpc'[u] = tpc[u] /\ cur'[u] = cur[u]
BY DEF TypeOK, Goto

LEMMA WorkIs ==
  /\ NoWork.fd = 0 /\ NoWork.rd = Null /\ NoWork.wr = Null /\ NoWork.free = Null
  /\ NoWork.acc = FALSE
  /\ \A f : LET w == [NoWork EXCEPT !.fd = f, !.acc = TRUE] IN
       w.fd = f /\ w.rd = Null /\ w.wr = Null /\ w.free = Null /\ w.acc = TRUE
  /\ \A f, rd, wr : LET w == [NoWork EXCEPT !.fd = f, !.rd = rd, !.wr = wr] IN
       w.fd = f /\ w.rd = rd /\ w.wr = wr /\ w.free = Null /\ w.acc = FALSE
  /\ \A v \in Works : LET w == [v EXCEPT !.rd = Null] IN
       w.fd = v.fd /\ w.rd = Null /\ w.wr = v.wr /\ w.free = v.free /\ w.acc = v.acc
  /\ \A v \in Works : LET w == [v EXCEPT !.wr = Null] IN
       w.fd = v.fd /\ w.rd = v.rd /\ w.wr = Null /\ w.free = v.free /\ w.acc = v.acc
  /\ \A v \in Works : LET w == [v EXCEPT !.free = Null] IN
       w.fd = v.fd /\ w.rd = v.rd /\ w.wr = v.wr /\ w.free = Null /\ w.acc = v.acc
  /\ \A v \in Works : LET w == [v EXCEPT !.rd = Null, !.free = v.rd] IN
       w.fd = v.fd /\ w.rd = Null /\ w.wr = v.wr /\ w.free = v.rd /\ w.acc = v.acc
  /\ \A v \in Works : LET w == [v EXCEPT !.rd = v.wr, !.wr = Null] IN
       w.fd = v.fd /\ w.rd = v.wr /\ w.wr = Null /\ w.free = v.free /\ w.acc = v.acc
BY DEF NoWork, Works

-----------------------------------------------------------------------------
(* One thread accepts.                                                     *)

(* A thread may go on where it does not begin to accept, or where it has   *)
(* taken the listener's event, or where it ends to accept.                 *)
LEMMA AccGoto ==
  ASSUME TypeOK, AccPc, OneAcceptor, NEW t \in Threads, NEW pc, NEW w, Goto(t, pc, w),
         w.acc => pc \in {"setup", "close", "kclose", "free"},
         pc = "setup" => w.acc, pc \in Busy \cup {"free"} => w.fd \in Fds,
         \/ lis_armed' = lis_armed /\ (pc \in {"accept", "setup"} \/ w.acc => Accepting(t))
         \/ lis_armed /\ ~lis_armed'
         \/ Accepting(t) /\ pc \notin {"accept", "setup"} /\ ~w.acc
  PROVE  AccPc' /\ OneAcceptor'
<1>1. /\ tpc'[t] = pc /\ cur'[t] = w
      /\ \A u \in Threads \ {t} : tpc'[u] = tpc[u] /\ cur'[u] = cur[u]
  BY GotoIs
<1>2. AccPc'
  BY <1>1 DEF AccPc
<1>3. \A u \in Threads \ {t} : Accepting(u)' <=> Accepting(u)
  BY <1>1 DEF Accepting
<1>4. Accepting(t)' <=> pc \in {"accept", "setup"} \/ w.acc
  BY <1>1 DEF Accepting
<1>5. lis_armed \in BOOLEAN
  BY DEF TypeOK
<1>6. OneAcceptor'
  BY <1>3, <1>4, <1>5 DEF OneAcceptor
<1> QED
  BY <1>2, <1>6

LEMMA AccStep ==
  ASSUME TypeOK, AccPc, OneAcceptor, Next
  PROVE  AccPc' /\ OneAcceptor'
<1>1. CASE Peers
  BY <1>1 DEF Peers, Connect, Send, PeerCloses, PeerResets, AccPc, OneAcceptor, Accepting,
     epoll
<1>2. ASSUME NEW t \in Threads, ThreadStep(t) PROVE AccPc' /\ OneAcceptor'
  <2>0. cur[t] \in Works
    BY DEF TypeOK
  <2>1. CASE TakeListener(t)
    <3>1. Goto(t, "accept", NoWork) /\ lis_armed /\ ~lis_armed'
      BY <2>1 DEF TakeListener
    <3> QED
      BY <3>1, WorkIs, AccGoto DEF Busy
  <2>2. CASE Accept(t)
    <3>1. PICK f \in Fds : Goto(t, "setup", [NoWork EXCEPT !.fd = f, !.acc = TRUE])
      BY <2>2 DEF Accept
    <3> DEFINE w == [NoWork EXCEPT !.fd = f, !.acc = TRUE]
    <3>2. w.fd = f /\ w.acc = TRUE
      BY WorkIs
    <3>3. lis_armed' = lis_armed /\ Accepting(t)
      BY <2>2 DEF Accept, At, Accepting, epoll
    <3> HIDE DEF w
    <3> QED
      BY <3>1, <3>2, <3>3, AccGoto DEF w
  <2>3. CASE AcceptFails(t) \/ WriteKills(t) \/ CloseAsserts(t)
    BY <2>3 DEF AcceptFails, WriteKills, CloseAsserts, AccPc, OneAcceptor, Accepting, epoll
  <2>4. CASE AcceptSetup(t)
    <3>1. Goto(t, "accept", NoWork) /\ lis_armed' = lis_armed /\ Accepting(t)
      BY <2>4 DEF AcceptSetup, At, Accepting
    <3> QED
      BY <3>1, WorkIs, AccGoto DEF Busy
  <2>5. CASE AcceptGivesUp(t)
    <3>1. /\ Goto(t, "close", cur[t]) /\ lis_armed' = lis_armed /\ Accepting(t)
          /\ cur[t].fd \in Fds
      BY <2>5 DEF AcceptGivesUp, At, Accepting, epoll, AccPc, Busy
    <3> QED
      BY <3>1, AccGoto
  <2>6. CASE AcceptDone(t)
    <3>1. Goto(t, "poll", NoWork) /\ Accepting(t)
      BY <2>6 DEF AcceptDone, At, Accepting
    <3> QED
      BY <3>1, WorkIs, AccGoto DEF Busy
  <2>7. ASSUME NEW f \in Fds, TakeEvent(t, f) PROVE AccPc' /\ OneAcceptor'
    <3>1. PICK rd, wr : Goto(t, "handle", [NoWork EXCEPT !.fd = f, !.rd = rd, !.wr = wr])
      BY <2>7 DEF TakeEvent
    <3> DEFINE w == [NoWork EXCEPT !.fd = f, !.rd = rd, !.wr = wr]
    <3>2. w.fd = f /\ w.acc = FALSE
      BY WorkIs
    <3>3. lis_armed' = lis_armed
      BY <2>7 DEF TakeEvent
    <3> HIDE DEF w
    <3> QED
      BY <3>1, <3>2, <3>3, AccGoto DEF w
  <2>8. CASE ReadData(t) \/ ReadAgain(t) \/ WriteThenWait(t)
    <3>1. /\ tpc[t] = "handle" /\ cur[t].acc = FALSE /\ cur[t].fd \in Fds
          /\ lis_armed' = lis_armed
      BY <2>0, <2>8 DEF ReadData, ReadAgain, WriteThenWait, At, AccPc, Busy, Ctl, CtlFails,
         epoll, Works
    <3> DEFINE rest == [cur[t] EXCEPT !.rd = Null]
               over == [cur[t] EXCEPT !.wr = Null]
    <3>2. /\ rest.acc = FALSE /\ over.acc = FALSE /\ NoWork.acc = FALSE
          /\ rest.fd \in Fds /\ over.fd \in Fds
      BY <2>0, <3>1, WorkIs
    <3>3. \/ Goto(t, "poll", rest) \/ Goto(t, "handle", rest) \/ Goto(t, "close", rest)
          \/ Goto(t, "poll", NoWork) \/ Goto(t, "close", over)
      BY <2>8 DEF ReadData, ReadAgain, WriteThenWait, Continue
    <3> HIDE DEF rest, over
    <3> QED
      BY <3>1, <3>2, <3>3, AccGoto DEF Busy
  <2>9. CASE ReadEnd(t) \/ WriteThenRead(t)
    <3>1. /\ tpc[t] = "handle" /\ cur[t].acc = FALSE /\ cur[t].fd \in Fds
          /\ lis_armed' = lis_armed
      BY <2>0, <2>9 DEF ReadEnd, WriteThenRead, At, AccPc, Busy, epoll, Works
    <3> DEFINE end  == [cur[t] EXCEPT !.rd = Null, !.free = cur[t].rd]
               next == [cur[t] EXCEPT !.rd = cur[t].wr, !.wr = Null]
    <3>2. end.acc = FALSE /\ next.acc = FALSE /\ end.fd \in Fds /\ next.fd \in Fds
      BY <2>0, <3>1, WorkIs
    <3>3. Goto(t, "close", end) \/ Goto(t, "handle", next)
      BY <2>9 DEF ReadEnd, WriteThenRead
    <3> HIDE DEF end, next
    <3> QED
      BY <3>1, <3>2, <3>3, AccGoto
  <2>10. CASE CloseEntry(t) \/ KernelClose(t)
    <3>1. lis_armed' = lis_armed /\ cur[t].fd \in Fds
      BY <2>10 DEF CloseEntry, KernelClose, At, AccPc, Busy, epoll
    <3>2. Goto(t, "kclose", cur[t]) \/ Goto(t, "free", cur[t])
      BY <2>10 DEF CloseEntry, KernelClose
    <3> QED
      BY <3>1, <3>2, AccGoto DEF Accepting, Busy
  <2>11. CASE FreeClient(t)
    <3>1. lis_armed' = lis_armed /\ cur[t].acc \in BOOLEAN
      BY <2>0, <2>11 DEF FreeClient, epoll, Works
    <3>2. CASE cur[t].acc
      <4>1. Goto(t, "accept", NoWork) /\ Accepting(t)
        BY <2>11, <3>2 DEF FreeClient, Accepting
      <4> QED
        BY <3>1, <4>1, WorkIs, AccGoto DEF Busy
    <3>3. CASE ~cur[t].acc
      <4> DEFINE w == [cur[t] EXCEPT !.free = Null]
      <4>1. w.acc = FALSE /\ w.fd = cur[t].fd /\ w.rd = cur[t].rd /\ w.wr = cur[t].wr
        BY <2>0, <3>1, <3>3, WorkIs
      <4>2. Goto(t, "poll", w) \/ Goto(t, "handle", w)
        BY <2>11, <3>3 DEF FreeClient, Continue
      <4>3. cur[t].fd \in Fds
        BY <2>11 DEF FreeClient, At, AccPc
      <4> HIDE DEF w
      <4> QED
        BY <3>1, <4>1, <4>2, <4>3, AccGoto DEF Busy
    <3> QED
      BY <3>2, <3>3
  <2> QED
    BY <1>2, <2>1, <2>2, <2>3, <2>4, <2>5, <2>6, <2>7, <2>8, <2>9, <2>10, <2>11
       DEF ThreadStep
<1> QED
  BY <1>1, <1>2 DEF Next

-----------------------------------------------------------------------------
(* Owners.  A step changes the work of one thread and one descriptor.      *)

(* Nothing changes in the tables and the pollers for descriptor g.         *)
Same(g) ==
  /\ cf_open'[g] = cf_open[g] /\ cf_associate'[g] = cf_associate[g]
  /\ onread'[g] = onread[g] /\ onwrite'[g] = onwrite[g]
  /\ poller'[g] = poller[g] /\ armed'[g] = armed[g] /\ (g \in kopen' <=> g \in kopen)

LEMMA Others ==
  ASSUME TypeOK, NEW t \in Threads, NEW pc, NEW w, Goto(t, pc, w)
  PROVE  /\ \A u \in Threads \ {t} :
              /\ tpc'[u] = tpc[u] /\ cur'[u] = cur[u] /\ Uses(u)' = Uses(u)
              /\ \A f : Has(u, f)' <=> Has(u, f)
         /\ tpc'[t] = pc /\ cur'[t] = w /\ Uses(t)' = {w.rd, w.wr, w.free} \ {Null}
         /\ \A f : Has(t, f)' <=> pc \in Busy /\ w.fd = f
<1>1. /\ tpc'[t] = pc /\ cur'[t] = w
      /\ \A u \in Threads \ {t} : tpc'[u] = tpc[u] /\ cur'[u] = cur[u]
  BY GotoIs
<1> QED
  BY <1>1 DEF Uses, Has

(* The handlers of an armed descriptor do not change for the others.       *)
LEMMA SameClient ==
  ASSUME NEW g, Same(g)
  PROVE  ClientOf(g)' = ClientOf(g)
BY DEF Same, ClientOf

(* A descriptor that a thread has is armed: it and its client, old or new, *)
(* pass from the thread to the poller.                                     *)
LEMMA Arm ==
  ASSUME TypeOK, Sound, NEW t \in Threads, NEW f \in Fds, NEW c \in Clients,
         NEW pc \in {"poll", "accept"}, NEW w, Goto(t, pc, w),
         w.rd = Null, w.wr = Null, w.free = Null,
         Has(t, f), tpc[t] \in {"handle", "setup"},
         \/ Uses(t) = {c} /\ alloc' = alloc
         \/ Uses(t) = {} /\ c \notin alloc /\ alloc' = alloc \cup {c},
         \A g \in Fds \ {f} : Same(g),
         kopen' = kopen, cf_open'[f], cf_associate'[f], poller'[f] = t,
         \/ armed'[f] = "in" /\ onread'[f] = c /\ onwrite'[f] = Null
         \/ armed'[f] = "out" /\ onread'[f] = Null /\ onwrite'[f] = c
  PROVE  Sound'
<1>1. /\ \A u \in Threads \ {t} :
           /\ tpc'[u] = tpc[u] /\ cur'[u] = cur[u] /\ Uses(u)' = Uses(u)
           /\ \A g : Has(u, g)' <=> Has(u, g)
      /\ tpc'[t] = pc /\ cur'[t] = w /\ Uses(t)' = {w.rd, w.wr, w.free} \ {Null}
      /\ \A g : Has(t, g)' <=> pc \in Busy /\ w.fd = g
  BY Others
<1>2. Uses(t)' = {} /\ \A g : ~Has(t, g)'
  BY <1>1 DEF Busy
<1>3. \A u \in Threads : ~Has(u, f)'
  BY <1>1, <1>2 DEF Sound, OneOwner
<1>4. \A g \in Fds \ {f} : ~Has(t, g)
  BY DEF Has
<1>5. f \in kopen /\ armed[f] = "no" /\ armed'[f] # "no" /\ t # Null /\ c # Null
  BY EchoAssumption DEF Sound, OneOwner
<1>6. OneOwner'
  <2>1. ASSUME NEW u \in Threads, NEW g \in Fds, Has(u, g)'
        PROVE  /\ g \in kopen' /\ armed'[g] = "no"
               /\ \A v \in Threads : Has(v, g)' => v = u
    <3>1. u # t /\ g # f /\ Has(u, g)
      BY <1>1, <1>2, <1>3, <2>1
    <3> QED
      BY <1>1, <1>2, <3>1 DEF Sound, OneOwner, Same
  <2>2. ASSUME NEW g \in kopen', armed'[g] = "no" PROVE \E u \in Threads : Has(u, g)'
    <3>1. g # f /\ g \in Fds /\ armed[g] = "no"
      BY <1>5, <2>2 DEF TypeOK, Same
    <3> QED
      BY <1>1, <1>4, <3>1 DEF Sound, OneOwner
  <2> QED
    BY <2>1, <2>2 DEF OneOwner
<1>7. TablesAgree'
  <2> SUFFICES ASSUME NEW g \in Fds PROVE Agrees(g)'
    BY DEF TablesAgree
  <2>1. CASE g = f
    BY <1>3, <1>5, <2>1 DEF Agrees
  <2>2. CASE g # f
    BY <1>1, <1>2, <1>4, <2>2 DEF Sound, TablesAgree, Agrees, Same
  <2> QED
    BY <2>1, <2>2
<1>8. Handlers'
  BY <1>5 DEF Sound, Handlers, Same
<1>9. WorkFits'
  BY <1>1 DEF Sound, WorkFits
<1>10. OneClient'
  <2>1. ClientOf(f)' = c /\ \A g \in Fds \ {f} : ClientOf(g)' = ClientOf(g) /\ armed'[g] = armed[g]
    BY SameClient DEF ClientOf, Same
  <2>2. \A g \in Fds \ {f} : armed[g] # "no" => ClientOf(g) # c
    BY DEF Sound, OneClient
  <2>3. \A u \in Threads \ {t} : c \notin Uses(u)
    BY DEF Sound, OneClient
  <2>4. ASSUME NEW b \in alloc'
        PROVE  \/ \E u \in Threads : b \in Uses(u)'
               \/ \E g \in Fds : armed'[g] # "no" /\ b = ClientOf(g)'
    <3>1. CASE b = c
      BY <1>5, <2>1, <3>1
    <3>2. CASE b # c
      <4>1. b \in alloc /\ b \notin Uses(t)
        BY <3>2
      <4>2. CASE \E u \in Threads : b \in Uses(u)
        BY <1>1, <4>1, <4>2
      <4>3. CASE \E g \in Fds : armed[g] # "no" /\ b = ClientOf(g)
        BY <1>5, <2>1, <4>3
      <4> QED
        BY <4>1, <4>2, <4>3 DEF Sound, OneClient
    <3> QED
      BY <3>1, <3>2
  <2>5. \A u \in Threads :
          /\ Uses(u)' \subseteq alloc'
          /\ \A v \in Threads \ {u} : Uses(u)' \cap Uses(v)' = {}
    BY <1>1, <1>2 DEF Sound, OneClient
  <2>6. ASSUME NEW g \in Fds, armed'[g] # "no"
        PROVE  /\ ClientOf(g)' \in alloc'
               /\ \A u \in Threads : ClientOf(g)' \notin Uses(u)'
               /\ \A h \in Fds \ {g} : armed'[h] # "no" => ClientOf(h)' # ClientOf(g)'
    <3>1. CASE g = f
      <4>1. c \in alloc'
        BY DEF Sound, OneClient
      <4> QED
        BY <1>1, <1>2, <2>1, <2>2, <2>3, <3>1, <4>1
    <3>2. CASE g # f
      BY <1>1, <1>2, <2>1, <2>2, <2>6, <3>2 DEF Sound, OneClient
    <3> QED
      BY <3>1, <3>2
  <2> QED
    BY <2>4, <2>5, <2>6 DEF OneClient
<1> QED
  BY <1>6, <1>7, <1>8, <1>9, <1>10 DEF Sound

(* A thread goes on with what it has: the same descriptor, if any, and the *)
(* same client.                                                            *)
LEMMA GoOn ==
  ASSUME TypeOK, Sound, NEW t \in Threads, NEW pc, NEW w, Goto(t, pc, w),
         pc \in Busy <=> tpc[t] \in Busy, pc \in Busy => w.fd = cur[t].fd /\ pc # "setup",
         {w.rd, w.wr, w.free} \ {Null} = Uses(t),
         pc \notin {"close", "kclose", "free"} => w.free = Null,
         pc # "handle" => w.rd = Null /\ w.wr = Null,
         pc = "handle" => (w.rd = Null <=> w.wr # Null),
         UNCHANGED <<kopen, alloc, armed, onread, onwrite, poller>>,
         \A g \in Fds : ~Has(t, g) => cf_open'[g] = cf_open[g] /\ cf_associate'[g] = cf_associate[g],
         \A g \in Fds : Has(t, g) =>
           /\ cf_open'[g] <=> pc # "kclose"
           /\ pc = "handle" => cf_associate'[g] /\ poller[g] = t
           /\ pc = "kclose" => ~cf_associate'[g]
  PROVE  Sound'
<1>1. /\ \A u \in Threads \ {t} :
           /\ tpc'[u] = tpc[u] /\ cur'[u] = cur[u] /\ Uses(u)' = Uses(u)
           /\ \A g : Has(u, g)' <=> Has(u, g)
      /\ tpc'[t] = pc /\ cur'[t] = w /\ Uses(t)' = {w.rd, w.wr, w.free} \ {Null}
      /\ \A g : Has(t, g)' <=> pc \in Busy /\ w.fd = g
  BY Others
<1>2. \A u \in Threads : Uses(u)' = Uses(u) /\ \A g : Has(u, g)' <=> Has(u, g)
  BY <1>1 DEF Has
<1>3. OneOwner'
  BY <1>2 DEF Sound, OneOwner
<1>4. TablesAgree'
  <2> SUFFICES ASSUME NEW g \in Fds PROVE Agrees(g)'
    BY DEF TablesAgree
  <2>1. CASE Has(t, g)
    <3>1. g \in kopen /\ armed[g] = "no" /\ \A u \in Threads : Has(u, g) => u = t
      BY <2>1 DEF Sound, OneOwner
    <3>2. pc \in Busy /\ pc # "setup"
      BY <2>1 DEF Has
    <3> QED
      BY <1>1, <1>2, <2>1, <3>1, <3>2 DEF Agrees
  <2>2. CASE ~Has(t, g)
    BY <1>1, <1>2, <2>2 DEF Sound, TablesAgree, Agrees
  <2> QED
    BY <2>1, <2>2
<1>5. Handlers'
  BY DEF Sound, Handlers
<1>6. WorkFits'
  BY <1>1 DEF Sound, WorkFits
<1>7. OneClient'
  <2>1. \A g : ClientOf(g)' = ClientOf(g)
    BY DEF ClientOf
  <2> QED
    BY <1>2, <2>1 DEF Sound, OneClient
<1> QED
  BY <1>3, <1>4, <1>5, <1>6, <1>7 DEF Sound

(* accept() gives a number that nobody has.                                *)
LEMMA SoundAccept ==
  ASSUME TypeOK, Sound, NEW t \in Threads, Accept(t)
  PROVE  Sound'
<1>1. PICK f \in Fds \ kopen :
        kopen' = kopen \cup {f} /\ Goto(t, "setup", [NoWork EXCEPT !.fd = f, !.acc = TRUE])
  BY DEF Accept
<1> DEFINE w == [NoWork EXCEPT !.fd = f, !.acc = TRUE]
<1>2. /\ w.fd = f /\ w.rd = Null /\ w.wr = Null /\ w.free = Null
      /\ Goto(t, "setup", w)
  BY <1>1, WorkIs
<1> HIDE DEF w
<1>3. /\ \A u \in Threads \ {t} :
           /\ tpc'[u] = tpc[u] /\ cur'[u] = cur[u] /\ Uses(u)' = Uses(u)
           /\ \A g : Has(u, g)' <=> Has(u, g)
      /\ tpc'[t] = "setup" /\ cur'[t] = w /\ Uses(t)' = {}
      /\ \A g : Has(t, g)' <=> g = f
  BY <1>2, Others DEF Busy
<1>4. /\ UNCHANGED <<cf_open, cf_associate, onread, onwrite, poller, armed, alloc>>
      /\ tpc[t] = "accept"
  BY DEF Accept, At, table, hand, epoll
<1>5. Uses(t) = {} /\ \A g : ~Has(t, g)
  BY <1>4 DEF Sound, WorkFits, Uses, Has, Busy
<1>6. /\ armed[f] = "no" /\ ~cf_open[f] /\ ~cf_associate[f] /\ poller[f] = Null
      /\ \A u \in Threads : ~Has(u, f)
  BY <1>1 DEF Sound, OneOwner, TablesAgree, Agrees
<1>7. OneOwner'
  <2>1. \A u \in Threads, g \in Fds : Has(u, g)' =>
          /\ g \in kopen' /\ armed'[g] = "no" /\ \A v \in Threads : Has(v, g)' => v = u
    BY <1>1, <1>3, <1>4, <1>6 DEF Sound, OneOwner
  <2>2. \A g \in kopen' : armed'[g] = "no" => \E u \in Threads : Has(u, g)'
    BY <1>1, <1>3, <1>4, <1>5 DEF Sound, OneOwner
  <2> QED
    BY <2>1, <2>2 DEF OneOwner
<1>8. TablesAgree'
  <2> SUFFICES ASSUME NEW g \in Fds PROVE Agrees(g)'
    BY DEF TablesAgree
  <2>1. CASE g = f
    BY <1>1, <1>3, <1>4, <1>6, <2>1 DEF Agrees
  <2>2. CASE g # f
    BY <1>1, <1>3, <1>4, <1>5, <2>2 DEF Sound, TablesAgree, Agrees
  <2> QED
    BY <2>1, <2>2
<1>9. Handlers'
  BY <1>4 DEF Sound, Handlers
<1>10. WorkFits'
  BY <1>2, <1>3 DEF Sound, WorkFits
<1>11. OneClient'
  <2>1. \A g : ClientOf(g)' = ClientOf(g)
    BY <1>4 DEF ClientOf
  <2>2. \A u \in Threads : Uses(u)' = Uses(u)
    BY <1>3, <1>5
  <2> QED
    BY <1>4, <2>1, <2>2 DEF Sound, OneClient
<1> QED
  BY <1>7, <1>8, <1>9, <1>10, <1>11 DEF Sound

(* The poller gives a ready descriptor, and its client, to the thread.     *)
LEMMA SoundTakeEvent ==
  ASSUME TypeOK, Sound, NEW t \in Threads, NEW f \in Fds, TakeEvent(t, f)
  PROVE  Sound'
<1>1. /\ tpc[t] = "poll" /\ f \in kopen /\ poller[f] = t /\ armed[f] \in {"in", "out"}
      /\ UNCHANGED <<cf_open, cf_associate, kopen, poller, alloc>>
      /\ armed'[f] = "no" /\ \A g \in Fds \ {f} : Same(g)
  BY DEF TakeEvent, At, TypeOK, table, Same
<1> DEFINE c == ClientOf(f)
<1>2. PICK rd, wr :
        /\ Goto(t, "handle", [NoWork EXCEPT !.fd = f, !.rd = rd, !.wr = wr])
        /\ onread'[f] = Null /\ onwrite'[f] = Null
        /\ armed[f] = "in" => rd = onread[f] /\ wr = Null
        /\ armed[f] = "out" => rd = Null /\ wr = onwrite[f]
  <2>1. CASE armed[f] = "in"
    <3>1. onread[f] # Null /\ onwrite[f] = Null
      BY <2>1 DEF Sound, Handlers
    <3> QED
      BY <2>1, <3>1 DEF TakeEvent, TypeOK
  <2>2. CASE armed[f] = "out"
    <3>1. onread[f] = Null /\ onwrite[f] # Null
      BY <2>2 DEF Sound, Handlers
    <3> QED
      BY <2>2, <3>1 DEF TakeEvent, TypeOK
  <2> QED
    BY <1>1, <2>1, <2>2
<1>3. /\ c # Null /\ c \in alloc
      /\ \/ rd = c /\ wr = Null
         \/ rd = Null /\ wr = c
  BY <1>1, <1>2 DEF Sound, Handlers, OneClient, ClientOf
<1> DEFINE w == [NoWork EXCEPT !.fd = f, !.rd = rd, !.wr = wr]
<1>4. w.fd = f /\ w.rd = rd /\ w.wr = wr /\ w.free = Null /\ Goto(t, "handle", w)
  BY <1>2, WorkIs
<1> HIDE DEF w
<1>5. /\ \A u \in Threads \ {t} :
           /\ tpc'[u] = tpc[u] /\ cur'[u] = cur[u] /\ Uses(u)' = Uses(u)
           /\ \A g : Has(u, g)' <=> Has(u, g)
      /\ tpc'[t] = "handle" /\ cur'[t] = w /\ Uses(t)' = {c}
      /\ \A g : Has(t, g)' <=> g = f
  BY <1>3, <1>4, Others DEF Busy
<1>6. Uses(t) = {} /\ (\A g : ~Has(t, g)) /\ \A u \in Threads : ~Has(u, f)
  BY <1>1 DEF Sound, WorkFits, OneOwner, Uses, Has, Busy
<1>7. OneOwner'
  <2>1. \A u \in Threads, g \in Fds : Has(u, g)' =>
          /\ g \in kopen' /\ armed'[g] = "no" /\ \A v \in Threads : Has(v, g)' => v = u
    BY <1>1, <1>5, <1>6 DEF Sound, OneOwner, Same
  <2>2. \A g \in kopen' : armed'[g] = "no" => \E u \in Threads : Has(u, g)'
    BY <1>1, <1>5, <1>6 DEF Sound, OneOwner, Same, TypeOK
  <2> QED
    BY <2>1, <2>2 DEF OneOwner
<1>8. TablesAgree'
  <2> SUFFICES ASSUME NEW g \in Fds PROVE Agrees(g)'
    BY DEF TablesAgree
  <2>1. CASE g = f
    BY <1>1, <1>5, <1>6, <2>1 DEF Sound, TablesAgree, Agrees
  <2>2. CASE g # f
    BY <1>1, <1>5, <1>6, <2>2 DEF Sound, TablesAgree, Agrees, Same
  <2> QED
    BY <2>1, <2>2
<1>9. Handlers'
  BY <1>1, <1>2 DEF Sound, Handlers, Same
<1>10. WorkFits'
  BY <1>3, <1>4, <1>5 DEF Sound, WorkFits
<1>11. OneClient'
  <2>1. \A g \in Fds \ {f} : ClientOf(g)' = ClientOf(g) /\ armed'[g] = armed[g]
    BY <1>1, SameClient DEF Same
  <2>2. \A u \in Threads : c \notin Uses(u)
    BY <1>1 DEF Sound, OneClient
  <2>3. \A g \in Fds \ {f} : armed[g] # "no" => ClientOf(g) # c
    BY <1>1 DEF Sound, OneClient
  <2> HIDE DEF c
  <2>4. \A u \in Threads :
          /\ Uses(u)' \subseteq alloc'
          /\ \A v \in Threads \ {u} : Uses(u)' \cap Uses(v)' = {}
    BY <1>1, <1>3, <1>5, <2>2 DEF Sound, OneClient
  <2>5. ASSUME NEW g \in Fds, armed'[g] # "no"
        PROVE  /\ ClientOf(g)' \in alloc'
               /\ \A u \in Threads : ClientOf(g)' \notin Uses(u)'
               /\ \A h \in Fds \ {g} : armed'[h] # "no" => ClientOf(h)' # ClientOf(g)'
    <3>1. g # f
      BY <1>1, <2>5
    <3> QED
      BY <1>1, <1>5, <2>1, <2>3, <2>5, <3>1 DEF Sound, OneClient
  <2>6. ASSUME NEW b \in alloc'
        PROVE  \/ \E u \in Threads : b \in Uses(u)'
               \/ \E g \in Fds : armed'[g] # "no" /\ b = ClientOf(g)'
    <3>1. CASE b = c
      BY <1>5, <3>1
    <3>2. CASE \E u \in Threads : b \in Uses(u)
      BY <1>5, <1>6, <3>2
    <3>3. ASSUME NEW g \in Fds, armed[g] # "no", b = ClientOf(g), b # c
          PROVE  armed'[g] # "no" /\ b = ClientOf(g)'
      BY <2>1, <3>3 DEF c
    <3> QED
      BY <1>1, <3>1, <3>2, <3>3 DEF Sound, OneClient
  <2> QED
    BY <2>4, <2>5, <2>6 DEF OneClient
<1> QED
  BY <1>7, <1>8, <1>9, <1>10, <1>11 DEF Sound

(* close() ends the connection; the client is still with the thread.       *)
LEMMA SoundKernelClose ==
  ASSUME TypeOK, AccPc, Sound, NEW t \in Threads, KernelClose(t)
  PROVE  Sound'
<1> DEFINE f == cur[t].fd
<1>1. /\ tpc[t] = "kclose" /\ f \in Fds /\ Has(t, f) /\ Goto(t, "free", cur[t])
      /\ UNCHANGED <<cf_open, cf_associate, onread, onwrite, alloc>>
      /\ kopen' = kopen \ {f} /\ armed'[f] = "no" /\ poller'[f] = Null
      /\ \A g \in Fds \ {f} : Same(g)
  BY DEF KernelClose, At, AccPc, Busy, Has, TypeOK, table, hand, Same
<1>2. /\ \A u \in Threads \ {t} :
           /\ tpc'[u] = tpc[u] /\ cur'[u] = cur[u] /\ Uses(u)' = Uses(u)
           /\ \A g : Has(u, g)' <=> Has(u, g)
      /\ tpc'[t] = "free" /\ cur'[t] = cur[t] /\ Uses(t)' = Uses(t) /\ \A g : ~Has(t, g)'
  BY <1>1, Others DEF Busy, Uses
<1> HIDE DEF f
<1>3. /\ armed[f] = "no" /\ ~cf_open[f] /\ ~cf_associate[f]
      /\ \A u \in Threads \ {t} : ~Has(u, f)
  BY <1>1 DEF Sound, OneOwner, TablesAgree, Agrees
<1>4. \A g \in Fds \ {f} : ~Has(t, g)
  BY DEF Has, f
<1>5. armed' = armed
  BY <1>1, <1>3 DEF KernelClose, TypeOK, f
<1>6. OneOwner'
  <2>1. \A u \in Threads, g \in Fds : Has(u, g)' =>
          /\ g \in kopen' /\ armed'[g] = "no" /\ \A v \in Threads : Has(v, g)' => v = u
    BY <1>1, <1>2, <1>3, <1>5 DEF Sound, OneOwner
  <2>2. \A g \in kopen' : armed'[g] = "no" => \E u \in Threads : Has(u, g)'
    BY <1>1, <1>2, <1>4, <1>5 DEF Sound, OneOwner, TypeOK
  <2> QED
    BY <2>1, <2>2 DEF OneOwner
<1>7. TablesAgree'
  <2> SUFFICES ASSUME NEW g \in Fds PROVE Agrees(g)'
    BY DEF TablesAgree
  <2>1. CASE g = f
    BY <1>1, <1>2, <1>3, <2>1 DEF Agrees
  <2>2. CASE g # f
    BY <1>1, <1>2, <1>4, <2>2 DEF Sound, TablesAgree, Agrees, Same
  <2> QED
    BY <2>1, <2>2
<1>8. Handlers'
  BY <1>1, <1>5 DEF Sound, Handlers
<1>9. WorkFits'
  BY <1>1, <1>2 DEF Sound, WorkFits
<1>10. OneClient'
  <2>1. \A g : ClientOf(g)' = ClientOf(g)
    BY <1>1, <1>5 DEF ClientOf
  <2>2. \A u \in Threads : Uses(u)' = Uses(u)
    BY <1>2
  <2> QED
    BY <1>1, <1>5, <2>1, <2>2 DEF Sound, OneClient
<1> QED
  BY <1>6, <1>7, <1>8, <1>9, <1>10 DEF Sound

(* The client is freed, and the thread has nothing left.                   *)
LEMMA SoundFreeClient ==
  ASSUME TypeOK, Sound, NEW t \in Threads, FreeClient(t)
  PROVE  Sound'
<1>1. /\ tpc[t] = "free" /\ alloc' = alloc \ {cur[t].free}
      /\ cur[t].rd = Null /\ cur[t].wr = Null /\ cur[t] \in Works
      /\ UNCHANGED <<cf_open, cf_associate, onread, onwrite, kopen, armed, poller>>
  BY DEF FreeClient, At, Sound, WorkFits, TypeOK, table, hand, epoll
<1>2. PICK pc \in {"accept", "poll"}, w \in Works :
        Goto(t, pc, w) /\ w.rd = Null /\ w.wr = Null /\ w.free = Null
  <2> DEFINE v == [cur[t] EXCEPT !.free = Null]
  <2>1. v.rd = Null /\ v.wr = Null /\ v.free = Null /\ v \in Works
    BY <1>1, WorkIs, WorkTypes
  <2>2. Goto(t, "accept", NoWork) \/ Goto(t, "poll", v)
    BY <2>1 DEF FreeClient, Continue
  <2> HIDE DEF v
  <2> QED
    BY <2>1, <2>2, WorkIs, WorkTypes
<1>3. /\ \A u \in Threads \ {t} :
           /\ tpc'[u] = tpc[u] /\ cur'[u] = cur[u] /\ Uses(u)' = Uses(u)
           /\ \A g : Has(u, g)' <=> Has(u, g)
      /\ tpc'[t] = pc /\ cur'[t] = w /\ Uses(t)' = {} /\ \A g : ~Has(t, g)'
  BY <1>2, Others DEF Busy
<1>4. \A u \in Threads : \A g : Has(u, g)' <=> Has(u, g)
  BY <1>1, <1>3 DEF Has, Busy
<1>5. OneOwner'
  BY <1>1, <1>4 DEF Sound, OneOwner
<1>6. TablesAgree'
  <2> SUFFICES ASSUME NEW g \in Fds PROVE Agrees(g)'
    BY DEF TablesAgree
  <2> QED
    BY <1>1, <1>3, <1>4 DEF Sound, TablesAgree, Agrees
<1>7. Handlers'
  BY <1>1 DEF Sound, Handlers
<1>8. WorkFits'
  BY <1>2, <1>3 DEF Sound, WorkFits
<1>9. OneClient'
  <2>1. \A g : ClientOf(g)' = ClientOf(g)
    BY <1>1 DEF ClientOf
  <2>2. Uses(t) = {cur[t].free} \ {Null}
    BY <1>1 DEF Uses
  <2>3. \A b \in alloc' : b \in alloc /\ b \notin Uses(t)
    BY <1>1, <2>2
  <2>4. \A b \in alloc : b \notin Uses(t) => b \in alloc'
    BY <1>1, <2>2, EchoAssumption DEF TypeOK
  <2>5. \A u \in Threads :
          /\ Uses(u)' \subseteq alloc'
          /\ \A v \in Threads \ {u} : Uses(u)' \cap Uses(v)' = {}
    BY <1>3, <2>4 DEF Sound, OneClient
  <2>6. \A g \in Fds : armed'[g] # "no" =>
          /\ ClientOf(g)' \in alloc'
          /\ \A u \in Threads : ClientOf(g)' \notin Uses(u)'
          /\ \A h \in Fds \ {g} : armed'[h] # "no" => ClientOf(h)' # ClientOf(g)'
    BY <1>1, <1>3, <2>1, <2>4 DEF Sound, OneClient
  <2>7. \A b \in alloc' :
          \/ \E u \in Threads : b \in Uses(u)'
          \/ \E g \in Fds : armed'[g] # "no" /\ b = ClientOf(g)'
    BY <1>1, <1>3, <2>1, <2>3 DEF Sound, OneClient
  <2> QED
    BY <2>5, <2>6, <2>7 DEF OneClient
<1> QED
  BY <1>5, <1>6, <1>7, <1>8, <1>9 DEF Sound

-----------------------------------------------------------------------------
(* The steps of plm_echo_accept().                                         *)
LEMMA SoundAccepting ==
  ASSUME TypeOK, AccPc, Sound, ~fault', NEW t \in Threads,
         TakeListener(t) \/ AcceptSetup(t) \/ AcceptGivesUp(t) \/ AcceptDone(t)
  PROVE  Sound'
<1>1. CASE TakeListener(t) \/ AcceptDone(t)
  <2>1. /\ Goto(t, "accept", NoWork) \/ Goto(t, "poll", NoWork)
        /\ tpc[t] \in {"poll", "accept"}
        /\ UNCHANGED <<kopen, alloc, armed, onread, onwrite, poller, cf_open, cf_associate>>
    BY <1>1 DEF TakeListener, AcceptDone, At, table, hand
  <2>2. Uses(t) = {} /\ \A g : ~Has(t, g)
    BY <2>1 DEF Sound, WorkFits, Uses, Has, Busy
  <2> QED
    BY <2>1, <2>2, WorkIs, GoOn DEF Busy
<1>2. CASE AcceptSetup(t)
  <2> DEFINE f == cur[t].fd
  <2>1. PICK c \in Clients \ alloc : alloc' = alloc \cup {c} /\ EventRead(f, c)
    BY <1>2 DEF AcceptSetup
  <2>2. /\ tpc[t] = "setup" /\ f \in Fds /\ Has(t, f) /\ Goto(t, "accept", NoWork)
        /\ kopen' = kopen
    BY <1>2 DEF AcceptSetup, At, AccPc, Has, Busy
  <2>3. Uses(t) = {} /\ onwrite[f] = Null
    BY <2>2 DEF Sound, WorkFits, Uses, OneOwner, Handlers
  <2>4. /\ cf_open'[f] /\ cf_associate'[f] /\ poller'[f] = t /\ armed'[f] = "in"
        /\ \A g \in Fds \ {f} : Same(g)
        /\ onread'[f] = c /\ onwrite'[f] = Null
    BY <1>2, <2>1, <2>2, <2>3, ZenonT(60) DEF AcceptSetup, EventRead, TypeOK, Same
  <2> HIDE DEF f
  <2> QED
    BY <2>1, <2>2, <2>3, <2>4, WorkIs, Arm
<1>3. CASE AcceptGivesUp(t)
  <2> DEFINE f == cur[t].fd
  <2>1. /\ tpc[t] = "setup" /\ f \in Fds /\ Has(t, f) /\ Goto(t, "close", cur[t])
        /\ UNCHANGED <<cf_associate, kopen, poller, armed, alloc>>
        /\ cf_open'[f] /\ \A g \in Fds \ {f} : cf_open'[g] = cf_open[g]
    BY <1>3 DEF AcceptGivesUp, At, AccPc, Has, Busy, epoll, TypeOK
  <2>2. f \in kopen /\ ~cf_associate[f] /\ poller[f] = Null /\ t # Null
    BY <2>1, EchoAssumption, ZenonT(60) DEF Sound, OneOwner, TablesAgree, Agrees
  <2>3. CtlWorks(t, f)
    BY <2>2 DEF CtlWorks
  <2>4. hand' = hand
    BY <1>3, <2>3 DEF AcceptGivesUp
  <2>5. cur[t].rd = Null /\ cur[t].wr = Null /\ Uses(t) = {cur[t].rd, cur[t].wr, cur[t].free} \ {Null}
    BY <2>1 DEF Sound, WorkFits, Uses
  <2>6. \A g \in Fds : Has(t, g) <=> g = f
    BY <2>1 DEF Has
  <2> HIDE DEF f
  <2> QED
    BY <2>1, <2>4, <2>5, <2>6, GoOn DEF hand, Busy, f
<1> QED
  BY <1>1, <1>2, <1>3

(* The steps of plm_echo_read() and plm_echo_write().                      *)
LEMMA SoundHandling ==
  ASSUME TypeOK, AccPc, Sound, ~fault', NEW t \in Threads,
         \/ ReadData(t) \/ ReadAgain(t) \/ WriteThenWait(t)
         \/ ReadEnd(t) \/ WriteThenRead(t)
  PROVE  Sound'
<1> DEFINE f == cur[t].fd
<1>1. tpc[t] = "handle" /\ f \in Fds /\ Has(t, f) /\ cur[t] \in Works
  BY DEF ReadData, ReadAgain, WriteThenWait, ReadEnd, WriteThenRead, At, AccPc, Has, Busy,
     TypeOK
<1>2. /\ cf_associate[f] /\ poller[f] = t /\ cf_open[f] /\ f \in kopen /\ armed[f] = "no"
      /\ onread[f] = Null /\ onwrite[f] = Null
      /\ cur[t].free = Null /\ (cur[t].rd = Null <=> cur[t].wr # Null)
      /\ \A g \in Fds : Has(t, g) <=> g = f
  <2>1. f \in kopen /\ armed[f] = "no" /\ \A u \in Threads : Has(u, f) => u = t
    BY <1>1 DEF Sound, OneOwner
  <2>2. cf_associate[f] /\ poller[f] = t /\ cf_open[f]
    BY <1>1, <2>1 DEF Sound, TablesAgree, Agrees
  <2>3. onread[f] = Null /\ onwrite[f] = Null
    BY <1>1, <2>1 DEF Sound, Handlers
  <2>4. cur[t].free = Null /\ (cur[t].rd = Null <=> cur[t].wr # Null)
    BY <1>1 DEF Sound, WorkFits
  <2>5. \A g \in Fds : Has(t, g) <=> g = f
    BY <1>1 DEF Has
  <2> QED
    BY <2>1, <2>2, <2>3, <2>4, <2>5
<1>3. CtlWorks(t, f) /\ ~CtlFails(t, f)
  BY <1>2 DEF CtlWorks, CtlFails
<1>4. CASE ReadData(t)
  <2> DEFINE w == [cur[t] EXCEPT !.rd = Null]
  <2>1. w.rd = Null /\ w.wr = Null /\ w.free = Null /\ cur[t].rd # Null /\ cur[t].wr = Null
    BY <1>1, <1>2, <1>4, WorkIs DEF ReadData
  <2>2. Goto(t, "poll", w) /\ Ctl(t, f, "out") /\ EventWrite(f, cur[t].rd)
    BY <1>3, <1>4, <2>1 DEF ReadData, Continue
  <2>3. UNCHANGED <<kopen, alloc>> /\ Uses(t) = {cur[t].rd} /\ cur[t].rd \in Clients
    BY <1>1, <1>2, <1>4, <2>1, WorkTypes DEF ReadData, Uses
  <2>4. /\ cf_open'[f] /\ cf_associate'[f] /\ poller'[f] = t
        /\ armed'[f] = "out" /\ onread'[f] = Null /\ onwrite'[f] = cur[t].rd
        /\ \A g \in Fds \ {f} : Same(g)
    BY <1>1, <1>2, <2>2, <2>3 DEF Ctl, EventWrite, TypeOK, Same
  <2> HIDE DEF f, w
  <2> QED
    BY <1>1, <2>1, <2>2, <2>3, <2>4, Arm
<1>5. CASE ReadAgain(t)
  <2> DEFINE w == [cur[t] EXCEPT !.rd = Null]
  <2>1. w.rd = Null /\ w.wr = Null /\ w.free = Null /\ cur[t].rd # Null /\ cur[t].wr = Null
    BY <1>1, <1>2, <1>5, WorkIs DEF ReadAgain
  <2>2. Goto(t, "poll", w) /\ Ctl(t, f, "in") /\ EventRead(f, cur[t].rd)
    BY <1>3, <1>5, <2>1 DEF ReadAgain, Continue
  <2>3. UNCHANGED <<kopen, alloc>> /\ Uses(t) = {cur[t].rd} /\ cur[t].rd \in Clients
    BY <1>1, <1>2, <1>5, <2>1, WorkTypes DEF ReadAgain, Uses
  <2>4. /\ cf_open'[f] /\ cf_associate'[f] /\ poller'[f] = t
        /\ armed'[f] = "in" /\ onread'[f] = cur[t].rd /\ onwrite'[f] = Null
        /\ \A g \in Fds \ {f} : Same(g)
    BY <1>1, <1>2, <2>2, <2>3 DEF Ctl, EventRead, TypeOK, Same
  <2> HIDE DEF f, w
  <2> QED
    BY <1>1, <2>1, <2>2, <2>3, <2>4, Arm
<1>6. CASE WriteThenWait(t)
  <2>1. cur[t].rd = Null /\ cur[t].wr # Null
    BY <1>6 DEF WriteThenWait
  <2>2. Goto(t, "poll", NoWork) /\ Ctl(t, f, "in") /\ EventRead(f, cur[t].wr)
    BY <1>3, <1>6 DEF WriteThenWait
  <2>3. UNCHANGED <<kopen, alloc>> /\ Uses(t) = {cur[t].wr} /\ cur[t].wr \in Clients
    BY <1>1, <1>2, <1>6, <2>1, WorkTypes, ZenonT(60) DEF WriteThenWait, Uses
  <2>4. /\ cf_open'[f] /\ cf_associate'[f] /\ poller'[f] = t
        /\ armed'[f] = "in" /\ onread'[f] = cur[t].wr /\ onwrite'[f] = Null
        /\ \A g \in Fds \ {f} : Same(g)
    BY <1>1, <1>2, <2>2, <2>3 DEF Ctl, EventRead, TypeOK, Same
  <2> HIDE DEF f
  <2> QED
    BY <1>1, <2>2, <2>3, <2>4, WorkIs, Arm
<1>7. CASE ReadEnd(t)
  <2> DEFINE w == [cur[t] EXCEPT !.rd = Null, !.free = cur[t].rd]
  <2>1. /\ Goto(t, "close", w) /\ cur[t].rd # Null
        /\ UNCHANGED <<kopen, alloc, armed, onread, onwrite, poller, cf_open, cf_associate>>
    BY <1>7 DEF ReadEnd, table, hand, epoll
  <2>2. w.fd = f /\ w.rd = Null /\ w.wr = Null /\ w.free = cur[t].rd
    BY <1>1, <1>2, <2>1, WorkIs
  <2>3. Uses(t) = {cur[t].rd}
    BY <1>2, <2>1 DEF Uses
  <2> HIDE DEF f, w
  <2> QED
    BY <1>1, <1>2, <2>1, <2>2, <2>3, GoOn DEF Busy, f
<1>8. CASE WriteThenRead(t)
  <2> DEFINE w == [cur[t] EXCEPT !.rd = cur[t].wr, !.wr = Null]
  <2>1. /\ Goto(t, "handle", w) /\ cur[t].wr # Null
        /\ UNCHANGED <<kopen, alloc, armed, onread, onwrite, poller, cf_open, cf_associate>>
    BY <1>8 DEF WriteThenRead, table, hand, epoll
  <2>2. w.fd = f /\ w.rd = cur[t].wr /\ w.wr = Null /\ w.free = Null
    BY <1>1, <1>2, WorkIs
  <2>3. Uses(t) = {cur[t].wr}
    BY <1>2, <2>1 DEF Uses
  <2> HIDE DEF f, w
  <2> QED
    BY <1>1, <1>2, <2>1, <2>2, <2>3, GoOn DEF Busy, f
<1> QED
  BY <1>4, <1>5, <1>6, <1>7, <1>8

(* The entry is closed before the number is given back.                    *)
LEMMA SoundCloseEntry ==
  ASSUME TypeOK, AccPc, Sound, NEW t \in Threads, CloseEntry(t)
  PROVE  Sound'
<1> DEFINE f == cur[t].fd
<1>1. /\ tpc[t] = "close" /\ f \in Fds /\ Has(t, f) /\ Goto(t, "kclose", cur[t])
      /\ UNCHANGED <<kopen, alloc, armed, onread, onwrite, poller>>
      /\ ~cf_open'[f] /\ ~cf_associate'[f]
      /\ \A g \in Fds \ {f} : cf_open'[g] = cf_open[g] /\ cf_associate'[g] = cf_associate[g]
  BY DEF CloseEntry, At, AccPc, Has, Busy, TypeOK, hand, epoll
<1>2. /\ cur[t].rd = Null /\ cur[t].wr = Null
      /\ Uses(t) = {cur[t].rd, cur[t].wr, cur[t].free} \ {Null}
      /\ \A g \in Fds : Has(t, g) <=> g = f
  BY <1>1 DEF Sound, WorkFits, Uses, Has
<1> HIDE DEF f
<1> QED
  BY <1>1, <1>2, GoOn DEF Busy, f

(* A fault is remembered.                                                  *)
LEMMA FaultStays ==
  ASSUME TypeOK, [Next]_vars, fault
  PROVE  fault'
<1>1. CASE Peers \/ UNCHANGED vars
  BY <1>1 DEF Peers, Connect, Send, PeerCloses, PeerResets, vars
<1>2. ASSUME NEW t \in Threads, ThreadStep(t) PROVE fault'
  BY <1>2 DEF ThreadStep, TakeListener, Accept, AcceptFails, AcceptSetup, AcceptGivesUp,
     AcceptDone, TakeEvent, ReadData, ReadAgain, ReadEnd, WriteThenRead, WriteThenWait,
     WriteKills, CloseAsserts, CloseEntry, KernelClose, FreeClient, Ctl, CtlFails
<1> QED
  BY <1>1, <1>2 DEF Next

(* The steps that do not change what the invariant is about.               *)
LEMMA SoundStays ==
  ASSUME Sound,
         UNCHANGED <<cf_open, cf_associate, onread, onwrite, kopen, poller, armed, alloc, tpc, cur>>
  PROVE  Sound'
<1>1. \A t, g : (Has(t, g)' <=> Has(t, g)) /\ Uses(t)' = Uses(t) /\ ClientOf(g)' = ClientOf(g)
  BY DEF Has, Uses, ClientOf
<1>2. OneOwner' /\ Handlers' /\ WorkFits'
  BY <1>1 DEF Sound, OneOwner, Handlers, WorkFits
<1>3. TablesAgree'
  BY <1>1 DEF Sound, TablesAgree, Agrees
<1>4. OneClient'
  BY <1>1 DEF Sound, OneClient
<1> QED
  BY <1>2, <1>3, <1>4 DEF Sound

LEMMA SoundStep ==
  ASSUME Inv, Next, ~fault'
  PROVE  Sound'
<1>1. ~fault
  BY FaultStays DEF Inv
<1>2. Sound /\ TypeOK /\ AccPc
  BY <1>1 DEF Inv
<1>3. CASE Peers
  BY <1>2, <1>3, SoundStays DEF Peers, Connect, Send, PeerCloses, PeerResets, table, hand, epoll
<1>4. ASSUME NEW t \in Threads, ThreadStep(t) PROVE Sound'
  <2>1. CASE TakeListener(t) \/ AcceptSetup(t) \/ AcceptGivesUp(t) \/ AcceptDone(t)
    BY <1>2, <2>1, SoundAccepting
  <2>2. CASE Accept(t)
    BY <1>2, <2>2, SoundAccept
  <2>3. CASE AcceptFails(t) \/ WriteKills(t) \/ CloseAsserts(t)
    BY <1>2, <2>3, SoundStays DEF AcceptFails, WriteKills, CloseAsserts, table, hand, epoll
  <2>4. CASE \E f \in Fds : TakeEvent(t, f)
    BY <1>2, <2>4, SoundTakeEvent
  <2>5. CASE \/ ReadData(t) \/ ReadAgain(t) \/ WriteThenWait(t)
             \/ ReadEnd(t) \/ WriteThenRead(t)
    BY <1>2, <2>5, SoundHandling
  <2>6. CASE CloseEntry(t)
    BY <1>2, <2>6, SoundCloseEntry
  <2>7. CASE KernelClose(t)
    BY <1>2, <2>7, SoundKernelClose
  <2>8. CASE FreeClient(t)
    BY <1>2, <2>8, SoundFreeClient
  <2> QED
    BY <1>4, <2>1, <2>2, <2>3, <2>4, <2>5, <2>6, <2>7, <2>8 DEF ThreadStep
<1> QED
  BY <1>3, <1>4 DEF Next

(* An assertion of plm_comm.c fails after a fault only.                    *)
LEMMA AssertionsStep ==
  ASSUME Inv, Next
  PROVE  AssertionsHold'
<1>1. ASSUME failed' = failed PROVE AssertionsHold'
  BY <1>1, FaultStays DEF Inv, AssertionsHold
<1>2. ASSUME NEW t \in Threads, AcceptFails(t) PROVE AssertionsHold'
  <2>1. tpc[t] = "setup" /\ cur[t].fd \in Fds /\ fault' = fault
    BY <1>2 DEF AcceptFails, At, Inv, AccPc, Busy
  <2>2. Has(t, cur[t].fd)
    BY <2>1 DEF Has, Busy
  <2>3. ~fault => ~cf_open[cur[t].fd]
    BY <2>1, <2>2 DEF Inv, Sound, TablesAgree, Agrees
  <2>4. ~fault => failed' = "bound"
    BY <1>2, <2>3 DEF AcceptFails
  <2> QED
    BY <2>1, <2>4 DEF AssertionsHold
<1>3. ASSUME NEW t \in Threads, CloseAsserts(t) PROVE AssertionsHold'
  <2>1. tpc[t] = "close" /\ cur[t].fd \in Fds /\ fault' = fault /\ ~cf_open[cur[t].fd]
    BY <1>3 DEF CloseAsserts, At, Inv, AccPc, Busy
  <2>2. Has(t, cur[t].fd)
    BY <2>1 DEF Has, Busy
  <2>3. ~fault => \A u \in Threads : Has(u, cur[t].fd) => u = t
    BY <2>1, <2>2 DEF Inv, Sound, OneOwner
  <2>4. ~fault => cf_open[cur[t].fd]
    BY <2>1, <2>2, <2>3 DEF Inv, Sound, OneOwner, TablesAgree, Agrees
  <2> QED
    BY <2>1, <2>4 DEF AssertionsHold
<1>4. ASSUME NEW t \in Threads, WriteKills(t) PROVE AssertionsHold'
  BY <1>4 DEF WriteKills, AssertionsHold
<1>5. CASE Peers
  BY <1>1, <1>5 DEF Peers, Connect, Send, PeerCloses, PeerResets
<1>6. ASSUME NEW t \in Threads, ThreadStep(t), ~AcceptFails(t), ~CloseAsserts(t), ~WriteKills(t)
      PROVE  AssertionsHold'
  <2>1. failed' = failed
    BY <1>6 DEF ThreadStep, TakeListener, Accept, AcceptSetup, AcceptGivesUp, AcceptDone,
       TakeEvent, ReadData, ReadAgain, ReadEnd, WriteThenRead, WriteThenWait, CloseEntry,
       KernelClose, FreeClient
  <2> QED
    BY <1>1, <2>1
<1> QED
  BY <1>2, <1>3, <1>4, <1>5, <1>6 DEF Next

(* Every step keeps the invariant.                                         *)
LEMMA InvStep == Inv /\ [Next]_vars => Inv'
<1> SUFFICES ASSUME Inv, [Next]_vars PROVE Inv'
  OBVIOUS
<1>1. CASE Next
  <2>1. TypeOK'
    BY <1>1, TypeAccept, TypeHandle, TypeClose, TypePeers DEF Inv, Next, ThreadStep
  <2>2. AccPc' /\ OneAcceptor'
    BY <1>1, AccStep DEF Inv
  <2> QED
    BY <1>1, <2>1, <2>2, AssertionsStep, SoundStep DEF Inv
<1>2. CASE UNCHANGED vars
  <2>1. TypeOK'
    BY <1>2 DEF Inv, TypeOK, vars, table, hand, epoll, peer
  <2>2. AccPc' /\ OneAcceptor' /\ AssertionsHold'
    BY <1>2 DEF Inv, AccPc, OneAcceptor, Accepting, AssertionsHold, vars, epoll
  <2>3. ~fault' => Sound'
    BY <1>2, SoundStays DEF Inv, vars, table, hand, epoll
  <2> QED
    BY <2>1, <2>2, <2>3 DEF Inv
<1> QED
  BY <1>1, <1>2

-----------------------------------------------------------------------------
(* The tables of plm_comm.c and plm_event.c, the pollers and the work of   *)
(* the threads keep their shape in every execution.                        *)
THEOREM TypeCorrect == Spec => []TypeOK
BY InvInit, InvStep, PTL DEF Spec, Inv

(* plm_echo_accept() runs in one thread at a time, for any number of       *)
(* threads and whichever epoll_ctl(), accept() or allocation fails: the    *)
(* one-shot listener is with the poller or with one thread.                *)
THEOREM OneAcceptorHolds == Spec => []OneAcceptor
BY InvInit, InvStep, PTL DEF Spec, Inv

(* The assertions of plm_comm.c:126 and :178 hold until a fault: no        *)
(* interleaving of threads that close and accept the same number meets an  *)
(* entry in the wrong state, for any number of threads and descriptors.    *)
THEOREM AssertionsHoldAlways == Spec => []AssertionsHold
BY InvInit, InvStep, PTL DEF Spec, Inv

(* Until a fault no two threads work on one client of plm_echo.c, and none *)
(* on a client that has been freed.                                        *)
THEOREM ClientsExclusiveHolds == Spec => []ClientsExclusive
<1>1. Inv => ClientsExclusive
  BY DEF Inv, Sound, OneClient, ClientsExclusive
<1> QED
  BY InvInit, InvStep, <1>1, PTL DEF Spec

(* Until a fault an armed descriptor has a callback with a client of its   *)
(* own in the handler table of plm_event.c.                                *)
THEOREM ArmedIsServedHolds == Spec => []ArmedIsServed
<1>1. Inv => ArmedIsServed
  <2> SUFFICES ASSUME Inv, ~fault, NEW f \in Fds, armed[f] # "no"
               PROVE  /\ ClientOf(f) \in alloc
                      /\ \A t \in Threads : ClientOf(f) \notin Uses(t)
                      /\ \A g \in Fds \ {f} : armed[g] # "no" => ClientOf(f) \notin {onread[g], onwrite[g]}
    BY DEF ArmedIsServed, ClientOf
  <2>1. Sound /\ TypeOK
    BY DEF Inv
  <2>2. ASSUME NEW g \in Fds \ {f}, armed[g] # "no"
        PROVE  ClientOf(f) \notin {onread[g], onwrite[g]}
    <3>1. {onread[g], onwrite[g]} = {ClientOf(g), Null}
      BY <2>1, <2>2 DEF Sound, Handlers, ClientOf, TypeOK
    <3>2. ClientOf(f) # Null
      BY <2>1, EchoAssumption DEF Sound, OneClient, TypeOK
    <3>3. ClientOf(f) # ClientOf(g)
      BY <2>1, <2>2 DEF Sound, OneClient
    <3> QED
      BY <3>1, <3>2, <3>3
  <2> QED
    BY <2>1, <2>2 DEF Sound, OneClient
<1> QED
  BY InvInit, InvStep, <1>1, PTL DEF Spec

(* Until a fault no connection and no client is lost: each is armed or in  *)
(* the hands of a thread.                                                  *)
THEOREM NothingLostHolds == Spec => []NothingLost
<1>1. Inv => NothingLost
  <2> SUFFICES ASSUME Inv, ~fault
               PROVE  /\ \A f \in kopen : armed[f] # "no" \/ Held(f)
                      /\ \A c \in alloc :
                           \/ \E t \in Threads : c \in Uses(t)
                           \/ \E f \in kopen : armed[f] # "no" /\ c \in {onread[f], onwrite[f]}
    BY DEF NothingLost
  <2>1. Sound
    BY DEF Inv
  <2>2. \A f \in kopen : armed[f] # "no" \/ Held(f)
    BY <2>1 DEF Sound, OneOwner, Held, Has, Busy
  <2>3. \A f \in Fds : armed[f] # "no" => f \in kopen /\ ClientOf(f) \in {onread[f], onwrite[f]}
    BY <2>1 DEF Sound, TablesAgree, Agrees, ClientOf
  <2> QED
    BY <2>1, <2>2, <2>3 DEF Sound, OneClient
<1> QED
  BY InvInit, InvStep, <1>1, PTL DEF Spec

(* Without faults the assertions of plm_comm.c never fail: what the code   *)
(* needs for them is a descriptor table that is zero at first and an       *)
(* epoll_ctl() that does not fail where it can work, and nothing else.     *)
THEOREM AssertionsNeedNoMore ==
  ASSUME ZeroTable, ~CtlMayFail
  PROVE  Spec => []AssertionsNeverFail
<1>1. Init => ~fault
  BY DEF Init
<1>2. ~fault /\ [Next]_vars => ~fault'
  <2> SUFFICES ASSUME ~fault, [Next]_vars PROVE ~fault'
    OBVIOUS
  <2>1. CASE Peers \/ UNCHANGED vars
    BY <2>1 DEF Peers, Connect, Send, PeerCloses, PeerResets, vars
  <2>2. ASSUME NEW t \in Threads, ThreadStep(t) PROVE ~fault'
    BY <2>2 DEF ThreadStep, TakeListener, Accept, AcceptFails, AcceptSetup, AcceptGivesUp,
       AcceptDone, TakeEvent, ReadData, ReadAgain, ReadEnd, WriteThenRead, WriteThenWait,
       WriteKills, CloseAsserts, CloseEntry, KernelClose, FreeClient, Ctl, CtlFails
  <2> QED
    BY <2>1, <2>2 DEF Next
<1>3. ~fault /\ Inv => AssertionsNeverFail
  BY DEF Inv, AssertionsHold, AssertionsNeverFail
<1> QED
  BY InvInit, InvStep, <1>1, <1>2, <1>3, PTL DEF Spec
=============================================================================
