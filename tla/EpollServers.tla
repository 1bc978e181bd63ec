------------------------------ MODULE EpollServers ------------------------------
(* The small servers that share one loop, epoll_wait and a scan of what it       *)
(* reported, and differ in what they do with a connection that has data:         *)
(*   "lt", "et"  1/1_4_server.cpp, one recv, or recv until EAGAIN                *)
(*   "echo"      1/1_3_server.cpp, TCP as "et" and sent back, and a UDP socket   *)
(*   "oneshot"   1/1_5_server.cpp, a new thread for each event, EPOLLONESHOT     *)
(*   "signal"    3/3_1_server.cpp, signals through a pipe; data are not read     *)
(* server says which one a behaviour is about.                                   *)
EXTENDS Integers, Sequences, FiniteSets, FiniteSetsExt

CONSTANTS Servers, Conns, None,
          Leavers, Resetters,      \* clients that may end, may reset their connection
          MaxSent,                 \* bound: pieces of one client by server, one a recv
          Threads,                 \* bound: threads at a time
          MaxDatagrams,
          Signals, MaxSignals,     \* signals that are raised, bound: how many
          PipeRoom,                \* signals that fit into the pipe
          SignalBuffer             \* the size of signals[], 1024 in the code

ASSUME EpollAssumption ==
  /\ Servers \subseteq {"lt", "et", "echo", "oneshot", "signal"}
  /\ IsFiniteSet(Conns) /\ None \notin Conns /\ IsFiniteSet(Threads)
  /\ Leavers \subseteq Conns /\ Resetters \subseteq Conns
  /\ Signals \subseteq {"HUP", "CHLD", "TERM", "INT"}
  /\ MaxSent \in [Servers -> Nat] /\ MaxDatagrams \in Nat /\ MaxSignals \in Nat
  /\ PipeRoom \in Nat \ {0} /\ SignalBuffer \in Nat \ {0}
ASSUME NoneAssumption == None \notin Int      \* not a descriptor

ListenFd == 0
UdpFd == 1
PipeFd == 2
Fds == 3 .. 2 + Cardinality(Conns)
Watched == {ListenFd, UdpFd, PipeFd} \cup Fds
BadFd == -1                        \* a number that is no open descriptor

VARIABLES
  server,
  status, backlog,     \* of a connection: "new", "backlog", "open", "closed"
  sent, wire, fin,     \* pieces sent; arrived and not received; no more will come
  err,                 \* its error after a reset: "none", "pending", "taken"
  got,                 \* pieces received
  conn,                \* the connection behind a descriptor
  edges, armed,        \* epoll's ready list; the descriptors it watches
  batch,               \* events[] not looked at yet
  pc, cur,             \* main's place, and the socket of its recv loop
  arg,                 \* the socket in fds_for_new_worker, on main's stack
  starting, sock,      \* threads that have not read all of it; a thread's socket
  blind,               \* threads that have read something else for epollfd
  rearming,            \* threads between EAGAIN and reset_oneshot
  raced,               \* history: arg was overwritten before a thread read it
  udp,                 \* datagrams to receive
  pipe, raised,        \* signals in the pipe; how many there were
  stop_server,
  overran              \* history: a recv left signals in the pipe

clientVars == <<sent, fin>>
inputVars == <<wire, err, got>>
mainVars == <<batch, pc, cur>>
threadVars == <<arg, starting, sock, blind, rearming, raced>>
signalVars == <<pipe, raised, stop_server, overran>>
vars == <<server, status, backlog, clientVars, inputVars, conn, edges, armed, mainVars,
          threadVars, udp, signalVars>>

Init ==
  /\ server \in Servers
  /\ status = [c \in Conns |-> "new"] /\ backlog = <<>>
  /\ sent = [c \in Conns |-> 0] /\ wire = [c \in Conns |-> 0] /\ fin = [c \in Conns |-> FALSE]
  /\ err = [c \in Conns |-> "none"] /\ got = [c \in Conns |-> 0]
  /\ conn = [fd \in Fds |-> None] /\ edges = {} /\ armed = {}
  /\ batch = {} /\ pc = "wait" /\ cur = BadFd
  /\ arg = BadFd /\ starting = {} /\ sock = [t \in Threads |-> None] /\ blind = {}
  /\ rearming = {} /\ raced = FALSE /\ udp = 0
  /\ pipe = <<>> /\ raised = 0 /\ stop_server = FALSE /\ overran = FALSE

(* --------------------------- clients, the network ---------------------------- *)

Alive(c) == status[c] \in {"backlog", "open"} /\ ~fin[c]

\* What arrives puts a watched descriptor on the ready list.
Edge(c) == edges' = edges \cup {fd \in armed : conn[fd] = c}

Connect(c) ==
  /\ status[c] = "new" /\ pc \notin {"done", "killed"} /\ status' = [status EXCEPT ![c] = "backlog"]
  /\ backlog' = Append(backlog, c) /\ edges' = edges \cup {ListenFd}
  /\ UNCHANGED <<server, clientVars, inputVars, conn, armed, mainVars, threadVars, udp,
                 signalVars>>
Send(c) ==
  /\ Alive(c) /\ sent[c] < MaxSent[server]
  /\ sent' = [sent EXCEPT ![c] = @ + 1] /\ wire' = [wire EXCEPT ![c] = @ + 1] /\ Edge(c)
  /\ UNCHANGED <<server, status, backlog, fin, err, got, conn, armed, mainVars, threadVars,
                 udp, signalVars>>
Leave(c) ==
  /\ Alive(c) /\ c \in Leavers
  /\ fin' = [fin EXCEPT ![c] = TRUE] /\ Edge(c)
  /\ UNCHANGED <<server, status, backlog, sent, inputVars, conn, armed, mainVars, threadVars,
                 udp, signalVars>>
\* The client resets, or its host does because it gets an echo after it has closed.
\* What has arrived can still be received.  After a FIN the error is EPIPE: recv says
\* end of stream, as if the error had been taken, and a send raises SIGPIPE.
Reset(c) ==
  /\ status[c] \in {"backlog", "open"} /\ err[c] = "none"
  /\ c \in Resetters \/ (server = "echo" /\ fin[c] /\ got[c] > 0)
  /\ fin' = [fin EXCEPT ![c] = TRUE]
  /\ err' = [err EXCEPT ![c] = IF fin[c] THEN "taken" ELSE "pending"] /\ Edge(c)
  /\ UNCHANGED <<server, status, backlog, sent, wire, got, conn, armed, mainVars, threadVars,
                 udp, signalVars>>
Datagram ==
  /\ server = "echo" /\ udp < MaxDatagrams
  /\ udp' = udp + 1 /\ edges' = edges \cup {UdpFd}
  /\ UNCHANGED <<server, status, backlog, clientVars, inputVars, conn, armed, mainVars,
                 threadVars, signalVars>>
\* sig_handler: the signal goes into the pipe, at whatever point main is.  When the
\* pipe is full, send fails with EAGAIN and the signal is lost.
Raise(sig) ==
  /\ server = "signal" /\ pc # "done" /\ raised < MaxSignals
  /\ raised' = raised + 1
  /\ IF Len(pipe) < PipeRoom THEN pipe' = Append(pipe, sig) /\ edges' = edges \cup {PipeFd}
     ELSE UNCHANGED <<pipe, edges>>
  /\ UNCHANGED <<server, status, backlog, clientVars, inputVars, conn, armed, mainVars,
                 threadVars, udp, stop_server, overran>>

(* ------------------------------ main's loop ---------------------------------- *)

HasInput(fd) == \/ fd = ListenFd /\ backlog # <<>>
                \/ fd = UdpFd /\ udp > 0
                \/ fd = PipeFd /\ pipe # <<>>
                \/ /\ fd \in Fds /\ conn[fd] # None
                   /\ wire[conn[fd]] > 0 \/ fin[conn[fd]]

\* Edge-triggered: what is on the ready list and still has input.  Without
\* EPOLLET a descriptor is on the list as long as it has.
ReadyList == edges \cup (IF server = "lt" THEN armed ELSE {})
Ready == {fd \in ReadyList : HasInput(fd)}

StillArmed == armed
Disarmed == IF server = "oneshot" THEN armed \ Ready ELSE armed
EpollWait ==
  /\ pc = "wait" /\ Ready # {}
  /\ pc' = "events" /\ batch' = Ready /\ edges' = {}
  /\ armed' = Disarmed
  /\ UNCHANGED <<server, status, backlog, clientVars, inputVars, conn, cur, threadVars, udp,
                 signalVars>>
BatchDone ==
  /\ pc = "events" /\ batch = {}
  /\ pc' = IF stop_server THEN "done" ELSE "wait"
  /\ UNCHANGED <<server, status, backlog, clientVars, inputVars, conn, edges, armed, batch, cur,
                 threadVars, udp, signalVars>>

Dispatch(fd) == pc = "events" /\ fd \in batch /\ batch' = batch \ {fd}

\* The structure of the last new thread is out of scope: client_address may lie
\* over it.
Overwrite == /\ arg' \in (IF server = "oneshot" THEN {arg, BadFd} ELSE {arg})
             /\ raced' = (raced \/ (arg' # arg /\ starting # {}))

\* One accept for an event of the listening socket.  EPOLL_CTL_ADD looks
\* whether there is input already.
NewFd == Min({fd \in Fds : conn[fd] = None})
Accept ==
  /\ Dispatch(ListenFd) /\ Overwrite
  /\ backlog' = Tail(backlog) /\ status' = [status EXCEPT ![Head(backlog)] = "open"]
  /\ conn' = [conn EXCEPT ![NewFd] = Head(backlog)] /\ armed' = armed \cup {NewFd}
  /\ edges' = edges \cup {fd \in {NewFd} : wire[Head(backlog)] > 0 \/ fin[Head(backlog)]}
  /\ UNCHANGED <<server, clientVars, inputVars, pc, cur, starting, sock, blind, rearming,
                 udp, signalVars>>

\* addfd of -1 fails and is not looked at: the event is used up.
AcceptFails ==
  /\ Dispatch(ListenFd) /\ Overwrite
  /\ UNCHANGED <<server, status, backlog, clientVars, inputVars, conn, edges, armed, pc, cur,
                 starting, sock, blind, rearming, udp, signalVars>>

(* --------------------------------- recv -------------------------------------- *)

\* What recv says of a descriptor: data first, then the error, then the end.
Outcome(fd) == IF fd = BadFd \/ conn[fd] = None THEN "ebadf"
               ELSE IF wire[conn[fd]] > 0 THEN "data"
               ELSE IF err[conn[fd]] = "pending" THEN "error"
               ELSE IF fin[conn[fd]] THEN "end" ELSE "eagain"
Take(c) == /\ wire' = [wire EXCEPT ![c] = @ - 1] /\ got' = [got EXCEPT ![c] = @ + 1]
TakeError(c) == err' = [err EXCEPT ![c] = "taken"]
Close(fd) ==
  /\ status' = [status EXCEPT ![conn[fd]] = "closed"]
  /\ conn' = [conn EXCEPT ![fd] = None]
  /\ edges' = edges \ {fd} /\ armed' = armed \ {fd}
StaysOpen == UNCHANGED <<status, conn, edges, armed>>

(* ------------------------- "lt": one recv for an event ------------------------ *)

\* The end of the stream is reported again and again and never closed.
LtRecv(fd) ==
  /\ server = "lt" /\ fd \in Fds /\ Dispatch(fd)
  /\ \/ Outcome(fd) = "data" /\ Take(conn[fd]) /\ StaysOpen /\ UNCHANGED err
     \/ Outcome(fd) = "error" /\ Close(fd) /\ UNCHANGED inputVars
     \/ Outcome(fd) = "end" /\ StaysOpen /\ UNCHANGED inputVars
  /\ UNCHANGED <<server, backlog, clientVars, pc, cur, threadVars, udp, signalVars>>

(* ------------------- "et" and "echo": recv until EAGAIN ----------------------- *)

EtEventHangupFirst(fd) ==
  /\ server \in {"et", "echo"} /\ fd \in Fds /\ Dispatch(fd)
  /\ IF fin[conn[fd]] THEN Close(fd) /\ UNCHANGED <<pc, cur>>
     ELSE pc' = "recv" /\ cur' = fd /\ StaysOpen
  /\ UNCHANGED <<server, backlog, clientVars, inputVars, threadVars, udp, signalVars>>
EtEvent(fd) ==
  /\ server \in {"et", "echo"} /\ fd \in Fds /\ Dispatch(fd)
  /\ pc' = "recv" /\ cur' = fd
  /\ UNCHANGED <<server, status, backlog, clientVars, inputVars, conn, edges, armed, threadVars,
                 udp, signalVars>>

\* The echo to a connection that was reset fails and takes the error away; the
\* next one raises SIGPIPE, which ends the server.
SendBack(c) ==
  /\ err' = IF server = "echo" /\ err[c] = "pending" THEN [err EXCEPT ![c] = "taken"] ELSE err
  /\ pc' = IF server = "echo" /\ err[c] = "taken" THEN "killed" ELSE "recv"
EtData ==
  /\ pc = "recv" /\ Outcome(cur) = "data"
  /\ Take(conn[cur]) /\ SendBack(conn[cur]) /\ StaysOpen
  /\ UNCHANGED <<server, backlog, clientVars, batch, cur, threadVars, udp, signalVars>>
EtEndBreaks ==
  /\ pc = "recv" /\ Outcome(cur) = "end"
  /\ pc' = "events" /\ cur' = BadFd /\ StaysOpen
  /\ UNCHANGED <<server, backlog, clientVars, inputVars, batch, threadVars, udp, signalVars>>
\* After the end of the stream the loop goes on, with a closed descriptor.
EtEnd ==
  /\ pc = "recv" /\ Outcome(cur) = "end"
  /\ Close(cur)
  /\ UNCHANGED <<server, backlog, clientVars, inputVars, mainVars, threadVars, udp, signalVars>>
EtBreak ==
  /\ pc = "recv" /\ Outcome(cur) \in {"error", "ebadf", "eagain"}
  /\ pc' = "events" /\ cur' = BadFd
  /\ IF Outcome(cur) = "error" THEN Close(cur) ELSE StaysOpen
  /\ UNCHANGED <<server, backlog, clientVars, inputVars, batch, threadVars, udp, signalVars>>

\* One recvfrom for an event.  client_addrlength is 4: the reply goes to the right
\* port and to the address that was on the stack.
EchoDatagram ==
  /\ Dispatch(UdpFd)
  /\ udp' = udp - 1
  /\ UNCHANGED <<server, status, backlog, clientVars, inputVars, conn, edges, armed, pc, cur,
                 threadVars, signalVars>>

(* -------------------- "oneshot": a thread for each event ---------------------- *)

Working == starting \cup {t \in Threads : sock[t] # None}
NewThread(fd) ==
  /\ server = "oneshot" /\ fd \in Fds /\ Dispatch(fd)
  /\ arg' = fd /\ raced' = (raced \/ starting # {})
  /\ \E t \in Threads \ Working : starting' = starting \cup {t}
  /\ UNCHANGED <<server, status, backlog, clientVars, inputVars, conn, edges, armed, pc, cur,
                 sock, blind, rearming, udp, signalVars>>

\* The two loads of worker: main goes on meanwhile.
ReadSockfd(t) ==
  /\ t \in starting /\ sock[t] = None
  /\ sock' = [sock EXCEPT ![t] = arg]
  /\ UNCHANGED <<server, status, backlog, clientVars, inputVars, conn, edges, armed, mainVars,
                 arg, starting, blind, rearming, raced, udp, signalVars>>
ReadEpollfd(t) ==
  /\ t \in starting /\ sock[t] # None
  /\ starting' = starting \ {t}
  /\ blind' = IF arg = BadFd THEN blind \cup {t} ELSE blind
  /\ UNCHANGED <<server, status, backlog, clientVars, inputVars, conn, edges, armed, mainVars,
                 arg, sock, rearming, raced, udp, signalVars>>

Receiving(t) == sock[t] # None /\ t \notin starting \cup rearming
\* Any error but EAGAIN, and the loop goes on: with a descriptor that is not
\* open it goes on for ever.
WorkerRecv(t) ==
  /\ Receiving(t)
  /\ \/ Outcome(sock[t]) = "data" /\ Take(conn[sock[t]]) /\ UNCHANGED err
     \/ Outcome(sock[t]) = "error" /\ TakeError(conn[sock[t]]) /\ UNCHANGED <<wire, got>>
  /\ UNCHANGED <<server, status, backlog, clientVars, conn, edges, armed, mainVars, threadVars,
                 udp, signalVars>>
WorkerEnd(t) ==
  /\ Receiving(t) /\ Outcome(sock[t]) = "end"
  /\ Close(sock[t])
  /\ sock' = [sock EXCEPT ![t] = None] /\ blind' = blind \ {t}
  /\ UNCHANGED <<server, backlog, clientVars, inputVars, mainVars, arg, starting, rearming, raced,
                 udp, signalVars>>
WorkerEagain(t) ==
  /\ Receiving(t) /\ Outcome(sock[t]) = "eagain"
  /\ rearming' = rearming \cup {t}
  /\ UNCHANGED <<server, status, backlog, clientVars, inputVars, conn, edges, armed, mainVars,
                 arg, starting, sock, blind, raced, udp, signalVars>>

\* EPOLL_CTL_MOD looks whether data have come since the EAGAIN.
Look(fd) == edges \cup {x \in {fd} : HasInput(x)}
ResetOneshot(t) ==
  /\ t \in rearming /\ rearming' = rearming \ {t}
  /\ sock' = [sock EXCEPT ![t] = None] /\ blind' = blind \ {t}
  /\ IF conn[sock[t]] = None \/ t \in blind THEN UNCHANGED <<edges, armed>>
     ELSE edges' = Look(sock[t]) /\ armed' = armed \cup {sock[t]}
  /\ UNCHANGED <<server, status, backlog, clientVars, inputVars, conn, mainVars, arg, starting,
                 raced, udp, signalVars>>

(* ------------------------ "signal": signals from the pipe --------------------- *)

Ignore(fd) ==
  /\ server = "signal" /\ fd \in Fds /\ Dispatch(fd)
  /\ UNCHANGED <<server, status, backlog, clientVars, inputVars, conn, edges, armed, pc, cur,
                 threadVars, udp, signalVars>>
ReceivedOne == 1 .. 1
Received == 1 .. Min({SignalBuffer, Len(pipe)})
TakeSignals ==
  /\ Dispatch(PipeFd)
  /\ stop_server' = (stop_server \/ \E k \in Received : pipe[k] \in {"TERM", "INT"})
  /\ pipe' = SubSeq(pipe, Cardinality(Received) + 1, Len(pipe))
  /\ overran' = (overran \/ Len(pipe) > SignalBuffer)
  /\ UNCHANGED <<server, status, backlog, clientVars, inputVars, conn, edges, armed, pc, cur,
                 threadVars, udp, raised>>

(* ----------------------------------------------------------------------------- *)

Main == \/ EpollWait \/ BatchDone \/ Accept \/ AcceptFails \/ EtData \/ EtEnd \/ EtBreak
        \/ EchoDatagram \/ TakeSignals
        \/ \E fd \in Fds : LtRecv(fd) \/ EtEvent(fd) \/ NewThread(fd) \/ Ignore(fd)
Worker(t) == ReadSockfd(t) \/ ReadEpollfd(t) \/ WorkerRecv(t) \/ WorkerEnd(t)
             \/ WorkerEagain(t) \/ ResetOneshot(t)
Client(c) == Connect(c) \/ Send(c) \/ Leave(c) \/ Reset(c)

Next == \/ Main \/ Datagram
        \/ \E t \in Threads : Worker(t)
        \/ \E c \in Conns : Client(c)
        \/ \E sig \in Signals : Raise(sig)

\* main and the threads run on; nobody has to connect, send or raise a signal.
Spec == Init /\ [][Next]_vars /\ WF_vars(Main) /\ \A t \in Threads : WF_vars(Worker(t))

(* --------------------------------- properties -------------------------------- *)

\* Every variable has its type.
ClientTypes ==
  /\ server \in Servers
  /\ status \in [Conns -> {"new", "backlog", "open", "closed"}] /\ backlog \in Seq(Conns)
  /\ sent \in [Conns -> Nat] /\ wire \in [Conns -> Nat] /\ got \in [Conns -> Nat]
  /\ fin \in [Conns -> BOOLEAN] /\ err \in [Conns -> {"none", "pending", "taken"}]
MainTypes ==
  /\ conn \in [Fds -> Conns \cup {None}]
  /\ edges \subseteq Watched /\ armed \subseteq Fds /\ batch \subseteq Watched
  /\ pc \in {"wait", "events", "recv", "done", "killed"} /\ cur \in Fds \cup {BadFd}
ThreadTypes ==
  /\ arg \in Fds \cup {BadFd} /\ starting \subseteq Threads
  /\ sock \in [Threads -> Fds \cup {BadFd, None}]
  /\ blind \subseteq Threads /\ rearming \subseteq {t \in Threads : sock[t] \in Fds}
  /\ raced \in BOOLEAN
PipeTypes ==
  /\ udp \in Nat /\ pipe \in Seq(Signals) /\ raised \in 0 .. MaxSignals
  /\ stop_server \in BOOLEAN /\ overran \in BOOLEAN
TypeOK == ClientTypes /\ MainTypes /\ ThreadTypes /\ PipeTypes

\* EPOLLONESHOT gives a socket to one thread at a time and to one again after
\* it is armed, as long as every thread has read its argument before main uses
\* the structure again: an open connection has exactly one claim.
Claims(fd) == Cardinality({x \in {fd} : x \in armed}) + Cardinality({x \in {fd} : x \in batch})
              + Cardinality({t \in starting : sock[t] = None /\ arg = fd})
              + Cardinality({t \in Threads : sock[t] = fd})
OneHandler ==
  /\ TypeOK
  /\ server = "oneshot" /\ ~raced => \A fd \in Fds : Claims(fd) = IF conn[fd] = None THEN 0 ELSE 1

\* No server closes a connection before it has received all that the client
\* sent, whether the client ended or reset it.
NothingLost == \A c \in Conns : status[c] = "closed" => got[c] = sent[c]

\* What arrives is received although an edge is reported once, and a client that
\* has gone loses its descriptor ("lt" keeps it).
Unserved(c) == /\ status[c] = "open" /\ server # "signal"
               /\ wire[c] > 0 \/ (fin[c] /\ server # "lt")
AllServed == \A c \in Conns : Unserved(c) ~> (~Unserved(c) \/ raced \/ pc = "killed")

\* A SIGTERM or SIGINT that got into the pipe stops the server, whatever signals
\* fill the pipe with it, if no recv has left signals there.
SignalsHeeded ==
  (\E k \in DOMAIN pipe : pipe[k] \in {"TERM", "INT"}) ~> (pc = "done" \/ overran)
=============================================================================
