------------------------------- MODULE WebServer -------------------------------
(* The web server of chapter 7: the event loop of 7/main.cpp, the connection  *)
(* objects of 7/http_conn.cpp indexed by file descriptor, the pool (by its    *)
(* contract, WorkQueue) whose workers run http_conn::process, and the kernel  *)
(* and the clients around them.  One action per step of main or of a worker   *)
(* that touches state the other side can see.                                 *)
(*                                                                            *)
(* A request is a sequence of pieces, the segments it may arrive in: "whole", *)
(* or "head" then "tail"; "junk" is bytes after a request that belong to none *)
(* (stress_test.cpp sends such).  Parsing and the reply text are abstracted   *)
(* to the verdicts the control flow tells apart.                              *)
EXTENDS Integers, Sequences, FiniteSets, FiniteSetsExt

CONSTANTS Main, Workers,     \* threads
          Conns,             \* client connections, each made once
          Clients,           \* what they may be like: a set of functions, see Client
          NoConn,
          FirstFd, FdLimit,  \* descriptors a connection can get: the process
                             \* has those below FdLimit, the first are taken
          MaxFd,             \* MAX_FD: length of users[], bound on m_user_count
          MaxRequests,       \* m_max_requests of the pool
          BufferPieces,      \* READ_BUFFER_SIZE
          Outcomes,          \* what a complete request can come to: "reply", or
                             \* "empty" when it names a file of size 0
          MaxStalls          \* bound: how often a client stops reading

Fds == FirstFd .. FdLimit - 1
NoFd == -1
ListenFd == 0
Threads == Workers \cup {Main}
Pieces == {"whole", "head", "tail", "junk"}

\* Whether a client comes at all, what it sends, whether it asks for keep-alive,
\* whether it waits for each reply, whether it may hang up at any time, and whether
\* it may stop reading.
Client == [comes : BOOLEAN, script : Seq(Seq(Pieces)), keepalive : BOOLEAN, waits : BOOLEAN,
           impatient : BOOLEAN, slow : BOOLEAN]

ASSUME ServerAssumption ==
  /\ Main \notin Workers /\ IsFiniteSet(Workers)
  /\ NoConn \notin Conns /\ IsFiniteSet(Conns)
  /\ Clients \subseteq [Conns -> Client]
  /\ Outcomes \subseteq {"reply", "empty"}
  /\ FirstFd \in Nat \ {0} /\ FdLimit \in Nat /\ MaxFd \in Nat \ {0}
  /\ MaxRequests \in Nat \ {0} /\ BufferPieces \in Nat \ {0} /\ MaxStalls \in Nat

VARIABLES
  \* clients and network
  client,      \* what each client is like, chosen once
  asked,       \* requests a client has sent
  replies,     \* complete replies a client has got
  flight,      \* pieces sent and not arrived
  hung,        \* the client's FIN has arrived
  full,        \* the send buffer towards the client is full
  stalls,
  \* kernel
  status,      \* of a connection: "new", "backlog", "open", "closed"
  backlog,     \* connections to accept
  lready,      \* listenfd (edge-triggered) is on epoll's ready list
  wire,        \* pieces arrived and not received
  conn,        \* the connection behind a descriptor
  interest,    \* of a descriptor in epoll: "none", "off" (oneshot fired), "in", "out"
  \* users[fd]
  sockfd,      \* m_sockfd
  inbuf,       \* m_read_buf up to m_read_idx, each piece with its sender
  reply,       \* NoConn while m_write_idx = 0, else who the reply is for
  linger,      \* m_linger
  \* threads
  user_count,  \* m_user_count
  batch,       \* events of the last epoll_wait not looked at yet
  mfd,         \* the descriptor main works on
  pc, tmp,     \* place of each thread, register of m_user_count++ and --
  queue, running, \* the pool: see WorkQueue
  refused      \* history: the connections whose request append refused

clientVars == <<client, asked, replies, flight, hung, full, stalls>>
kernelVars == <<status, backlog, lready, wire, conn, interest>>
objectVars == <<sockfd, inbuf, reply, linger>>
poolVars == <<queue, running, refused>>
vars == <<clientVars, kernelVars, objectVars, user_count, batch, mfd, pc, tmp, poolVars>>

Pool == INSTANCE WorkQueue
          WITH Items <- Fds, Idle <- NoFd, Capacity <- MaxRequests + 1, open <- TRUE

Init ==
  /\ client \in Clients
  /\ asked = [c \in Conns |-> 0] /\ replies = [c \in Conns |-> 0]
  /\ flight = [c \in Conns |-> <<>>] /\ wire = [c \in Conns |-> <<>>]
  /\ hung = [c \in Conns |-> FALSE] /\ full = [c \in Conns |-> FALSE] /\ stalls = 0
  /\ status = [c \in Conns |-> "new"] /\ backlog = <<>> /\ lready = FALSE
  /\ conn = [fd \in Fds |-> NoConn] /\ interest = [fd \in Fds |-> "none"]
  /\ sockfd = [fd \in Fds |-> NoFd] /\ inbuf = [fd \in Fds |-> <<>>]
  /\ reply = [fd \in Fds |-> NoConn] /\ linger = [fd \in Fds |-> FALSE]
  /\ user_count = 0 /\ batch = {} /\ mfd = NoFd
  /\ pc = [t \in Threads |-> "loop"] /\ tmp = [t \in Threads |-> 0]
  /\ Pool!QueueInit /\ refused = {}

Goto(t, l) == pc' = [pc EXCEPT ![t] = l]

(* ---------------------------- clients, network ---------------------------- *)

Alive(c) == status[c] \in {"backlog", "open"} /\ ~hung[c]

\* The three-way handshake is done: epoll puts listenfd on its ready list.
Connect(c) ==
  /\ client[c].comes /\ status[c] = "new"
  /\ status' = [status EXCEPT ![c] = "backlog"]
  /\ backlog' = Append(backlog, c)
  /\ lready' = TRUE
  /\ UNCHANGED <<clientVars, wire, conn, interest, objectVars, user_count, batch, mfd,
                 pc, tmp, poolVars>>

\* One send of a whole request; its pieces arrive one by one.
Request(c) ==
  /\ Alive(c)
  /\ asked[c] < Len(client[c].script)
  /\ client[c].waits => replies[c] = asked[c]
  /\ asked' = [asked EXCEPT ![c] = @ + 1]
  /\ flight' = [flight EXCEPT ![c] = @ \o client[c].script[asked[c] + 1]]
  /\ UNCHANGED <<client, replies, hung, full, stalls, kernelVars, objectVars, user_count, batch,
                 mfd, pc, tmp, poolVars>>

Deliver(c) ==
  /\ Alive(c) /\ flight[c] # <<>>
  /\ flight' = [flight EXCEPT ![c] = Tail(@)]
  /\ wire' = [wire EXCEPT ![c] = Append(@, Head(flight[c]))]
  /\ UNCHANGED <<client, asked, replies, hung, full, stalls, status, backlog, lready, conn,
                 interest, objectVars, user_count, batch, mfd, pc, tmp, poolVars>>

\* The FIN follows the data that was sent before it.
Hangup(c) ==
  /\ client[c].impatient /\ Alive(c) /\ flight[c] = <<>>
  /\ hung' = [hung EXCEPT ![c] = TRUE]
  /\ UNCHANGED <<client, asked, replies, flight, full, stalls, kernelVars, objectVars, user_count,
                 batch, mfd, pc, tmp, poolVars>>

\* The client reads: the socket is writable again.
Drain(c) ==
  /\ full[c]
  /\ full' = [full EXCEPT ![c] = FALSE]
  /\ UNCHANGED <<client, asked, replies, flight, hung, stalls, kernelVars, objectVars, user_count,
                 batch, mfd, pc, tmp, poolVars>>

(* --------------------------------- epoll ---------------------------------- *)

\* MOD of a descriptor that is not registered fails and nobody looks.
ModFd(fd, ev) ==
  interest' = IF fd \in Fds /\ interest[fd] # "none"
              THEN [interest EXCEPT ![fd] = ev] ELSE interest

\* A descriptor that is armed and has something to tell.  Every report
\* disarms it and every MOD looks at the socket again, so that the edge
\* trigger cannot lose an event here.
IsReady(fd) == \/ interest[fd] \in {"in", "out"} /\ hung[conn[fd]]
               \/ interest[fd] = "in" /\ wire[conn[fd]] # <<>>
               \/ interest[fd] = "out" /\ ~full[conn[fd]]

\* main tests the hangup bits first, whatever else is set
ConnEvents == {[fd |-> fd, ev |-> IF hung[conn[fd]] THEN "hup" ELSE interest[fd]] :
                 fd \in {x \in Fds : IsReady(x)}}
ListenEvents == IF lready /\ backlog # <<>> THEN {[fd |-> ListenFd, ev |-> "listen"]} ELSE {}

\* Without EPOLLONESHOT a report leaves the descriptor armed.
StaysArmed == interest
Disarmed == [fd \in Fds |-> IF IsReady(fd) THEN "off" ELSE interest[fd]]

EpollWait ==
  /\ pc[Main] = "loop" /\ batch = {}
  /\ ConnEvents \cup ListenEvents # {}
  /\ batch' = ConnEvents \cup ListenEvents
  /\ interest' = Disarmed
  /\ lready' = FALSE
  /\ UNCHANGED <<clientVars, status, backlog, wire, conn, objectVars, user_count, mfd, pc,
                 tmp, poolVars>>

(* -------------------------- main: the listening socket --------------------- *)

FreeFds == {fd \in Fds : conn[fd] = NoConn}
NewFd == Min(FreeFds)

\* init(): every field of the object but m_file_address
ResetKeepsBuffer(fd) ==
  /\ reply' = [reply EXCEPT ![fd] = NoConn]
  /\ linger' = [linger EXCEPT ![fd] = FALSE]
  /\ UNCHANGED inbuf
Reset(fd) ==
  /\ inbuf' = [inbuf EXCEPT ![fd] = <<>>]
  /\ reply' = [reply EXCEPT ![fd] = NoConn]
  /\ linger' = [linger EXCEPT ![fd] = FALSE]

Busy == user_count >= MaxFd

\* One event of listenfd is answered with one accept.
Dispatch(e) == /\ pc[Main] = "loop" /\ e \in batch
               /\ batch' = batch \ {e}

\* accept failed: no descriptor is free, the connection stays in the backlog
AcceptFails ==
  /\ \E e \in batch : e.ev = "listen" /\ Dispatch(e)
  /\ FreeFds = {}
  /\ UNCHANGED <<clientVars, kernelVars, objectVars, user_count, mfd, pc, tmp, poolVars>>

\* m_user_count >= MAX_FD: show_error closes the descriptor at once
ShowError ==
  /\ \E e \in batch : e.ev = "listen" /\ Dispatch(e)
  /\ FreeFds # {} /\ Busy
  /\ backlog' = Tail(backlog)
  /\ status' = [status EXCEPT ![Head(backlog)] = "closed"]
  /\ flight' = [flight EXCEPT ![Head(backlog)] = <<>>]
  /\ wire' = [wire EXCEPT ![Head(backlog)] = <<>>]
  /\ UNCHANGED <<client, asked, replies, hung, full, stalls, lready, conn, interest, objectVars,
                 user_count, mfd, pc, tmp, poolVars>>

\* users[connfd].init(connfd, ...).  m_user_count++ is a load and a store.
InitConn ==
  /\ \E e \in batch : e.ev = "listen" /\ Dispatch(e)
  /\ FreeFds # {} /\ ~Busy
  /\ backlog' = Tail(backlog)
  /\ status' = [status EXCEPT ![Head(backlog)] = "open"]
  /\ conn' = [conn EXCEPT ![NewFd] = Head(backlog)]
  /\ sockfd' = [sockfd EXCEPT ![NewFd] = NewFd]
  /\ interest' = [interest EXCEPT ![NewFd] = "in"]
  /\ Reset(NewFd)
  /\ Goto(Main, "incload")
  /\ UNCHANGED <<clientVars, lready, wire, user_count, mfd, tmp, poolVars>>

IncLoad ==
  /\ pc[Main] = "incload" /\ Goto(Main, "incstore")
  /\ tmp' = [tmp EXCEPT ![Main] = user_count]
  /\ UNCHANGED <<clientVars, kernelVars, objectVars, user_count, batch, mfd, poolVars>>

IncStore ==
  /\ pc[Main] = "incstore" /\ Goto(Main, "loop")
  /\ user_count' = tmp[Main] + 1
  /\ tmp' = [tmp EXCEPT ![Main] = 0]
  /\ UNCHANGED <<clientVars, kernelVars, objectVars, batch, mfd, poolVars>>

(* ----------------------- main: events of a connection ---------------------- *)

HupIgnored(e) ==
  /\ e.ev = "hup" /\ Dispatch(e)
  /\ UNCHANGED <<clientVars, kernelVars, objectVars, user_count, mfd, pc, tmp, poolVars>>
HupEvent(e) ==
  /\ e.ev = "hup" /\ Dispatch(e)
  /\ mfd' = e.fd
  /\ Goto(Main, "close")
  /\ UNCHANGED <<clientVars, kernelVars, objectVars, user_count, tmp, poolVars>>

\* recv until EAGAIN.  read() fails on a full buffer, on one that the data
\* fills exactly (recv of 0 bytes), on the client's FIN, on a dead m_sockfd.
ReadUnbounded(fd) == sockfd[fd] = NoFd \/ conn[fd] = NoConn \/ hung[conn[fd]]
ReadFails(fd) == \/ sockfd[fd] = NoFd
                 \/ conn[fd] = NoConn
                 \/ hung[conn[fd]]
                 \/ Len(inbuf[fd]) + Len(wire[conn[fd]]) >= BufferPieces

Tagged(c) == [i \in 1 .. Len(wire[c]) |-> <<c, wire[c][i]>>]

Read(e) ==
  /\ e.ev = "in" /\ Dispatch(e)
  /\ mfd' = e.fd
  /\ IF ReadFails(e.fd)
     THEN Goto(Main, "close") /\ UNCHANGED <<wire, inbuf>>
     ELSE /\ inbuf' = [inbuf EXCEPT ![e.fd] = @ \o Tagged(conn[e.fd])]
          /\ wire' = [wire EXCEPT ![conn[e.fd]] = <<>>]
          /\ Goto(Main, "append")
  /\ UNCHANGED <<clientVars, status, backlog, lready, conn, interest, sockfd, reply, linger,
                 user_count, tmp, poolVars>>

\* pool->append(users + sockfd), accepted
AppendAccepted ==
  /\ pc[Main] = "append" /\ Goto(Main, "loop")
  /\ Pool!Submit(mfd)
  /\ mfd' = NoFd
  /\ UNCHANGED <<clientVars, kernelVars, objectVars, user_count, batch, tmp, refused>>

\* append returned false and main does not look at the result: nobody will
\* come for the connection again, whose descriptor epoll has disarmed.
AppendRefused ==
  /\ pc[Main] = "append" /\ Goto(Main, "loop")
  /\ Len(queue) > MaxRequests
  /\ mfd' = NoFd
  /\ refused' = refused \cup ({conn[mfd]} \cap Conns)
  /\ UNCHANGED <<clientVars, kernelVars, objectVars, user_count, batch, tmp, queue, running>>

\* write() finds nothing to send: it listens for input again.
WriteNothing(e) ==
  /\ e.ev = "out" /\ reply[e.fd] = NoConn /\ Dispatch(e)
  /\ ModFd(sockfd[e.fd], "in")
  /\ Reset(e.fd)
  /\ UNCHANGED <<clientVars, status, backlog, lready, wire, conn, sockfd, user_count, mfd, pc,
                 tmp, poolVars>>

Writing(e) == e.ev = "out" /\ reply[e.fd] # NoConn /\ Dispatch(e)
SocketLives(fd) == sockfd[fd] # NoFd /\ conn[fd] # NoConn

\* writev took the reply.  With keep-alive the object is made new and armed.
WriteKeepAlive(e) ==
  /\ Writing(e) /\ SocketLives(e.fd) /\ linger[e.fd]
  /\ replies' = [replies EXCEPT ![conn[e.fd]] = @ + 1]
  /\ Reset(e.fd)
  /\ ModFd(sockfd[e.fd], "in")
  /\ UNCHANGED <<client, asked, flight, hung, full, stalls, status, backlog, lready, wire, conn,
                 sockfd, user_count, mfd, pc, tmp, poolVars>>

\* Otherwise it is armed too, but write() returns false and main closes it.
WriteAndClose(e) ==
  /\ Writing(e) /\ SocketLives(e.fd) /\ ~linger[e.fd]
  /\ replies' = [replies EXCEPT ![conn[e.fd]] = @ + 1]
  /\ ModFd(sockfd[e.fd], "in")
  /\ mfd' = e.fd
  /\ Goto(Main, "close")
  /\ UNCHANGED <<client, asked, flight, hung, full, stalls, status, backlog, lready, wire, conn,
                 objectVars, user_count, tmp, poolVars>>

\* writev says EAGAIN
WriteStalls(e) ==
  /\ Writing(e) /\ SocketLives(e.fd) /\ client[conn[e.fd]].slow /\ stalls < MaxStalls
  /\ full' = [full EXCEPT ![conn[e.fd]] = TRUE] /\ stalls' = stalls + 1
  /\ ModFd(sockfd[e.fd], "out")
  /\ UNCHANGED <<client, asked, replies, flight, hung, status, backlog, lready, wire, conn,
                 objectVars, user_count, mfd, pc, tmp, poolVars>>

\* any other error
WriteFails(e) ==
  /\ Writing(e)
  /\ SocketLives(e.fd) => hung[conn[e.fd]]
  /\ mfd' = e.fd
  /\ Goto(Main, "close")
  /\ UNCHANGED <<clientVars, kernelVars, objectVars, user_count, tmp, poolVars>>

(* ------------------- close_conn, by main or by a worker -------------------- *)

FdOf(t) == IF t = Main THEN mfd ELSE running[t]

\* Back in main's loop, or in process() on the way to its last modfd.
AfterClose(t) ==
  IF t = Main THEN Goto(Main, "loop") /\ mfd' = NoFd
              ELSE Goto(t, "armout") /\ UNCHANGED mfd

CloseNothing(t) ==
  /\ pc[t] = "close" /\ sockfd[FdOf(t)] = NoFd
  /\ AfterClose(t)
  /\ UNCHANGED <<clientVars, kernelVars, objectVars, user_count, batch, tmp, poolVars>>

\* removefd: the kernel forgets the descriptor, which accept may hand out
\* again from here on.
RemoveFd(t) ==
  /\ pc[t] = "close" /\ sockfd[FdOf(t)] # NoFd
  /\ Goto(t, "forget")
  /\ conn' = [conn EXCEPT ![FdOf(t)] = NoConn]
  /\ interest' = [interest EXCEPT ![FdOf(t)] = "none"]
  /\ status' = [c \in Conns |-> IF conn[FdOf(t)] = c THEN "closed" ELSE status[c]]
  /\ wire' = [c \in Conns |-> IF conn[FdOf(t)] = c THEN <<>> ELSE wire[c]]
  /\ flight' = [c \in Conns |-> IF conn[FdOf(t)] = c THEN <<>> ELSE flight[c]]
  /\ UNCHANGED <<client, asked, replies, hung, full, stalls, backlog, lready, objectVars, user_count,
                 batch, mfd, tmp, poolVars>>

Forget(t) ==
  /\ pc[t] = "forget" /\ Goto(t, "decload")
  /\ sockfd' = [sockfd EXCEPT ![FdOf(t)] = NoFd]
  /\ UNCHANGED <<clientVars, kernelVars, inbuf, reply, linger, user_count, batch, mfd, tmp,
                 poolVars>>

DecLoad(t) ==
  /\ pc[t] = "decload" /\ Goto(t, "decstore")
  /\ tmp' = [tmp EXCEPT ![t] = user_count]
  /\ UNCHANGED <<clientVars, kernelVars, objectVars, user_count, batch, mfd, poolVars>>

DecForgotten(t) ==
  /\ pc[t] = "decstore" /\ AfterClose(t)
  /\ tmp' = [tmp EXCEPT ![t] = 0]
  /\ UNCHANGED <<clientVars, kernelVars, objectVars, user_count, batch, poolVars>>
DecStore(t) ==
  /\ pc[t] = "decstore" /\ AfterClose(t)
  /\ user_count' = tmp[t] - 1
  /\ tmp' = [tmp EXCEPT ![t] = 0]
  /\ UNCHANGED <<clientVars, kernelVars, objectVars, batch, poolVars>>

(* ----------------------------- worker: process ----------------------------- *)

Take(w) ==
  /\ pc[w] = "loop"
  /\ Pool!Take(w)
  /\ UNCHANGED <<clientVars, kernelVars, objectVars, user_count, batch, mfd, pc, tmp, refused>>

Parsing(w) == pc[w] = "loop" /\ running[w] # NoFd

Kinds(fd) == [i \in DOMAIN inbuf[fd] |-> inbuf[fd][i][2]]
Sender(fd) == inbuf[fd][1][1]

\* The buffer starts with a request that is all there.
CompleteTooSoon(k) == k # <<>> /\ k[1] \in {"whole", "head"}
Complete(k) == k # <<>> /\ (k[1] = "whole" \/ (k[1] = "head" /\ Len(k) > 1 /\ k[2] = "tail"))

\* It starts with something else, and its first line is no request line.
Malformed(k) == k # <<>> /\ (k[1] = "tail" \/ (k[1] = "junk" /\ Len(k) > 1))

\* It starts with less than a line, or (also NO_REQUEST) with a bad line.
Unfinished(k) ==
  /\ ~Complete(k)
  /\ ~(k # <<>> /\ k[1] = "junk" /\ \E i \in 2 .. Len(k) : k[i] \in {"whole", "tail"})

\* NO_REQUEST
ProcessUnfinishedArmsFirst(w) ==
  /\ Parsing(w) /\ Goto(w, "armin")
  /\ Unfinished(Kinds(running[w]))
  /\ ModFd(sockfd[running[w]], "in")
  /\ UNCHANGED <<clientVars, status, backlog, lready, wire, conn, objectVars, user_count, batch,
                 mfd, tmp, poolVars>>
ProcessUnfinished(w) ==
  /\ Parsing(w) /\ Goto(w, "armin")
  /\ Unfinished(Kinds(running[w]))
  /\ UNCHANGED <<clientVars, kernelVars, objectVars, user_count, batch, mfd, tmp, poolVars>>

\* BAD_REQUEST from the request line, before any header was read
ProcessMalformed(w) ==
  /\ Parsing(w) /\ Goto(w, "armout")
  /\ Malformed(Kinds(running[w]))
  /\ reply' = [reply EXCEPT ![running[w]] = Sender(running[w])]
  /\ UNCHANGED <<clientVars, kernelVars, sockfd, inbuf, linger, user_count, batch, mfd, tmp,
                 poolVars>>

\* process_write returns true, or false for an empty file: then the worker
\* itself closes the connection.
ProcessComplete(w) ==
  /\ Parsing(w)
  /\ Complete(Kinds(running[w]))
  /\ \E o \in Outcomes : Goto(w, IF o = "reply" THEN "armout" ELSE "close")
  /\ reply' = [reply EXCEPT ![running[w]] = Sender(running[w])]
  /\ linger' = [linger EXCEPT ![running[w]] = client[Sender(running[w])].keepalive]
  /\ UNCHANGED <<clientVars, kernelVars, sockfd, inbuf, user_count, batch, mfd, tmp, poolVars>>

\* The last step of process(): modfd, whatever m_sockfd is by then.
Rearm(w, place, ev) ==
  /\ pc[w] = place /\ Goto(w, "loop")
  /\ ModFd(sockfd[running[w]], ev)
  /\ Pool!Finish(w)
  /\ UNCHANGED <<clientVars, status, backlog, lready, wire, conn, objectVars, user_count,
                 batch, mfd, tmp, refused>>
ArmInForgotten(w) == Rearm(w, "armin", "off")
ArmIn(w) == Rearm(w, "armin", "in")
ArmOut(w) == Rearm(w, "armout", "out")

(* --------------------------------------------------------------------------- *)

ListenStep == AcceptFails \/ ShowError \/ InitConn \/ IncLoad \/ IncStore
EventStep(e) == \/ HupEvent(e) \/ Read(e) \/ WriteNothing(e) \/ WriteKeepAlive(e)
                \/ WriteAndClose(e) \/ WriteStalls(e) \/ WriteFails(e)
CloseStep(t) == CloseNothing(t) \/ RemoveFd(t) \/ Forget(t) \/ DecLoad(t) \/ DecStore(t)

MainStep == \/ EpollWait \/ ListenStep \/ (\E e \in batch : EventStep(e))
            \/ AppendAccepted \/ AppendRefused \/ CloseStep(Main)
WorkerStep(w) == \/ ProcessUnfinished(w) \/ ProcessMalformed(w) \/ ProcessComplete(w)
                 \/ CloseStep(w) \/ ArmIn(w) \/ ArmOut(w)
ClientStep(c) == Connect(c) \/ Request(c) \/ Deliver(c) \/ Hangup(c) \/ Drain(c)

Next == \/ \E c \in Conns : ClientStep(c)
        \/ MainStep
        \/ \E w \in Workers : Take(w) \/ WorkerStep(w)

\* The threads run, the pool hands out work (Pool!QueueFairness, which
\* ThreadPool implements), the network delivers and a client that let its
\* receive buffer fill up reads on.  Nobody has to connect, ask or hang up.
Fairness == /\ WF_vars(MainStep)
            /\ WF_vars(\E w \in Workers : Take(w))
            /\ \A w \in Workers : WF_vars(WorkerStep(w))
            /\ \A c \in Conns : WF_vars(Deliver(c)) /\ WF_vars(Drain(c))

Spec == Init /\ [][Next]_vars /\ Fairness

(* -------------------------------- properties ------------------------------- *)

MainPlaces == {"loop", "incload", "incstore", "append"}
ClosePlaces == {"close", "forget", "decload", "decstore"}
WorkerPlaces == {"loop", "armin", "armout"}

\* Every variable has its type, and a connection that is not closed has room in
\* its read buffer: recv is never asked for more than fits.
TypeOK ==
  /\ client \in Clients
  /\ asked \in [Conns -> Nat] /\ replies \in [Conns -> Nat]
  /\ flight \in [Conns -> Seq(Pieces)] /\ wire \in [Conns -> Seq(Pieces)]
  /\ hung \in [Conns -> BOOLEAN] /\ full \in [Conns -> BOOLEAN] /\ stalls \in 0 .. MaxStalls
  /\ status \in [Conns -> {"new", "backlog", "open", "closed"}]
  /\ backlog \in Seq(Conns) /\ lready \in BOOLEAN
  /\ conn \in [Fds -> Conns \cup {NoConn}]
  /\ interest \in [Fds -> {"none", "off", "in", "out"}]
  /\ sockfd \in [Fds -> Fds \cup {NoFd}]
  /\ inbuf \in [Fds -> Seq(Conns \X Pieces)] /\ \A fd \in Fds : Len(inbuf[fd]) < BufferPieces
  /\ reply \in [Fds -> Conns \cup {NoConn}] /\ linger \in [Fds -> BOOLEAN]
  /\ user_count \in Nat /\ tmp \in [Threads -> Nat]
  /\ batch \subseteq [fd : Fds \cup {ListenFd}, ev : {"listen", "hup", "in", "out"}]
  /\ mfd \in Fds \cup {NoFd}
  /\ pc \in [Threads -> MainPlaces \cup ClosePlaces \cup WorkerPlaces]
  /\ queue \in Seq(Fds) /\ running \in [Workers -> Fds \cup {NoFd}]
  /\ refused \subseteq Conns

OpenFds == {fd \in Fds : conn[fd] # NoConn}

\* Who may come to work on a descriptor: main, because epoll is armed or has
\* reported or main is at it; a queue entry; a worker.
MainMayCome(fd) == \/ interest[fd] \in {"in", "out"}
                   \/ mfd = fd
                   \/ \E e \in batch : e.fd = fd
Claims(fd) == (IF MainMayCome(fd) THEN 1 ELSE 0)
              + Cardinality({i \in DOMAIN queue : queue[i] = fd})
              + Cardinality({w \in Workers : running[w] = fd})

\* Connections that a full queue has refused: main ignores what append returns.
LostFds == {fd \in OpenFds : conn[fd] \in refused}

\* EPOLLONESHOT, the queue and the two modfd calls of process() pass one claim
\* on a connection around: never two threads can come to it, so none sees the
\* other's half-made changes, and never none, so no connection is forgotten,
\* unless append refused it: then nobody comes for it any more.
OneClaim ==
  \A fd \in Fds : /\ Claims(fd) <= 1
                  /\ fd \in OpenFds => (Claims(fd) = 0 <=> fd \in LostFds)

\* What main was given: the descriptor it works on and the events it has not come
\* to.  write() arms a descriptor that main goes on to close: only main could be
\* told, so that it is main's until then.
MainHas == {fd \in Fds : mfd = fd \/ \E e \in batch : e.fd = fd}
Given == [t \in Threads |-> IF t = Main THEN MainHas ELSE {running[t]} \cap Fds]
\* What the pool and epoll have: a descriptor main was told of is main's, see above.
Entries == {queue[k] : k \in DOMAIN queue}
Watched == {fd \in Fds : interest[fd] \in {"in", "out"}} \ MainHas
Whereabouts == [t \in Threads |-> IF t = Main THEN <<pc[t], mfd, batch>> ELSE <<pc[t], running[t]>>]

\* What Custody speaks of, in this server
OneShot == INSTANCE Custody
             WITH Things <- Fds, Limit <- MaxRequests + 1, open <- OpenFds, lost <- LostFds,
                  queued <- Entries, armed <- Watched, held <- Given, place <- Whereabouts,
                  object <- [fd \in Fds |-> <<conn[fd], sockfd[fd], inbuf[fd], reply[fd], linger[fd]>>]

\* The same as steps: a connection goes from epoll to main, the queue, a worker and
\* back, users[fd] is changed only by the thread that has it, and a descriptor is
\* given out again when nobody has it any more.  main gives a connection up only when
\* the queue is full.  Custody says which steps those are.
ImplementsCustody == OneShot!CustodySpec

\* A connection is operated on by one thread at a time (README 1.5).
ExclusiveHandling == \A fd \in Fds : Cardinality({t \in Threads : FdOf(t) = fd}) <= 1

\* Between updates, m_user_count is the number of open connections, and MAX_FD
\* bounds it whatever the process's descriptor limit is, if main alone changes it.
Updating(t) == pc[t] \in {"incload", "incstore", "forget", "decload", "decstore"}
UserCountExact ==
  /\ (\A t \in Threads : ~Updating(t)) => user_count = Cardinality(OpenFds)
  /\ Cardinality(OpenFds) <= MaxFd

\* A descriptor that is used again carries nothing over from its last
\* connection: bytes and reply in users[fd] are those of the present client.
NothingCarriedOver ==
  \A fd \in OpenFds : /\ \A i \in DOMAIN inbuf[fd] : inbuf[fd][i][1] = conn[fd]
                      /\ reply[fd] \in {NoConn, conn[fd]}

\* A client that waits for its replies gets at most one for each request, the
\* reply is made after the last byte of the request was read, and it is made of
\* that client's bytes alone.
ReplyPending(fd) == conn[fd] # NoConn /\ reply[fd] = conn[fd] /\ mfd # fd
RepliesFollowRequests ==
  /\ NothingCarriedOver
  /\ \A c \in Conns : replies[c] <= asked[c]
  /\ \A fd \in Fds : ReplyPending(fd) /\ client[conn[fd]].waits =>
       /\ replies[conn[fd]] < asked[conn[fd]]
       /\ \A i \in DOMAIN flight[conn[fd]] : flight[conn[fd]][i] = "junk"
       /\ \A i \in DOMAIN wire[conn[fd]] : wire[conn[fd]][i] = "junk"

\* A request of an accepted client that sends nothing else and does not hang up is
\* answered, unless it met a full queue.
SendsRequests(c) ==
  \A k \in DOMAIN client[c].script : client[c].script[k] \in {<<"whole">>, <<"head", "tail">>}
RequestsAnswered ==
  \A c \in Conns :
    (client[c].waits /\ SendsRequests(c) /\ status[c] = "open" /\ replies[c] < asked[c])
      ~> (replies[c] = asked[c] \/ hung[c] \/ c \in refused)

\* A client that has gone does not keep its descriptor, unless a request of its met
\* a full queue.
HangupReleases ==
  \A c \in Conns : (status[c] = "open" /\ hung[c]) ~> (status[c] = "closed" \/ c \in refused)
=============================================================================
