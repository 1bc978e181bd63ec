----------------------------- MODULE WebServerProofs -----------------------------
(* The web server, for any numbers of clients, workers and descriptors: nothing    *)
(* is carried over from one connection to the next, and, as long as main alone     *)
(* closes connections, the user count is exact, each connection has one claim, and *)
(* a client that waits gets one reply for each of its requests.                    *)
EXTENDS WebServer, SequenceTheorems, FiniteSetTheorems, WellFoundedInduction, TLAPS

Event == [fd : Fds \cup {ListenFd}, ev : {"listen", "hup", "in", "out"}]
ClientTypes ==
  /\ client \in Clients
  /\ asked \in [Conns -> Nat] /\ replies \in [Conns -> Nat] /\ flight \in [Conns -> Seq(Pieces)]
  /\ hung \in [Conns -> BOOLEAN] /\ full \in [Conns -> BOOLEAN] /\ stalls \in 0 .. MaxStalls
KernelTypes ==
  /\ status \in [Conns -> {"new", "backlog", "open", "closed"}]
  /\ backlog \in Seq(Conns) /\ lready \in BOOLEAN /\ wire \in [Conns -> Seq(Pieces)]
  /\ conn \in [Fds -> Conns \cup {NoConn}]
  /\ interest \in [Fds -> {"none", "off", "in", "out"}]
ObjectTypes ==
  /\ sockfd \in [Fds -> Fds \cup {NoFd}]
  /\ inbuf \in [Fds -> Seq(Conns \X Pieces)] /\ \A fd \in Fds : Len(inbuf[fd]) < BufferPieces
  /\ reply \in [Fds -> Conns \cup {NoConn}] /\ linger \in [Fds -> BOOLEAN]
LoopTypes ==
  /\ batch \subseteq Event /\ mfd \in Fds \cup {NoFd}
  /\ pc \in [Threads -> MainPlaces \cup ClosePlaces \cup WorkerPlaces]
PoolTypes == /\ queue \in Seq(Fds) /\ running \in [Workers -> Fds \cup {NoFd}]
             /\ refused \subseteq Conns
\* A thread has a descriptor where it needs one, and a connection waits where
\* accept is to be called.
Places ==
  /\ \A e \in batch : e.ev = "listen" <=> e.fd = ListenFd
  /\ (\E e \in batch : e.ev = "listen") => backlog # <<>>
  /\ pc[Main] \in MainPlaces \cup ClosePlaces
  /\ mfd \in Fds <=> pc[Main] \in {"append"} \cup ClosePlaces
  /\ \A w \in Workers : /\ pc[w] \in WorkerPlaces \cup ClosePlaces
                        /\ pc[w] # "loop" => running[w] \in Fds
\* TypeOK without the count, which is exact only while main alone closes
Types == ClientTypes /\ KernelTypes /\ ObjectTypes /\ LoopTypes /\ PoolTypes /\ Places

(* ----------------------------------- types ------------------------------------- *)

LEMMA Constants ==
  /\ Fds \subseteq Nat \ {ListenFd} /\ NoFd \notin Fds /\ ListenFd # NoFd
  /\ Main \notin Workers /\ Main \in Threads /\ Workers \subseteq Threads
  /\ NoConn \notin Conns /\ Clients \subseteq [Conns -> Client]
  /\ MaxStalls \in Nat /\ BufferPieces \in Nat \ {0} /\ MaxRequests \in Nat \ {0}
  /\ MaxFd \in Nat \ {0} /\ IsFiniteSet(Fds)
<1>1. FirstFd \in Nat \ {0} /\ FdLimit \in Nat
  BY ServerAssumption DEF ServerAssumption
<1>2. IsFiniteSet(FirstFd .. FdLimit - 1)
  BY <1>1, FS_Interval
<1> QED
  BY <1>1, <1>2, ServerAssumption DEF ServerAssumption, Fds, NoFd, ListenFd, Threads

LEMMA TypesInit == Init => Types
<1> SUFFICES ASSUME Init PROVE Types
  OBVIOUS
<1>1. ClientTypes /\ KernelTypes
  <2>1. ClientTypes
    <3>1. 0 \in 0 .. MaxStalls /\ <<>> \in Seq(Pieces)
      BY Constants
    <3> QED
      BY <3>1 DEF Init, ClientTypes
  <2>2. KernelTypes
    <3>1. <<>> \in Seq(Pieces) /\ <<>> \in Seq(Conns)
      OBVIOUS
    <3> QED
      BY <3>1 DEF Init, KernelTypes
  <2> QED
    BY <2>1, <2>2
<1>2. ObjectTypes
  BY Constants DEF Init, ObjectTypes
<1>3. LoopTypes /\ PoolTypes
  BY DEF Init, LoopTypes, PoolTypes, MainPlaces, Pool!QueueInit
<1>4. Places
  BY Constants DEF Init, Places, MainPlaces, ClosePlaces, WorkerPlaces
<1> QED
  BY <1>1, <1>2, <1>3, <1>4 DEF Types

\* What clients and network do.
LEMMA TypesClient == ASSUME Types, NEW c \in Conns, ClientStep(c) PROVE Types'
<1>1. UNCHANGED <<conn, interest, objectVars, user_count, batch, mfd, pc, tmp, poolVars>>
  BY DEF ClientStep, Connect, Request, Deliver, Hangup, Drain, kernelVars
<1>2. ObjectTypes' /\ LoopTypes' /\ PoolTypes'
  BY <1>1 DEF Types, ObjectTypes, LoopTypes, PoolTypes, objectVars, poolVars
<1>3. ClientTypes' /\ KernelTypes' /\ (backlog # <<>> => backlog' # <<>>)
  <2>1. CASE Connect(c)
    <3>1. backlog' = Append(backlog, c) /\ backlog \in Seq(Conns)
      BY <2>1 DEF Connect, Types, KernelTypes
    <3>2. backlog' \in Seq(Conns) /\ backlog' # <<>>
      BY <3>1
    <3> QED
      BY <2>1, <3>2 DEF Connect, Types, ClientTypes, KernelTypes, clientVars
  <2>2. CASE Request(c)
    <3>1. client[c] \in Client /\ asked[c] \in Nat
      BY Constants DEF Types, ClientTypes
    <3>2. client[c].script \in Seq(Seq(Pieces))
      BY <3>1 DEF Client
    <3>3. client[c].script[asked[c] + 1] \in Seq(Pieces)
      BY <2>2, <3>1, <3>2 DEF Request
    <3>4. flight[c] \o client[c].script[asked[c] + 1] \in Seq(Pieces)
      BY <3>3, ConcatProperties DEF Types, ClientTypes
    <3> QED
      BY <2>2, <3>1, <3>4 DEF Request, Types, ClientTypes, KernelTypes, kernelVars
  <2>3. CASE Deliver(c)
    <3>1. flight[c] \in Seq(Pieces) /\ flight[c] # <<>> /\ wire[c] \in Seq(Pieces)
      BY <2>3 DEF Deliver, Types, ClientTypes, KernelTypes
    <3>2. Tail(flight[c]) \in Seq(Pieces) /\ Append(wire[c], Head(flight[c])) \in Seq(Pieces)
      BY <3>1
    <3> QED
      BY <2>3, <3>2 DEF Deliver, Types, ClientTypes, KernelTypes
  <2>4. CASE Hangup(c) \/ Drain(c)
    BY <2>4 DEF Hangup, Drain, Types, ClientTypes, KernelTypes, kernelVars
  <2> QED
    BY <2>1, <2>2, <2>3, <2>4 DEF ClientStep
<1>4. Places'
  BY <1>1, <1>3 DEF Types, Places, poolVars
<1> QED
  BY <1>2, <1>3, <1>4 DEF Types

\* MOD changes what epoll waits for at one descriptor, if it has it.
LEMMA ModTypes ==
  ASSUME Types, NEW fd, NEW ev \in {"off", "in", "out"}, ModFd(fd, ev)
  PROVE  /\ interest' \in [Fds -> {"none", "off", "in", "out"}]
         /\ \A f \in Fds : f # fd => interest'[f] = interest[f]
         /\ \A f \in Fds : interest'[f] = "none" <=> interest[f] = "none"
         /\ fd \in Fds /\ interest[fd] # "none" => interest'[fd] = ev
BY DEF ModFd, Types, KernelTypes

LEMMA TypesWait == Types /\ EpollWait => Types'
<1> SUFFICES ASSUME Types, EpollWait PROVE Types'
  OBVIOUS
<1>1. ASSUME NEW fd \in Fds, IsReady(fd) PROVE interest[fd] \in {"in", "out"}
  BY <1>1 DEF IsReady
<1>2. \A e \in ConnEvents : /\ e \in Event /\ e.fd \in Fds /\ e.ev # "listen"
  BY <1>1 DEF ConnEvents, Event
<1>3. \A e \in ListenEvents : /\ e \in Event /\ e.fd = ListenFd /\ e.ev = "listen"
                              /\ backlog # <<>>
  BY DEF ListenEvents, Event
<1>4. batch' = ConnEvents \cup ListenEvents /\ interest' = Disarmed /\ lready' = FALSE
      /\ UNCHANGED <<clientVars, status, backlog, wire, conn, objectVars, mfd, pc, poolVars>>
  BY DEF EpollWait
<1>5. interest' \in [Fds -> {"none", "off", "in", "out"}]
  BY <1>4 DEF Disarmed, Types, KernelTypes
<1>6. ClientTypes' /\ KernelTypes' /\ ObjectTypes' /\ PoolTypes'
  BY <1>4, <1>5 DEF Types, ClientTypes, KernelTypes, ObjectTypes, PoolTypes, clientVars,
                    objectVars, poolVars
<1>7. LoopTypes'
  BY <1>2, <1>3, <1>4 DEF Types, LoopTypes
<1>8. Places'
  BY <1>2, <1>3, <1>4, Constants DEF Types, Places, poolVars
<1> QED
  BY <1>6, <1>7, <1>8 DEF Types

\* Events that main takes out of the batch, one at a time.
LEMMA Dispatched ==
  ASSUME Types, NEW e \in batch, Dispatch(e)
  PROVE  /\ batch' = batch \ {e} /\ batch' \subseteq Event /\ e \in Event
         /\ pc[Main] = "loop" /\ mfd = NoFd
         /\ e.ev = "listen" => backlog # <<>> /\ Head(backlog) \in Conns
                               /\ Tail(backlog) \in Seq(Conns)
                               /\ \A f \in batch' : f.ev # "listen"
         /\ e.ev # "listen" => e.fd \in Fds
<1>1. pc[Main] = "loop" /\ batch' = batch \ {e} /\ e \in Event
  BY DEF Dispatch, Types, LoopTypes
<1>2. mfd = NoFd
  BY <1>1 DEF Types, Places, LoopTypes, ClosePlaces
<1>3. ASSUME e.ev = "listen"
      PROVE  backlog # <<>> /\ Head(backlog) \in Conns /\ Tail(backlog) \in Seq(Conns)
  <2>1. backlog # <<>> /\ backlog \in Seq(Conns)
    BY <1>3 DEF Types, Places, KernelTypes
  <2> QED
    BY <2>1
<1>4. ASSUME e.ev = "listen", NEW f \in batch' PROVE f.ev # "listen"
  <2>1. f \in Event /\ f # e
    BY <1>1 DEF Types, LoopTypes
  <2>2. f.ev = "listen" => f.fd = e.fd /\ f.ev = e.ev
    BY <1>1, <1>4 DEF Types, Places
  <2> QED
    BY <1>1, <2>1, <2>2 DEF Event
<1>5. e.ev # "listen" => e.fd \in Fds
  BY <1>1 DEF Types, Places, Event
<1> QED
  BY <1>1, <1>2, <1>3, <1>4, <1>5 DEF Types, LoopTypes

LEMMA MinExists == ASSUME NEW S \in SUBSET Nat, S # {} PROVE Min(S) \in S
<1>1. PICK x \in S : \A y \in S : ~ (<<y, x>> \in OpToRel(<, Nat))
  BY NatLessThanWellFounded, WFMin
<1>2. ASSUME NEW y \in S PROVE x <= y
  <2>1. x \in Nat /\ y \in Nat /\ <<y, x>> \in Nat \X Nat
    OBVIOUS
  <2>2. <<y, x>> \in OpToRel(<, Nat) <=> y < x
    BY <2>1, Zenon DEF OpToRel
  <2>3. ~ (y < x)
    BY <1>1, <2>2, Zenon
  <2> QED
    BY <2>1, <2>3
<1> QED
  BY <1>2 DEF Min

LEMMA FreeFd == ASSUME FreeFds # {} PROVE NewFd \in Fds /\ conn[NewFd] = NoConn
<1>1. FreeFds \subseteq Fds /\ FreeFds \subseteq Nat
  BY Constants DEF FreeFds
<1>2. NewFd \in FreeFds
  BY <1>1, MinExists DEF NewFd
<1> QED
  BY <1>2 DEF FreeFds

LEMMA TypesListen == Types /\ ListenStep => Types'
<1> SUFFICES ASSUME Types, ListenStep PROVE Types'
  OBVIOUS
<1>1. CASE AcceptFails \/ ShowError \/ InitConn
  <2>1. PICK e \in batch : e.ev = "listen" /\ Dispatch(e)
    BY <1>1 DEF AcceptFails, ShowError, InitConn
  <2>2. /\ batch' \subseteq batch /\ batch' \subseteq Event /\ pc[Main] = "loop" /\ mfd = NoFd
        /\ Head(backlog) \in Conns /\ Tail(backlog) \in Seq(Conns)
        /\ \A f \in batch' : f.ev # "listen"
    BY <2>1, Dispatched
  <2>3. CASE AcceptFails
    <3>1. UNCHANGED <<clientVars, kernelVars, objectVars, mfd, pc, poolVars>>
      BY <2>3 DEF AcceptFails
    <3> QED
      BY <2>2, <3>1 DEF Types, ClientTypes, KernelTypes, ObjectTypes, LoopTypes, PoolTypes,
                        Places, clientVars, kernelVars, objectVars, poolVars
  <2>4. CASE ShowError
    <3>1. /\ backlog' = Tail(backlog) /\ status' = [status EXCEPT ![Head(backlog)] = "closed"]
          /\ flight' = [flight EXCEPT ![Head(backlog)] = <<>>]
          /\ wire' = [wire EXCEPT ![Head(backlog)] = <<>>]
          /\ UNCHANGED <<client, asked, replies, hung, full, stalls, lready, conn, interest,
                         objectVars, mfd, pc, poolVars>>
      BY <2>4 DEF ShowError
    <3>2. ClientTypes' /\ KernelTypes'
      BY SMTT(30), <2>2, <3>1 DEF Types, ClientTypes, KernelTypes
    <3> QED
      BY <2>2, <3>1, <3>2 DEF Types, ObjectTypes, LoopTypes, PoolTypes, Places, objectVars,
                              poolVars
  <2>5. CASE InitConn
    <3>1. /\ backlog' = Tail(backlog) /\ status' = [status EXCEPT ![Head(backlog)] = "open"]
          /\ conn' = [conn EXCEPT ![NewFd] = Head(backlog)]
          /\ sockfd' = [sockfd EXCEPT ![NewFd] = NewFd]
          /\ interest' = [interest EXCEPT ![NewFd] = "in"]
          /\ inbuf' = [inbuf EXCEPT ![NewFd] = <<>>] /\ reply' = [reply EXCEPT ![NewFd] = NoConn]
          /\ linger' = [linger EXCEPT ![NewFd] = FALSE] /\ pc' = [pc EXCEPT ![Main] = "incload"]
          /\ UNCHANGED <<clientVars, lready, wire, mfd, poolVars>>
      BY <2>5 DEF InitConn, Reset, Goto
    <3>2. NewFd \in Fds
      BY <2>5, FreeFd DEF InitConn
    <3>3. ClientTypes' /\ KernelTypes'
      BY <2>2, <3>1, <3>2 DEF Types, ClientTypes, KernelTypes, clientVars
    <3>4. ObjectTypes'
      <4>1. <<>> \in Seq(Conns \X Pieces) /\ Len(<<>>) < BufferPieces
        BY Constants
      <4> QED
        BY <3>1, <3>2, <4>1 DEF Types, ObjectTypes
    <3>5. LoopTypes' /\ PoolTypes'
      BY <2>2, <3>1 DEF Types, LoopTypes, PoolTypes, MainPlaces, poolVars
    <3>6. Places'
      BY <2>2, <3>1, Constants DEF Types, Places, LoopTypes, MainPlaces, ClosePlaces, poolVars
    <3> QED
      BY <3>3, <3>4, <3>5, <3>6 DEF Types
  <2> QED
    BY <1>1, <2>3, <2>4, <2>5
<1>2. CASE IncLoad \/ IncStore
  <2>1. /\ UNCHANGED <<clientVars, kernelVars, objectVars, batch, mfd, poolVars>>
        /\ pc[Main] \in {"incload", "incstore"}
        /\ \E l \in {"incstore", "loop"} : pc' = [pc EXCEPT ![Main] = l]
    BY <1>2 DEF IncLoad, IncStore, Goto
  <2>2. ClientTypes' /\ KernelTypes' /\ ObjectTypes' /\ PoolTypes' /\ LoopTypes'
    BY <2>1 DEF Types, ClientTypes, KernelTypes, ObjectTypes, LoopTypes, PoolTypes,
                clientVars, kernelVars, objectVars, poolVars, MainPlaces
  <2>3. Places'
    BY <2>1, Constants DEF Types, Places, LoopTypes, MainPlaces, ClosePlaces, kernelVars, poolVars
  <2> QED
    BY <2>2, <2>3 DEF Types
<1> QED
  BY <1>1, <1>2 DEF ListenStep

\* The events of connections: who comes for what epoll reported.
LEMMA TypesEvent == ASSUME Types, NEW e \in batch, EventStep(e) PROVE Types'
<1>0. Dispatch(e) /\ e.ev # "listen"
  BY DEF EventStep, HupEvent, Read, WriteNothing, WriteKeepAlive, WriteAndClose, WriteStalls,
         WriteFails, Writing
<1>1. /\ batch' \subseteq batch /\ batch' \subseteq Event /\ pc[Main] = "loop" /\ mfd = NoFd
      /\ e.fd \in Fds
  BY <1>0, Dispatched
<1>2. CASE HupEvent(e) \/ WriteFails(e)
  <2>1. /\ UNCHANGED <<clientVars, kernelVars, objectVars, poolVars>>
        /\ mfd' = e.fd /\ pc' = [pc EXCEPT ![Main] = "close"]
    BY <1>2 DEF HupEvent, WriteFails, Goto
  <2>2. ClientTypes' /\ KernelTypes' /\ ObjectTypes' /\ PoolTypes' /\ LoopTypes'
    BY <1>1, <2>1 DEF Types, ClientTypes, KernelTypes, ObjectTypes, LoopTypes, PoolTypes,
                clientVars, kernelVars, objectVars, poolVars, ClosePlaces
  <2>3. Places'
    BY <1>1, <2>1, Constants DEF Types, Places, LoopTypes, ClosePlaces, kernelVars, poolVars
  <2> QED
    BY <2>2, <2>3 DEF Types
<1>3. CASE Read(e)
  <2>1. /\ UNCHANGED <<clientVars, status, backlog, lready, conn, interest, sockfd, reply, linger,
                       poolVars>>
        /\ mfd' = e.fd /\ \E l \in {"close", "append"} : pc' = [pc EXCEPT ![Main] = l]
    BY <1>3 DEF Read, Goto
  <2>2. /\ wire' \in [Conns -> Seq(Pieces)] /\ inbuf' \in [Fds -> Seq(Conns \X Pieces)]
        /\ \A fd \in Fds : Len(inbuf'[fd]) < BufferPieces
    <3>1. CASE ReadFails(e.fd)
      BY <1>3, <3>1 DEF Read, Types, KernelTypes, ObjectTypes
    <3>2. CASE ~ ReadFails(e.fd)
      <4> DEFINE c == conn[e.fd]
      <4>1. c \in Conns /\ Len(inbuf[e.fd]) + Len(wire[c]) < BufferPieces
        <5>1. c # NoConn /\ c \in Conns \cup {NoConn}
          BY <1>1, <3>2 DEF ReadFails, Types, KernelTypes
        <5>2. Len(inbuf[e.fd]) \in Nat /\ Len(wire[c]) \in Nat /\ BufferPieces \in Nat
          BY <1>1, <5>1, Constants DEF Types, KernelTypes, ObjectTypes
        <5>3. ~ (Len(inbuf[e.fd]) + Len(wire[c]) >= BufferPieces)
          BY <3>2 DEF ReadFails
        <5>4. ASSUME NEW x \in Nat, NEW y \in Nat, NEW z \in Nat, ~ (x + y >= z)
              PROVE  x + y < z
          BY <5>4
        <5> QED
          BY <5>1, <5>2, <5>3, <5>4
      <4>2. Tagged(c) \in Seq(Conns \X Pieces) /\ Len(Tagged(c)) = Len(wire[c])
        BY <4>1 DEF Tagged, Types, KernelTypes
      <4>3. /\ inbuf[e.fd] \o Tagged(c) \in Seq(Conns \X Pieces)
            /\ Len(inbuf[e.fd] \o Tagged(c)) < BufferPieces
        <5>1. inbuf[e.fd] \in Seq(Conns \X Pieces)
          BY <1>1 DEF Types, ObjectTypes
        <5>2. /\ inbuf[e.fd] \o Tagged(c) \in Seq(Conns \X Pieces)
              /\ Len(inbuf[e.fd] \o Tagged(c)) = Len(inbuf[e.fd]) + Len(Tagged(c))
          BY <4>2, <5>1, ConcatProperties
        <5> QED
          BY <4>1, <4>2, <5>2
      <4>4. /\ inbuf' = [inbuf EXCEPT ![e.fd] = inbuf[e.fd] \o Tagged(c)]
            /\ wire' = [wire EXCEPT ![c] = <<>>]
        BY <1>3, <3>2 DEF Read
      <4>5. <<>> \in Seq(Pieces)
        OBVIOUS
      <4> HIDE DEF c
      <4> QED
        BY <1>1, <4>3, <4>4, <4>5 DEF Types, KernelTypes, ObjectTypes
    <3> QED
      BY <3>1, <3>2
  <2>3. ClientTypes' /\ KernelTypes' /\ ObjectTypes' /\ PoolTypes'
    BY <2>1, <2>2 DEF Types, ClientTypes, KernelTypes, ObjectTypes, PoolTypes, clientVars, poolVars
  <2>4. LoopTypes' /\ Places'
    BY <1>1, <2>1, Constants DEF Types, LoopTypes, Places, MainPlaces, ClosePlaces, poolVars
  <2> QED
    BY <2>3, <2>4 DEF Types
<1>4. CASE WriteNothing(e) \/ WriteKeepAlive(e) \/ WriteAndClose(e) \/ WriteStalls(e)
  <2>1. /\ \E ev \in {"in", "out"} : ModFd(sockfd[e.fd], ev)
        /\ UNCHANGED <<client, asked, flight, hung, status, backlog, lready, wire, conn, sockfd,
                       poolVars>>
    BY <1>4 DEF WriteNothing, WriteKeepAlive, WriteAndClose, WriteStalls, clientVars, objectVars
  <2>2. KernelTypes' /\ PoolTypes'
    BY <2>1, ModTypes DEF Types, KernelTypes, PoolTypes, poolVars
  <2>3. UNCHANGED <<inbuf, reply, linger>> \/ Reset(e.fd)
    BY <1>4 DEF WriteNothing, WriteKeepAlive, WriteAndClose, WriteStalls, objectVars
  <2>4. ObjectTypes'
    <3>1. <<>> \in Seq(Conns \X Pieces) /\ Len(<<>>) < BufferPieces
      BY Constants
    <3> QED
      BY ZenonT(30), <1>1, <2>1, <2>3, <3>1 DEF Types, ObjectTypes, Reset
  <2>5. ClientTypes'
    <3>1. CASE WriteNothing(e)
      BY <3>1 DEF WriteNothing, Types, ClientTypes, clientVars
    <3>2. CASE WriteKeepAlive(e) \/ WriteAndClose(e)
      <4>1. conn[e.fd] \in Conns
        BY <1>1, <3>2 DEF WriteKeepAlive, WriteAndClose, SocketLives, Types, KernelTypes
      <4>2. /\ replies' = [replies EXCEPT ![conn[e.fd]] = replies[conn[e.fd]] + 1]
            /\ UNCHANGED <<client, asked, flight, hung, full, stalls>>
        BY <3>2 DEF WriteKeepAlive, WriteAndClose
      <4> QED
        BY <4>1, <4>2 DEF Types, ClientTypes
    <3>3. CASE WriteStalls(e)
      <4>1. /\ stalls < MaxStalls /\ stalls' = stalls + 1 /\ MaxStalls \in Nat
            /\ full' = [full EXCEPT ![conn[e.fd]] = TRUE]
            /\ UNCHANGED <<client, asked, replies, flight, hung>>
        BY <3>3, Constants DEF WriteStalls
      <4>2. stalls' \in 0 .. MaxStalls
        BY <4>1 DEF Types, ClientTypes
      <4>3. full' \in [Conns -> BOOLEAN]
        BY <4>1 DEF Types, ClientTypes
      <4> QED
        BY <4>1, <4>2, <4>3 DEF Types, ClientTypes
    <3> QED
      BY <1>4, <3>1, <3>2, <3>3
  <2>6. \/ UNCHANGED <<pc, mfd>>
        \/ mfd' = e.fd /\ pc' = [pc EXCEPT ![Main] = "close"]
    BY <1>4 DEF WriteNothing, WriteKeepAlive, WriteAndClose, WriteStalls, Goto
  <2>7. LoopTypes' /\ Places'
    BY <1>1, <2>1, <2>6, Constants DEF Types, LoopTypes, Places, MainPlaces, ClosePlaces, poolVars
  <2> QED
    BY <2>2, <2>4, <2>5, <2>7 DEF Types
<1> QED
  BY <1>2, <1>3, <1>4 DEF EventStep

LEMMA TypesAppend == Types /\ (AppendAccepted \/ AppendRefused) => Types'
<1> SUFFICES ASSUME Types, AppendAccepted \/ AppendRefused PROVE Types'
  OBVIOUS
<1>1. /\ UNCHANGED <<clientVars, kernelVars, objectVars, batch, running>>
      /\ mfd' = NoFd /\ pc' = [pc EXCEPT ![Main] = "loop"] /\ pc[Main] = "append"
  BY DEF AppendAccepted, AppendRefused, Goto, Pool!Submit, poolVars
<1>2. mfd \in Fds /\ queue' \in {queue, Append(queue, mfd)}
  BY <1>1 DEF AppendAccepted, AppendRefused, Pool!Submit, poolVars, Types, Places
<1>3. PoolTypes'
  <2>1. queue \in Seq(Fds)
    BY DEF Types, PoolTypes
  <2>2. Append(queue, mfd) \in Seq(Fds)
    BY <1>2, <2>1
  <2>3. refused' \subseteq Conns
    BY DEF AppendAccepted, AppendRefused, Types, PoolTypes
  <2> QED
    BY <1>1, <1>2, <2>2, <2>3 DEF Types, PoolTypes
<1>4. ClientTypes' /\ KernelTypes' /\ ObjectTypes'
  BY <1>1 DEF Types, ClientTypes, KernelTypes, ObjectTypes, clientVars, kernelVars, objectVars
<1>5. LoopTypes' /\ Places'
  BY <1>1, Constants DEF Types, LoopTypes, Places, MainPlaces, ClosePlaces, kernelVars
<1> QED
  BY <1>3, <1>4, <1>5 DEF Types

\* close_conn, by whichever thread
LEMMA TypesClose == ASSUME Types, NEW t \in Threads, CloseStep(t) PROVE Types'
<1>1. FdOf(t) \in Fds /\ pc[t] \in ClosePlaces /\ (t \in Workers => running[t] \in Fds)
  <2>1. pc[t] \in ClosePlaces
    BY DEF CloseStep, CloseNothing, RemoveFd, Forget, DecLoad, DecStore, ClosePlaces
  <2> QED
    BY <2>1, Constants DEF Types, Places, FdOf, Threads, ClosePlaces
<1>2. /\ UNCHANGED <<client, asked, replies, hung, full, stalls, backlog, lready, inbuf, reply,
                     linger, batch, poolVars>>
      /\ \/ UNCHANGED mfd /\ \E l \in ClosePlaces : pc' = [pc EXCEPT ![t] = l]
         \/ AfterClose(t)
  BY DEF CloseStep, CloseNothing, RemoveFd, Forget, DecLoad, DecStore, Goto, ClosePlaces,
         clientVars, kernelVars, objectVars
<1>3. ClientTypes' /\ KernelTypes' /\ ObjectTypes' /\ PoolTypes'
  <2>1. CASE RemoveFd(t)
    <3>1. <<>> \in Seq(Pieces)
      OBVIOUS
    <3> QED
      BY <1>1, <2>1, <3>1 DEF RemoveFd, Types, ClientTypes, KernelTypes, ObjectTypes, PoolTypes,
                             objectVars, poolVars
  <2>2. CASE ~ RemoveFd(t)
    <3>1. UNCHANGED <<clientVars, kernelVars, inbuf, reply, linger, poolVars>>
          /\ sockfd' \in {sockfd, [sockfd EXCEPT ![FdOf(t)] = NoFd]}
      BY <2>2 DEF CloseStep, CloseNothing, Forget, DecLoad, DecStore, objectVars
    <3> QED
      BY <1>1, <3>1 DEF Types, ClientTypes, KernelTypes, ObjectTypes, PoolTypes, clientVars,
                       kernelVars, poolVars
  <2> QED
    BY <2>1, <2>2
<1>4. LoopTypes' /\ Places'
  <2>1. CASE AfterClose(t) /\ t = Main
    BY <1>2, <2>1, Constants DEF AfterClose, Goto, Types, LoopTypes, Places, MainPlaces,
                               ClosePlaces, poolVars
  <2>2. CASE AfterClose(t) /\ t \in Workers
    BY <1>1, <1>2, <2>2, Constants DEF AfterClose, Goto, Types, LoopTypes, Places, MainPlaces,
                               ClosePlaces, WorkerPlaces, poolVars
  <2>3. CASE UNCHANGED mfd /\ \E l \in ClosePlaces : pc' = [pc EXCEPT ![t] = l]
    <3>1. CASE t = Main
      BY <1>1, <1>2, <2>3, <3>1, Constants DEF Types, LoopTypes, Places, MainPlaces, ClosePlaces,
                                         WorkerPlaces, poolVars
    <3>2. CASE t \in Workers
      BY <1>1, <1>2, <2>3, <3>2, Constants DEF Types, LoopTypes, Places, MainPlaces, ClosePlaces,
                                         WorkerPlaces, poolVars
    <3> QED
      BY <3>1, <3>2 DEF Threads
  <2> QED
    BY <1>2, <2>1, <2>2, <2>3 DEF Threads
<1> QED
  BY <1>3, <1>4 DEF Types

\* A request that is complete or malformed has a first piece, and a sender.
LEMMA HasSender ==
  ASSUME Types, NEW fd \in Fds, Complete(Kinds(fd)) \/ Malformed(Kinds(fd))
  PROVE  /\ 1 \in DOMAIN inbuf[fd] /\ Sender(fd) = inbuf[fd][1][1] /\ Sender(fd) \in Conns
<1>1. inbuf[fd] \in Seq(Conns \X Pieces)
  BY DEF Types, ObjectTypes
<1>2. Kinds(fd) # <<>>
  BY DEF Complete, Malformed
<1>3. inbuf[fd] # <<>>
  BY <1>1, <1>2 DEF Kinds
<1>4. 1 \in DOMAIN inbuf[fd]
  BY <1>1, <1>3
<1>5. inbuf[fd][1] \in Conns \X Pieces
  BY <1>1, <1>4
<1> QED
  BY <1>4, <1>5 DEF Sender

LEMMA TypesWorker ==
  ASSUME Types, NEW w \in Workers, Take(w) \/ WorkerStep(w), ~ CloseStep(w)
  PROVE  Types'
<1>1. UNCHANGED <<clientVars, status, backlog, lready, wire, conn, sockfd, inbuf, batch, mfd>>
  BY DEF Take, WorkerStep, ProcessUnfinished, ProcessMalformed, ProcessComplete, ArmIn, ArmOut,
         Rearm, kernelVars, objectVars
<1>2. CASE Take(w)
  <2>1. /\ queue # <<>> /\ queue' = Tail(queue)
        /\ running' = [running EXCEPT ![w] = Head(queue)]
        /\ UNCHANGED <<kernelVars, objectVars, pc, refused>>
    BY <1>2 DEF Take, Pool!Take
  <2>2. queue \in Seq(Fds)
    BY DEF Types, PoolTypes
  <2>3. Head(queue) \in Fds /\ Tail(queue) \in Seq(Fds)
    BY <2>1, <2>2
  <2> QED
    BY <1>1, <2>1, <2>3 DEF Types, ClientTypes, KernelTypes, ObjectTypes, LoopTypes, PoolTypes,
                            Places, clientVars, kernelVars, objectVars
<1>3. CASE ProcessUnfinished(w) \/ ProcessMalformed(w) \/ ProcessComplete(w)
  <2>1. /\ UNCHANGED <<interest, poolVars>> /\ running[w] \in Fds
        /\ \E l \in {"armin", "armout", "close"} : pc' = [pc EXCEPT ![w] = l]
    BY <1>3 DEF ProcessUnfinished, ProcessMalformed, ProcessComplete, kernelVars, Goto, Parsing,
                Types, PoolTypes
  <2>2. ObjectTypes'
    <3>1. CASE ProcessUnfinished(w)
      BY <3>1 DEF ProcessUnfinished, Types, ObjectTypes, objectVars
    <3>2. CASE ProcessMalformed(w) \/ ProcessComplete(w)
      <4>1. Sender(running[w]) \in Conns
        BY <2>1, <3>2, HasSender DEF ProcessMalformed, ProcessComplete
      <4>2. client[Sender(running[w])].keepalive \in BOOLEAN
        BY <4>1, Constants DEF Types, ClientTypes, Client
      <4>3. /\ reply' = [reply EXCEPT ![running[w]] = Sender(running[w])]
            /\ \/ UNCHANGED linger
               \/ linger' = [linger EXCEPT
                              ![running[w]] = client[Sender(running[w])].keepalive]
        BY <3>2 DEF ProcessMalformed, ProcessComplete
      <4>4. reply' \in [Fds -> Conns \cup {NoConn}]
        BY <2>1, <4>1, <4>3 DEF Types, ObjectTypes
      <4>5. linger' \in [Fds -> BOOLEAN]
        BY <2>1, <4>2, <4>3 DEF Types, ObjectTypes
      <4> QED
        BY <1>1, <4>4, <4>5 DEF Types, ObjectTypes
    <3> QED
      BY <1>3, <3>1, <3>2
  <2>3. ClientTypes' /\ KernelTypes' /\ PoolTypes'
    BY <1>1, <2>1 DEF Types, ClientTypes, KernelTypes, PoolTypes, clientVars, poolVars
  <2>4. LoopTypes' /\ Places'
    BY <1>1, <2>1, Constants DEF Types, LoopTypes, Places, MainPlaces, ClosePlaces, WorkerPlaces,
                               poolVars
  <2> QED
    BY <2>2, <2>3, <2>4 DEF Types
<1>4. CASE ArmIn(w) \/ ArmOut(w)
  <2>1. /\ \E ev \in {"in", "out"} : ModFd(sockfd[running[w]], ev)
        /\ pc' = [pc EXCEPT ![w] = "loop"] /\ UNCHANGED <<objectVars, queue, refused>>
        /\ running' = [running EXCEPT ![w] = NoFd]
    BY <1>4 DEF ArmIn, ArmOut, Rearm, Goto, Pool!Finish
  <2>2. KernelTypes' /\ PoolTypes'
    BY <1>1, <2>1, ModTypes DEF Types, KernelTypes, PoolTypes
  <2>3. ClientTypes' /\ ObjectTypes'
    BY <1>1, <2>1 DEF Types, ClientTypes, ObjectTypes, clientVars, objectVars
  <2>4. LoopTypes' /\ Places'
    BY <1>1, <2>1, Constants DEF Types, LoopTypes, Places, MainPlaces, ClosePlaces, WorkerPlaces
  <2> QED
    BY <2>2, <2>3, <2>4 DEF Types
<1> QED
  BY <1>2, <1>3, <1>4 DEF WorkerStep

LEMMA TypesNext == Types /\ [Next]_vars => Types'
<1> SUFFICES ASSUME Types, [Next]_vars PROVE Types'
  OBVIOUS
<1>1. CASE UNCHANGED vars
  BY <1>1 DEF vars, clientVars, kernelVars, objectVars, poolVars, Types, ClientTypes, KernelTypes,
              ObjectTypes, LoopTypes, PoolTypes, Places
<1>2. CASE \E c \in Conns : ClientStep(c)
  BY <1>2, TypesClient
<1>3. CASE MainStep
  BY <1>3, TypesWait, TypesListen, TypesEvent, TypesAppend, TypesClose, Constants DEF MainStep
<1>4. CASE \E w \in Workers : Take(w) \/ WorkerStep(w)
  BY <1>4, TypesWorker, TypesClose, Constants
<1> QED
  BY <1>1, <1>2, <1>3, <1>4 DEF Next

(* ------------------------- nothing is carried over ----------------------------- *)

LEMMA CarriedNext == Types /\ NothingCarriedOver /\ [Next]_vars => NothingCarriedOver'
<1> SUFFICES ASSUME Types, NothingCarriedOver, [Next]_vars PROVE NothingCarriedOver'
  OBVIOUS
\* Most steps write no buffer and no reply, and open nothing.
<1>0. ASSUME UNCHANGED <<inbuf, reply>>, \A fd \in Fds : conn'[fd] \in {conn[fd], NoConn}
      PROVE  NothingCarriedOver'
  BY <1>0 DEF NothingCarriedOver, OpenFds
<1>1. CASE InitConn
  <2>1. /\ conn' = [conn EXCEPT ![NewFd] = Head(backlog)]
        /\ inbuf' = [inbuf EXCEPT ![NewFd] = <<>>] /\ reply' = [reply EXCEPT ![NewFd] = NoConn]
    BY <1>1 DEF InitConn, Reset
  <2> QED
    BY <2>1 DEF Types, KernelTypes, ObjectTypes, NothingCarriedOver, OpenFds
<1>2. CASE \E e \in batch : Read(e)
  <2>1. PICK e \in batch : Read(e)
    BY <1>2
  <2>2. e.fd \in Fds
    BY <2>1, Dispatched DEF Read
  <2>3. CASE ReadFails(e.fd)
    BY <1>0, <2>1, <2>3 DEF Read
  <2>4. CASE ~ ReadFails(e.fd)
    <3> DEFINE c == conn[e.fd]
    <3>1. c \in Conns
      BY <2>2, <2>4 DEF ReadFails, Types, KernelTypes
    <3>2. inbuf' = [inbuf EXCEPT ![e.fd] = inbuf[e.fd] \o Tagged(c)] /\ UNCHANGED <<conn, reply>>
      BY <2>1, <2>4 DEF Read
    <3>3. /\ inbuf[e.fd] \in Seq(Conns \X Pieces) /\ Tagged(c) \in Seq(Conns \X Pieces)
          /\ \A k \in DOMAIN Tagged(c) : Tagged(c)[k][1] = c
      BY <2>2, <3>1 DEF Tagged, Types, KernelTypes, ObjectTypes
    <3>4. \A k \in DOMAIN inbuf[e.fd] : inbuf[e.fd][k][1] = c
      BY <2>2, <3>1, Constants DEF NothingCarriedOver, OpenFds
    <3> HIDE DEF c
    <3>5. \A k \in DOMAIN inbuf'[e.fd] : inbuf'[e.fd][k][1] = c
      <4> DEFINE n == Len(inbuf[e.fd])
      <4>1. n \in Nat /\ DOMAIN inbuf[e.fd] = 1 .. n
        BY <3>3
      <4>2. inbuf'[e.fd] = inbuf[e.fd] \o Tagged(c)
        BY <2>2, <3>2 DEF Types, ObjectTypes
      <4>3. ASSUME NEW k \in DOMAIN inbuf'[e.fd] PROVE inbuf'[e.fd][k][1] = c
        <5>1. k \in 1 .. n + Len(Tagged(c)) /\ Len(Tagged(c)) \in Nat
          BY <3>3, <4>2, <4>3, ConcatProperties
        <5>2. inbuf'[e.fd][k] = IF k <= n THEN inbuf[e.fd][k] ELSE Tagged(c)[k - n]
          BY <3>3, <4>2, <5>1, ConcatProperties
        <5>3. k <= n => k \in DOMAIN inbuf[e.fd]
          BY <4>1, <5>1
        <5>4. ~ (k <= n) => k - n \in DOMAIN Tagged(c)
          <6>1. DOMAIN Tagged(c) = 1 .. Len(Tagged(c))
            BY <3>3
          <6> HIDE DEF n
          <6> QED
            BY <4>1, <5>1, <6>1
        <5> QED
          BY <3>3, <3>4, <5>2, <5>3, <5>4
      <4> QED
        BY <4>3
    <3> QED
      BY <3>2, <3>5 DEF c, Types, ObjectTypes, NothingCarriedOver, OpenFds
  <2> QED
    BY <2>3, <2>4
<1>3. CASE \E e \in batch : WriteNothing(e) \/ WriteKeepAlive(e)
  <2>1. PICK e \in batch : /\ inbuf' = [inbuf EXCEPT ![e.fd] = <<>>]
                           /\ reply' = [reply EXCEPT ![e.fd] = NoConn] /\ UNCHANGED conn
    BY <1>3 DEF WriteNothing, WriteKeepAlive, Reset
  <2> QED
    BY <2>1 DEF Types, ObjectTypes, NothingCarriedOver, OpenFds
<1>4. CASE \E w \in Workers : ProcessMalformed(w) \/ ProcessComplete(w)
  <2>1. PICK w \in Workers : ProcessMalformed(w) \/ ProcessComplete(w)
    BY <1>4
  <2> DEFINE fd == running[w]
  <2>2. /\ fd \in Fds /\ reply' = [reply EXCEPT ![fd] = Sender(fd)] /\ UNCHANGED <<inbuf, conn>>
        /\ Complete(Kinds(fd)) \/ Malformed(Kinds(fd))
    BY <2>1 DEF ProcessMalformed, ProcessComplete, Parsing, Types, PoolTypes, kernelVars
  <2>3. Sender(fd) = inbuf[fd][1][1] /\ 1 \in DOMAIN inbuf[fd]
    BY <2>2, HasSender
  <2> HIDE DEF fd
  <2>4. fd \in OpenFds => Sender(fd) = conn[fd]
    BY <2>2, <2>3 DEF NothingCarriedOver
  <2> QED
    BY <2>2, <2>4 DEF Types, ObjectTypes, NothingCarriedOver, OpenFds
<1>5. CASE \E t \in Threads : CloseStep(t)
  <2>1. UNCHANGED <<inbuf, reply>>
    BY <1>5 DEF CloseStep, CloseNothing, RemoveFd, Forget, DecLoad, DecStore, objectVars
  <2>2. \A fd \in Fds : conn'[fd] \in {conn[fd], NoConn}
    BY <1>5 DEF CloseStep, CloseNothing, RemoveFd, Forget, DecLoad, DecStore, kernelVars,
                Types, KernelTypes
  <2> QED
    BY <1>0, <2>1, <2>2
<1>6. CASE \/ UNCHANGED vars \/ \E c \in Conns : ClientStep(c)
           \/ EpollWait \/ AcceptFails \/ ShowError \/ IncLoad \/ IncStore
           \/ AppendAccepted \/ AppendRefused
           \/ \E e \in batch : HupEvent(e) \/ WriteAndClose(e) \/ WriteStalls(e) \/ WriteFails(e)
           \/ \E w \in Workers : Take(w) \/ ProcessUnfinished(w) \/ ArmIn(w) \/ ArmOut(w)
  <2>1. UNCHANGED <<inbuf, reply, conn>>
    BY <1>6 DEF vars, ClientStep, Connect, Request, Deliver, Hangup, Drain, EpollWait,
                AcceptFails, ShowError, IncLoad, IncStore, AppendAccepted, AppendRefused,
                HupEvent, WriteAndClose, WriteStalls, WriteFails, Take, ProcessUnfinished,
                ArmIn, ArmOut, Rearm, kernelVars, objectVars
  <2> QED
    BY <1>0, <2>1
<1> QED
  BY <1>1, <1>2, <1>3, <1>4, <1>5, <1>6, Constants
  DEF Next, MainStep, ListenStep, EventStep, WorkerStep

\* The bytes and the reply in users[fd] are of the client that has the descriptor,
\* even when accept fails, the pool refuses and workers close connections that
\* main has given to others (http_conn.cpp:78-95, 135-160).
THEOREM NothingIsCarriedOver == Spec => []NothingCarriedOver
<1>1. Init => Types /\ NothingCarriedOver
  BY TypesInit DEF Init, NothingCarriedOver, OpenFds
<1>2. Types /\ NothingCarriedOver /\ [Next]_vars => Types' /\ NothingCarriedOver'
  BY TypesNext, CarriedNext
<1> QED
  BY <1>1, <1>2, PTL DEF Spec

(* ------------------------- connections and descriptors ------------------------- *)

\* A connection is in the backlog once, and then has one descriptor.  Only one that was
\* accepted can have met a full queue.
Wired ==
  /\ \A i, j \in 1 .. Len(backlog) : backlog[i] = backlog[j] => i = j
  /\ \A i \in 1 .. Len(backlog) : status[backlog[i]] = "backlog"
  /\ \A fd \in Fds : conn[fd] # NoConn => status[conn[fd]] = "open"
  /\ \A f, g \in Fds : conn[f] = conn[g] /\ conn[f] # NoConn => f = g
  /\ \A c \in refused : status[c] \in {"open", "closed"}

\* Only connect, accept and removefd change who is behind which descriptor.
LEMMA WiredNext == Types /\ Wired /\ [Next]_vars => Wired'
<1> SUFFICES ASSUME Types, Wired, [Next]_vars PROVE Wired'
  OBVIOUS
<1>1. backlog \in Seq(Conns) /\ status \in [Conns -> {"new", "backlog", "open", "closed"}]
      /\ conn \in [Fds -> Conns \cup {NoConn}]
  BY DEF Types, KernelTypes
<1>2. ASSUME NEW c \in Conns, Connect(c) PROVE Wired'
  <2>1. /\ status[c] = "new" /\ status' = [status EXCEPT ![c] = "backlog"]
        /\ backlog' = Append(backlog, c) /\ conn' = conn /\ refused' = refused
    BY <1>2 DEF Connect, poolVars
  <2>2. PICK n \in Nat : /\ n = Len(backlog) /\ Len(backlog') = n + 1 /\ backlog'[n + 1] = c
                        /\ \A i \in 1 .. n : backlog'[i] = backlog[i]
    BY <1>1, <2>1, AppendProperties
  <2>3. \A i \in 1 .. n : backlog[i] # c /\ backlog[i] \in Conns
    BY <1>1, <2>1, <2>2 DEF Wired
  <2>4. \A i \in 1 .. n + 1 : i \in 1 .. n \/ i = n + 1
    OBVIOUS
  <2>5. \A i, j \in 1 .. n + 1 : backlog'[i] = backlog'[j] => i = j
    BY <2>2, <2>3, <2>4 DEF Wired
  <2>6. \A i \in 1 .. n + 1 : status'[backlog'[i]] = "backlog"
    BY <1>1, <2>1, <2>2, <2>3, <2>4 DEF Wired
  <2>7. \A fd \in Fds : conn[fd] # NoConn => status'[conn[fd]] = "open"
    BY <1>1, <2>1 DEF Wired
  <2>8. \A d \in refused : status'[d] \in {"open", "closed"}
    BY <1>1, <2>1 DEF Wired, Types, PoolTypes
  <2> QED
    BY <2>1, <2>2, <2>5, <2>6, <2>7, <2>8 DEF Wired
<1>3. CASE ShowError \/ InitConn
  <2>1. PICK e \in batch : e.ev = "listen" /\ Dispatch(e)
    BY <1>3 DEF ShowError, InitConn
  <2>2. backlog # <<>> /\ Head(backlog) \in Conns
    BY <2>1, Dispatched
  <2>3. PICK c \in Conns : c = Head(backlog)
    BY <2>2
  <2>4. PICK n \in Nat : /\ Len(backlog) = n + 1 /\ backlog[1] = c /\ Len(Tail(backlog)) = n
                        /\ \A i \in 1 .. n : Tail(backlog)[i] = backlog[i + 1]
    <3>1. Len(backlog) \in Nat \ {0} /\ Len(backlog) - 1 \in Nat
      BY <1>1, <2>2
    <3>2. /\ Head(backlog) = backlog[1] /\ Len(Tail(backlog)) = Len(backlog) - 1
          /\ \A i \in 1 .. Len(backlog) - 1 : Tail(backlog)[i] = backlog[i + 1]
      BY <1>1, <2>2, HeadTailProperties
    <3>3. PICK n \in Nat : n = Len(backlog) - 1
      BY <3>1
    <3>4. Len(backlog) = n + 1
      BY <3>1, <3>3
    <3> QED
      BY <2>3, <3>2, <3>3, <3>4
  <2>5. /\ backlog' = Tail(backlog) /\ \E l \in {"open", "closed"} : status' = [status EXCEPT ![c] = l]
        /\ \/ conn' = conn
           \/ status'[c] = "open" /\ conn' = [conn EXCEPT ![NewFd] = c] /\ FreeFds # {}
        /\ refused' = refused
    BY <1>1, <1>3, <2>3 DEF ShowError, InitConn, poolVars
  <2>6. /\ 1 \in 1 .. Len(backlog)
        /\ \A i \in 1 .. n : i + 1 \in 1 .. Len(backlog) /\ i + 1 # 1
    BY <2>4
  <2>7. \A i \in 1 .. n : Tail(backlog)[i] # c /\ Tail(backlog)[i] \in Conns
    BY <1>1, <2>4, <2>6 DEF Wired
  <2>8. \A i, j \in 1 .. n : Tail(backlog)[i] = Tail(backlog)[j] => i = j
    <3>1. ASSUME NEW i \in 1 .. n, NEW j \in 1 .. n, Tail(backlog)[i] = Tail(backlog)[j]
          PROVE  i = j
      <4>1. i + 1 = j + 1
        BY <2>4, <2>6, <3>1 DEF Wired
      <4> QED
        BY <4>1
    <3> QED
      BY <3>1
  <2>9. \A i \in 1 .. n : status'[Tail(backlog)[i]] = "backlog"
    BY <1>1, <2>4, <2>5, <2>6, <2>7 DEF Wired
  <2>10. status[c] = "backlog"
    BY <2>4, <2>6 DEF Wired
  <2>11. \A fd \in Fds : conn[fd] # NoConn => conn[fd] # c /\ status'[conn[fd]] = "open"
    BY <1>1, <2>5, <2>10 DEF Wired
  <2>14. \A d \in refused' : status'[d] \in {"open", "closed"}
    BY <1>1, <2>5, <2>10 DEF Wired, Types, PoolTypes
  <2>12. CASE conn' = conn
    BY <2>4, <2>5, <2>8, <2>9, <2>11, <2>12, <2>14 DEF Wired
  <2>13. CASE status'[c] = "open" /\ conn' = [conn EXCEPT ![NewFd] = c] /\ FreeFds # {}
    <3>1. NewFd \in Fds
      BY <2>13, FreeFd
    <3>2. \A fd \in Fds : conn'[fd] = IF fd = NewFd THEN c ELSE conn[fd]
      BY <1>1, <2>13, <3>1
    <3> QED
      BY <2>4, <2>5, <2>8, <2>9, <2>11, <2>13, <2>14, <3>1, <3>2 DEF Wired
  <2> QED
    BY <2>5, <2>12, <2>13
<1>4. ASSUME NEW t \in Threads, RemoveFd(t) PROVE Wired'
  <2>1. PICK fd \in Fds : fd = FdOf(t)
    <3>1. pc[t] \in ClosePlaces
      BY <1>4 DEF RemoveFd, ClosePlaces
    <3> QED
      BY <3>1, Constants DEF Types, Places, FdOf, Threads, ClosePlaces
  <2>2. /\ conn' = [conn EXCEPT ![fd] = NoConn] /\ backlog' = backlog
        /\ status' = [c \in Conns |-> IF conn[fd] = c THEN "closed" ELSE status[c]]
        /\ refused' = refused
    BY <1>4, <2>1 DEF RemoveFd, poolVars
  <2>3. \A i \in 1 .. Len(backlog) : backlog[i] \in Conns /\ backlog[i] # conn[fd]
    BY <1>1, Constants DEF Wired
  <2>4. \A f \in Fds : conn'[f] # NoConn => conn'[f] = conn[f] /\ conn[f] # conn[fd]
    BY <1>1, <2>2 DEF Wired
  <2>5. \A d \in refused : status'[d] \in {"open", "closed"}
    BY <1>1, <2>2 DEF Wired, Types, PoolTypes
  <2> QED
    BY <1>1, <2>2, <2>3, <2>4, <2>5 DEF Wired
<1>5. CASE UNCHANGED <<backlog, status, conn, refused>>
  BY <1>5 DEF Wired
<1>7. CASE AppendRefused
  <2>1. /\ UNCHANGED <<backlog, status, conn>> /\ pc[Main] = "append"
        /\ refused' = refused \cup ({conn[mfd]} \cap Conns)
    BY <1>7 DEF AppendRefused, kernelVars
  <2>2. mfd \in Fds
    BY <2>1 DEF Types, Places
  <2>3. \A d \in refused' : status[d] \in {"open", "closed"}
    BY <2>1, <2>2, Constants DEF Wired
  <2> QED
    BY <2>1, <2>3 DEF Wired
<1>6. \/ \E c \in Conns : Connect(c)
      \/ ShowError \/ InitConn \/ AppendRefused \/ \E t \in Threads : RemoveFd(t)
      \/ UNCHANGED <<backlog, status, conn, refused>>
  <2>1. ASSUME NEW t \in Threads, CloseStep(t)
        PROVE  RemoveFd(t) \/ UNCHANGED <<backlog, status, conn, refused>>
    BY <2>1 DEF CloseStep, CloseNothing, Forget, DecLoad, DecStore, kernelVars, poolVars
  <2>2. ASSUME NEW c \in Conns, ClientStep(c)
        PROVE  Connect(c) \/ UNCHANGED <<backlog, status, conn, refused>>
    BY <2>2 DEF ClientStep, Request, Deliver, Hangup, Drain, kernelVars, poolVars
  <2>3. CASE EpollWait \/ ListenStep \/ AppendAccepted \/ UNCHANGED vars
    BY <2>3 DEF EpollWait, ListenStep, AcceptFails, IncLoad, IncStore, AppendAccepted, vars,
                kernelVars, poolVars
  <2>4. ASSUME NEW e \in batch, EventStep(e) PROVE UNCHANGED <<backlog, status, conn, refused>>
    BY <2>4 DEF EventStep, HupEvent, Read, WriteNothing, WriteKeepAlive, WriteAndClose,
                WriteStalls, WriteFails, kernelVars, poolVars
  <2>5. ASSUME NEW w \in Workers, Take(w) \/ WorkerStep(w)
        PROVE  CloseStep(w) \/ UNCHANGED <<backlog, status, conn, refused>>
    BY <2>5 DEF Take, WorkerStep, ProcessUnfinished, ProcessMalformed, ProcessComplete, ArmIn,
                ArmOut, Rearm, kernelVars, poolVars
  <2> QED
    BY <2>1, <2>2, <2>3, <2>4, <2>5, Constants DEF Next, MainStep
<1> QED
  BY <1>2, <1>3, <1>4, <1>5, <1>6, <1>7

(* ------------------------------ one claim -------------------------------------- *)

\* No reply is an empty file's: workers close nothing.
OnlyMainCloses == "empty" \notin Outcomes

Armed(fd) == interest[fd] \in {"in", "out"}
Reported(fd) == \E e \in batch : e.fd = fd
Pooled(fd) == \/ \E k \in 1 .. Len(queue) : queue[k] = fd
              \/ \E w \in Workers : running[w] = fd
\* The one who may come for fd is main, by epoll or by its own place, or the pool, by
\* an entry of the queue or by a worker; for a descriptor that is not open nobody
\* but main, who is closing it, and for a refused connection nobody at all.
Claimed(fd) ==
  /\ \A e, f \in batch : e.fd = fd /\ f.fd = fd => e = f
  /\ \A j, k \in 1 .. Len(queue) : queue[j] = fd /\ queue[k] = fd => j = k
  /\ \A v, w \in Workers : running[v] = fd /\ running[w] = fd => v = w
  /\ \A k \in 1 .. Len(queue), w \in Workers : ~ (queue[k] = fd /\ running[w] = fd)
  /\ Armed(fd) \/ Reported(fd) \/ mfd = fd => ~ Pooled(fd)
  /\ Reported(fd) => ~ Armed(fd) /\ mfd # fd
  /\ IF conn[fd] = NoConn THEN ~ Armed(fd) /\ ~ Reported(fd) /\ ~ Pooled(fd)
                          ELSE Armed(fd) \/ Reported(fd) \/ mfd = fd \/ Pooled(fd)
                                 <=> conn[fd] \notin refused
\* An open descriptor is registered, and its object knows it.
Registered ==
  \A fd \in Fds : /\ interest[fd] = "none" <=> conn[fd] = NoConn
                  /\ conn[fd] # NoConn => sockfd[fd] = fd
\* What main's place says of the descriptor it works on
MainPlace ==
  /\ \A w \in Workers : pc[w] \in WorkerPlaces
  /\ pc[Main] = "append" => conn[mfd] # NoConn /\ ~ Armed(mfd)
  /\ pc[Main] = "close" => conn[mfd] # NoConn
  /\ pc[Main] \in {"forget", "decload", "decstore"} => conn[mfd] = NoConn
Handed == Registered /\ MainPlace /\ \A fd \in Fds : Claimed(fd)

\* What a step does not touch stays with the one who has it.
LEMMA ClaimKept ==
  ASSUME NEW fd \in Fds, Claimed(fd), UNCHANGED poolVars,
         Armed(fd)' <=> Armed(fd), conn'[fd] = conn[fd],
         {e \in batch' : e.fd = fd} = {e \in batch : e.fd = fd},
         mfd' = fd <=> mfd = fd
  PROVE  Claimed(fd)'
<1>1. Reported(fd)' <=> Reported(fd)
  BY DEF Reported
<1>2. Pooled(fd)' <=> Pooled(fd)
  BY DEF Pooled, poolVars
<1>3. \A e, f \in batch' : e.fd = fd /\ f.fd = fd => e = f
  <2>1. \A e \in batch' : e.fd = fd => e \in batch
    OBVIOUS
  <2> QED
    BY <2>1 DEF Claimed
<1> QED
  BY <1>1, <1>2, <1>3 DEF Claimed, poolVars

\* Steps that change no registration, no event of a connection and no place
LEMMA HandedKept ==
  ASSUME Types, Handed,
         UNCHANGED <<conn, interest, sockfd, mfd, poolVars>>,
         \A fd \in Fds : {e \in batch' : e.fd = fd} = {e \in batch : e.fd = fd},
         \A w \in Workers : pc'[w] \in WorkerPlaces,
         pc'[Main] = pc[Main] \/ pc'[Main] \in {"loop", "incload", "incstore"}
  PROVE  Handed'
<1>1. \A fd \in Fds : Claimed(fd)'
  BY ClaimKept DEF Handed, Armed
<1>2. Registered' /\ MainPlace'
  BY DEF Handed, Registered, MainPlace, Armed
<1> QED
  BY <1>1, <1>2 DEF Handed

LEMMA HandedInit == Init => Handed
<1> SUFFICES ASSUME Init PROVE Handed
  OBVIOUS
<1>1. Registered /\ MainPlace
  BY Constants DEF Init, Registered, MainPlace, WorkerPlaces
<1>2. ASSUME NEW fd \in Fds PROVE Claimed(fd)
  BY Constants DEF Init, Claimed, Armed, Reported, Pooled, Pool!QueueInit
<1> QED
  BY <1>1, <1>2 DEF Handed

LEMMA HandedClient == ASSUME Types, Handed, NEW c \in Conns, ClientStep(c) PROVE Handed'
<1>1. UNCHANGED <<conn, interest, sockfd, batch, mfd, pc, poolVars>>
  BY DEF ClientStep, Connect, Request, Deliver, Hangup, Drain, kernelVars, objectVars
<1> QED
  BY <1>1, HandedKept DEF Handed, MainPlace

\* epoll reports what is armed, once, and disarms it.
LEMMA HandedWait == Types /\ Handed /\ EpollWait => Handed'
<1> SUFFICES ASSUME Types, Handed, EpollWait PROVE Handed'
  OBVIOUS
<1>1. /\ pc[Main] = "loop" /\ batch = {} /\ batch' = ConnEvents \cup ListenEvents
      /\ interest' = Disarmed /\ UNCHANGED <<conn, sockfd, mfd, pc, poolVars>>
  BY DEF EpollWait, objectVars
<1>2. \A e \in ConnEvents : e.fd \in Fds /\ IsReady(e.fd)
                            /\ e = [fd |-> e.fd, ev |-> IF hung[conn[e.fd]] THEN "hup"
                                                       ELSE interest[e.fd]]
  BY DEF ConnEvents
<1>3. \A e \in ListenEvents : e.fd \notin Fds
  <2>1. \A e \in ListenEvents : e = [fd |-> ListenFd, ev |-> "listen"]
    BY DEF ListenEvents
  <2>2. \A e \in ListenEvents : e.fd = ListenFd
    BY <2>1
  <2> QED
    BY <2>2, Constants
<1>4. \A fd \in Fds : /\ interest'[fd] = IF IsReady(fd) THEN "off" ELSE interest[fd]
                      /\ IsReady(fd) => Armed(fd)
  BY <1>1 DEF Disarmed, IsReady, Armed
<1>5. ASSUME NEW fd \in Fds PROVE Claimed(fd)'
  <2>1. Claimed(fd) /\ ~ Reported(fd)
    BY <1>1 DEF Handed, Reported
  <2>2. Reported(fd)' <=> IsReady(fd)
    <3>1. IsReady(fd) => \E e \in ConnEvents : e.fd = fd
      <4> DEFINE x == [fd |-> fd, ev |-> IF hung[conn[fd]] THEN "hup" ELSE interest[fd]]
      <4>1. IsReady(fd) => x \in ConnEvents
        BY DEF ConnEvents
      <4> QED
        BY <4>1
    <3> QED
      BY <1>1, <1>2, <1>3, <3>1 DEF Reported
  <2>3. Armed(fd)' <=> Armed(fd) /\ ~ IsReady(fd)
    BY <1>4 DEF Armed
  <2>4. \A e, f \in batch' : e.fd = fd /\ f.fd = fd => e = f
    BY <1>1, <1>2, <1>3
  <2>5. Pooled(fd)' <=> Pooled(fd)
    BY <1>1 DEF Pooled, poolVars
  <2>6. IsReady(fd) => Armed(fd) /\ mfd # fd
    <3>1. mfd \notin Fds
      BY <1>1 DEF Types, Places, ClosePlaces
    <3> QED
      BY <1>4, <3>1
  <2> QED
    BY <1>1, <2>1, <2>2, <2>3, <2>4, <2>5, <2>6 DEF Claimed, poolVars
<1>6. Registered'
  BY <1>1, <1>4 DEF Handed, Registered, Armed
<1>7. MainPlace'
  BY <1>1 DEF Handed, MainPlace
<1> QED
  BY <1>5, <1>6, <1>7 DEF Handed

\* A new connection is with epoll; the other events of listenfd are nobody's.
LEMMA HandedListen == Types /\ Wired /\ Handed /\ ListenStep => Handed'
<1> SUFFICES ASSUME Types, Wired, Handed, ListenStep PROVE Handed'
  OBVIOUS
<1>1. CASE AcceptFails \/ ShowError \/ InitConn
  <2>1. PICK e \in batch : e.ev = "listen" /\ Dispatch(e)
    BY <1>1 DEF AcceptFails, ShowError, InitConn
  <2>2. /\ batch' = batch \ {e} /\ e.fd \notin Fds /\ pc[Main] = "loop" /\ mfd = NoFd
        /\ Head(backlog) \in Conns
    BY <2>1, Dispatched, Constants DEF Types, Places
  <2>3. \A fd \in Fds : {f \in batch' : f.fd = fd} = {f \in batch : f.fd = fd}
    BY <2>2
  <2>4. CASE AcceptFails \/ ShowError
    <3>1. UNCHANGED <<conn, interest, sockfd, mfd, pc, poolVars>>
      BY <2>4 DEF AcceptFails, ShowError, kernelVars, objectVars
    <3> QED
      BY <2>3, <3>1, HandedKept DEF Handed, MainPlace
  <2>5. CASE InitConn
    <3>1. /\ conn' = [conn EXCEPT ![NewFd] = Head(backlog)]
          /\ sockfd' = [sockfd EXCEPT ![NewFd] = NewFd]
          /\ interest' = [interest EXCEPT ![NewFd] = "in"]
          /\ pc' = [pc EXCEPT ![Main] = "incload"] /\ UNCHANGED <<mfd, poolVars>>
      BY <2>5 DEF InitConn, Goto
    <3>2. NewFd \in Fds /\ conn[NewFd] = NoConn /\ Head(backlog) # NoConn
      BY <2>2, <2>5, FreeFd, Constants DEF InitConn
    <3>6. Head(backlog) \notin refused
      <4>1. backlog # <<>> /\ backlog \in Seq(Conns)
        BY <2>1, Dispatched DEF Types, KernelTypes
      <4>2. Head(backlog) = backlog[1] /\ 1 \in 1 .. Len(backlog)
        BY <4>1, HeadTailProperties
      <4> QED
        BY <4>2 DEF Wired
    <3>3. ASSUME NEW fd \in Fds PROVE Claimed(fd)'
      <4>1. CASE fd = NewFd
        <5>1. Claimed(fd) /\ conn[fd] = NoConn /\ mfd # fd
          BY <2>2, <3>2, <4>1, Constants DEF Handed
        <5>2. Armed(fd)' /\ conn'[fd] # NoConn /\ conn'[fd] \notin refused'
          BY <3>1, <3>2, <3>6, <4>1 DEF Armed, Types, KernelTypes, poolVars
        <5>3. ~ Reported(fd)' /\ ~ Pooled(fd)'
          BY <2>2, <3>1, <5>1 DEF Claimed, Reported, Pooled, poolVars
        <5> QED
          BY <3>1, <5>2, <5>3 DEF Claimed, Reported, Pooled
      <4>2. CASE fd # NewFd
        <5>1. Claimed(fd) /\ conn'[fd] = conn[fd] /\ interest'[fd] = interest[fd]
          BY <3>1, <4>2 DEF Handed, Types, KernelTypes
        <5> QED
          BY <2>3, <3>1, <5>1, ClaimKept DEF Armed
      <4> QED
        BY <4>1, <4>2
    <3>4. Registered'
      BY <3>1, <3>2 DEF Handed, Registered, Types, KernelTypes, ObjectTypes
    <3>5. MainPlace'
      BY <3>1, Constants DEF Handed, MainPlace, Types, LoopTypes
    <3> QED
      BY <3>3, <3>4, <3>5 DEF Handed
  <2> QED
    BY <1>1, <2>4, <2>5
<1>2. CASE IncLoad \/ IncStore
  <2>1. /\ UNCHANGED <<conn, interest, sockfd, batch, mfd, poolVars>>
        /\ \E l \in {"incstore", "loop"} : pc' = [pc EXCEPT ![Main] = l]
    BY <1>2 DEF IncLoad, IncStore, Goto, kernelVars, objectVars
  <2>2. pc'[Main] \in {"loop", "incstore"} /\ \A w \in Workers : pc'[w] \in WorkerPlaces
    BY <2>1, Constants DEF Handed, MainPlace, Types, LoopTypes
  <2> QED
    BY <2>1, <2>2, HandedKept
<1> QED
  BY <1>1, <1>2 DEF ListenStep

\* Whoever looks at an event has the descriptor it is about: main goes to work on
\* it or arms it again.
LEMMA HandedEvent == ASSUME Types, Handed, NEW e \in batch, EventStep(e) PROVE Handed'
<1> DEFINE fd == e.fd
<1>1. Dispatch(e) /\ e.ev # "listen"
  BY DEF EventStep, HupEvent, Read, WriteNothing, WriteKeepAlive, WriteAndClose, WriteStalls,
         WriteFails, Writing
<1>2. batch' = batch \ {e} /\ pc[Main] = "loop" /\ mfd = NoFd /\ fd \in Fds /\ mfd # fd
  BY <1>1, Dispatched, Constants
<1>3. /\ Claimed(fd) /\ Reported(fd) /\ ~ Armed(fd) /\ ~ Pooled(fd) /\ conn[fd] # NoConn
      /\ sockfd[fd] = fd /\ interest[fd] # "none" /\ conn[fd] \notin refused
  BY <1>2 DEF Handed, Reported, Claimed, Registered
<1>4. UNCHANGED <<conn, sockfd, poolVars>>
  BY DEF EventStep, HupEvent, Read, WriteNothing, WriteKeepAlive, WriteAndClose, WriteStalls,
         WriteFails, kernelVars, objectVars
<1> HIDE DEF fd
<1>5. /\ interest' = interest \/ \E ev \in {"in", "out"} : ModFd(fd, ev)
      /\ \/ mfd' = fd /\ pc' = [pc EXCEPT ![Main] = "close"]
         \/ mfd' = fd /\ pc' = [pc EXCEPT ![Main] = "append"] /\ interest' = interest
         \/ UNCHANGED <<mfd, pc>> /\ \E ev \in {"in", "out"} : ModFd(fd, ev)
  BY <1>3 DEF fd, EventStep, HupEvent, Read, WriteNothing, WriteKeepAlive, WriteAndClose,
              WriteStalls, WriteFails, kernelVars, Goto
<1>6. /\ \A f \in Fds : f # fd => interest'[f] = interest[f]
      /\ \A f \in Fds : interest'[f] = "none" <=> interest[f] = "none"
      /\ \A ev \in {"in", "out"} : ModFd(fd, ev) => Armed(fd)'
  BY <1>2, <1>3, <1>5, ModTypes DEF Armed
<1>7. Armed(fd)' \/ mfd' = fd
  BY <1>5, <1>6
<1>8. ASSUME NEW f \in Fds PROVE Claimed(f)'
  <2>1. CASE f = fd
    <3>1. ~ Reported(fd)'
      BY <1>2, <1>3 DEF fd, Claimed, Reported
    <3>2. ~ Pooled(fd)'
      BY <1>3, <1>4 DEF Pooled, poolVars
    <3>3. \A x \in batch' : x.fd # fd
      BY <3>1 DEF Reported
    <3>4. conn'[fd] # NoConn /\ conn'[fd] \notin refused'
      BY <1>3, <1>4 DEF poolVars
    <3> QED
      BY <1>3, <1>4, <1>7, <2>1, <3>1, <3>2, <3>3, <3>4 DEF Claimed, poolVars
  <2>2. CASE f # fd
    <3>1. {x \in batch' : x.fd = f} = {x \in batch : x.fd = f}
      BY <1>2, <2>2 DEF fd
    <3>2. Claimed(f) /\ (mfd' = f <=> mfd = f)
      BY <1>2, <1>5, <2>2, Constants DEF Handed
    <3> QED
      BY <1>4, <1>6, <2>2, <3>1, <3>2, ClaimKept DEF Armed
  <2> QED
    BY <2>1, <2>2
<1>9. Registered'
  BY <1>4, <1>6 DEF Handed, Registered
<1>10. MainPlace'
  BY <1>2, <1>3, <1>4, <1>5, Constants DEF Handed, MainPlace, Types, LoopTypes, Armed
<1> QED
  BY <1>8, <1>9, <1>10 DEF Handed

\* The queue takes main's claim.
LEMMA HandedAppend == Types /\ Handed /\ AppendAccepted => Handed'
<1> SUFFICES ASSUME Types, Handed, AppendAccepted PROVE Handed'
  OBVIOUS
<1>1. /\ pc[Main] = "append" /\ pc' = [pc EXCEPT ![Main] = "loop"] /\ mfd' = NoFd
      /\ queue' = Append(queue, mfd) /\ UNCHANGED <<conn, interest, sockfd, batch, running, refused>>
  BY DEF AppendAccepted, Pool!Submit, Goto, kernelVars, objectVars
<1>2. PICK fd \in Fds : fd = mfd
  BY <1>1 DEF Types, Places
<1>3. Claimed(fd) /\ conn[fd] # NoConn /\ ~ Armed(fd) /\ ~ Reported(fd) /\ ~ Pooled(fd)
  BY <1>1, <1>2 DEF Handed, MainPlace, Claimed
<1>4. PICK n \in Nat : /\ n = Len(queue) /\ Len(queue') = n + 1 /\ queue'[n + 1] = fd
                      /\ \A k \in 1 .. n : queue'[k] = queue[k]
  <2>1. queue \in Seq(Fds)
    BY DEF Types, PoolTypes
  <2> QED
    BY <1>1, <1>2, <2>1, AppendProperties
<1>5. \A k \in 1 .. Len(queue') : k \in 1 .. n \/ k = n + 1
  BY <1>4
<1>6. ASSUME NEW f \in Fds PROVE Claimed(f)'
  <2>1. UNCHANGED <<conn, interest, batch, running, refused>> /\ mfd' # f
    BY <1>1, Constants
  <2>2. CASE f = fd
    <3>1. \A k \in 1 .. Len(queue') : queue'[k] = fd => k = n + 1
      BY <1>3, <1>4, <1>5 DEF Pooled
    <3>2. Pooled(fd)'
      <4>1. n + 1 \in 1 .. Len(queue')
        BY <1>4
      <4> QED
        BY <1>4, <4>1 DEF Pooled
    <3>3. \A w \in Workers : running'[w] # fd
      BY <1>3, <2>1 DEF Pooled
    <3>4. conn'[fd] # NoConn /\ conn'[fd] \notin refused'
      BY <1>2, <1>3, <2>1 DEF Claimed
    <3> QED
      BY <1>3, <2>1, <2>2, <3>1, <3>2, <3>3, <3>4 DEF Claimed, Armed, Reported
  <2>3. CASE f # fd
    <3>1. \A k \in 1 .. Len(queue') : queue'[k] = f => k \in 1 .. Len(queue) /\ queue[k] = f
      BY <1>4, <1>5, <2>3
    <3>2. \A k \in 1 .. Len(queue) : k \in 1 .. Len(queue') /\ queue'[k] = queue[k]
      BY <1>4
    <3>3. Claimed(f) /\ mfd # f
      BY <1>2, <2>3 DEF Handed
    <3>4. /\ Pooled(f)' <=> Pooled(f)
          /\ Armed(f)' <=> Armed(f)
          /\ Reported(f)' <=> Reported(f)
      BY <2>1, <3>1, <3>2 DEF Armed, Reported, Pooled
    <3>5. \A e, g \in batch' : e.fd = f /\ g.fd = f => e = g
      BY <2>1, <3>3 DEF Claimed
    <3>6. /\ \A j, k \in 1 .. Len(queue') : queue'[j] = f /\ queue'[k] = f => j = k
          /\ \A k \in 1 .. Len(queue'), w \in Workers : ~ (queue'[k] = f /\ running'[w] = f)
          /\ \A v, w \in Workers : running'[v] = f /\ running'[w] = f => v = w
      BY <2>1, <3>1, <3>3 DEF Claimed
    <3>7. /\ mfd' # f /\ mfd # f /\ conn'[f] = conn[f] /\ refused' = refused
      BY <2>1, <3>3
    <3> QED
      BY <3>3, <3>4, <3>5, <3>6, <3>7 DEF Claimed
  <2> QED
    BY <2>2, <2>3
<1>7. Registered' /\ MainPlace'
  BY <1>1, Constants DEF Handed, Registered, MainPlace, Types, LoopTypes
<1> QED
  BY <1>6, <1>7 DEF Handed

\* main closes what it alone may come for.
LEMMA HandedClose == Types /\ Handed /\ CloseStep(Main) => Handed'
<1> SUFFICES ASSUME Types, Handed, CloseStep(Main) PROVE Handed'
  OBVIOUS
<1>1. PICK fd \in Fds : fd = mfd /\ FdOf(Main) = fd
  <2>1. pc[Main] \in ClosePlaces
    BY DEF CloseStep, CloseNothing, RemoveFd, Forget, DecLoad, DecStore, ClosePlaces
  <2> QED
    BY <2>1 DEF Types, Places, FdOf
<1>2. Claimed(fd) /\ ~ Reported(fd) /\ ~ Pooled(fd)
  BY <1>1 DEF Handed, Claimed
<1>3. ~ CloseNothing(Main)
  BY <1>1, Constants DEF CloseNothing, Handed, MainPlace, Registered
<1>4. CASE RemoveFd(Main)
  <2>1. /\ conn' = [conn EXCEPT ![fd] = NoConn] /\ interest' = [interest EXCEPT ![fd] = "none"]
        /\ pc' = [pc EXCEPT ![Main] = "forget"] /\ UNCHANGED <<sockfd, batch, mfd, poolVars>>
    BY <1>1, <1>4 DEF RemoveFd, Goto, objectVars
  <2>2. /\ conn'[fd] = NoConn /\ interest'[fd] = "none"
        /\ \A f \in Fds \ {fd} : conn'[f] = conn[f] /\ interest'[f] = interest[f]
    BY <2>1 DEF Types, KernelTypes
  <2>3. ASSUME NEW f \in Fds PROVE Claimed(f)'
    <3>1. CASE f = fd
      BY <1>2, <2>1, <2>2, <3>1 DEF Claimed, Armed, Reported, Pooled, poolVars
    <3>2. CASE f # fd
      BY <2>1, <2>2, <3>2, ClaimKept DEF Handed, Armed
    <3> QED
      BY <3>1, <3>2
  <2>4. Registered'
    <3>1. ASSUME NEW f \in Fds
          PROVE  /\ interest'[f] = "none" <=> conn'[f] = NoConn
                 /\ conn'[f] # NoConn => sockfd'[f] = f
      BY <2>1, <2>2 DEF Handed, Registered
    <3> QED
      BY <3>1 DEF Registered
  <2>5. MainPlace'
    BY <1>1, <2>1, <2>2, Constants DEF Handed, MainPlace, Types, LoopTypes
  <2> QED
    BY <2>3, <2>4, <2>5 DEF Handed
<1>5. CASE Forget(Main) \/ DecLoad(Main)
  <2>1. /\ UNCHANGED <<conn, interest, batch, mfd, poolVars>> /\ conn[fd] = NoConn
        /\ sockfd' \in {sockfd, [sockfd EXCEPT ![fd] = NoFd]}
        /\ \E l \in {"decload", "decstore"} : pc' = [pc EXCEPT ![Main] = l]
    BY <1>1, <1>5 DEF Forget, DecLoad, Goto, kernelVars, objectVars, Handed, MainPlace
  <2>2. \A f \in Fds : Claimed(f)'
    BY <2>1, ClaimKept DEF Handed, Armed
  <2>3. Registered'
    <3>1. \A f \in Fds : conn[f] # NoConn => sockfd'[f] = sockfd[f]
      BY <2>1 DEF Types, ObjectTypes
    <3> QED
      BY <2>1, <3>1 DEF Handed, Registered
  <2>4. MainPlace'
    BY <1>1, <2>1, Constants DEF Handed, MainPlace, Types, LoopTypes
  <2> QED
    BY <2>2, <2>3, <2>4 DEF Handed
<1>6. CASE DecStore(Main)
  <2>1. /\ UNCHANGED <<conn, interest, sockfd, batch, poolVars>> /\ conn[fd] = NoConn
        /\ mfd' = NoFd /\ pc' = [pc EXCEPT ![Main] = "loop"]
    BY <1>1, <1>6 DEF DecStore, AfterClose, Goto, kernelVars, objectVars, Handed, MainPlace
  <2>2. ASSUME NEW f \in Fds PROVE Claimed(f)'
    <3>1. CASE f = fd
      BY <1>2, <2>1, <3>1 DEF Claimed, Armed, Reported, Pooled, poolVars
    <3>2. CASE f # fd
      BY <1>1, <2>1, <3>2, ClaimKept, Constants DEF Handed, Armed
    <3> QED
      BY <3>1, <3>2
  <2>3. Registered' /\ MainPlace'
    BY <2>1, Constants DEF Handed, Registered, MainPlace, Types, LoopTypes
  <2> QED
    BY <2>2, <2>3 DEF Handed
<1> QED
  BY <1>3, <1>4, <1>5, <1>6 DEF CloseStep

\* A worker takes the claim of the oldest entry.
LEMMA HandedTake == ASSUME Types, Handed, NEW w \in Workers, Take(w) PROVE Handed'
<1>1. /\ queue # <<>> /\ running[w] = NoFd /\ queue' = Tail(queue)
      /\ running' = [running EXCEPT ![w] = Head(queue)]
      /\ UNCHANGED <<conn, interest, sockfd, batch, mfd, pc, refused>>
  BY DEF Take, Pool!Take, kernelVars, objectVars
<1>2. PICK n \in Nat, fd \in Fds : /\ Len(queue) = n + 1 /\ queue[1] = fd /\ fd = Head(queue)
                                 /\ Len(queue') = n
                                 /\ \A k \in 1 .. n : queue'[k] = queue[k + 1]
  <2>1. queue \in Seq(Fds) /\ queue # <<>>
    BY <1>1 DEF Types, PoolTypes
  <2>2. Len(queue) \in Nat \ {0} /\ Len(queue) - 1 \in Nat
    BY <2>1
  <2>3. /\ Head(queue) \in Fds /\ Head(queue) = queue[1]
        /\ Len(queue') = Len(queue) - 1
        /\ \A k \in 1 .. Len(queue) - 1 : queue'[k] = queue[k + 1]
    BY <1>1, <2>1, HeadTailProperties
  <2> QED
    BY <2>2, <2>3
<1>3. /\ running'[w] = fd /\ \A v \in Workers \ {w} : running'[v] = running[v]
  BY <1>1, <1>2 DEF Types, PoolTypes
<1>4. 1 \in 1 .. Len(queue) /\ \A k \in 1 .. n : k + 1 \in 1 .. Len(queue) /\ k + 1 # 1
  BY <1>2
<1>5. ASSUME NEW f \in Fds PROVE Claimed(f)'
  <2>1. Claimed(f) /\ running[w] # f
    BY <1>1, Constants DEF Handed
  <2>2. \A j, k \in 1 .. n : queue'[j] = f /\ queue'[k] = f => j = k
    <3>1. ASSUME NEW j \in 1 .. n, NEW k \in 1 .. n, queue'[j] = f, queue'[k] = f PROVE j = k
      <4>1. j + 1 = k + 1
        BY <1>2, <1>4, <2>1, <3>1 DEF Claimed
      <4> QED
        BY <4>1
    <3> QED
      BY <3>1
  <2>3. CASE f = fd
    <3>1. \A k \in 1 .. n : queue'[k] # fd
      BY <1>2, <1>4, <2>1, <2>3 DEF Claimed
    <3>2. \A v \in Workers : running'[v] = fd => v = w
      BY <1>2, <1>3, <1>4, <2>1, <2>3 DEF Claimed
    <3>3. Pooled(fd) /\ Pooled(fd)'
      BY <1>2, <1>3, <1>4 DEF Pooled
    <3> QED
      BY <1>1, <1>2, <2>1, <2>3, <3>1, <3>2, <3>3 DEF Claimed, Armed, Reported
  <2>4. CASE f # fd
    <3>1. \A v \in Workers : running'[v] = f <=> running[v] = f
      BY <1>3, <2>1, <2>4
    <3>2. Pooled(f)' <=> Pooled(f)
      <4>1. \A k \in 1 .. n : queue'[k] = queue[k + 1] /\ k + 1 \in 1 .. Len(queue)
        BY <1>2, <1>4
      <4>2. \A k \in 1 .. Len(queue) :
              queue[k] = f => k - 1 \in 1 .. n /\ queue'[k - 1] = queue[k]
        <5>1. ASSUME NEW k \in 1 .. Len(queue), queue[k] = f
              PROVE  k - 1 \in 1 .. n /\ queue'[k - 1] = queue[k]
          <6>1. k \in 1 .. n + 1 /\ k # 1
            BY <1>2, <2>4, <5>1
          <6>2. k - 1 \in 1 .. n /\ (k - 1) + 1 = k
            BY <6>1
          <6> QED
            BY <1>2, <6>2
        <5> QED
          BY <5>1
      <4> QED
        BY <1>2, <3>1, <4>1, <4>2 DEF Pooled
    <3>3. \A k \in 1 .. n, v \in Workers : ~ (queue'[k] = f /\ running'[v] = f)
      BY <1>2, <1>4, <2>1, <3>1 DEF Claimed
    <3>4. \A u, v \in Workers : running'[u] = f /\ running'[v] = f => u = v
      BY <2>1, <3>1 DEF Claimed
    <3> QED
      BY <1>1, <1>2, <2>1, <2>2, <3>2, <3>3, <3>4 DEF Claimed, Armed, Reported
  <2> QED
    BY <2>3, <2>4
<1>6. Registered' /\ MainPlace'
  BY <1>1 DEF Handed, Registered, MainPlace, Armed
<1> QED
  BY <1>5, <1>6 DEF Handed

\* process() gives the claim back to epoll at its end.
LEMMA HandedWorker ==
  ASSUME Types, Handed, OnlyMainCloses, NEW w \in Workers, WorkerStep(w)
  PROVE  Handed'
<1>1. ~ CloseStep(w)
  <2>1. pc[w] \in WorkerPlaces
    BY DEF Handed, MainPlace
  <2> QED
    BY <2>1 DEF CloseStep, CloseNothing, RemoveFd, Forget, DecLoad, DecStore, WorkerPlaces
<1>2. CASE ProcessUnfinished(w) \/ ProcessMalformed(w) \/ ProcessComplete(w)
  <2>1. /\ UNCHANGED <<conn, interest, sockfd, batch, mfd, poolVars>>
        /\ \E l \in {"armin", "armout"} : pc' = [pc EXCEPT ![w] = l]
    BY <1>2, ServerAssumption DEF ServerAssumption, OnlyMainCloses, ProcessUnfinished,
         ProcessMalformed, ProcessComplete, Goto, kernelVars, objectVars
  <2>2. pc'[Main] = pc[Main] /\ \A v \in Workers : pc'[v] \in WorkerPlaces
    BY <2>1, Constants DEF Handed, MainPlace, WorkerPlaces, Types, LoopTypes
  <2> QED
    BY <2>1, <2>2, HandedKept
<1>3. CASE ArmIn(w) \/ ArmOut(w)
  <2>1. /\ pc' = [pc EXCEPT ![w] = "loop"] /\ UNCHANGED <<conn, sockfd, batch, mfd, queue, refused>>
        /\ running' = [running EXCEPT ![w] = NoFd]
        /\ \E ev \in {"in", "out"} : ModFd(sockfd[running[w]], ev)
        /\ running[w] # NoFd
    BY <1>3 DEF ArmIn, ArmOut, Rearm, Goto, Pool!Finish, objectVars
  <2>2. PICK fd \in Fds : fd = running[w]
    BY <2>1 DEF Types, PoolTypes
  <2>3. /\ Claimed(fd) /\ Pooled(fd) /\ conn[fd] # NoConn /\ ~ Armed(fd) /\ ~ Reported(fd)
        /\ mfd # fd /\ sockfd[fd] = fd /\ interest[fd] # "none"
    BY <2>2 DEF Handed, Claimed, Pooled, Registered
  <2>4. /\ \A f \in Fds : f # fd => interest'[f] = interest[f]
        /\ \A f \in Fds : interest'[f] = "none" <=> interest[f] = "none"
        /\ Armed(fd)'
    BY <2>1, <2>2, <2>3, ModTypes DEF Armed
  <2>5. running'[w] = NoFd /\ \A v \in Workers \ {w} : running'[v] = running[v]
    BY <2>1 DEF Types, PoolTypes
  <2>6. ASSUME NEW f \in Fds PROVE Claimed(f)'
    <3>1. \A v \in Workers : running'[v] = f <=> running[v] = f /\ v # w
      BY <2>5, Constants
    <3>2. Claimed(f)
      BY DEF Handed
    <3>3. CASE f = fd
      <4>1. ~ Pooled(fd)'
        BY <2>1, <2>2, <2>3, <3>1, <3>3 DEF Claimed, Pooled
      <4> QED
        BY <2>1, <2>3, <2>4, <3>1, <3>2, <3>3, <4>1 DEF Claimed, Reported
    <3>4. CASE f # fd
      <4>1. \A v \in Workers : running'[v] = f <=> running[v] = f
        BY <2>2, <3>1, <3>4
      <4>2. interest'[f] = interest[f]
        BY <2>4, <3>4
      <4> QED
        BY <2>1, <3>2, <4>1, <4>2 DEF Claimed, Reported, Armed, Pooled
    <3> QED
      BY <3>3, <3>4
  <2>7. Registered'
    BY <2>1, <2>4 DEF Handed, Registered
  <2>8. MainPlace'
    <3>1. pc'[Main] = pc[Main] /\ \A v \in Workers : pc'[v] \in WorkerPlaces
      BY <2>1, Constants DEF Handed, MainPlace, WorkerPlaces, Types, LoopTypes
    <3>2. pc[Main] = "append" => mfd \in Fds /\ interest'[mfd] = interest[mfd]
      BY <2>3, <2>4 DEF Types, Places
    <3> QED
      BY <2>1, <3>1, <3>2 DEF Handed, MainPlace, Armed
  <2> QED
    BY <2>6, <2>7, <2>8 DEF Handed
<1> QED
  BY <1>1, <1>2, <1>3 DEF WorkerStep

(* ------------------------- counting connections -------------------------------- *)

OpenCount == Cardinality(OpenFds)
\* Where main is in m_user_count++ or --
Counting ==
  /\ user_count \in Nat /\ tmp \in [Threads -> Nat] /\ OpenCount <= MaxFd
  /\ pc[Main] \in {"loop", "append", "close"} => user_count = OpenCount
  /\ pc[Main] \in {"incload", "incstore"} => user_count + 1 = OpenCount
  /\ pc[Main] \in {"forget", "decload", "decstore"} => user_count = OpenCount + 1
  /\ pc[Main] \in {"incstore", "decstore"} => tmp[Main] = user_count

LEMMA OpenFinite == IsFiniteSet(OpenFds) /\ OpenCount \in Nat /\ OpenCount <= Cardinality(Fds)
                    /\ Cardinality(Fds) \in Nat
<1>1. OpenFds \subseteq Fds /\ IsFiniteSet(Fds)
  BY Constants DEF OpenFds
<1> QED
  BY <1>1, FS_Subset, FS_CardinalityType DEF OpenCount

\* The entries of the queue are different descriptors.
LEMMA QueueCounted ==
  ASSUME Types, Handed
  PROVE  Cardinality({queue[k] : k \in DOMAIN queue}) = Len(queue)
<1>1. PICK n \in Nat : n = Len(queue) /\ DOMAIN queue = 1 .. n
  BY DEF Types, PoolTypes
<1> DEFINE f == [k \in 1 .. n |-> queue[k]]
           S == {queue[k] : k \in 1 .. n}
<1>2. \A k \in 1 .. n : queue[k] \in Fds
  BY <1>1 DEF Types, PoolTypes
<1>3. \A j, k \in 1 .. n : queue[j] = queue[k] => j = k
  BY <1>1, <1>2 DEF Handed, Claimed
<1>4. f \in Bijection(1 .. n, S)
  <2>1. f \in [1 .. n -> S]
    OBVIOUS
  <2>2. f \in Injection(1 .. n, S)
    BY <1>3, <2>1 DEF Injection, IsInjective
  <2>3. f \in Surjection(1 .. n, S)
    BY <2>1 DEF Surjection
  <2> QED
    BY <2>2, <2>3 DEF Bijection
<1>5. IsFiniteSet(1 .. n) /\ Cardinality(1 .. n) = n
  BY FS_Interval
<1>6. Cardinality(S) = n
  BY <1>4, <1>5, FS_Bijection DEF ExistsBijection
<1> QED
  BY <1>1, <1>6

\* A full queue is left as it is, and the connection with nobody.
LEMMA HandedRefused == Types /\ Wired /\ Handed /\ AppendRefused => Handed'
<1> SUFFICES ASSUME Types, Wired, Handed, AppendRefused PROVE Handed'
  OBVIOUS
<1>1. /\ pc[Main] = "append" /\ pc' = [pc EXCEPT ![Main] = "loop"] /\ mfd' = NoFd
      /\ refused' = refused \cup ({conn[mfd]} \cap Conns)
      /\ UNCHANGED <<conn, interest, sockfd, batch, queue, running>>
  BY DEF AppendRefused, Goto, kernelVars, objectVars
<1>2. PICK g \in Fds : g = mfd
  BY <1>1 DEF Types, Places
<1>3. conn[g] \in Conns /\ ~ Armed(g) /\ ~ Reported(g) /\ ~ Pooled(g)
  BY <1>1, <1>2 DEF Handed, MainPlace, Claimed, Types, KernelTypes
<1>4. ASSUME NEW fd \in Fds PROVE Claimed(fd)'
  <2>1. Claimed(fd) /\ mfd' # fd
    BY <1>1, Constants DEF Handed
  <2>2. UNCHANGED <<Armed(fd), Reported(fd), Pooled(fd)>>
    BY <1>1 DEF Armed, Reported, Pooled
  <2>3. CASE fd = g
    <3>1. conn'[fd] \in refused'
      BY <1>1, <1>2, <1>3, <2>3
    <3> QED
      BY <1>1, <1>3, <2>1, <2>2, <2>3, <3>1 DEF Claimed
  <2>4. CASE fd # g
    <3>1. conn[fd] # NoConn => conn[fd] # conn[g]
      BY <2>4 DEF Wired
    <3>2. conn[fd] # NoConn => (conn'[fd] \in refused' <=> conn[fd] \in refused)
      BY <1>1, <1>2, <3>1
    <3>3. mfd # fd
      BY <1>2, <2>4
    <3> QED
      BY <1>1, <2>1, <2>2, <3>2, <3>3 DEF Claimed
  <2> QED
    BY <2>3, <2>4
<1>5. Registered' /\ MainPlace'
  BY <1>1, Constants DEF Handed, Registered, MainPlace, Types, LoopTypes
<1> QED
  BY <1>4, <1>5 DEF Handed

LEMMA HandedNext ==
  Types /\ Wired /\ Handed /\ OnlyMainCloses /\ [Next]_vars => Handed'
<1> SUFFICES ASSUME Types, Wired, Handed, OnlyMainCloses, [Next]_vars PROVE Handed'
  OBVIOUS
<1>1. CASE UNCHANGED vars
  <2>1. UNCHANGED <<conn, interest, sockfd, batch, mfd, pc, poolVars>>
    BY <1>1 DEF vars, kernelVars, objectVars
  <2> QED
    BY <2>1, HandedKept DEF Handed, MainPlace
<1>2. CASE \E c \in Conns : ClientStep(c)
  BY <1>2, HandedClient
<1>3. CASE MainStep
  BY <1>3, HandedWait, HandedListen, HandedEvent, HandedAppend, HandedRefused, HandedClose
     DEF MainStep
<1>4. CASE \E w \in Workers : Take(w) \/ WorkerStep(w)
  BY <1>4, HandedTake, HandedWorker
<1> QED
  BY <1>1, <1>2, <1>3, <1>4 DEF Next

\* Only init and close_conn change what there is to count.
LEMMA CountKept ==
  ASSUME Types, Counting, UNCHANGED <<conn, user_count, tmp>>,
         \/ pc'[Main] = pc[Main]
         \/ {pc[Main], pc'[Main]} \subseteq {"loop", "append", "close"}
         \/ pc[Main] = "forget" /\ pc'[Main] = "decload"
  PROVE  Counting'
<1>1. OpenFds' = OpenFds
  BY DEF OpenFds
<1> QED
  BY <1>1 DEF Counting, OpenCount

LEMMA CountListen == Types /\ Handed /\ Counting /\ ListenStep => Counting'
<1> SUFFICES ASSUME Types, Handed, Counting, ListenStep PROVE Counting'
  OBVIOUS
<1>1. CASE AcceptFails \/ ShowError
  <2>1. UNCHANGED <<conn, user_count, tmp, pc>>
    BY <1>1 DEF AcceptFails, ShowError, kernelVars
  <2> QED
    BY <2>1, CountKept
<1>2. CASE InitConn
  <2>1. PICK e \in batch : e.ev = "listen" /\ Dispatch(e)
    BY <1>2 DEF InitConn
  <2>2. pc[Main] = "loop" /\ Head(backlog) \in Conns
    BY <2>1, Dispatched
  <2>3. /\ conn' = [conn EXCEPT ![NewFd] = Head(backlog)] /\ ~ Busy
        /\ pc' = [pc EXCEPT ![Main] = "incload"] /\ UNCHANGED <<user_count, tmp>>
    BY <1>2 DEF InitConn, Goto
  <2>4. NewFd \in Fds /\ conn[NewFd] = NoConn /\ Head(backlog) # NoConn
    BY <1>2, <2>2, FreeFd, Constants DEF InitConn
  <2>5. OpenFds' = OpenFds \cup {NewFd} /\ NewFd \notin OpenFds
    BY <2>3, <2>4 DEF OpenFds, Types, KernelTypes
  <2>6. OpenCount' = OpenCount + 1
    BY <2>5, OpenFinite, FS_AddElement DEF OpenCount
  <2>7. pc'[Main] = "incload" /\ user_count = OpenCount /\ user_count < MaxFd
    BY <2>2, <2>3, Constants DEF Types, LoopTypes, Counting, Busy
  <2> QED
    BY <2>3, <2>6, <2>7, Constants DEF Counting
<1>3. CASE IncLoad
  <2>1. /\ pc[Main] = "incload" /\ pc'[Main] = "incstore" /\ tmp'[Main] = user_count
        /\ tmp' \in [Threads -> Nat] /\ UNCHANGED <<conn, user_count>>
    BY <1>3, Constants DEF IncLoad, Goto, Types, LoopTypes, Counting, kernelVars
  <2>2. OpenFds' = OpenFds
    BY <2>1 DEF OpenFds
  <2> QED
    BY <2>1, <2>2 DEF Counting, OpenCount
<1>4. CASE IncStore
  <2>1. /\ pc[Main] = "incstore" /\ pc'[Main] = "loop" /\ user_count' = user_count + 1
        /\ tmp' \in [Threads -> Nat] /\ UNCHANGED conn
    BY <1>4, Constants DEF IncStore, Goto, Types, LoopTypes, Counting, kernelVars
  <2>2. OpenFds' = OpenFds
    BY <2>1 DEF OpenFds
  <2> QED
    BY <2>1, <2>2 DEF Counting, OpenCount
<1> QED
  BY <1>1, <1>2, <1>3, <1>4 DEF ListenStep

LEMMA CountClose == Types /\ Handed /\ Counting /\ CloseStep(Main) => Counting'
<1> SUFFICES ASSUME Types, Handed, Counting, CloseStep(Main) PROVE Counting'
  OBVIOUS
<1>1. PICK fd \in Fds : fd = mfd /\ FdOf(Main) = fd
  <2>1. pc[Main] \in ClosePlaces
    BY DEF CloseStep, CloseNothing, RemoveFd, Forget, DecLoad, DecStore, ClosePlaces
  <2> QED
    BY <2>1 DEF Types, Places, FdOf
<1>2. CASE CloseNothing(Main) \/ Forget(Main)
  <2>1. /\ UNCHANGED <<conn, user_count, tmp>>
        /\ \/ pc[Main] = "close" /\ pc'[Main] = "loop"
           \/ pc[Main] = "forget" /\ pc'[Main] = "decload"
    BY <1>2, Constants DEF CloseNothing, Forget, AfterClose, Goto, kernelVars, Types, LoopTypes
  <2> QED
    BY <2>1, CountKept
<1>3. CASE RemoveFd(Main)
  <2>1. /\ pc[Main] = "close" /\ pc'[Main] = "forget" /\ conn' = [conn EXCEPT ![fd] = NoConn]
        /\ UNCHANGED <<user_count, tmp>>
    BY <1>1, <1>3, Constants DEF RemoveFd, Goto, Types, LoopTypes
  <2>2. OpenFds' = OpenFds \ {fd} /\ fd \in OpenFds
    BY <1>1, <2>1 DEF Handed, MainPlace, OpenFds, Types, KernelTypes
  <2>3. OpenCount' = OpenCount - 1
    BY <2>2, OpenFinite, FS_RemoveElement DEF OpenCount
  <2>4. OpenCount \in Nat /\ MaxFd \in Nat
    BY OpenFinite, Constants
  <2> QED
    BY <2>1, <2>3, <2>4 DEF Counting
<1>4. CASE DecLoad(Main)
  <2>1. /\ pc[Main] = "decload" /\ pc'[Main] = "decstore" /\ tmp'[Main] = user_count
        /\ tmp' \in [Threads -> Nat] /\ UNCHANGED <<conn, user_count>>
    BY <1>4, Constants DEF DecLoad, Goto, Types, LoopTypes, Counting, kernelVars
  <2>2. OpenFds' = OpenFds
    BY <2>1 DEF OpenFds
  <2> QED
    BY <2>1, <2>2 DEF Counting, OpenCount
<1>5. CASE DecStore(Main)
  <2>1. /\ pc[Main] = "decstore" /\ pc'[Main] = "loop" /\ user_count' = user_count - 1
        /\ tmp' \in [Threads -> Nat] /\ UNCHANGED conn
    BY <1>5, Constants DEF DecStore, AfterClose, Goto, Types, LoopTypes, Counting, kernelVars
  <2>2. OpenFds' = OpenFds /\ OpenCount \in Nat
    BY <2>1, OpenFinite DEF OpenFds
  <2> QED
    BY <2>1, <2>2 DEF Counting, OpenCount
<1> QED
  BY <1>2, <1>3, <1>4, <1>5 DEF CloseStep

LEMMA CountNext ==
  Types /\ Handed /\ Counting /\ OnlyMainCloses /\ [Next]_vars => Counting'
<1> SUFFICES ASSUME Types, Handed, Counting, OnlyMainCloses, [Next]_vars PROVE Counting'
  OBVIOUS
<1>1. CASE UNCHANGED vars \/ EpollWait \/ \E c \in Conns : ClientStep(c)
  <2>1. UNCHANGED <<conn, user_count, tmp, pc>>
    BY <1>1 DEF vars, kernelVars, EpollWait, ClientStep, Connect, Request, Deliver, Hangup, Drain
  <2> QED
    BY <2>1, CountKept
<1>2. CASE \E e \in batch : EventStep(e)
  <2>1. PICK e \in batch : EventStep(e)
    BY <1>2
  <2>2. pc[Main] = "loop"
    BY <2>1 DEF EventStep, HupEvent, Read, WriteNothing, WriteKeepAlive, WriteAndClose,
                WriteStalls, WriteFails, Writing, Dispatch
  <2>3. UNCHANGED <<conn, user_count, tmp>>
        /\ (UNCHANGED pc \/ \E l \in {"append", "close"} : pc' = [pc EXCEPT ![Main] = l])
    BY <2>1 DEF EventStep, HupEvent, Read, WriteNothing, WriteKeepAlive, WriteAndClose,
                WriteStalls, WriteFails, kernelVars, Goto
  <2>4. pc'[Main] \in {"loop", "append", "close"}
    BY <2>2, <2>3, Constants DEF Types, LoopTypes
  <2> QED
    BY <2>2, <2>3, <2>4, CountKept
<1>3. CASE AppendAccepted \/ AppendRefused
  <2>1. UNCHANGED <<conn, user_count, tmp>> /\ pc[Main] = "append" /\ pc'[Main] = "loop"
    BY <1>3, Constants DEF AppendAccepted, AppendRefused, Goto, kernelVars, Types, LoopTypes
  <2> QED
    BY <2>1, CountKept
<1>4. CASE \E w \in Workers : Take(w) \/ WorkerStep(w)
  <2>1. PICK w \in Workers : Take(w) \/ WorkerStep(w)
    BY <1>4
  <2>2. ~ CloseStep(w)
    <3>1. pc[w] \in WorkerPlaces
      BY DEF Handed, MainPlace
    <3> QED
      BY <3>1 DEF CloseStep, CloseNothing, RemoveFd, Forget, DecLoad, DecStore, WorkerPlaces
  <2>3. UNCHANGED <<conn, user_count, tmp>> /\ (UNCHANGED pc \/ \E l : pc' = [pc EXCEPT ![w] = l])
    BY <2>1, <2>2 DEF Take, WorkerStep, ProcessUnfinished, ProcessMalformed, ProcessComplete,
                      ArmIn, ArmOut, Rearm, kernelVars, Goto
  <2>4. pc'[Main] = pc[Main]
    BY <2>3, Constants DEF Types, LoopTypes
  <2> QED
    BY <2>3, <2>4, CountKept
<1> QED
  BY <1>1, <1>2, <1>3, <1>4, CountListen, CountClose DEF Next, MainStep

LEMMA CountInit == Init => Counting
<1> SUFFICES ASSUME Init PROVE Counting
  OBVIOUS
<1>1. OpenFds = {} /\ Cardinality({}) = 0
  BY FS_EmptySet DEF Init, OpenFds
<1> QED
  BY <1>1, Constants DEF Init, Counting, OpenCount

(* ------------------------------- theorems -------------------------------------- *)

ServerInv == Types /\ Wired /\ (OnlyMainCloses => Handed /\ Counting)

LEMMA WiredInit == Init => Wired
  BY DEF Init, Wired, Pool!QueueInit

LEMMA ServerInvHolds == Spec => []ServerInv
<1>1. Init => ServerInv
  BY TypesInit, WiredInit, HandedInit, CountInit DEF ServerInv
<1>2. ServerInv /\ [Next]_vars => ServerInv'
  BY TypesNext, WiredNext, HandedNext, CountNext DEF ServerInv, OnlyMainCloses
<1> QED
  BY <1>1, <1>2, PTL DEF Spec

\* At most one of a set that has at most one kind of element
LEMMA CountOne ==
  ASSUME NEW S, \A x, y \in S : x = y
  PROVE  Cardinality(S) = IF S = {} THEN 0 ELSE 1
<1>1. CASE S = {}
  BY <1>1, FS_EmptySet
<1>2. CASE S # {}
  <2>1. PICK x : S = {x}
    BY <1>2
  <2> QED
    BY <1>2, <2>1, FS_Singleton
<1> QED
  BY <1>1, <1>2

LEMMA ClaimsCounted ==
  ASSUME Types, NEW fd \in Fds, Claimed(fd)
  PROVE  Claims(fd) <= 1 /\ (fd \in OpenFds => (Claims(fd) = 0 <=> fd \in LostFds))
<1> DEFINE Q == {k \in DOMAIN queue : queue[k] = fd}
           R == {w \in Workers : running[w] = fd}
<1>1. DOMAIN queue = 1 .. Len(queue)
  BY DEF Types, PoolTypes
<1>2. /\ Cardinality(Q) = IF Q = {} THEN 0 ELSE 1
      /\ Cardinality(R) = IF R = {} THEN 0 ELSE 1
  <2>1. \A j, k \in Q : j = k
    BY <1>1 DEF Claimed
  <2>2. \A v, w \in R : v = w
    BY DEF Claimed
  <2> QED
    BY <2>1, <2>2, CountOne
<1>3. (Q = {} \/ R = {}) /\ (Q = {} /\ R = {} <=> ~ Pooled(fd))
  BY <1>1 DEF Claimed, Pooled
<1>4. MainMayCome(fd) <=> Armed(fd) \/ Reported(fd) \/ mfd = fd
  BY DEF MainMayCome, Armed, Reported
<1>5. Claims(fd) = (IF MainMayCome(fd) THEN 1 ELSE 0) + Cardinality(Q) + Cardinality(R)
  BY DEF Claims
<1> HIDE DEF Q, R
<1>6. MainMayCome(fd) => Q = {} /\ R = {}
  BY <1>3, <1>4 DEF Claimed
<1>7. fd \in OpenFds => (MainMayCome(fd) \/ Q # {} \/ R # {} <=> fd \notin LostFds)
  BY <1>3, <1>4 DEF Claimed, OpenFds, LostFds
<1> QED
  BY <1>2, <1>3, <1>5, <1>6, <1>7

\* Never two who may come for one connection, and nobody exactly when a full queue
\* refused it, as long as main alone closes: EPOLLONESHOT, the queue and the modfd at
\* the end of process() hand one claim on (main.cpp:108-125, http_conn.cpp:534-550).
THEOREM OneClaimHolds == Spec => [](OnlyMainCloses => OneClaim)
<1>1. ServerInv => (OnlyMainCloses => OneClaim)
  BY ClaimsCounted DEF ServerInv, Handed, OneClaim
<1> QED
  BY <1>1, ServerInvHolds, PTL

\* m_user_count is loaded and stored without a lock.  As long as main alone does
\* it, it is the number of connections between updates, whatever workers and
\* clients do meanwhile, and MAX_FD bounds the descriptors (main.cpp:102,
\* http_conn.cpp:59, 73).
THEOREM UserCountHolds == Spec => [](OnlyMainCloses => UserCountExact)
<1>1. ServerInv => (OnlyMainCloses => UserCountExact)
  <2> SUFFICES ASSUME Types, Counting PROVE UserCountExact
    BY DEF ServerInv
  <2>1. ~ Updating(Main) => pc[Main] \in {"loop", "append", "close"}
    BY DEF Updating, Types, Places, MainPlaces, ClosePlaces
  <2> QED
    BY <2>1, Constants DEF Counting, OpenCount, UserCountExact
<1> QED
  BY <1>1, ServerInvHolds, PTL

\* Every variable has its type and no read buffer is overrun, as long as main
\* alone closes (http_conn.cpp:135-160).
THEOREM ServerTypes == Spec => [](OnlyMainCloses => TypeOK)
<1>1. ServerInv => (OnlyMainCloses => TypeOK)
  <2> SUFFICES ASSUME Types, Counting PROVE TypeOK
    BY DEF ServerInv
  <2> QED
    BY DEF Types, ClientTypes, KernelTypes, ObjectTypes, LoopTypes, PoolTypes, Counting, Event,
           TypeOK
<1> QED
  BY <1>1, ServerInvHolds, PTL

(* ------------------------- a reply for each request ---------------------------- *)

\* A request in one piece or in two, or one that is followed by bytes of none, as
\* stress_test.cpp sends, and then not by one in two pieces.
AnswerableScripts ==
  \A f \in Clients, c \in Conns :
    \A i \in 1 .. Len(f[c].script) :
      /\ f[c].script[i] \in {<<"whole">>, <<"head", "tail">>, <<"whole", "junk">>}
      /\ i < Len(f[c].script) /\ f[c].script[i] = <<"whole", "junk">> =>
           f[c].script[i + 1] # <<"head", "tail">>

\* As long as input may still be read or parsed, no reply has been made.
TakesInput(fd) ==
  \/ interest[fd] = "in" /\ mfd # fd
  \/ \E e \in batch : e.fd = fd /\ e.ev = "in"
  \/ \E k \in 1 .. Len(queue) : queue[k] = fd
  \/ \E w \in Workers : running[w] = fd /\ pc[w] \in {"loop", "armin"}
  \/ mfd = fd /\ pc[Main] = "append"
NoReplyYet == \A fd \in Fds : conn[fd] # NoConn /\ TakesInput(fd) => reply[fd] = NoConn

\* Pieces that complete a request, or what is left of one
IsEnd(p) == p \in {"whole", "tail"}
\* A stream of which nothing is answered: each head has its tail, bytes of no request
\* are followed by a whole one, and each end belongs to a request of its own of those
\* from low + 1 to high.
Fits(s, low, high, junk) ==
  /\ \A i \in 1 .. Len(s) : s[i] = "head" => i < Len(s) /\ s[i + 1] = "tail"
  /\ \A i \in 1 .. Len(s) : s[i] = "junk" => IF i < Len(s) THEN s[i + 1] = "whole" ELSE junk
  /\ low <= high
  /\ \E g \in [1 .. Len(s) -> 0 .. high] :
       /\ \A i \in 1 .. Len(s) : IsEnd(s[i]) => low < g[i]
       /\ \A i, j \in 1 .. Len(s) : i < j /\ IsEnd(s[i]) /\ IsEnd(s[j]) => g[i] < g[j]

\* What of a client's pieces the server has not answered, with what it has in hand
Unanswered(c, hand) == hand \o (wire[c] \o flight[c])
Hand(fd) == IF reply[fd] = NoConn THEN Kinds(fd) ELSE <<>>
Due(fd) == IF reply[fd] # NoConn /\ mfd # fd THEN 1 ELSE 0
LastJunk(c) == asked[c] # 0 /\ client[c].script[asked[c]] = <<"whole", "junk">>

LEMMA FitsNothing ==
  ASSUME NEW low \in Nat, NEW high \in Nat, NEW junk, low <= high PROVE Fits(<<>>, low, high, junk)
<1> DEFINE g == [i \in 1 .. Len(<<>>) |-> 0]
<1>1. g \in [1 .. Len(<<>>) -> 0 .. high]
  OBVIOUS
<1>2. Len(<<>>) = 0 /\ \A i \in 1 .. Len(<<>>) : FALSE
  OBVIOUS
<1> QED
  BY <1>1, <1>2 DEF Fits

\* Fewer answers, the same stream
LEMMA FitsEarlier ==
  ASSUME NEW s \in Seq(Pieces), NEW low \in Nat, NEW less \in Nat, NEW high \in Nat, NEW junk,
         less <= low, Fits(s, low, high, junk)
  PROVE  Fits(s, less, high, junk)
<1>1. PICK g \in [1 .. Len(s) -> 0 .. high] :
        /\ \A i \in 1 .. Len(s) : IsEnd(s[i]) => low < g[i]
        /\ \A i, j \in 1 .. Len(s) : i < j /\ IsEnd(s[i]) /\ IsEnd(s[j]) => g[i] < g[j]
  BY DEF Fits
<1>2. \A i \in 1 .. Len(s) : IsEnd(s[i]) => less < g[i]
  BY <1>1
<1> QED
  BY <1>1, <1>2 DEF Fits

\* The client sends its next request.
LEMMA FitsMore ==
  ASSUME NEW s \in Seq(Pieces), NEW low \in Nat, NEW high \in Nat, NEW junk \in BOOLEAN,
         Fits(s, low, high, junk),
         NEW r \in {<<"whole">>, <<"head", "tail">>, <<"whole", "junk">>},
         junk => r # <<"head", "tail">>, NEW more \in BOOLEAN, more <=> r = <<"whole", "junk">>
  PROVE  Fits(s \o r, low, high + 1, more)
<1> DEFINE u == s \o r
<1>1. PICK n \in Nat : n = Len(s)
  OBVIOUS
<1>2. PICK g \in [1 .. n -> 0 .. high] :
        /\ \A i \in 1 .. n : IsEnd(s[i]) => low < g[i]
        /\ \A i, j \in 1 .. n : i < j /\ IsEnd(s[i]) /\ IsEnd(s[j]) => g[i] < g[j]
  BY <1>1 DEF Fits
<1>3. /\ \A i \in 1 .. n : s[i] = "head" => i < n /\ s[i + 1] = "tail"
      /\ \A i \in 1 .. n : s[i] = "junk" => IF i < n THEN s[i + 1] = "whole" ELSE junk
      /\ low <= high
  BY <1>1 DEF Fits
<1>4. \/ r = <<"whole">> /\ Len(r) = 1 /\ r[1] = "whole"
      \/ r = <<"head", "tail">> /\ Len(r) = 2 /\ r[1] = "head" /\ r[2] = "tail" /\ ~ junk
      \/ r = <<"whole", "junk">> /\ Len(r) = 2 /\ r[1] = "whole" /\ r[2] = "junk"
  OBVIOUS
<1>5. more <=> (Len(r) = 2 /\ r[2] = "junk")
  BY <1>4
<1>6. r \in Seq(Pieces)
  <2>1. \A x, y \in Pieces : <<x>> \in Seq(Pieces) /\ <<x, y>> \in Seq(Pieces)
    OBVIOUS
  <2>2. {"whole", "head", "tail", "junk"} \subseteq Pieces
    BY DEF Pieces
  <2> QED
    BY ZenonT(30), <2>1, <2>2
<1>7. PICK m \in 1 .. 2 : m = Len(r)
  BY <1>4
<1>8. Len(u) = n + m /\ \A i \in 1 .. n + m : u[i] = IF i <= n THEN s[i] ELSE r[i - n]
  BY <1>1, <1>6, <1>7, ConcatProperties
<1> HIDE DEF u
<1>9. /\ \A i \in 1 .. n : u[i] = s[i] /\ i \in 1 .. n + m
      /\ u[n + 1] = r[1] /\ (m = 2 => u[n + 2] = r[2])
  <2>1. \A i \in 1 .. n : u[i] = s[i] /\ i \in 1 .. n + m
    BY <1>8
  <2>2. n + 1 \in 1 .. n + m /\ ~ (n + 1 <= n) /\ n + 1 - n = 1
    OBVIOUS
  <2>3. m = 2 => n + 2 \in 1 .. n + m /\ ~ (n + 2 <= n) /\ n + 2 - n = 2
    OBVIOUS
  <2> QED
    BY <1>8, <2>1, <2>2, <2>3
<1>10. ASSUME NEW i \in 1 .. n + m PROVE i \in 1 .. n \/ i = n + 1 \/ (i = n + 2 /\ m = 2)
  OBVIOUS
<1>11. ASSUME NEW i \in 1 .. n + m, u[i] = "head" PROVE i < n + m /\ u[i + 1] = "tail"
  <2>1. CASE i \in 1 .. n
    <3>1. i < n /\ s[i + 1] = "tail" /\ i + 1 \in 1 .. n
      <4>1. s[i] = "head" /\ i \in 1 .. n
        BY <1>9, <1>11, <2>1
      <4>2. i < n /\ s[i + 1] = "tail"
        BY <1>3, <2>1, <4>1
      <4> QED
        BY <2>1, <4>1, <4>2
    <3> QED
      BY <1>9, <3>1
  <2>2. CASE i = n + 1
    <3>1. m = 2 /\ r[2] = "tail"
      BY <1>4, <1>7, <1>9, <1>11, <2>2
    <3> QED
      BY <1>9, <2>2, <3>1
  <2>3. CASE i = n + 2 /\ m = 2
    BY <1>4, <1>7, <1>9, <1>11, <2>3
  <2> QED
    BY <1>10, <2>1, <2>2, <2>3
<1>12. ASSUME NEW i \in 1 .. n + m, u[i] = "junk"
       PROVE  IF i < n + m THEN u[i + 1] = "whole" ELSE more
  <2>1. CASE i \in 1 .. n /\ i < n
    <3>1. s[i + 1] = "whole" /\ i + 1 \in 1 .. n
      <4>1. s[i] = "junk" /\ i \in 1 .. n
        BY <1>9, <1>12, <2>1
      <4>2. s[i + 1] = "whole"
        BY <1>3, <2>1, <4>1
      <4> QED
        BY <2>1, <4>1, <4>2
    <3> QED
      BY <1>9, <2>1, <3>1
  <2>2. CASE i \in 1 .. n /\ i = n
    <3>1. junk
      BY <1>3, <1>9, <1>12, <2>2
    <3>2. r[1] = "whole"
      BY <1>4, <3>1
    <3> QED
      BY <1>9, <2>2, <3>2
  <2>3. CASE i = n + 1
    BY <1>4, <1>9, <1>12, <2>3
  <2>4. CASE i = n + 2 /\ m = 2
    BY <1>5, <1>7, <1>9, <1>12, <2>4
  <2> QED
    BY <1>10, <2>1, <2>2, <2>3, <2>4
<1> DEFINE h == [i \in 1 .. n + m |-> IF i \in 1 .. n THEN g[i] ELSE high + 1]
<1>13. h \in [1 .. n + m -> 0 .. high + 1]
  BY <1>2
<1>14. ASSUME NEW i \in 1 .. n + m, IsEnd(u[i]) PROVE low < h[i]
  BY <1>2, <1>3, <1>9, <1>14
<1>15. ASSUME NEW i \in 1 .. n + m, NEW j \in 1 .. n + m, i < j, IsEnd(u[i]), IsEnd(u[j])
       PROVE  h[i] < h[j]
  <2>1. CASE j \in 1 .. n
    <3>1. i \in 1 .. n
      BY <1>15, <2>1
    <3> QED
      BY <1>2, <1>9, <1>15, <2>1, <3>1
  <2>2. CASE i \in 1 .. n /\ j \notin 1 .. n
    <3>1. h[i] = g[i] /\ g[i] \in 0 .. high /\ h[j] = high + 1
      BY <1>2, <2>2
    <3> QED
      BY <3>1
  <2>3. CASE i = n + 1 /\ j = n + 2 /\ m = 2
    BY <1>4, <1>7, <1>9, <1>15, <2>3 DEF IsEnd
  <2>4. i \in 1 .. n \/ (i = n + 1 /\ j = n + 2 /\ m = 2)
    BY <1>10, <1>15
  <2> QED
    BY <2>1, <2>2, <2>3, <2>4
<1> HIDE DEF h
<1>16. low <= high + 1
  BY <1>3
<1>17. Fits(u, low, high + 1, more)
  BY <1>8, <1>11, <1>12, <1>13, <1>14, <1>15, <1>16 DEF Fits
<1> QED
  BY <1>17 DEF u

\* The server throws away the beginning of the stream, and has made a reply if an end
\* of a request was in it.
LEMMA FitsRest ==
  ASSUME NEW a \in Seq(Pieces), NEW b \in Seq(Pieces), NEW low \in Nat, NEW high \in Nat, NEW junk,
         Fits(a \o b, low, high, junk)
  PROVE  /\ Fits(b, low, high, junk)
         /\ (\E k \in 1 .. Len(a) : IsEnd(a[k])) => Fits(b, low + 1, high, junk)
<1> DEFINE u == a \o b
<1>1. PICK n \in Nat : n = Len(a) /\ Len(b) \in Nat
  OBVIOUS
<1>2. /\ Len(u) = n + Len(b) /\ \A k \in 1 .. n : k \in 1 .. Len(u) /\ u[k] = a[k]
      /\ \A i \in 1 .. Len(b) : i + n \in 1 .. Len(u) /\ u[i + n] = b[i]
  <2>1. /\ Len(u) = n + Len(b)
        /\ \A i \in 1 .. n + Len(b) : u[i] = IF i <= n THEN a[i] ELSE b[i - n]
    BY <1>1, ConcatProperties
  <2> HIDE DEF u
  <2>2. ASSUME NEW i \in 1 .. Len(b) PROVE i + n \in 1 .. n + Len(b) /\ ~ (i + n <= n) /\ i + n - n = i
    BY <1>1
  <2>3. \A k \in 1 .. n : k \in 1 .. n + Len(b) /\ k <= n
    BY <1>1
  <2> QED
    BY <2>1, <2>2, <2>3
<1>3. PICK g \in [1 .. Len(u) -> 0 .. high] :
        /\ \A i \in 1 .. Len(u) : IsEnd(u[i]) => low < g[i]
        /\ \A i, j \in 1 .. Len(u) : i < j /\ IsEnd(u[i]) /\ IsEnd(u[j]) => g[i] < g[j]
  BY DEF Fits
<1>4. /\ \A i \in 1 .. Len(u) : u[i] = "head" => i < Len(u) /\ u[i + 1] = "tail"
      /\ \A i \in 1 .. Len(u) : u[i] = "junk" => IF i < Len(u) THEN u[i + 1] = "whole" ELSE junk
      /\ low <= high
  BY DEF Fits
<1> HIDE DEF u
<1>5. ASSUME NEW i \in 1 .. Len(b)
      PROVE  /\ i + n < Len(u) <=> i < Len(b)
             /\ i < Len(b) => i + 1 \in 1 .. Len(b) /\ i + n + 1 = i + 1 + n
  <2>1. PICK m \in Nat : m = Len(b)
    BY <1>1
  <2> QED
    BY <1>2, <2>1
<1>6. /\ \A i \in 1 .. Len(b) : b[i] = "head" => i < Len(b) /\ b[i + 1] = "tail"
      /\ \A i \in 1 .. Len(b) : b[i] = "junk" => IF i < Len(b) THEN b[i + 1] = "whole" ELSE junk
  <2>1. ASSUME NEW i \in 1 .. Len(b), b[i] = "head" PROVE i < Len(b) /\ b[i + 1] = "tail"
    BY <1>2, <1>4, <1>5, <2>1
  <2>2. ASSUME NEW i \in 1 .. Len(b), b[i] = "junk"
        PROVE  IF i < Len(b) THEN b[i + 1] = "whole" ELSE junk
    <3>1. i + n \in 1 .. Len(u) /\ u[i + n] = "junk"
      BY <1>2, <2>2
    <3>2. CASE i < Len(b)
      <4>1. u[i + n + 1] = "whole" /\ i + n + 1 = i + 1 + n /\ i + 1 \in 1 .. Len(b)
        BY <1>4, <1>5, <3>1, <3>2
      <4> QED
        BY <1>2, <3>2, <4>1
    <3>3. CASE ~ (i < Len(b))
      BY <1>4, <1>5, <3>1, <3>3
    <3> QED
      BY <3>2, <3>3
  <2> QED
    BY <2>1, <2>2
<1> DEFINE h == [i \in 1 .. Len(b) |-> g[i + n]]
<1>7. /\ h \in [1 .. Len(b) -> 0 .. high]
      /\ \A i \in 1 .. Len(b) : IsEnd(b[i]) => low < h[i]
      /\ \A i, j \in 1 .. Len(b) : i < j /\ IsEnd(b[i]) /\ IsEnd(b[j]) => h[i] < h[j]
  <2>1. h \in [1 .. Len(b) -> 0 .. high] /\ \A i \in 1 .. Len(b) : IsEnd(b[i]) => low < h[i]
    BY <1>2, <1>3
  <2>2. ASSUME NEW i \in 1 .. Len(b), NEW j \in 1 .. Len(b), i < j, IsEnd(b[i]), IsEnd(b[j])
        PROVE  h[i] < h[j]
    <3>1. i + n < j + n
      BY <1>1, <2>2
    <3> QED
      BY <1>2, <1>3, <2>2, <3>1
  <2> QED
    BY <2>1, <2>2
<1>8. ASSUME NEW k \in 1 .. n, IsEnd(a[k])
      PROVE  low + 1 <= high /\ \A i \in 1 .. Len(b) : IsEnd(b[i]) => low + 1 < h[i]
  <2>1. low < g[k] /\ g[k] \in 0 .. high
    BY <1>2, <1>3, <1>8
  <2>2. ASSUME NEW i \in 1 .. Len(b), IsEnd(b[i]) PROVE low + 1 < h[i]
    <3>1. k < i + n
      BY <1>1
    <3>2. g[k] < g[i + n] /\ g[i + n] \in 0 .. high
      BY <1>2, <1>3, <1>8, <2>2, <3>1
    <3> QED
      BY <2>1, <3>2
  <2> QED
    BY <2>1, <2>2
<1> HIDE DEF h
<1>9. Fits(b, low, high, junk)
  BY <1>4, <1>6, <1>7 DEF Fits
<1>10. ASSUME NEW k \in 1 .. n, IsEnd(a[k]) PROVE Fits(b, low + 1, high, junk)
  BY <1>6, <1>7, <1>8, <1>10 DEF Fits
<1> QED
  BY <1>1, <1>9, <1>10

\* process() replies only to what has the end of a request in it.
LEMMA FitsAnswer ==
  ASSUME NEW a \in Seq(Pieces), NEW b \in Seq(Pieces), NEW low \in Nat, NEW high \in Nat, NEW junk,
         Fits(a \o b, low, high, junk), Complete(a) \/ Malformed(a)
  PROVE  Fits(b, low + 1, high, junk)
<1>1. Len(a) \in Nat \ {0} /\ 1 \in 1 .. Len(a)
  BY DEF Complete, Malformed
<1>2. \E k \in 1 .. Len(a) : IsEnd(a[k])
  <2>1. CASE a[1] = "whole" \/ a[1] = "tail"
    BY <1>1, <2>1 DEF IsEnd
  <2>2. CASE Len(a) > 1 /\ a[2] = "tail"
    BY <1>1, <2>2 DEF IsEnd
  <2>3. CASE a[1] = "junk" /\ Len(a) > 1
    <3> DEFINE u == a \o b
    <3>1. Len(u) = Len(a) + Len(b) /\ Len(b) \in Nat /\ u[1] = a[1] /\ u[2] = a[2]
      <4>1. \A i \in 1 .. Len(a) + Len(b) : u[i] = IF i <= Len(a) THEN a[i] ELSE b[i - Len(a)]
        BY ConcatProperties
      <4>2. Len(b) \in Nat /\ Len(u) = Len(a) + Len(b)
        BY ConcatProperties
      <4> HIDE DEF u
      <4>3. 1 \in 1 .. Len(a) + Len(b) /\ 2 \in 1 .. Len(a) + Len(b) /\ 1 <= Len(a) /\ 2 <= Len(a)
        BY <1>1, <2>3, <4>2
      <4> QED
        BY <4>1, <4>2, <4>3
    <3>2. 1 \in 1 .. Len(u) /\ 1 < Len(u) /\ u[1] = "junk"
      BY <1>1, <2>3, <3>1
    <3>3. u[1 + 1] = "whole"
      BY <3>2 DEF Fits
    <3> QED
      BY <1>1, <2>3, <3>1, <3>3 DEF IsEnd
  <2> QED
    BY <2>1, <2>2, <2>3 DEF Complete, Malformed
<1> QED
  BY <1>2, FitsRest

\* What Deliver and Read move stays in the stream.
LEMMA StreamDelivered ==
  ASSUME NEW a \in Seq(Pieces), NEW b \in Seq(Pieces), NEW f \in Seq(Pieces), f # <<>>
  PROVE  a \o (Append(b, Head(f)) \o Tail(f)) = a \o (b \o f)
<1>1. Head(f) \in Pieces /\ Tail(f) \in Seq(Pieces) /\ <<Head(f)>> \in Seq(Pieces)
  BY HeadTailProperties
<1>2. Append(b, Head(f)) = b \o <<Head(f)>>
  BY <1>1, AppendIsConcat
<1>3. <<Head(f)>> \o Tail(f) = f
  BY <1>1, HeadTailProperties
<1>4. (b \o <<Head(f)>>) \o Tail(f) = b \o (<<Head(f)>> \o Tail(f))
  BY SMTT(30), <1>1, ConcatAssociative
<1> QED
  BY <1>2, <1>3, <1>4

LEMMA StreamRead ==
  ASSUME NEW a \in Seq(Pieces), NEW b \in Seq(Pieces), NEW f \in Seq(Pieces)
  PROVE  (a \o b) \o (<<>> \o f) = a \o (b \o f)
<1>1. <<>> \o f = f
  BY ConcatEmptySeq
<1>2. (a \o b) \o f = a \o (b \o f)
  BY ConcatAssociative
<1> QED
  BY <1>1, <1>2

LEMMA StreamSent ==
  ASSUME NEW a \in Seq(Pieces), NEW b \in Seq(Pieces), NEW f \in Seq(Pieces), NEW r \in Seq(Pieces)
  PROVE  a \o (b \o (f \o r)) = (a \o (b \o f)) \o r
<1>1. b \o f \in Seq(Pieces)
  BY ConcatProperties
<1>2. b \o (f \o r) = (b \o f) \o r
  BY SMTT(30), ConcatAssociative
<1>3. a \o ((b \o f) \o r) = (a \o (b \o f)) \o r
  BY SMTT(30), <1>1, ConcatAssociative
<1> QED
  BY <1>2, <1>3

\* What a step must not do at a descriptor: let input in where a reply is made
LEMMA NoReplyKept ==
  ASSUME NoReplyYet, NEW fd \in Fds,
         \/ reply'[fd] = NoConn \/ conn'[fd] = NoConn \/ ~ TakesInput(fd)'
         \/ reply'[fd] = reply[fd] /\ conn'[fd] = conn[fd] /\ TakesInput(fd)
  PROVE  conn'[fd] # NoConn /\ TakesInput(fd)' => reply'[fd] = NoConn
BY DEF NoReplyYet

LEMMA NoReplyMain ==
  ASSUME Types, Handed, NoReplyYet, MainStep, NEW fd \in Fds
  PROVE  \/ reply'[fd] = NoConn \/ conn'[fd] = NoConn \/ ~ TakesInput(fd)'
         \/ reply'[fd] = reply[fd] /\ conn'[fd] = conn[fd] /\ TakesInput(fd)
<1> USE DEF TakesInput
<1>1. CASE EpollWait
  <2>1. /\ pc[Main] = "loop" /\ batch' = ConnEvents \cup ListenEvents /\ interest' = Disarmed
        /\ UNCHANGED <<conn, reply, queue, running, mfd, pc>>
    BY <1>1 DEF EpollWait, objectVars, poolVars
  <2>2. mfd # fd
    BY <2>1 DEF Types, Places, ClosePlaces
  <2>3. interest'[fd] = "in" => interest[fd] = "in"
    BY <2>1 DEF Disarmed
  <2>4. \A e \in batch' : e.fd = fd /\ e.ev = "in" => interest[fd] = "in"
    <3>1. \A e \in ListenEvents : e.ev = "listen"
      BY DEF ListenEvents
    <3>2. \A e \in ConnEvents : e.ev = "in" => interest[e.fd] = "in"
      BY DEF ConnEvents
    <3> QED
      BY <2>1, <3>1, <3>2
  <2> QED
    BY <2>1, <2>2, <2>3, <2>4
<1>2. CASE ListenStep
  <2>1. CASE InitConn
    <3>1. /\ \E e \in batch : batch' = batch \ {e}
          /\ FreeFds # {} /\ conn' = [conn EXCEPT ![NewFd] = Head(backlog)]
          /\ interest' = [interest EXCEPT ![NewFd] = "in"]
          /\ reply' = [reply EXCEPT ![NewFd] = NoConn]
          /\ pc[Main] = "loop" /\ pc' = [pc EXCEPT ![Main] = "incload"] /\ UNCHANGED <<mfd, queue, running>>
      BY <2>1 DEF InitConn, Dispatch, Reset, Goto, poolVars
    <3>2. CASE fd = NewFd
      BY <3>1, <3>2 DEF Types, ObjectTypes
    <3>3. CASE fd # NewFd
      <4>1. /\ conn'[fd] = conn[fd] /\ interest'[fd] = interest[fd] /\ reply'[fd] = reply[fd]
            /\ \A w \in Workers : pc'[w] = pc[w]
        BY <3>1, <3>3, Constants DEF Types, KernelTypes, ObjectTypes, LoopTypes
      <4>2. pc'[Main] # "append"
        BY <3>1, Constants DEF Types, LoopTypes
      <4> QED
        BY <3>1, <4>1, <4>2
    <3> QED
      BY <3>2, <3>3
  <2>2. CASE AcceptFails \/ ShowError \/ IncLoad \/ IncStore
    <3>1. /\ batch' \subseteq batch /\ UNCHANGED <<conn, interest, reply, mfd, queue, running>>
          /\ (UNCHANGED pc \/ \E l \in {"incstore", "loop"} : pc' = [pc EXCEPT ![Main] = l])
      BY <2>2 DEF AcceptFails, ShowError, IncLoad, IncStore, Dispatch, Goto, kernelVars,
                  objectVars, poolVars
    <3>2. (\A w \in Workers : pc'[w] = pc[w]) /\ (pc'[Main] = "append" => pc[Main] = "append")
      BY <3>1, Constants DEF Types, LoopTypes
    <3> QED
      BY <3>1, <3>2
  <2> QED
    BY <1>2, <2>1, <2>2 DEF ListenStep
<1>3. ASSUME NEW e \in batch, EventStep(e)
      PROVE  \/ reply'[fd] = NoConn \/ conn'[fd] = NoConn \/ ~ TakesInput(fd)'
             \/ reply'[fd] = reply[fd] /\ conn'[fd] = conn[fd] /\ TakesInput(fd)
  <2>1. Dispatch(e) /\ e.ev # "listen"
    BY <1>3 DEF EventStep, HupEvent, Read, WriteNothing, WriteKeepAlive, WriteAndClose,
                WriteStalls, WriteFails, Writing
  <2>2. batch' = batch \ {e} /\ pc[Main] = "loop" /\ mfd = NoFd /\ e.fd \in Fds
    BY <2>1, Dispatched
  <2>3. /\ Claimed(e.fd) /\ Reported(e.fd) /\ ~ Armed(e.fd) /\ ~ Pooled(e.fd)
        /\ sockfd[e.fd] = e.fd /\ interest[e.fd] # "none"
    BY <2>2 DEF Handed, Reported, Claimed, Registered
  <2>4. UNCHANGED <<conn, queue, running>>
    BY <1>3 DEF EventStep, HupEvent, Read, WriteNothing, WriteKeepAlive, WriteAndClose,
                WriteStalls, WriteFails, kernelVars, poolVars
  <2>5. /\ interest' = interest \/ \E ev \in {"in", "out"} : ModFd(e.fd, ev)
        /\ UNCHANGED reply \/ reply' = [reply EXCEPT ![e.fd] = NoConn]
        /\ \/ mfd' = e.fd /\ pc' = [pc EXCEPT ![Main] = "close"] /\ UNCHANGED reply
           \/ /\ mfd' = e.fd /\ pc' = [pc EXCEPT ![Main] = "append"] /\ e.ev = "in"
              /\ UNCHANGED <<interest, reply>>
           \/ UNCHANGED <<mfd, pc>> /\ reply' = [reply EXCEPT ![e.fd] = NoConn]
           \/ UNCHANGED <<mfd, pc, reply>> /\ ModFd(e.fd, "out")
    BY <1>3, <2>3 DEF EventStep, HupEvent, Read, WriteNothing, WriteKeepAlive, WriteAndClose,
                      WriteStalls, WriteFails, Reset, kernelVars, objectVars, Goto
  <2>6. \A w \in Workers : pc'[w] = pc[w]
    BY <2>5, Constants DEF Types, LoopTypes
  <2>7. CASE fd # e.fd
    <3>1. interest'[fd] = interest[fd] /\ reply'[fd] = reply[fd]
      BY <2>5, <2>7, ModTypes DEF Types, ObjectTypes
    <3>2. (mfd # fd /\ mfd' # fd)
      BY <2>2, <2>5, <2>7, Constants
    <3> QED
      BY <2>2, <2>4, <2>6, <3>1, <3>2
  <2>8. CASE fd = e.fd
    <3>1. \A f \in batch' : f.fd # fd
      BY <2>2, <2>3, <2>8 DEF Claimed
    <3>2. \A k \in 1 .. Len(queue) : queue[k] # fd
      BY <2>3, <2>8 DEF Pooled
    <3>3. \A w \in Workers : running[w] # fd
      BY <2>3, <2>8 DEF Pooled
    <3>4. CASE mfd' = e.fd /\ pc' = [pc EXCEPT ![Main] = "close"]
      <4>1. pc'[Main] # "append"
        BY <3>4, Constants DEF Types, LoopTypes
      <4> QED
        BY <2>4, <2>8, <3>1, <3>2, <3>3, <3>4, <4>1
    <3>5. CASE e.ev = "in" /\ UNCHANGED reply
      BY <2>4, <2>8, <3>5
    <3>6. CASE reply' = [reply EXCEPT ![e.fd] = NoConn]
      BY <2>2, <2>8, <3>6 DEF Types, ObjectTypes
    <3>7. CASE UNCHANGED <<mfd, pc, reply>> /\ ModFd(e.fd, "out")
      <4>1. interest'[fd] = "out"
        BY <2>2, <2>3, <2>8, <3>7, ModTypes
      <4> QED
        BY <2>2, <2>4, <2>8, <3>1, <3>2, <3>3, <3>7, <4>1
    <3> QED
      BY <2>5, <3>4, <3>5, <3>6, <3>7
  <2> QED
    BY <2>7, <2>8
<1>4. CASE AppendAccepted \/ AppendRefused
  <2>1. /\ pc[Main] = "append" /\ pc' = [pc EXCEPT ![Main] = "loop"]
        /\ queue' \in {queue, Append(queue, mfd)}
        /\ UNCHANGED <<conn, interest, reply, batch, running>>
    BY <1>4 DEF AppendAccepted, AppendRefused, Pool!Submit, Goto, kernelVars, objectVars, poolVars
  <2>2. pc'[Main] # "append" /\ \A w \in Workers : pc'[w] = pc[w]
    BY <2>1, Constants DEF Types, LoopTypes
  <2>3. CASE mfd = fd
    BY <2>1, <2>3
  <2>4. CASE mfd # fd
    <3>1. queue \in Seq(Fds) /\ mfd \in Fds
      BY <2>1 DEF Types, PoolTypes, Places
    <3>2. \A k \in 1 .. Len(queue') : queue'[k] = fd => k \in 1 .. Len(queue) /\ queue[k] = fd
      BY <2>1, <2>4, <3>1, AppendProperties
    <3> QED
      BY <2>1, <2>2, <2>4, <3>2
  <2> QED
    BY <2>3, <2>4
<1>5. CASE CloseStep(Main)
  <2>1. PICK f \in Fds : f = mfd /\ FdOf(Main) = f
    <3>1. pc[Main] \in ClosePlaces
      BY <1>5 DEF CloseStep, CloseNothing, RemoveFd, Forget, DecLoad, DecStore, ClosePlaces
    <3> QED
      BY <3>1 DEF Types, Places, FdOf
  <2>2. ~ CloseNothing(Main)
    BY <2>1, Constants DEF CloseNothing, Handed, MainPlace, Registered
  <2>3. /\ UNCHANGED <<batch, reply, queue, running>>
        /\ \E l \in {"forget", "decload", "decstore", "loop"} : pc' = [pc EXCEPT ![Main] = l]
    BY <1>5, <2>2 DEF CloseStep, RemoveFd, Forget, DecLoad, DecStore, AfterClose, Goto, objectVars,
                      poolVars
  <2>4. pc'[Main] # "append" /\ \A w \in Workers : pc'[w] = pc[w]
    BY <2>3, Constants DEF Types, LoopTypes
  <2>5. CASE RemoveFd(Main)
    <3>1. /\ conn' = [conn EXCEPT ![f] = NoConn] /\ interest' = [interest EXCEPT ![f] = "none"]
          /\ UNCHANGED mfd
      BY <2>1, <2>5 DEF RemoveFd
    <3> QED
      BY <2>3, <2>4, <3>1 DEF Types, KernelTypes
  <2>6. CASE Forget(Main) \/ DecLoad(Main)
    <3>1. UNCHANGED <<conn, interest, mfd>>
      BY <2>6 DEF Forget, DecLoad, kernelVars
    <3> QED
      BY <2>3, <2>4, <3>1
  <2>7. CASE DecStore(Main)
    <3>1. UNCHANGED <<conn, interest>> /\ conn[f] = NoConn
      BY <2>1, <2>7 DEF DecStore, kernelVars, Handed, MainPlace
    <3> QED
      BY <2>1, <2>3, <2>4, <3>1
  <2> QED
    BY <1>5, <2>2, <2>5, <2>6, <2>7 DEF CloseStep
<1> QED
  BY <1>1, <1>2, <1>3, <1>4, <1>5 DEF MainStep

\* A worker's claim is the only one: nobody else brings input to its connection.
LEMMA NoReplyWorker ==
  ASSUME Types, Handed, OnlyMainCloses, NoReplyYet, NEW w \in Workers, Take(w) \/ WorkerStep(w),
         NEW fd \in Fds
  PROVE  \/ reply'[fd] = NoConn \/ conn'[fd] = NoConn \/ ~ TakesInput(fd)'
         \/ reply'[fd] = reply[fd] /\ conn'[fd] = conn[fd] /\ TakesInput(fd)
<1> USE DEF TakesInput
<1>1. ~ CloseStep(w) /\ UNCHANGED <<conn, batch, mfd>> /\ pc'[Main] = pc[Main]
      /\ \A v \in Workers \ {w} : pc'[v] = pc[v]
  <2>1. pc[w] \in WorkerPlaces
    BY DEF Handed, MainPlace
  <2>2. ~ CloseStep(w)
    BY <2>1 DEF CloseStep, CloseNothing, RemoveFd, Forget, DecLoad, DecStore, WorkerPlaces
  <2>3. UNCHANGED <<conn, batch, mfd>> /\ (UNCHANGED pc \/ \E l : pc' = [pc EXCEPT ![w] = l])
    BY <2>2 DEF Take, WorkerStep, ProcessUnfinished, ProcessMalformed, ProcessComplete, ArmIn,
                ArmOut, Rearm, Goto, kernelVars
  <2> QED
    BY <2>2, <2>3, Constants DEF Types, LoopTypes
<1>2. CASE Take(w)
  <2>1. /\ queue # <<>> /\ queue' = Tail(queue) /\ pc[w] = "loop"
        /\ running' = [running EXCEPT ![w] = Head(queue)] /\ UNCHANGED <<interest, reply, pc>>
    BY <1>2 DEF Take, Pool!Take, kernelVars, objectVars
  <2>2. queue \in Seq(Fds) /\ running \in [Workers -> Fds \cup {NoFd}]
    BY DEF Types, PoolTypes
  <2>3. Len(queue) \in Nat \ {0} /\ Head(queue) = queue[1] /\ Len(queue') = Len(queue) - 1
        /\ \A k \in 1 .. Len(queue) - 1 : queue'[k] = queue[k + 1]
    BY <2>1, <2>2, HeadTailProperties
  <2>4. \A k \in 1 .. Len(queue') : k + 1 \in 1 .. Len(queue) /\ queue'[k] = queue[k + 1]
    BY <2>3
  <2>5. running'[w] = queue[1] /\ 1 \in 1 .. Len(queue)
        /\ \A v \in Workers \ {w} : running'[v] = running[v]
    BY <2>1, <2>2, <2>3
  <2> QED
    BY <1>1, <2>1, <2>4, <2>5
<1>3. CASE ProcessUnfinished(w)
  <2>1. /\ pc[w] = "loop" /\ pc' = [pc EXCEPT ![w] = "armin"]
        /\ UNCHANGED <<interest, reply, queue, running>>
    BY <1>3 DEF ProcessUnfinished, Parsing, Goto, kernelVars, objectVars, poolVars
  <2> QED
    BY <1>1, <2>1
<1>4. CASE ProcessMalformed(w) \/ ProcessComplete(w)
  <2>1. /\ running[w] \in Fds /\ pc'[w] = "armout" /\ UNCHANGED <<interest, queue, running>>
        /\ reply' = [reply EXCEPT ![running[w]] = Sender(running[w])]
    BY <1>4, ServerAssumption DEF ServerAssumption, OnlyMainCloses, ProcessMalformed,
       ProcessComplete, Parsing, Goto, kernelVars, poolVars, Types, PoolTypes, LoopTypes, Threads
  <2>2. CASE fd = running[w]
    <3>1. Claimed(fd) /\ Pooled(fd)
      BY <2>2 DEF Handed, Pooled
    <3> QED
      BY <1>1, <2>1, <2>2, <3>1 DEF Claimed, Armed, Reported
  <2>3. CASE fd # running[w]
    BY <1>1, <2>1, <2>3 DEF Types, ObjectTypes
  <2> QED
    BY <2>2, <2>3
<1>5. CASE ArmIn(w) \/ ArmOut(w)
  <2>1. /\ pc'[w] = "loop" /\ UNCHANGED <<sockfd, queue, reply>> /\ running[w] # NoFd
        /\ running' = [running EXCEPT ![w] = NoFd]
        /\ \/ pc[w] = "armin" /\ ModFd(sockfd[running[w]], "in")
           \/ pc[w] = "armout" /\ ModFd(sockfd[running[w]], "out")
    BY <1>5, Constants DEF ArmIn, ArmOut, Rearm, Goto, Pool!Finish, objectVars, Types, LoopTypes
  <2>2. PICK f \in Fds : f = running[w]
    BY <2>1 DEF Types, PoolTypes
  <2>3. Claimed(f) /\ Pooled(f) /\ sockfd[f] = f /\ interest[f] # "none"
    BY <2>2 DEF Handed, Claimed, Pooled, Registered
  <2>4. running'[w] = NoFd /\ \A v \in Workers \ {w} : running'[v] = running[v]
    BY <2>1 DEF Types, PoolTypes
  <2>5. CASE fd = f
    <3>1. CASE pc[w] = "armin"
      BY <1>1, <2>1, <2>2, <2>5, <3>1
    <3>2. CASE pc[w] = "armout" /\ ModFd(f, "out")
      <4>1. interest'[f] = "out"
        BY <2>3, <3>2, ModTypes
      <4> QED
        BY <1>1, <2>1, <2>2, <2>3, <2>4, <2>5, <4>1, Constants DEF Claimed, Reported
    <3> QED
      BY <2>1, <2>2, <2>3, <3>1, <3>2
  <2>6. CASE fd # f
    <3>1. interest'[fd] = interest[fd]
      BY <2>1, <2>2, <2>3, <2>6, ModTypes
    <3> QED
      BY <1>1, <2>1, <2>2, <2>4, <2>6, <3>1, Constants
  <2> QED
    BY <2>5, <2>6
<1> QED
  BY <1>1, <1>2, <1>3, <1>4, <1>5 DEF WorkerStep

LEMMA NoReplyNext ==
  Types /\ Handed /\ OnlyMainCloses /\ NoReplyYet /\ [Next]_vars => NoReplyYet'
<1> SUFFICES ASSUME Types, Handed, OnlyMainCloses, NoReplyYet, [Next]_vars PROVE NoReplyYet'
  OBVIOUS
<1>1. CASE UNCHANGED vars \/ \E c \in Conns : ClientStep(c)
  <2>1. UNCHANGED <<conn, interest, reply, batch, mfd, pc, queue, running>>
    BY <1>1 DEF vars, ClientStep, Connect, Request, Deliver, Hangup, Drain, kernelVars, objectVars,
                poolVars
  <2> QED
    BY <2>1 DEF NoReplyYet, TakesInput
<1>2. CASE MainStep
  BY <1>2, NoReplyMain, NoReplyKept DEF NoReplyYet
<1>3. CASE \E w \in Workers : Take(w) \/ WorkerStep(w)
  BY <1>3, NoReplyWorker, NoReplyKept DEF NoReplyYet
<1> QED
  BY <1>1, <1>2, <1>3 DEF Next

Asking(c) ==
  /\ asked[c] <= Len(client[c].script) /\ replies[c] <= asked[c]
  /\ client[c].waits => asked[c] <= replies[c] + 1
Waiting(c) == Fits(Unanswered(c, <<>>), replies[c], asked[c], LastJunk(c))
Streaming(fd) ==
  Fits(Unanswered(conn[fd], Hand(fd)), replies[conn[fd]] + Due(fd), asked[conn[fd]],
       LastJunk(conn[fd]))
Streams ==
  /\ \A c \in Conns : Asking(c) /\ (status[c] \in {"new", "backlog"} => Waiting(c))
  /\ \A fd \in Fds : conn[fd] # NoConn => Streaming(fd)

\* The terms of a stream
LEMMA StreamTypes ==
  ASSUME Types
  PROVE  /\ \A c \in Conns : /\ asked[c] \in Nat /\ replies[c] \in Nat /\ LastJunk(c) \in BOOLEAN
                             /\ flight[c] \in Seq(Pieces) /\ wire[c] \in Seq(Pieces)
                             /\ wire[c] \o flight[c] \in Seq(Pieces)
                             /\ Unanswered(c, <<>>) = wire[c] \o flight[c]
                             /\ client[c].script \in Seq(Seq(Pieces))
         /\ \A fd \in Fds : /\ Kinds(fd) \in Seq(Pieces) /\ Hand(fd) \in Seq(Pieces)
                            /\ Len(Kinds(fd)) = Len(inbuf[fd])
                            /\ Due(fd) \in 0 .. 1 /\ conn[fd] \in Conns \cup {NoConn}
<1>1. ASSUME NEW c \in Conns
      PROVE  /\ asked[c] \in Nat /\ replies[c] \in Nat /\ LastJunk(c) \in BOOLEAN
             /\ flight[c] \in Seq(Pieces) /\ wire[c] \in Seq(Pieces)
             /\ wire[c] \o flight[c] \in Seq(Pieces)
             /\ Unanswered(c, <<>>) = wire[c] \o flight[c]
             /\ client[c].script \in Seq(Seq(Pieces))
  <2>1. /\ asked[c] \in Nat /\ replies[c] \in Nat /\ LastJunk(c) \in BOOLEAN
        /\ flight[c] \in Seq(Pieces) /\ wire[c] \in Seq(Pieces)
    BY DEF Types, ClientTypes, KernelTypes, LastJunk
  <2>2. wire[c] \o flight[c] \in Seq(Pieces)
    BY <2>1, ConcatProperties
  <2>3. Unanswered(c, <<>>) = wire[c] \o flight[c]
    BY <2>2, ConcatEmptySeq DEF Unanswered
  <2>4. client[c] \in Client
    BY Constants DEF Types, ClientTypes
  <2> QED
    BY <2>1, <2>2, <2>3, <2>4 DEF Client
<1>2. ASSUME NEW fd \in Fds
      PROVE  /\ Kinds(fd) \in Seq(Pieces) /\ Hand(fd) \in Seq(Pieces)
             /\ Len(Kinds(fd)) = Len(inbuf[fd])
             /\ Due(fd) \in 0 .. 1 /\ conn[fd] \in Conns \cup {NoConn}
  <2>1. inbuf[fd] \in Seq(Conns \X Pieces) /\ conn[fd] \in Conns \cup {NoConn}
    BY DEF Types, ObjectTypes, KernelTypes
  <2>2. Kinds(fd) \in Seq(Pieces) /\ Len(Kinds(fd)) = Len(inbuf[fd])
    BY <2>1 DEF Kinds
  <2>3. <<>> \in Seq(Pieces) /\ Due(fd) \in 0 .. 1
    BY DEF Due
  <2> QED
    BY <2>1, <2>2, <2>3 DEF Hand
<1> QED
  BY <1>1, <1>2

\* Steps that leave a stream alone; main may come to work on what has a reply.
LEMMA StreamKept ==
  ASSUME Types, NEW fd \in Fds, conn[fd] # NoConn, Streaming(fd),
         UNCHANGED <<client, asked, inbuf[fd], reply[fd], conn[fd]>>,
         flight'[conn[fd]] = flight[conn[fd]], wire'[conn[fd]] = wire[conn[fd]],
         replies'[conn[fd]] = replies[conn[fd]],
         reply[fd] # NoConn /\ mfd = fd => mfd' = fd
  PROVE  Streaming(fd)'
<1> DEFINE c == conn[fd]
<1>1. c \in Conns /\ asked[c] \in Nat /\ replies[c] \in Nat
      /\ wire[c] \o flight[c] \in Seq(Pieces) /\ Hand(fd) \in Seq(Pieces)
  BY StreamTypes
<1>2. Unanswered(c, Hand(fd)) \in Seq(Pieces)
  BY <1>1, ConcatProperties DEF Unanswered
<1>3. Unanswered(conn[fd], Hand(fd))' = Unanswered(c, Hand(fd)) /\ LastJunk(conn[fd])' = LastJunk(c)
  BY DEF Unanswered, Hand, Kinds, LastJunk
<1>4. Due(fd) \in Nat /\ Due(fd)' \in Nat /\ Due(fd)' <= Due(fd)
  BY DEF Due
<1> DEFINE low == replies[c] + Due(fd)
           less == replies[c] + Due(fd)'
<1>5. low \in Nat /\ less \in Nat /\ less <= low
  BY <1>1, <1>4
<1>6. Fits(Unanswered(c, Hand(fd)), low, asked[c], LastJunk(c))
  BY DEF Streaming
<1> HIDE DEF low, less
<1>7. Fits(Unanswered(c, Hand(fd)), less, asked[c], LastJunk(c))
  BY <1>1, <1>2, <1>5, <1>6, FitsEarlier
<1> QED
  BY <1>3, <1>7 DEF less, Streaming

\* Steps that leave all streams alone
LEMMA StreamsKept ==
  ASSUME Types, Streams,
         UNCHANGED <<client, asked, replies, flight, wire, inbuf, reply>>,
         \A c \in Conns : status'[c] \in {"new", "backlog"} => status[c] \in {"new", "backlog"},
         \A fd \in Fds : conn'[fd] # NoConn =>
            conn'[fd] = conn[fd] /\ (reply[fd] # NoConn /\ mfd = fd => mfd' = fd)
  PROVE  Streams'
<1>1. ASSUME NEW c \in Conns
      PROVE  (Asking(c) /\ (status[c] \in {"new", "backlog"} => Waiting(c)))'
  BY DEF Streams, Asking, Waiting, Unanswered, LastJunk
<1>2. ASSUME NEW fd \in Fds, conn'[fd] # NoConn PROVE Streaming(fd)'
  <2>1. conn[fd] # NoConn /\ UNCHANGED conn[fd] /\ Streaming(fd)
    BY <1>2 DEF Streams
  <2> QED
    BY <1>2, <2>1, StreamKept
<1> QED
  BY <1>1, <1>2 DEF Streams

\* A client's step is about its own stream.
LEMMA StreamsClient ==
  ASSUME Types, AnswerableScripts, Streams, NEW c \in Conns, ClientStep(c)
  PROVE  Streams'
<1>1. UNCHANGED <<client, replies, inbuf, reply, conn, mfd>>
  BY DEF ClientStep, Connect, Request, Deliver, Hangup, Drain, clientVars, kernelVars, objectVars
<1>2. CASE Connect(c) \/ Hangup(c) \/ Drain(c)
  <2>1. UNCHANGED <<asked, flight, wire>>
    BY <1>2 DEF Connect, Hangup, Drain, clientVars, kernelVars
  <2>2. \A x \in Conns : status'[x] \in {"new", "backlog"} => status[x] \in {"new", "backlog"}
    BY <1>2 DEF Connect, Hangup, Drain, kernelVars, Types, KernelTypes
  <2> QED
    BY <1>1, <2>1, <2>2, StreamsKept
<1>3. ASSUME UNCHANGED status, \A x \in Conns \ {c} : /\ asked'[x] = asked[x] /\ flight'[x] = flight[x]
                                                     /\ wire'[x] = wire[x],
             Asking(c)',
             \A a \in Seq(Pieces), low \in Nat :
                Fits(Unanswered(c, a), low, asked[c], LastJunk(c)) =>
                  Fits(a \o (wire'[c] \o flight'[c]), low, asked'[c], LastJunk(c)')
      PROVE  Streams'
  <2>1. ASSUME NEW x \in Conns \ {c}
        PROVE  (Asking(x) /\ (status[x] \in {"new", "backlog"} => Waiting(x)))'
    BY <1>1, <1>3 DEF Streams, Asking, Waiting, Unanswered, LastJunk
  <2>2. status[c] \in {"new", "backlog"} => Waiting(c)'
    <3>1. <<>> \in Seq(Pieces)
      OBVIOUS
    <3>2. replies[c] \in Nat
      BY StreamTypes
    <3> QED
      BY <1>1, <1>3, <3>1, <3>2 DEF Streams, Waiting, Unanswered
  <2>3. ASSUME NEW fd \in Fds, conn[fd] # NoConn PROVE Streaming(fd)'
    <3>1. Hand(fd)' = Hand(fd) /\ Due(fd)' = Due(fd) /\ Streaming(fd) /\ conn[fd] \in Conns
      BY <1>1, <2>3, StreamTypes DEF Hand, Kinds, Due, Streams
    <3>2. CASE conn[fd] = c
      <4>1. Hand(fd) \in Seq(Pieces) /\ replies[c] + Due(fd) \in Nat
        <5>1. Hand(fd) \in Seq(Pieces) /\ replies[c] \in Nat /\ Due(fd) \in 0 .. 1
          BY StreamTypes
        <5> QED
          BY <5>1
      <4>2. Fits(Hand(fd) \o (wire'[c] \o flight'[c]), replies[c] + Due(fd), asked'[c], LastJunk(c)')
        BY <1>3, <3>1, <3>2, <4>1 DEF Streaming
      <4> QED
        BY <1>1, <3>1, <3>2, <4>2 DEF Streaming, Unanswered
    <3>3. CASE conn[fd] # c
      BY <1>1, <1>3, <3>1, <3>3 DEF Streaming, Unanswered, LastJunk
    <3> QED
      BY <3>2, <3>3
  <2> QED
    BY <1>1, <1>3, <2>1, <2>2, <2>3 DEF Streams
<1>4. CASE Request(c)
  <2> DEFINE r == client[c].script[asked[c] + 1]
  <2>1. /\ asked' = [asked EXCEPT ![c] = @ + 1] /\ flight' = [flight EXCEPT ![c] = @ \o r]
        /\ asked[c] < Len(client[c].script) /\ (client[c].waits => replies[c] = asked[c])
        /\ UNCHANGED <<status, wire>>
    BY <1>4 DEF Request, kernelVars
  <2>2. /\ asked[c] \in Nat /\ replies[c] \in Nat /\ LastJunk(c) \in BOOLEAN
        /\ flight[c] \in Seq(Pieces) /\ wire[c] \in Seq(Pieces)
        /\ client[c].script \in Seq(Seq(Pieces)) /\ Len(client[c].script) \in Nat
    <3>1. client[c].script \in Seq(Seq(Pieces))
      BY StreamTypes
    <3>2. /\ asked[c] \in Nat /\ replies[c] \in Nat /\ LastJunk(c) \in BOOLEAN
          /\ flight[c] \in Seq(Pieces) /\ wire[c] \in Seq(Pieces)
      BY StreamTypes
    <3> QED
      BY <3>1, <3>2
  <2>3. /\ asked[c] + 1 \in 1 .. Len(client[c].script)
        /\ asked[c] # 0 => asked[c] \in 1 .. Len(client[c].script) /\ asked[c] < Len(client[c].script)
    BY <2>1, <2>2
  <2>4. client \in Clients
    BY DEF Types, ClientTypes
  <2>5. /\ r \in {<<"whole">>, <<"head", "tail">>, <<"whole", "junk">>} /\ r \in Seq(Pieces)
        /\ LastJunk(c) => r # <<"head", "tail">>
    <3>1. r \in Seq(Pieces)
      BY <2>2, <2>3
    <3>2. r \in {<<"whole">>, <<"head", "tail">>, <<"whole", "junk">>}
      BY <2>3, <2>4 DEF AnswerableScripts
    <3>3. LastJunk(c) => r # <<"head", "tail">>
      BY <2>3, <2>4 DEF AnswerableScripts, LastJunk
    <3> QED
      BY <3>1, <3>2, <3>3
  <2>6. asked'[c] = asked[c] + 1 /\ flight'[c] = flight[c] \o r /\ wire'[c] = wire[c]
    BY <2>1 DEF Types, ClientTypes
  <2>7. LastJunk(c)' <=> r = <<"whole", "junk">>
    BY <1>1, <2>2, <2>6 DEF LastJunk
  <2>8. LastJunk(c)' \in BOOLEAN
    BY DEF LastJunk
  <2>9. Asking(c)'
    <3>1. replies[c] <= asked[c]
      BY DEF Streams, Asking
    <3> HIDE DEF r
    <3> QED
      BY <1>1, <2>1, <2>2, <2>6, <3>1 DEF Asking
  <2> HIDE DEF r
  <2>10. ASSUME NEW a \in Seq(Pieces), NEW low \in Nat,
                Fits(Unanswered(c, a), low, asked[c], LastJunk(c))
         PROVE  Fits(a \o (wire'[c] \o flight'[c]), low, asked'[c], LastJunk(c)')
    <3> DEFINE s == a \o (wire[c] \o flight[c])
    <3>1. s \in Seq(Pieces)
      BY <2>2, ConcatProperties
    <3>2. Fits(s, low, asked[c], LastJunk(c))
      BY <2>10 DEF Unanswered
    <3>3. a \o (wire'[c] \o flight'[c]) = s \o r
      <4>1. a \in Seq(Pieces) /\ wire[c] \in Seq(Pieces) /\ flight[c] \in Seq(Pieces) /\ r \in Seq(Pieces)
        BY <2>2, <2>5
      <4> HIDE DEF s
      <4>2. \A b, f, q \in Seq(Pieces) : a \o (b \o (f \o q)) = (a \o (b \o f)) \o q
        BY StreamSent
      <4>3. a \o (wire[c] \o (flight[c] \o r)) = (a \o (wire[c] \o flight[c])) \o r
        BY ZenonT(30), <4>1, <4>2
      <4> QED
        BY <2>6, <4>3 DEF s
    <3> HIDE DEF s
    <3>4. Fits(s \o r, low, asked[c] + 1, LastJunk(c)')
      BY <2>2, <2>5, <2>7, <2>8, <3>1, <3>2, FitsMore
    <3> QED
      BY <2>6, <3>3, <3>4
  <2>11. \A x \in Conns \ {c} : asked'[x] = asked[x] /\ flight'[x] = flight[x] /\ wire'[x] = wire[x]
    BY <2>1 DEF Types, ClientTypes
  <2> QED
    BY <1>3, <2>1, <2>9, <2>10, <2>11
<1>5. CASE Deliver(c)
  <2>1. /\ flight[c] # <<>> /\ flight' = [flight EXCEPT ![c] = Tail(@)]
        /\ wire' = [wire EXCEPT ![c] = Append(@, Head(flight[c]))] /\ UNCHANGED <<asked, status>>
    BY <1>5 DEF Deliver
  <2>2. flight'[c] = Tail(flight[c]) /\ wire'[c] = Append(wire[c], Head(flight[c]))
    BY <2>1 DEF Types, ClientTypes, KernelTypes
  <2>3. ASSUME NEW a \in Seq(Pieces), NEW low \in Nat,
               Fits(Unanswered(c, a), low, asked[c], LastJunk(c))
        PROVE  Fits(a \o (wire'[c] \o flight'[c]), low, asked'[c], LastJunk(c)')
    <3>1. a \o (wire'[c] \o flight'[c]) = a \o (wire[c] \o flight[c])
      <4>1. wire[c] \in Seq(Pieces) /\ flight[c] \in Seq(Pieces)
        BY StreamTypes
      <4>2. a \o (Append(wire[c], Head(flight[c])) \o Tail(flight[c])) = a \o (wire[c] \o flight[c])
        BY <2>1, <4>1, StreamDelivered
      <4> QED
        BY <2>2, <4>2
    <3>2. LastJunk(c)' = LastJunk(c)
      BY <1>1, <2>1 DEF LastJunk
    <3> QED
      BY <2>1, <2>3, <3>1, <3>2 DEF Unanswered
  <2>4. Asking(c)'
    BY <1>1, <2>1 DEF Streams, Asking
  <2>5. \A x \in Conns \ {c} : asked'[x] = asked[x] /\ flight'[x] = flight[x] /\ wire'[x] = wire[x]
    BY <2>1 DEF Types, ClientTypes, KernelTypes
  <2> QED
    BY <1>3, <2>1, <2>3, <2>4, <2>5
<1> QED
  BY <1>2, <1>4, <1>5 DEF ClientStep

\* A step that is about one descriptor's stream, and sends or takes nothing elsewhere
LEMMA StreamsOne ==
  ASSUME Types, Wired, Streams, NEW fd \in Fds, conn[fd] # NoConn,
         UNCHANGED <<client, asked, flight, conn, status>>,
         \A c \in Conns \ {conn[fd]} : wire'[c] = wire[c] /\ replies'[c] = replies[c],
         \A f \in Fds \ {fd} : /\ inbuf'[f] = inbuf[f] /\ reply'[f] = reply[f]
                               /\ (reply[f] # NoConn /\ mfd = f => mfd' = f),
         replies'[conn[fd]] = replies[conn[fd]]
           \/ (replies'[conn[fd]] = replies[conn[fd]] + 1 /\ replies[conn[fd]] < asked[conn[fd]]),
         Streaming(fd)'
  PROVE  Streams'
<1>1. conn[fd] \in Conns /\ status[conn[fd]] = "open"
  BY StreamTypes DEF Wired
<1>2. ASSUME NEW c \in Conns
      PROVE  (Asking(c) /\ (status[c] \in {"new", "backlog"} => Waiting(c)))'
  <2>1. CASE c = conn[fd]
    <3>1. asked[c] \in Nat /\ replies[c] \in Nat /\ Asking(c)
      BY StreamTypes DEF Streams
    <3>2. Asking(c)'
      BY <2>1, <3>1 DEF Asking
    <3> QED
      BY <1>1, <2>1, <3>2
  <2>2. CASE c # conn[fd]
    BY <2>2 DEF Streams, Asking, Waiting, Unanswered, LastJunk
  <2> QED
    BY <2>1, <2>2
<1>3. ASSUME NEW f \in Fds \ {fd}, conn[f] # NoConn PROVE Streaming(f)'
  <2>1. conn[f] \in Conns \ {conn[fd]} /\ Streaming(f)
    BY <1>3, StreamTypes DEF Wired, Streams
  <2>2. /\ UNCHANGED <<client, asked, inbuf[f], reply[f], conn[f]>>
        /\ flight'[conn[f]] = flight[conn[f]] /\ wire'[conn[f]] = wire[conn[f]]
        /\ replies'[conn[f]] = replies[conn[f]]
        /\ (reply[f] # NoConn /\ mfd = f => mfd' = f)
    BY <2>1
  <2> QED
    BY <1>3, <2>1, <2>2, StreamKept
<1> QED
  BY <1>2, <1>3 DEF Streams

\* connect, accept and show_error
LEMMA StreamsListen == Types /\ Wired /\ Streams /\ ListenStep => Streams'
<1> SUFFICES ASSUME Types, Wired, Streams, ListenStep PROVE Streams'
  OBVIOUS
<1>1. CASE AcceptFails \/ IncLoad \/ IncStore
  <2>1. UNCHANGED <<client, asked, replies, flight, wire, inbuf, reply, status, conn, mfd>>
    BY <1>1 DEF AcceptFails, IncLoad, IncStore, clientVars, kernelVars, objectVars
  <2> QED
    BY <2>1, StreamsKept
<1>2. CASE ShowError \/ InitConn
  <2>1. PICK e \in batch : e.ev = "listen" /\ Dispatch(e)
    BY <1>2 DEF ShowError, InitConn
  <2>2. PICK c \in Conns : c = Head(backlog) /\ backlog # <<>>
    BY <2>1, Dispatched
  <2>3. status[c] = "backlog"
    <3>1. backlog \in Seq(Conns)
      BY DEF Types, KernelTypes
    <3>2. 1 \in 1 .. Len(backlog) /\ c = backlog[1]
      BY <2>2, <3>1
    <3> QED
      BY <3>2 DEF Wired
  <2>4. \A fd \in Fds : conn[fd] # NoConn => conn[fd] \in Conns \ {c}
    BY <2>3, StreamTypes DEF Wired
  <2>5. CASE ShowError
    <3>1. /\ UNCHANGED <<client, asked, replies, inbuf, reply, conn, mfd>>
          /\ status' = [status EXCEPT ![c] = "closed"]
          /\ \A x \in Conns \ {c} : flight'[x] = flight[x] /\ wire'[x] = wire[x]
      BY <2>2, <2>5 DEF ShowError, objectVars, Types, ClientTypes, KernelTypes
    <3>2. ASSUME NEW x \in Conns
          PROVE  (Asking(x) /\ (status[x] \in {"new", "backlog"} => Waiting(x)))'
      <4>1. Asking(x)'
        BY <3>1 DEF Streams, Asking
      <4>2. x = c => status'[x] = "closed"
        BY <3>1 DEF Types, KernelTypes
      <4>3. x # c => status'[x] = status[x]
        BY <3>1 DEF Types, KernelTypes
      <4>4. x # c /\ Waiting(x) => Waiting(x)'
        BY <3>1 DEF Waiting, Unanswered, LastJunk
      <4> QED
        BY <4>1, <4>2, <4>3, <4>4 DEF Streams
    <3>3. ASSUME NEW fd \in Fds, conn[fd] # NoConn PROVE Streaming(fd)'
      <4>1. conn[fd] \in Conns \ {c} /\ Streaming(fd)
        BY <2>4, <3>3 DEF Streams
      <4> QED
        BY <3>1, <3>3, <4>1, StreamKept
    <3> QED
      BY <3>1, <3>2, <3>3 DEF Streams
  <2>6. CASE InitConn
    <3>1. NewFd \in Fds /\ conn[NewFd] = NoConn
      BY <2>6, FreeFd DEF InitConn
    <3>2. PICK n \in Fds : n = NewFd
      BY <3>1
    <3>3. /\ UNCHANGED <<client, asked, replies, flight, wire, mfd>>
          /\ status' = [status EXCEPT ![c] = "open"]
          /\ \A fd \in Fds \ {n} : /\ conn'[fd] = conn[fd] /\ inbuf'[fd] = inbuf[fd]
                                   /\ reply'[fd] = reply[fd]
          /\ conn'[n] = c /\ inbuf'[n] = <<>> /\ reply'[n] = NoConn
      BY <2>2, <2>6, <3>2 DEF InitConn, Reset, clientVars, Types, KernelTypes, ObjectTypes
    <3>4. ASSUME NEW x \in Conns
          PROVE  (Asking(x) /\ (status[x] \in {"new", "backlog"} => Waiting(x)))'
      <4>1. Asking(x)' /\ (Waiting(x) => Waiting(x)')
        BY <3>3 DEF Streams, Asking, Waiting, Unanswered, LastJunk
      <4>2. status'[x] \in {"new", "backlog"} => status[x] \in {"new", "backlog"}
        BY <3>3 DEF Types, KernelTypes
      <4> QED
        BY <4>1, <4>2 DEF Streams
    <3>5. ASSUME NEW fd \in Fds \ {n}, conn'[fd] # NoConn PROVE Streaming(fd)'
      <4>1. conn[fd] # NoConn /\ Streaming(fd) /\ UNCHANGED <<conn[fd], inbuf[fd], reply[fd]>>
        BY <3>3, <3>5 DEF Streams
      <4> QED
        BY <3>3, <4>1, StreamKept
    <3>6. Streaming(n)'
      <4>1. Hand(n)' = <<>> /\ Due(n)' = 0
        BY <3>3 DEF Hand, Kinds, Due
      <4>2. Waiting(c) /\ replies[c] \in Nat
        BY <2>3, StreamTypes DEF Streams
      <4> QED
        BY <3>3, <4>1, <4>2 DEF Waiting, Streaming, Unanswered, LastJunk
    <3> QED
      BY <3>3, <3>4, <3>5, <3>6 DEF Streams
  <2> QED
    BY <1>2, <2>5, <2>6
<1> QED
  BY <1>1, <1>2 DEF ListenStep

\* The kinds of what read() puts into the buffer
LEMMA KindsRead ==
  ASSUME Types, NEW fd \in Fds, NEW c \in Conns, inbuf'[fd] = inbuf[fd] \o Tagged(c)
  PROVE  Kinds(fd)' = Kinds(fd) \o wire[c]
<1>1. /\ inbuf[fd] \in Seq(Conns \X Pieces) /\ wire[c] \in Seq(Pieces)
  BY DEF Types, ObjectTypes, KernelTypes
<1>2. Tagged(c) \in Seq(Conns \X Pieces) /\ Len(Tagged(c)) = Len(wire[c])
      /\ \A k \in 1 .. Len(wire[c]) : Tagged(c)[k][2] = wire[c][k]
  BY <1>1 DEF Tagged
<1>3. PICK n \in Nat, m \in Nat : n = Len(inbuf[fd]) /\ m = Len(wire[c])
  BY <1>1
<1>4. /\ inbuf'[fd] \in Seq(Conns \X Pieces) /\ Len(inbuf'[fd]) = n + m
      /\ \A k \in 1 .. n + m : inbuf'[fd][k] = IF k <= n THEN inbuf[fd][k] ELSE Tagged(c)[k - n]
  <2> DEFINE u == inbuf[fd] \o Tagged(c)
  <2>1. /\ u \in Seq(Conns \X Pieces) /\ Len(u) = Len(inbuf[fd]) + Len(Tagged(c))
        /\ \A k \in 1 .. Len(inbuf[fd]) + Len(Tagged(c)) :
              u[k] = IF k <= Len(inbuf[fd]) THEN inbuf[fd][k] ELSE Tagged(c)[k - Len(inbuf[fd])]
    <3> DEFINE T == Conns \X Pieces
    <3>1. inbuf[fd] \in Seq(T) /\ Tagged(c) \in Seq(T)
      BY <1>1, <1>2
    <3> HIDE DEF T
    <3>2. /\ u \in Seq(T) /\ Len(u) = Len(inbuf[fd]) + Len(Tagged(c))
          /\ \A k \in 1 .. Len(inbuf[fd]) + Len(Tagged(c)) :
                u[k] = IF k <= Len(inbuf[fd]) THEN inbuf[fd][k] ELSE Tagged(c)[k - Len(inbuf[fd])]
      BY <3>1, ConcatProperties
    <3> QED
      BY <3>2 DEF T
  <2> HIDE DEF u
  <2>2. inbuf'[fd] = u /\ Len(inbuf[fd]) = n /\ Len(Tagged(c)) = m
    BY <1>2, <1>3 DEF u
  <2> QED
    BY <2>1, <2>2
<1>5. Kinds(fd) \in Seq(Pieces) /\ Len(Kinds(fd)) = n /\ \A k \in 1 .. n : Kinds(fd)[k] = inbuf[fd][k][2]
  BY SMTT(30), <1>1, <1>3, StreamTypes DEF Kinds
<1>6. /\ Kinds(fd) \o wire[c] \in Seq(Pieces) /\ Len(Kinds(fd) \o wire[c]) = n + m
      /\ \A k \in 1 .. n + m : (Kinds(fd) \o wire[c])[k] = IF k <= n THEN Kinds(fd)[k] ELSE wire[c][k - n]
  <2> DEFINE u == Kinds(fd) \o wire[c]
  <2>1. /\ u \in Seq(Pieces) /\ Len(u) = Len(Kinds(fd)) + Len(wire[c])
        /\ \A k \in 1 .. Len(Kinds(fd)) + Len(wire[c]) :
              u[k] = IF k <= Len(Kinds(fd)) THEN Kinds(fd)[k] ELSE wire[c][k - Len(Kinds(fd))]
    BY <1>1, <1>5, ConcatProperties
  <2> HIDE DEF u
  <2> QED
    BY <1>3, <1>5, <2>1 DEF u
<1>7. /\ Kinds(fd)' \in Seq(Pieces) /\ Len(Kinds(fd)') = n + m
      /\ \A k \in 1 .. n + m : Kinds(fd)'[k] = inbuf'[fd][k][2]
  BY <1>4 DEF Kinds
<1>8. ASSUME NEW k \in 1 .. n + m PROVE Kinds(fd)'[k] = (Kinds(fd) \o wire[c])[k]
  <2>1. CASE k <= n
    <3>1. k \in 1 .. n
      BY <2>1
    <3> QED
      BY <1>4, <1>5, <1>6, <1>7, <2>1, <3>1
  <2>2. CASE ~ (k <= n)
    <3>1. k - n \in 1 .. m
      BY <2>2
    <3> QED
      BY ZenonT(30), <1>2, <1>3, <1>4, <1>6, <1>7, <2>2, <3>1
  <2> QED
    BY <2>1, <2>2
<1> QED
  BY <1>6, <1>7, <1>8, SeqEqual

\* What main does with an event of a connection
LEMMA StreamsEvent ==
  ASSUME Types, Handed, Wired, NoReplyYet, Streams, NEW e \in batch, EventStep(e)
  PROVE  Streams'
<1>1. Dispatch(e) /\ e.ev # "listen"
  BY DEF EventStep, HupEvent, Read, WriteNothing, WriteKeepAlive, WriteAndClose, WriteStalls,
         WriteFails, Writing
<1>2. PICK fd \in Fds : fd = e.fd /\ mfd # fd /\ mfd = NoFd /\ conn[fd] # NoConn
  <2>1. mfd = NoFd /\ e.fd \in Fds
    BY <1>1, Dispatched
  <2>2. conn[e.fd] # NoConn
    BY <2>1 DEF Handed, Reported, Claimed
  <2> QED
    BY <2>1, <2>2, Constants
<1>3. PICK c \in Conns : c = conn[fd]
  BY <1>2, StreamTypes
<1>4. /\ asked[c] \in Nat /\ replies[c] \in Nat /\ wire[c] \in Seq(Pieces) /\ flight[c] \in Seq(Pieces)
      /\ wire[c] \o flight[c] \in Seq(Pieces) /\ Kinds(fd) \in Seq(Pieces)
      /\ <<>> \o (wire[c] \o flight[c]) = wire[c] \o flight[c]
  <2>1. /\ asked[c] \in Nat /\ replies[c] \in Nat /\ wire[c] \in Seq(Pieces)
        /\ flight[c] \in Seq(Pieces) /\ wire[c] \o flight[c] \in Seq(Pieces)
        /\ Unanswered(c, <<>>) = wire[c] \o flight[c]
    BY StreamTypes
  <2>2. Kinds(fd) \in Seq(Pieces)
    BY StreamTypes
  <2> QED
    BY <2>1, <2>2 DEF Unanswered
<1>5. Fits(Hand(fd) \o (wire[c] \o flight[c]), replies[c] + Due(fd), asked[c], LastJunk(c))
  BY <1>2, <1>3 DEF Streams, Streaming, Unanswered
<1>6. UNCHANGED <<client, asked, flight, conn, status>>
  BY DEF EventStep, HupEvent, Read, WriteNothing, WriteKeepAlive, WriteAndClose, WriteStalls,
         WriteFails, clientVars, kernelVars
<1>7. CASE \/ HupEvent(e) \/ WriteStalls(e) \/ WriteFails(e)
           \/ (Read(e) /\ ReadFails(e.fd))
  <2>1. UNCHANGED <<replies, wire, inbuf, reply>>
    BY <1>7 DEF HupEvent, WriteStalls, WriteFails, Read, clientVars, kernelVars, objectVars
  <2> QED
    BY <1>2, <1>6, <2>1, StreamsKept, Constants
<1>8. CASE Read(e) /\ ~ ReadFails(e.fd)
  <2>1. /\ inbuf' = [inbuf EXCEPT ![fd] = @ \o Tagged(c)] /\ wire' = [wire EXCEPT ![c] = <<>>]
        /\ UNCHANGED <<replies, reply>> /\ e.ev = "in"
    BY <1>2, <1>3, <1>8 DEF Read, clientVars
  <2>2. reply[fd] = NoConn
    BY <1>2, <2>1 DEF NoReplyYet, TakesInput
  <2>3. inbuf'[fd] = inbuf[fd] \o Tagged(c) /\ wire'[c] = <<>>
        /\ \A x \in Conns \ {c} : wire'[x] = wire[x]
        /\ \A f \in Fds \ {fd} : inbuf'[f] = inbuf[f]
    BY <2>1 DEF Types, ObjectTypes, KernelTypes
  <2>4. Hand(fd) = Kinds(fd) /\ Hand(fd)' = Kinds(fd) \o wire[c] /\ Due(fd) = 0 /\ Due(fd)' = 0
    BY <2>1, <2>2, <2>3, KindsRead DEF Hand, Due
  <2>5. (Kinds(fd) \o wire[c]) \o (<<>> \o flight[c]) = Kinds(fd) \o (wire[c] \o flight[c])
    BY <1>4, StreamRead
  <2>6. Streaming(fd)'
    BY <1>3, <1>5, <1>6, <2>1, <2>3, <2>4, <2>5 DEF Streaming, Unanswered, LastJunk
  <2> QED
    BY <1>2, <1>3, <1>6, <2>1, <2>3, <2>6, StreamsOne, Constants
<1>9. CASE WriteNothing(e)
  <2>1. /\ inbuf' = [inbuf EXCEPT ![fd] = <<>>] /\ reply' = [reply EXCEPT ![fd] = NoConn]
        /\ UNCHANGED <<replies, wire, mfd>> /\ reply[fd] = NoConn
    BY <1>2, <1>9 DEF WriteNothing, Reset, clientVars
  <2>2. /\ inbuf'[fd] = <<>> /\ reply'[fd] = NoConn
        /\ \A f \in Fds \ {fd} : inbuf'[f] = inbuf[f] /\ reply'[f] = reply[f]
    BY <2>1 DEF Types, ObjectTypes
  <2>3. Hand(fd) = Kinds(fd) /\ Hand(fd)' = <<>> /\ Due(fd) = 0 /\ Due(fd)' = 0
    BY <2>1, <2>2 DEF Hand, Kinds, Due
  <2>4. Fits(wire[c] \o flight[c], replies[c], asked[c], LastJunk(c))
    <3>1. Fits(Kinds(fd) \o (wire[c] \o flight[c]), replies[c], asked[c], LastJunk(c))
      BY <1>4, <1>5, <2>3
    <3> QED
      BY <1>4, <3>1, FitsRest
  <2>5. Streaming(fd)'
    BY SMTT(30), <1>3, <1>4, <1>6, <2>1, <2>3, <2>4 DEF Streaming, Unanswered, LastJunk
  <2> QED
    BY <1>2, <1>3, <1>6, <2>1, <2>2, <2>5, StreamsOne
<1>10. CASE WriteKeepAlive(e) \/ WriteAndClose(e)
  <2>1. /\ replies' = [replies EXCEPT ![c] = @ + 1] /\ reply[fd] # NoConn /\ UNCHANGED wire
        /\ \/ /\ inbuf' = [inbuf EXCEPT ![fd] = <<>>] /\ reply' = [reply EXCEPT ![fd] = NoConn]
           \/ UNCHANGED <<inbuf, reply>> /\ mfd' = fd
    BY <1>2, <1>3, <1>10 DEF WriteKeepAlive, WriteAndClose, Writing, Reset, objectVars
  <2>2. replies'[c] = replies[c] + 1 /\ \A x \in Conns \ {c} : replies'[x] = replies[x]
    BY <1>4, <2>1 DEF Types, ClientTypes
  <2>3. /\ \A f \in Fds \ {fd} : inbuf'[f] = inbuf[f] /\ reply'[f] = reply[f]
        /\ \/ inbuf'[fd] = <<>> /\ reply'[fd] = NoConn
           \/ reply'[fd] = reply[fd] /\ mfd' = fd
    BY <2>1 DEF Types, ObjectTypes
  <2>4. Hand(fd) = <<>> /\ Hand(fd)' = <<>> /\ Due(fd) = 1 /\ Due(fd)' = 0
    BY <1>2, <2>1, <2>3 DEF Hand, Kinds, Due
  <2>5. Fits(wire[c] \o flight[c], replies[c] + 1, asked[c], LastJunk(c))
    BY <1>4, <1>5, <2>4
  <2>6. replies[c] < asked[c]
    BY <1>4, <2>5 DEF Fits
  <2>7. replies'[c] + Due(fd)' = replies[c] + 1
    BY <1>4, <2>2, <2>4
  <2>8. Streaming(fd)'
    BY <1>3, <1>4, <1>6, <2>1, <2>4, <2>5, <2>7 DEF Streaming, Unanswered, LastJunk
  <2> QED
    BY <1>2, <1>3, <1>6, <2>1, <2>2, <2>3, <2>6, <2>8, StreamsOne, Constants
<1> QED
  BY <1>7, <1>8, <1>9, <1>10 DEF EventStep

\* The rest of what main does
LEMMA StreamsMain ==
  Types /\ Handed /\ Wired /\ NoReplyYet /\ Streams /\ MainStep => Streams'
<1> SUFFICES ASSUME Types, Handed, Wired, NoReplyYet, Streams, MainStep PROVE Streams'
  OBVIOUS
<1>1. CASE EpollWait
  <2>1. UNCHANGED <<client, asked, replies, flight, wire, inbuf, reply, status, conn, mfd>>
    BY <1>1 DEF EpollWait, clientVars, objectVars
  <2> QED
    BY <2>1, StreamsKept
<1>2. CASE AppendAccepted \/ AppendRefused
  <2>1. /\ UNCHANGED <<client, asked, replies, flight, wire, inbuf, reply, status, conn>>
        /\ pc[Main] = "append"
    BY <1>2 DEF AppendAccepted, AppendRefused, clientVars, kernelVars, objectVars
  <2>2. \A fd \in Fds : conn[fd] # NoConn /\ mfd = fd => reply[fd] = NoConn
    BY <2>1 DEF NoReplyYet, TakesInput
  <2> QED
    BY <2>1, <2>2, StreamsKept
<1>3. CASE CloseStep(Main)
  <2>1. PICK f \in Fds : f = mfd /\ FdOf(Main) = f
    <3>1. pc[Main] \in ClosePlaces
      BY <1>3 DEF CloseStep, CloseNothing, RemoveFd, Forget, DecLoad, DecStore, ClosePlaces
    <3> QED
      BY <3>1 DEF Types, Places, FdOf
  <2>2. ~ CloseNothing(Main)
    BY <2>1, Constants DEF CloseNothing, Handed, MainPlace, Registered
  <2>3. CASE RemoveFd(Main)
    <3>1. /\ UNCHANGED <<client, asked, replies, inbuf, reply, mfd>>
          /\ conn' = [conn EXCEPT ![f] = NoConn]
          /\ status' = [c \in Conns |-> IF conn[f] = c THEN "closed" ELSE status[c]]
          /\ \A c \in Conns : conn[f] # c => wire'[c] = wire[c] /\ flight'[c] = flight[c]
      BY <2>1, <2>3 DEF RemoveFd, objectVars
    <3>2. ASSUME NEW x \in Conns
          PROVE  (Asking(x) /\ (status[x] \in {"new", "backlog"} => Waiting(x)))'
      <4>1. Asking(x)'
        BY <3>1 DEF Streams, Asking
      <4>2. status'[x] # "closed" => conn[f] # x /\ status'[x] = status[x]
        BY <3>1
      <4>3. conn[f] # x /\ Waiting(x) => Waiting(x)'
        BY <3>1 DEF Waiting, Unanswered, LastJunk
      <4> QED
        BY <4>1, <4>2, <4>3 DEF Streams
    <3>3. ASSUME NEW fd \in Fds, conn'[fd] # NoConn PROVE Streaming(fd)'
      <4>1. conn'[fd] = conn[fd] /\ fd # f
        BY <3>1, <3>3 DEF Types, KernelTypes
      <4>2. conn[fd] \in Conns /\ conn[fd] # conn[f] /\ Streaming(fd)
        BY <3>3, <4>1, StreamTypes DEF Wired, Streams
      <4> QED
        BY <3>1, <3>3, <4>1, <4>2, StreamKept
    <3> QED
      BY <3>2, <3>3 DEF Streams
  <2>4. CASE Forget(Main) \/ DecLoad(Main) \/ DecStore(Main)
    <3>1. /\ UNCHANGED <<client, asked, replies, flight, wire, inbuf, reply, status, conn>>
          /\ conn[f] = NoConn
      BY <2>1, <2>4 DEF Forget, DecLoad, DecStore, clientVars, kernelVars, objectVars, Handed,
                        MainPlace
    <3> QED
      BY <2>1, <3>1, StreamsKept
  <2> QED
    BY <1>3, <2>2, <2>3, <2>4 DEF CloseStep
<1> QED
  BY <1>1, <1>2, <1>3, StreamsListen, StreamsEvent DEF MainStep

\* process() makes a reply of what it has in the buffer.
LEMMA StreamsWorker ==
  ASSUME Types, Handed, OnlyMainCloses, Wired, NoReplyYet, Streams,
         NEW w \in Workers, Take(w) \/ WorkerStep(w)
  PROVE  Streams'
<1>1. ~ CloseStep(w)
  <2>1. pc[w] \in WorkerPlaces
    BY DEF Handed, MainPlace
  <2> QED
    BY <2>1 DEF CloseStep, CloseNothing, RemoveFd, Forget, DecLoad, DecStore, WorkerPlaces
<1>2. CASE Take(w) \/ ProcessUnfinished(w) \/ ArmIn(w) \/ ArmOut(w)
  <2>1. UNCHANGED <<client, asked, replies, flight, wire, inbuf, reply, status, conn, mfd>>
    BY <1>2 DEF Take, ProcessUnfinished, ArmIn, ArmOut, Rearm, clientVars, kernelVars, objectVars
  <2> QED
    BY <2>1, StreamsKept
<1>3. CASE ProcessMalformed(w) \/ ProcessComplete(w)
  <2>1. PICK fd \in Fds : fd = running[w] /\ pc[w] = "loop"
    BY <1>3 DEF ProcessMalformed, ProcessComplete, Parsing, Types, PoolTypes
  <2>2. /\ UNCHANGED <<client, asked, replies, flight, wire, inbuf, status, conn, mfd>>
        /\ reply' = [reply EXCEPT ![fd] = Sender(fd)]
        /\ Complete(Kinds(fd)) \/ Malformed(Kinds(fd))
    BY <1>3, <2>1 DEF ProcessMalformed, ProcessComplete, clientVars, kernelVars
  <2>3. Pooled(fd) /\ Claimed(fd) /\ mfd # fd /\ conn[fd] # NoConn
    BY <2>1 DEF Pooled, Handed, Claimed
  <2>4. reply[fd] = NoConn
    BY <2>1, <2>3 DEF NoReplyYet, TakesInput
  <2>5. reply'[fd] = Sender(fd) /\ Sender(fd) # NoConn
        /\ \A f \in Fds \ {fd} : reply'[f] = reply[f]
    BY <2>2, HasSender, Constants DEF Types, ObjectTypes
  <2>6. Hand(fd) = Kinds(fd) /\ Hand(fd)' = <<>> /\ Due(fd) = 0 /\ Due(fd)' = 1
    BY <2>2, <2>3, <2>4, <2>5 DEF Hand, Due
  <2>7. PICK c \in Conns : c = conn[fd]
    BY <2>3, StreamTypes
  <2>8. /\ asked[c] \in Nat /\ replies[c] \in Nat /\ wire[c] \o flight[c] \in Seq(Pieces)
        /\ Unanswered(c, <<>>) = wire[c] \o flight[c]
    BY StreamTypes
  <2>9. Kinds(fd) \in Seq(Pieces)
    BY StreamTypes
  <2>10. Fits(Kinds(fd) \o (wire[c] \o flight[c]), replies[c], asked[c], LastJunk(c))
    BY <2>3, <2>6, <2>7, <2>8 DEF Streams, Streaming, Unanswered
  <2>11. Fits(wire[c] \o flight[c], replies[c] + 1, asked[c], LastJunk(c))
    BY <2>2, <2>8, <2>9, <2>10, FitsAnswer
  <2>12. Streaming(fd)'
    BY <2>2, <2>6, <2>7, <2>8, <2>11 DEF Streaming, Unanswered, LastJunk
  <2> QED
    BY <2>2, <2>3, <2>5, <2>7, <2>12, StreamsOne
<1> QED
  BY <1>1, <1>2, <1>3 DEF WorkerStep

LEMMA StreamsNext ==
  /\ Types /\ Handed /\ Wired /\ NoReplyYet /\ Streams
  /\ OnlyMainCloses /\ AnswerableScripts /\ [Next]_vars
  => Streams'
<1> SUFFICES ASSUME Types, Handed, Wired, NoReplyYet, Streams, OnlyMainCloses, AnswerableScripts,
                    [Next]_vars
             PROVE  Streams'
  OBVIOUS
<1>1. CASE UNCHANGED vars
  <2>1. UNCHANGED <<client, asked, replies, flight, wire, inbuf, reply, status, conn, mfd>>
    BY <1>1 DEF vars, clientVars, kernelVars, objectVars
  <2> QED
    BY <2>1, StreamsKept
<1>2. CASE \E c \in Conns : ClientStep(c)
  BY <1>2, StreamsClient
<1>3. CASE MainStep
  BY <1>3, StreamsMain
<1>4. CASE \E w \in Workers : Take(w) \/ WorkerStep(w)
  BY <1>4, StreamsWorker
<1> QED
  BY <1>1, <1>2, <1>3, <1>4 DEF Next

\* What is left when all that was asked is answered, or has its reply made
LEMMA FitsJunk ==
  ASSUME NEW a \in Seq(Pieces), NEW b \in Seq(Pieces), NEW high \in Nat, NEW junk,
         Fits(a \o b, high, high, junk)
  PROVE  /\ \A i \in DOMAIN a : a[i] = "junk"
         /\ \A i \in DOMAIN b : b[i] = "junk"
<1> DEFINE u == a \o b
<1>1. PICK n \in Nat, m \in Nat : n = Len(a) /\ m = Len(b)
  OBVIOUS
<1>2. /\ u \in Seq(Pieces) /\ Len(u) = n + m
      /\ \A i \in 1 .. n + m : u[i] = IF i <= n THEN a[i] ELSE b[i - n]
  BY <1>1, ConcatProperties
<1>3. PICK g \in [1 .. n + m -> 0 .. high] : \A i \in 1 .. n + m : IsEnd(u[i]) => high < g[i]
  BY <1>2 DEF Fits
<1>4. \A i \in 1 .. n + m : u[i] = "head" => i < n + m /\ u[i + 1] = "tail"
  BY <1>2 DEF Fits
<1> HIDE DEF u
<1>5. \A i \in 1 .. n + m : ~ IsEnd(u[i])
  <2>1. \A i \in 1 .. n + m : g[i] \in Nat /\ g[i] <= high
    BY <1>3
  <2> QED
    BY <1>3, <2>1
<1>6. \A i \in 1 .. n + m : u[i] # "head"
  <2>1. ASSUME NEW i \in 1 .. n + m, u[i] = "head" PROVE FALSE
    <3>1. i + 1 \in 1 .. n + m /\ u[i + 1] = "tail"
      BY <1>4, <2>1
    <3> QED
      BY <1>5, <3>1 DEF IsEnd
  <2> QED
    BY <2>1
<1>7. \A i \in 1 .. n + m : u[i] = "junk"
  <2>1. \A i \in 1 .. n + m : u[i] \in Pieces
    BY <1>2
  <2> QED
    BY <1>5, <1>6, <2>1 DEF Pieces, IsEnd
<1>8. ASSUME NEW i \in 1 .. n PROVE a[i] = "junk"
  <2>1. i \in 1 .. n + m /\ i <= n
    OBVIOUS
  <2> QED
    BY <1>2, <1>7, <2>1
<1>9. ASSUME NEW i \in 1 .. m PROVE b[i] = "junk"
  <2>1. i + n \in 1 .. n + m /\ ~ (i + n <= n) /\ i + n - n = i
    OBVIOUS
  <2>2. u[i + n] = b[i]
    BY <1>2, <2>1
  <2> QED
    BY <1>7, <2>1, <2>2
<1> QED
  BY <1>1, <1>8, <1>9

ReplyInv ==
  /\ ServerInv /\ NothingCarriedOver
  /\ OnlyMainCloses => NoReplyYet /\ (AnswerableScripts => Streams)

LEMMA ReplyInit == Init => ReplyInv
<1> SUFFICES ASSUME Init PROVE ReplyInv
  OBVIOUS
<1>1. Types /\ ServerInv /\ NothingCarriedOver
  BY TypesInit, WiredInit, HandedInit, CountInit DEF ServerInv, Init, NothingCarriedOver, OpenFds
<1>3. NoReplyYet
  BY DEF Init, NoReplyYet
<1>4. Streams
  <2>1. ASSUME NEW c \in Conns PROVE Asking(c) /\ Waiting(c)
    <3>1. asked[c] = 0 /\ replies[c] = 0 /\ wire[c] = <<>> /\ flight[c] = <<>>
      BY DEF Init
    <3>2. client[c].script \in Seq(Seq(Pieces))
      BY <1>1, StreamTypes
    <3>3. Unanswered(c, <<>>) = <<>>
      BY <3>1 DEF Unanswered
    <3>4. Fits(<<>>, 0, 0, LastJunk(c))
      BY FitsNothing
    <3> QED
      BY <3>1, <3>2, <3>3, <3>4 DEF Asking, Waiting
  <2> QED
    BY <2>1 DEF Init, Streams
<1> QED
  BY <1>1, <1>3, <1>4 DEF ReplyInv

\* A waiting client gets one reply for each request, made after the request was read
\* whole and of that client's bytes alone, as long as main alone closes and clients
\* send requests the parser can tell where they end (http_conn.cpp:160-186, 262-306).
THEOREM RepliesFollow == Spec => [](OnlyMainCloses /\ AnswerableScripts => RepliesFollowRequests)
<1>1. ReplyInv /\ [Next]_vars => ReplyInv'
  <2> SUFFICES ASSUME ReplyInv, [Next]_vars PROVE ReplyInv'
    OBVIOUS
  <2>1. ServerInv' /\ NothingCarriedOver'
    BY TypesNext, WiredNext, HandedNext, CountNext, CarriedNext DEF ReplyInv, ServerInv,
       OnlyMainCloses
  <2>2. ASSUME OnlyMainCloses PROVE NoReplyYet' /\ (AnswerableScripts => Streams')
    BY <2>2, NoReplyNext, StreamsNext DEF ReplyInv, ServerInv
  <2> QED
    BY <2>1, <2>2 DEF ReplyInv, OnlyMainCloses, AnswerableScripts
<1>2. ReplyInv => (OnlyMainCloses /\ AnswerableScripts => RepliesFollowRequests)
  <2> SUFFICES ASSUME Types, NothingCarriedOver, Streams PROVE RepliesFollowRequests
    BY DEF ReplyInv, ServerInv
  <2>1. \A c \in Conns : replies[c] <= asked[c]
    BY DEF Streams, Asking
  <2>2. ASSUME NEW fd \in Fds, ReplyPending(fd), client[conn[fd]].waits
        PROVE  /\ replies[conn[fd]] < asked[conn[fd]]
               /\ \A i \in DOMAIN flight[conn[fd]] : flight[conn[fd]][i] = "junk"
               /\ \A i \in DOMAIN wire[conn[fd]] : wire[conn[fd]][i] = "junk"
    <3>1. PICK c \in Conns : c = conn[fd]
      BY <2>2, StreamTypes DEF ReplyPending
    <3>2. /\ asked[c] \in Nat /\ replies[c] \in Nat /\ wire[c] \in Seq(Pieces)
          /\ flight[c] \in Seq(Pieces) /\ Unanswered(c, <<>>) = wire[c] \o flight[c]
      BY StreamTypes
    <3>3. conn[fd] # NoConn /\ Hand(fd) = <<>> /\ Due(fd) = 1
      BY <2>2 DEF ReplyPending, Hand, Due
    <3>4. Fits(wire[c] \o flight[c], replies[c] + 1, asked[c], LastJunk(c))
      BY <3>1, <3>2, <3>3 DEF Streams, Streaming
    <3>5. replies[c] + 1 <= asked[c]
      BY <3>4 DEF Fits
    <3>6. asked[c] <= replies[c] + 1
      BY <2>2, <3>1 DEF Streams, Asking
    <3>7. replies[c] + 1 = asked[c]
      BY <3>2, <3>5, <3>6
    <3> QED
      BY <3>1, <3>2, <3>4, <3>7, FitsJunk
  <2> QED
    BY <2>1, <2>2 DEF RepliesFollowRequests
<1> QED
  BY <1>1, <1>2, ReplyInit, PTL DEF Spec

(* -------------------------------- custody ---------------------------------------- *)

\* What Custody is told of a descriptor, as WebServer gives it
Object(fd) == <<conn[fd], sockfd[fd], inbuf[fd], reply[fd], linger[fd]>>
Custodial == [OneShot!CustodyNext]_(OneShot!custodyVars)

LEMMA GivenIs == /\ Given[Main] = MainHas
                 /\ \A w \in Workers : Given[w] = {running[w]} \cap Fds
BY Constants DEF Given, Threads

\* A step of main, which no worker sees
LEMMA MainMoves ==
  ASSUME \/ pc'[Main] # pc[Main] \/ mfd' # mfd \/ batch' # batch,
         \A w \in Workers : pc'[w] = pc[w], running' = running
  PROVE  OneShot!Moves(Main)
<1>1. Whereabouts'[Main] # Whereabouts[Main]
  BY Constants DEF Whereabouts
<1>2. \A u \in Workers : Whereabouts'[u] = Whereabouts[u]
  BY Constants DEF Whereabouts
<1> QED
  BY <1>1, <1>2, Constants DEF OneShot!Moves, OneShot!Threads, Threads

LEMMA WorkerMoves ==
  ASSUME NEW w \in Workers, \/ pc'[w] # pc[w] \/ running'[w] # running[w],
         \A t \in Threads \ {w} : pc'[t] = pc[t],
         \A v \in Workers \ {w} : running'[v] = running[v], mfd' = mfd, batch' = batch
  PROVE  OneShot!Moves(w)
<1>1. Whereabouts'[w] # Whereabouts[w]
  BY Constants DEF Whereabouts
<1>2. \A u \in Threads \ {w} : Whereabouts'[u] = Whereabouts[u]
  BY Constants DEF Whereabouts, Threads
<1> QED
  BY <1>1, <1>2, Constants DEF OneShot!Moves, OneShot!Threads, Threads

\* Objects that a step leaves alone
LEMMA ChangesOnly ==
  ASSUME NEW X, \A fd \in Fds \ X : Object(fd)' = Object(fd)
  PROVE  OneShot!Changes(X)
BY DEF OneShot!Changes, Object

\* A refused connection stays refused until somebody closes it, and nobody will.
LEMMA LostKept ==
  ASSUME NEW fd, refused' = refused, \A f \in Fds \ {fd} : conn'[f] = conn[f],
         conn[fd] \notin refused, conn'[fd] \in {conn[fd], NoConn}
  PROVE  LostFds' = LostFds
BY DEF LostFds, OpenFds

\* Custody counts as this module does.
LEMMA SameCount == ASSUME NEW S PROVE OneShot!Cardinality(S) = Cardinality(S)
BY DEF OneShot!Cardinality, Cardinality

LEMMA PoolSame ==
  ASSUME UNCHANGED <<interest, queue>>, MainHas' = MainHas
  PROVE  Watched' = Watched /\ Entries' = Entries
BY DEF Watched, Entries

LEMMA LostSame == ASSUME UNCHANGED <<conn, refused>> PROVE LostFds' = LostFds
BY DEF LostFds, OpenFds

LEMMA GivenMain ==
  ASSUME running' = running PROVE Given' = [Given EXCEPT ![Main] = MainHas']
BY Constants DEF Given

LEMMA GivenWorker ==
  ASSUME NEW w \in Workers, NEW fd, running' = [running EXCEPT ![w] = fd], PoolTypes,
         MainHas' = MainHas
  PROVE  Given' = [Given EXCEPT ![w] = {fd} \cap Fds]
<1>1. \A t \in Threads : Given'[t] = IF t = w THEN {fd} \cap Fds ELSE Given[t]
  BY Constants DEF Given, PoolTypes, Threads
<1> QED
  BY <1>1 DEF Given

\* Main works on what it has, or on nothing.
LEMMA MainWorks ==
  ASSUME NEW fd \in MainHas, MainHas' = MainHas, UNCHANGED poolVars,
         \A f \in Fds \ {fd} : Object(f)' = Object(f) /\ interest'[f] = interest[f],
         conn'[fd] \in {conn[fd], NoConn}, conn[fd] \notin refused,
         OneShot!Moves(Main)
  PROVE  Custodial
<1>1. OneShot!Changes({fd}) /\ Given' = Given /\ Entries' = Entries /\ fd \in Fds
  BY ChangesOnly DEF poolVars, Given, Entries, MainHas
<1>2. Watched' = Watched
  <2>1. \A f \in Fds : f \notin MainHas => interest'[f] = interest[f]
    OBVIOUS
  <2> QED
    BY <2>1 DEF Watched
<1>3. OpenFds' \in {OpenFds, OpenFds \ {fd}}
  <2>1. \A f \in Fds \ {fd} : conn'[f] = conn[f]
    BY DEF Object
  <2> QED
    BY <2>1 DEF OpenFds
<1>4. LostFds' = LostFds
  <2>1. \A f \in Fds \ {fd} : conn'[f] = conn[f]
    BY DEF Object
  <2> QED
    BY <2>1, LostKept DEF poolVars
<1>5. OneShot!Work(Main, fd)
  BY <1>1, <1>2, <1>3, <1>4, GivenIs DEF OneShot!Work
<1> QED
  BY <1>1, <1>5, Constants DEF Custodial, OneShot!CustodyNext, OneShot!ThreadStep, OneShot!Threads

LEMMA MainRests ==
  ASSUME MainHas' = MainHas, UNCHANGED <<conn, interest, objectVars, poolVars>>, OneShot!Moves(Main)
  PROVE  Custodial
<1>1. OneShot!Changes({}) /\ Given' = Given
  BY ChangesOnly DEF poolVars, objectVars, Given, Object
<1>2. OneShot!Rest
  BY <1>1, LostSame, PoolSame DEF OneShot!Rest, poolVars, OpenFds
<1> QED
  BY <1>2 DEF Custodial, OneShot!CustodyNext, OneShot!ThreadStep, OneShot!Threads

\* A step of main that takes fd from what main has
LEMMA MainHands ==
  ASSUME NEW fd \in MainHas, MainHas' = MainHas \ {fd}, UNCHANGED <<running, refused>>,
         \A f \in Fds \ {fd} : Object(f)' = Object(f) /\ interest'[f] = interest[f],
         OneShot!Moves(Main),
         \/ queue' = queue /\ Armed(fd)' /\ conn[fd] # NoConn /\ conn' = conn
         \/ queue' = queue /\ ~ Armed(fd)' /\ conn'[fd] = NoConn /\ conn[fd] \notin refused
         \/ /\ Entries' = Entries \cup {fd} /\ Cardinality(Entries) < MaxRequests + 1
            /\ ~ Armed(fd)' /\ UNCHANGED <<conn, objectVars>>
  PROVE  Custodial
<1>1. OneShot!Changes({fd}) /\ fd \in Fds
  BY ChangesOnly DEF MainHas
<1>2. Given' = [Given EXCEPT ![Main] = Given[Main] \ {fd}] /\ fd \in Given[Main]
  BY GivenMain, GivenIs
<1>3. /\ Armed(fd)' => Watched' = Watched \cup {fd}
      /\ ~ Armed(fd)' => Watched' = Watched
  <2>1. \A f \in Fds \ {fd} : f \in Watched' <=> f \in Watched
    BY DEF Watched
  <2> QED
    BY <1>1, <2>1 DEF Watched, Armed
<1>4. (\A f \in Fds \ {fd} : conn'[f] = conn[f]) /\ (queue' = queue => Entries' = Entries)
  BY DEF Object, Entries
<1>5. CASE queue' = queue /\ Armed(fd)' /\ conn[fd] # NoConn /\ conn' = conn
  <2>1. OneShot!Rearm(Main, fd)
    BY <1>1, <1>2, <1>3, <1>4, <1>5, LostSame DEF OneShot!Rearm, OpenFds
  <2> QED
    BY <1>1, <2>1 DEF Custodial, OneShot!CustodyNext, OneShot!ThreadStep, OneShot!Threads
<1>6. CASE queue' = queue /\ ~ Armed(fd)' /\ conn'[fd] = NoConn /\ conn[fd] \notin refused
  <2>1. OpenFds' = OpenFds \ {fd} /\ LostFds' = LostFds
    BY <1>4, <1>6, LostKept DEF OpenFds
  <2>2. OneShot!LetGo(Main, fd)
    BY <1>1, <1>2, <1>3, <1>4, <1>6, <2>1 DEF OneShot!LetGo
  <2> QED
    BY <1>1, <2>2 DEF Custodial, OneShot!CustodyNext, OneShot!ThreadStep, OneShot!Threads
<1>7. CASE /\ Entries' = Entries \cup {fd} /\ Cardinality(Entries) < MaxRequests + 1
           /\ ~ Armed(fd)' /\ UNCHANGED <<conn, objectVars>>
  <2>1. OneShot!Changes({})
    BY <1>7, ChangesOnly DEF Object, objectVars
  <2>2. OneShot!Enqueue(fd)
    BY <1>2, <1>3, <1>7, <2>1, LostSame, SameCount DEF OneShot!Enqueue, OpenFds
  <2> QED
    BY <1>1, <2>2 DEF Custodial, OneShot!CustodyNext, OneShot!MainStep
<1> QED
  BY <1>5, <1>6, <1>7

\* A worker changes the object it has, or nothing.
LEMMA WorkerWorks ==
  ASSUME PoolTypes, NEW w \in Workers, NEW fd \in Fds, running[w] = fd,
         UNCHANGED <<conn, interest, sockfd, poolVars, batch, mfd>>,
         \A f \in Fds \ {fd} : Object(f)' = Object(f),
         OneShot!Moves(w)
  PROVE  Custodial
<1>1. OneShot!Changes({fd})
  BY ChangesOnly
<1>2. MainHas' = MainHas /\ Given' = Given /\ OpenFds' = OpenFds
  BY DEF MainHas, Given, poolVars, OpenFds
<1>3. fd \in Given[w] /\ w \in OneShot!Threads
  BY GivenIs DEF OneShot!Threads
<1>4. OneShot!Work(w, fd)
  BY <1>1, <1>2, <1>3, LostSame, PoolSame DEF OneShot!Work, poolVars
<1> QED
  BY <1>3, <1>4 DEF Custodial, OneShot!CustodyNext, OneShot!ThreadStep, OneShot!Threads

\* The MOD of process()
LEMMA WorkerRearms ==
  ASSUME Types, Handed, NEW w \in Workers, NEW place, NEW ev \in {"in", "out"},
         place # "loop", Rearm(w, place, ev), NEW fd, running[w] = fd
  PROVE  Custodial
<1>1. fd \in Fds /\ PoolTypes
  BY DEF Rearm, Types, Places
<1>2. Claimed(fd) /\ Registered
  BY <1>1 DEF Handed
<1>3. Pooled(fd)
  BY DEF Pooled
<1>4. conn[fd] # NoConn /\ ~ Armed(fd) /\ ~ Reported(fd) /\ mfd # fd
  BY <1>2, <1>3 DEF Claimed
<1>5. sockfd[fd] = fd /\ interest[fd] # "none"
  BY <1>1, <1>2, <1>4 DEF Registered
<1>6. /\ interest'[fd] = ev /\ \A f \in Fds : f # fd => interest'[f] = interest[f]
  BY <1>1, <1>5, ModTypes DEF Rearm
<1>7. /\ UNCHANGED <<conn, objectVars, mfd, batch, queue, refused>> /\ pc' = [pc EXCEPT ![w] = "loop"]
      /\ running' = [running EXCEPT ![w] = NoFd]
  BY DEF Rearm, Goto, Pool!Finish
<1>8. OneShot!Moves(w)
  <2>1. pc'[w] # pc[w] /\ \A t \in Threads \ {w} : pc'[t] = pc[t]
    BY <1>7, Constants DEF Rearm, Types, LoopTypes
  <2>2. \A v \in Workers \ {w} : running'[v] = running[v]
    BY <1>1, <1>7 DEF PoolTypes
  <2> QED
    BY <1>7, <2>1, <2>2, WorkerMoves
<1>9. OneShot!Changes({fd})
  <2>1. \A f \in Fds \ {fd} : Object(f)' = Object(f)
    BY <1>7 DEF Object, objectVars
  <2> QED
    BY <2>1, ChangesOnly
<1>10. MainHas' = MainHas /\ fd \notin MainHas
  BY <1>4, <1>7 DEF MainHas, Reported
<1>11. Given' = [Given EXCEPT ![w] = Given[w] \ {fd}] /\ fd \in Given[w]
  <2>1. Given' = [Given EXCEPT ![w] = {NoFd} \cap Fds]
    BY <1>1, <1>7, <1>10, GivenWorker
  <2>2. {NoFd} \cap Fds = Given[w] \ {fd} /\ fd \in Given[w]
    BY <1>1, GivenIs, Constants
  <2> QED
    BY <2>1, <2>2
<1>12. Watched' = Watched \cup {fd}
  BY <1>1, <1>6, <1>10 DEF Watched
<1>13. OneShot!Rearm(w, fd)
  BY <1>1, <1>4, <1>7, <1>9, <1>11, <1>12, LostSame DEF OneShot!Rearm, OpenFds, Entries
<1>14. w \in OneShot!Threads
  BY DEF OneShot!Threads
<1> QED
  BY <1>1, <1>8, <1>13, <1>14
  DEF Custodial, OneShot!CustodyNext, OneShot!ThreadStep, OneShot!Threads

LEMMA WorkerTakes ==
  ASSUME Types, Handed, NEW w \in Workers, Take(w), NEW fd, fd = Head(queue)
  PROVE  Custodial
<1>1. /\ queue \in Seq(Fds) /\ queue # <<>> /\ queue' = Tail(queue) /\ running[w] = NoFd
      /\ running' = [running EXCEPT ![w] = fd] /\ PoolTypes
      /\ UNCHANGED <<conn, interest, objectVars, batch, mfd, pc, refused>>
  BY DEF Take, Pool!Take, Types, PoolTypes, kernelVars
<1>2. fd \in Fds /\ fd = queue[1] /\ 1 \in 1 .. Len(queue) /\ Len(queue) \in Nat
  BY <1>1
<1>3. Entries' = Entries \ {fd} /\ fd \in Entries
  <2>1. DOMAIN queue' = 1 .. Len(queue) - 1 /\ \A k \in DOMAIN queue' : queue'[k] = queue[k + 1]
    BY <1>1, <1>2
  <2>2. \A k \in 1 .. Len(queue) : queue[k] = fd => k = 1
    BY <1>2 DEF Handed, Claimed
  <2>3. DOMAIN queue = 1 .. Len(queue)
    BY <1>1
  <2>4. ASSUME NEW f \in Entries' PROVE f \in Entries \ {fd}
    <3>1. PICK k \in DOMAIN queue' : f = queue'[k]
      BY <2>4 DEF Entries
    <3>2. k + 1 \in 1 .. Len(queue) /\ f = queue[k + 1] /\ k + 1 # 1
      BY <1>2, <2>1, <3>1
    <3> QED
      BY <2>2, <2>3, <3>2 DEF Entries
  <2>5. ASSUME NEW f \in Entries \ {fd} PROVE f \in Entries'
    <3>1. PICK k \in 1 .. Len(queue) : f = queue[k]
      BY <2>3 DEF Entries
    <3>2. k # 1
      BY <1>2, <2>5, <3>1
    <3>3. k - 1 \in DOMAIN queue' /\ f = queue'[k - 1]
      BY <1>2, <2>1, <3>1, <3>2
    <3> QED
      BY <3>3 DEF Entries
  <2> QED
    BY <1>2, <2>3, <2>4, <2>5 DEF Entries
<1>4. OneShot!Moves(w)
  <2>1. running'[w] # running[w] /\ \A v \in Workers \ {w} : running'[v] = running[v]
    BY <1>1, <1>2, Constants DEF PoolTypes
  <2> QED
    BY <1>1, <2>1, WorkerMoves
<1>5. MainHas' = MainHas /\ OneShot!Changes({})
  BY <1>1, ChangesOnly DEF MainHas, Object, objectVars
<1>6. Given' = [Given EXCEPT ![w] = {fd}] /\ Given[w] = {}
  <2>1. Given' = [Given EXCEPT ![w] = {fd} \cap Fds]
    BY <1>1, <1>5, GivenWorker
  <2>2. {fd} \cap Fds = {fd}
    BY <1>2
  <2>3. Given[w] = {NoFd} \cap Fds /\ NoFd \notin Fds
    BY <1>1, GivenIs, Constants
  <2> QED
    BY <2>1, <2>2, <2>3
<1>7. OneShot!Fetch(w, fd)
  BY <1>1, <1>3, <1>5, <1>6, LostSame DEF OneShot!Fetch, OpenFds, Watched
<1>8. \E x \in Fds : OneShot!Fetch(w, x)
  BY <1>2, <1>7
<1> QED
  BY <1>4, <1>8 DEF Custodial, OneShot!CustodyNext

LEMMA CustodyWorker ==
  ASSUME OnlyMainCloses, Types, Handed, NEW w \in Workers, Take(w) \/ WorkerStep(w)
  PROVE  Custodial
<1>1. pc[w] \in WorkerPlaces /\ (Parsing(w) => running[w] \in Fds) /\ PoolTypes
  BY DEF Handed, MainPlace, Types, PoolTypes, Parsing
<1>2. CASE Take(w)
  BY <1>2, WorkerTakes
<1>3. CASE CloseStep(w)
  BY <1>1, <1>3 DEF CloseStep, CloseNothing, RemoveFd, Forget, DecLoad, DecStore, WorkerPlaces
<1>4. CASE ArmIn(w) \/ ArmOut(w)
  BY <1>4, WorkerRearms DEF ArmIn, ArmOut
<1>5. CASE ProcessUnfinished(w) \/ ProcessMalformed(w) \/ ProcessComplete(w)
  <2>1. /\ Parsing(w) /\ UNCHANGED <<conn, interest, sockfd, inbuf, poolVars, batch, mfd>>
        /\ \E l \in {"armin", "armout"} : pc' = [pc EXCEPT ![w] = l]
    <3>1. ASSUME ProcessComplete(w) PROVE \E l \in {"armin", "armout"} : pc' = [pc EXCEPT ![w] = l]
      BY <3>1, ServerAssumption DEF ProcessComplete, Goto, OnlyMainCloses, ServerAssumption
    <3> QED
      BY <1>5, <3>1
      DEF ProcessUnfinished, ProcessMalformed, ProcessComplete, Goto, kernelVars, objectVars
  <2>2. \A f \in Fds \ {running[w]} : Object(f)' = Object(f)
    BY <1>5, <2>1 DEF ProcessUnfinished, ProcessMalformed, ProcessComplete, Object, objectVars,
       Types, ObjectTypes
  <2>3. OneShot!Moves(w)
    <3>1. pc'[w] # pc[w] /\ \A t \in Threads \ {w} : pc'[t] = pc[t]
      BY <2>1, Constants DEF Parsing, Types, LoopTypes
    <3> QED
      BY <2>1, <3>1, WorkerMoves DEF poolVars
  <2>4. running[w] \in Fds
    BY <1>1, <2>1
  <2> QED
    BY <1>1, <2>1, <2>2, <2>3, <2>4, WorkerWorks
<1> QED
  BY <1>2, <1>3, <1>4, <1>5 DEF WorkerStep

LEMMA CustodyKept ==
  ASSUME UNCHANGED <<conn, interest, objectVars, batch, mfd, pc, poolVars>>
  PROVE  Custodial
<1>1. /\ OpenFds' = OpenFds /\ Watched' = Watched /\ Entries' = Entries /\ Given' = Given
      /\ Whereabouts' = Whereabouts /\ LostFds' = LostFds
      /\ [fd \in Fds |-> <<conn[fd], sockfd[fd], inbuf[fd], reply[fd], linger[fd]>>]'
         = [fd \in Fds |-> <<conn[fd], sockfd[fd], inbuf[fd], reply[fd], linger[fd]>>]
  BY LostSame DEF OpenFds, Watched, MainHas, Entries, Given, Whereabouts, objectVars, poolVars
<1> QED
  BY <1>1 DEF Custodial, OneShot!custodyVars

LEMMA CustodyClient == ASSUME NEW c \in Conns, ClientStep(c) PROVE Custodial
<1>1. UNCHANGED <<conn, interest, objectVars, batch, mfd, pc, poolVars>>
  BY DEF ClientStep, Connect, Request, Deliver, Hangup, Drain, kernelVars
<1> QED
  BY <1>1, CustodyKept

\* What epoll reports was watched and is main's.
LEMMA CustodyWait == Types /\ EpollWait => Custodial
<1> SUFFICES ASSUME Types, EpollWait PROVE Custodial
  OBVIOUS
<1>1. /\ pc[Main] = "loop" /\ batch = {} /\ batch' = ConnEvents \cup ListenEvents /\ batch' # {}
      /\ interest' = Disarmed /\ UNCHANGED <<conn, objectVars, mfd, pc, poolVars>>
  BY DEF EpollWait
<1>2. mfd \notin Fds /\ MainHas = {}
  BY <1>1 DEF Types, Places, ClosePlaces, MainHas
<1>3. \A fd \in Fds : Reported(fd)' <=> IsReady(fd)
  <2>1. \A e \in ConnEvents : \E fd \in Fds : e.fd = fd /\ IsReady(fd)
    BY DEF ConnEvents
  <2>2. \A e \in ListenEvents : e.fd = ListenFd
    BY DEF ListenEvents
  <2>3. ASSUME NEW fd \in Fds, IsReady(fd) PROVE \E e \in ConnEvents : e.fd = fd
    <3> DEFINE x == [fd |-> fd, ev |-> IF hung[conn[fd]] THEN "hup" ELSE interest[fd]]
    <3>1. x \in ConnEvents
      BY <2>3 DEF ConnEvents
    <3> QED
      BY <3>1
  <2> QED
    BY <1>1, <2>1, <2>2, <2>3, Constants DEF Reported
<1>4. MainHas' = {fd \in Fds : IsReady(fd)}
  BY <1>1, <1>2, <1>3 DEF MainHas, Reported
<1>5. /\ \A fd \in Fds : fd \in Watched <=> Armed(fd)
      /\ \A fd \in Fds : fd \in Watched' <=> Armed(fd) /\ ~ IsReady(fd)
      /\ \A fd \in Fds : IsReady(fd) => Armed(fd)
  BY <1>1, <1>2, <1>4 DEF Watched, Armed, Disarmed, IsReady
<1>6. Watched' \subseteq Watched /\ MainHas' = Watched \ Watched'
  BY <1>4, <1>5 DEF Watched
<1>7. Given' = [Given EXCEPT ![Main] = Given[Main] \cup (Watched \ Watched')]
  BY <1>1, <1>2, <1>6, GivenMain, GivenIs DEF poolVars
<1>8. OneShot!Changes({})
  <2>1. \A f \in Fds \ {} : Object(f)' = Object(f)
    BY <1>1 DEF Object, objectVars
  <2> QED
    BY <2>1, ChangesOnly
<1>9. OneShot!Report
  BY <1>1, <1>6, <1>7, <1>8, LostSame DEF OneShot!Report, OpenFds, poolVars, Entries
<1>10. OneShot!Moves(Main)
  BY <1>1, MainMoves DEF poolVars
<1> QED
  BY <1>9, <1>10 DEF Custodial, OneShot!CustodyNext, OneShot!MainStep

\* A descriptor that accept hands out is nobody's.
LEMMA CustodyListen == Types /\ Wired /\ Handed /\ ListenStep => Custodial
<1> SUFFICES ASSUME Types, Wired, Handed, ListenStep PROVE Custodial
  OBVIOUS
<1>1. CASE IncLoad \/ IncStore
  <2>1. /\ UNCHANGED <<conn, interest, objectVars, batch, mfd, poolVars>>
        /\ \E l \in {"incstore", "loop"} : l # pc[Main] /\ pc' = [pc EXCEPT ![Main] = l]
    BY <1>1 DEF IncLoad, IncStore, Goto, kernelVars
  <2>2. pc'[Main] # pc[Main] /\ \A w \in Workers : pc'[w] = pc[w]
    BY <2>1, Constants DEF Types, LoopTypes
  <2>3. OneShot!Moves(Main) /\ MainHas' = MainHas
    BY <2>1, <2>2, MainMoves DEF poolVars, MainHas
  <2> QED
    BY <2>1, <2>3, MainRests
<1>2. CASE AcceptFails \/ ShowError \/ InitConn
  <2>1. PICK e \in batch : e.ev = "listen" /\ Dispatch(e)
    BY <1>2 DEF AcceptFails, ShowError, InitConn
  <2>2. /\ batch' = batch \ {e} /\ e.fd \notin Fds /\ mfd = NoFd /\ Head(backlog) \in Conns
    BY <2>1, Dispatched, Constants DEF Types, Places
  <2>3. mfd' = mfd /\ UNCHANGED poolVars /\ \A w \in Workers : pc'[w] = pc[w]
    BY <1>2, Constants DEF AcceptFails, ShowError, InitConn, Goto, Types, LoopTypes
  <2>4. MainHas' = MainHas /\ OneShot!Moves(Main)
    <3>1. \A fd \in Fds : (\E f \in batch' : f.fd = fd) <=> (\E f \in batch : f.fd = fd)
      BY <2>2
    <3>2. MainHas' = MainHas
      BY <2>3, <3>1 DEF MainHas
    <3>3. batch' # batch
      BY <2>2
    <3> QED
      BY <2>3, <3>2, <3>3, MainMoves DEF poolVars
  <2>5. CASE AcceptFails \/ ShowError
    <3>1. UNCHANGED <<conn, interest, objectVars>>
      BY <2>5 DEF AcceptFails, ShowError, kernelVars
    <3> QED
      BY <2>3, <2>4, <3>1, MainRests
  <2>6. CASE InitConn
    <3>1. PICK fd : fd = NewFd
      OBVIOUS
    <3>2. fd \in Fds /\ conn[fd] = NoConn
      BY <2>6, <3>1, FreeFd DEF InitConn
    <3>3. /\ conn' = [conn EXCEPT ![fd] = Head(backlog)] /\ interest' = [interest EXCEPT ![fd] = "in"]
          /\ sockfd' = [sockfd EXCEPT ![fd] = fd] /\ inbuf' = [inbuf EXCEPT ![fd] = <<>>]
          /\ reply' = [reply EXCEPT ![fd] = NoConn] /\ linger' = [linger EXCEPT ![fd] = FALSE]
      BY <2>6, <3>1 DEF InitConn, Reset
    <3>4. /\ Claimed(fd) /\ ~ Armed(fd) /\ ~ Reported(fd) /\ ~ Pooled(fd) /\ mfd # fd
      BY <2>2, <3>2, Constants DEF Handed, Claimed
    <3>5. fd \notin OpenFds \cup (Watched \cup Entries \cup UNION {Given[t] : t \in Threads})
      <4>1. fd \notin MainHas
        BY <3>4 DEF MainHas, Reported
      <4>2. \A t \in Threads : fd \notin Given[t]
        BY <3>4, <4>1, GivenIs DEF Threads, Pooled
      <4>3. fd \notin Entries
        <5>1. DOMAIN queue = 1 .. Len(queue)
          BY DEF Types, PoolTypes
        <5> QED
          BY <3>4, <5>1 DEF Entries, Pooled
      <4> QED
        BY <3>2, <3>4, <4>2, <4>3 DEF OpenFds, Watched, Armed
    <3>6. /\ OpenFds' = OpenFds \cup {fd} /\ Watched' = Watched \cup {fd}
          /\ Entries' = Entries /\ Given' = Given
      <4>1. Head(backlog) # NoConn
        BY <2>2, Constants
      <4>2. OpenFds' = OpenFds \cup {fd}
        BY <3>2, <3>3, <4>1 DEF OpenFds, Types, KernelTypes
      <4>3. fd \notin MainHas
        BY <3>4 DEF MainHas, Reported
      <4>4. Watched' = Watched \cup {fd}
        BY <2>4, <3>2, <3>3, <4>3 DEF Watched, Types, KernelTypes
      <4> QED
        BY <2>3, <2>4, <4>2, <4>4 DEF Entries, Given, poolVars
    <3>7. OneShot!Changes({fd})
      <4>1. \A f \in Fds \ {fd} : Object(f)' = Object(f)
        BY <3>3 DEF Object, Types, KernelTypes, ObjectTypes
      <4> QED
        BY <4>1, ChangesOnly
    <3>8. LostFds' = LostFds
      <4>1. PICK b \in 1 .. Len(backlog) : b = 1 /\ Head(backlog) = backlog[b]
        BY <2>1 DEF Types, KernelTypes, Places
      <4>2. Head(backlog) \notin refused
        BY <4>1 DEF Wired
      <4>3. refused' = refused /\ NoConn \notin refused
        BY <2>3, Constants DEF poolVars, Types, PoolTypes
      <4> QED
        BY <3>2, <3>3, <4>2, <4>3 DEF LostFds, OpenFds, Types, KernelTypes
    <3>9. OneShot!Register(fd)
      BY <3>5, <3>6, <3>7, <3>8
      DEF OneShot!Register, OneShot!Kept, OneShot!Threads, Threads
    <3> QED
      BY <2>4, <3>2, <3>9 DEF Custodial, OneShot!CustodyNext, OneShot!MainStep
  <2> QED
    BY <1>2, <2>5, <2>6
<1> QED
  BY <1>1, <1>2 DEF ListenStep

LEMMA CustodyEvent ==
  ASSUME Types, Handed, NEW e \in batch, EventStep(e), NEW fd, fd = e.fd PROVE Custodial
<1>1. Dispatch(e) /\ e.ev # "listen"
  BY DEF EventStep, HupEvent, Read, WriteNothing, WriteKeepAlive, WriteAndClose, WriteStalls,
         WriteFails, Writing
<1>2. batch' = batch \ {e} /\ batch' # batch /\ mfd = NoFd /\ fd \in Fds /\ mfd # fd
  BY <1>1, Dispatched, Constants
<1>3. /\ Claimed(fd) /\ Reported(fd) /\ ~ Armed(fd) /\ ~ Pooled(fd) /\ conn[fd] # NoConn
      /\ sockfd[fd] = fd /\ interest[fd] # "none" /\ fd \in MainHas /\ conn[fd] \notin refused
  BY <1>2 DEF Handed, Reported, Claimed, Registered, MainHas
<1>4. /\ UNCHANGED <<conn, sockfd, poolVars>>
      /\ UNCHANGED pc \/ \E l : pc' = [pc EXCEPT ![Main] = l]
  BY DEF EventStep, HupEvent, Read, WriteNothing, WriteKeepAlive, WriteAndClose, WriteStalls,
         WriteFails, kernelVars, objectVars, Goto
<1>5. OneShot!Moves(Main)
  <2>1. \A w \in Workers : pc'[w] = pc[w]
    BY <1>4, Constants DEF Types, LoopTypes
  <2> QED
    BY <1>2, <1>4, <2>1, MainMoves DEF poolVars
<1>6. \A f \in Fds \ {fd} : Object(f)' = Object(f) /\ interest'[f] = interest[f]
  <2>1. interest' = interest \/ \E ev \in {"in", "out"} : ModFd(fd, ev)
    BY <1>3 DEF EventStep, HupEvent, Read, WriteNothing, WriteKeepAlive, WriteAndClose,
                WriteStalls, WriteFails, kernelVars
  <2>2. \A f \in Fds \ {fd} : interest'[f] = interest[f]
    BY <2>1, ModTypes
  <2>3. \A f \in Fds \ {fd} : inbuf'[f] = inbuf[f] /\ reply'[f] = reply[f] /\ linger'[f] = linger[f]
    BY DEF EventStep, HupEvent, Read, WriteNothing, WriteKeepAlive, WriteAndClose, WriteStalls,
           WriteFails, Reset, objectVars, Types, ObjectTypes
  <2> QED
    BY <1>4, <2>2, <2>3 DEF Object
<1>7. ~ Reported(fd)' /\ \A f \in Fds \ {fd} : Reported(f)' <=> Reported(f)
  BY <1>2, <1>3 DEF Claimed, Reported
<1>8. \/ mfd' = fd
      \/ UNCHANGED mfd /\ \E ev \in {"in", "out"} : ModFd(fd, ev)
  BY <1>3 DEF EventStep, HupEvent, Read, WriteNothing, WriteKeepAlive, WriteAndClose, WriteStalls,
              WriteFails
<1>9. CASE mfd' = fd
  <2>1. MainHas' = MainHas
    BY <1>2, <1>3, <1>7, <1>9, Constants DEF MainHas, Reported
  <2> QED
    BY <1>3, <1>4, <1>5, <1>6, <2>1, MainWorks
<1>10. CASE UNCHANGED mfd /\ \E ev \in {"in", "out"} : ModFd(fd, ev)
  <2>1. MainHas' = MainHas \ {fd}
    BY <1>2, <1>7, <1>10, Constants DEF MainHas, Reported
  <2>2. Armed(fd)'
    BY <1>2, <1>3, <1>10, ModTypes DEF Armed
  <2> QED
    BY <1>3, <1>4, <1>5, <1>6, <2>1, <2>2, MainHands DEF poolVars
<1> QED
  BY <1>8, <1>9, <1>10

LEMMA CustodyAppend == Types /\ Handed /\ AppendAccepted => Custodial
<1> SUFFICES ASSUME Types, Handed, AppendAccepted PROVE Custodial
  OBVIOUS
<1>1. /\ pc[Main] = "append" /\ pc' = [pc EXCEPT ![Main] = "loop"] /\ mfd' = NoFd
      /\ queue' = Append(queue, mfd) /\ Len(queue) < MaxRequests + 1
      /\ UNCHANGED <<conn, interest, objectVars, batch, running, refused>>
  BY DEF AppendAccepted, Pool!Submit, Goto, kernelVars
<1>2. PICK fd \in Fds : fd = mfd
  BY <1>1 DEF Types, Places
<1>3. ~ Armed(fd) /\ ~ Reported(fd) /\ fd \in MainHas
  BY <1>1, <1>2 DEF Handed, MainPlace, Claimed, MainHas
<1>4. MainHas' = MainHas \ {fd}
  BY <1>1, <1>2, <1>3, Constants DEF MainHas, Reported
<1>5. Entries' = Entries \cup {fd}
  <2>1. queue \in Seq(Fds) /\ Len(queue) \in Nat
    BY DEF Types, PoolTypes
  <2>2. /\ DOMAIN queue' = DOMAIN queue \cup {Len(queue) + 1} /\ queue'[Len(queue) + 1] = fd
        /\ \A k \in DOMAIN queue : queue'[k] = queue[k]
    BY <1>1, <1>2, <2>1
  <2> QED
    BY <2>2 DEF Entries
<1>6. OneShot!Moves(Main)
  <2>1. pc'[Main] # pc[Main] /\ \A w \in Workers : pc'[w] = pc[w]
    BY <1>1, Constants DEF Types, LoopTypes
  <2> QED
    BY <1>1, <2>1, MainMoves
<1>7. /\ \A f \in Fds \ {fd} : Object(f)' = Object(f) /\ interest'[f] = interest[f]
      /\ ~ Armed(fd)'
  BY <1>1, <1>3 DEF Object, objectVars, Armed
<1>8. Cardinality(Entries) < MaxRequests + 1
  BY <1>1, QueueCounted DEF Entries
<1> QED
  BY <1>1, <1>3, <1>4, <1>5, <1>6, <1>7, <1>8, MainHands

\* main lets go of what a full queue refuses, and it is nobody's.
LEMMA CustodyRefused == Types /\ Wired /\ Handed /\ AppendRefused => Custodial
<1> SUFFICES ASSUME Types, Wired, Handed, AppendRefused PROVE Custodial
  OBVIOUS
<1>1. /\ pc[Main] = "append" /\ pc' = [pc EXCEPT ![Main] = "loop"] /\ mfd' = NoFd
      /\ Len(queue) > MaxRequests /\ refused' = refused \cup ({conn[mfd]} \cap Conns)
      /\ UNCHANGED <<conn, interest, objectVars, batch, queue, running>>
  BY DEF AppendRefused, Goto, kernelVars
<1>2. PICK fd \in Fds : fd = mfd
  BY <1>1 DEF Types, Places
<1>3. /\ conn[fd] \in Conns /\ conn[fd] # NoConn /\ ~ Armed(fd) /\ ~ Reported(fd)
      /\ fd \in MainHas
  BY <1>1, <1>2 DEF Handed, MainPlace, Claimed, MainHas, Types, KernelTypes
<1>4. MainHas' = MainHas \ {fd}
  BY <1>1, <1>2, <1>3, Constants DEF MainHas, Reported
<1>5. Given' = [Given EXCEPT ![Main] = Given[Main] \ {fd}] /\ fd \in Given[Main]
  BY <1>1, <1>3, <1>4, GivenMain, GivenIs
<1>6. Watched' = Watched /\ OpenFds' = OpenFds /\ fd \in OpenFds
  BY <1>1, <1>3, <1>4 DEF Watched, OpenFds, Armed
<1>7. LostFds' = LostFds \cup {fd}
  <2>1. \A f \in OpenFds : conn[f] = conn[fd] <=> f = fd
    BY <1>3 DEF Wired, OpenFds
  <2>2. \A f \in OpenFds : conn'[f] \in refused' <=> conn[f] \in refused \/ f = fd
    BY <1>1, <1>2, <1>3, <2>1
  <2> QED
    BY <1>6, <2>2 DEF LostFds
<1>8. Cardinality(Entries) >= MaxRequests + 1
  <2>1. Len(queue) \in Nat /\ MaxRequests \in Nat
    BY Constants DEF Types, PoolTypes
  <2> QED
    BY <1>1, <2>1, QueueCounted DEF Entries
<1>9. OneShot!Moves(Main) /\ OneShot!Changes({})
  <2>1. pc'[Main] # pc[Main] /\ \A w \in Workers : pc'[w] = pc[w]
    BY <1>1, Constants DEF Types, LoopTypes
  <2>2. \A f \in Fds \ {} : Object(f)' = Object(f)
    BY <1>1 DEF Object, objectVars
  <2> QED
    BY <1>1, <2>1, <2>2, MainMoves, ChangesOnly
<1>10. OneShot!Abandon(fd)
  BY <1>1, <1>5, <1>6, <1>7, <1>8, <1>9, SameCount DEF OneShot!Abandon, Entries
<1> QED
  BY <1>9, <1>10 DEF Custodial, OneShot!CustodyNext, OneShot!MainStep

\* main lets go of what it has closed.
LEMMA CustodyClose == Types /\ Handed /\ CloseStep(Main) => Custodial
<1> SUFFICES ASSUME Types, Handed, CloseStep(Main) PROVE Custodial
  OBVIOUS
<1>1. PICK fd \in Fds : fd = mfd /\ FdOf(Main) = fd
  <2>1. pc[Main] \in ClosePlaces
    BY DEF CloseStep, CloseNothing, RemoveFd, Forget, DecLoad, DecStore, ClosePlaces
  <2> QED
    BY <2>1 DEF Types, Places, FdOf
<1>2. /\ Claimed(fd) /\ ~ Reported(fd) /\ ~ Pooled(fd) /\ fd \in MainHas
      /\ conn[fd] \notin refused
  BY <1>1, Constants DEF Handed, Claimed, MainHas, Types, PoolTypes
<1>3. ~ CloseNothing(Main)
  BY <1>1, Constants DEF CloseNothing, Handed, MainPlace, Registered
<1>4. UNCHANGED <<batch, poolVars>> /\ \E l : l # pc[Main] /\ pc' = [pc EXCEPT ![Main] = l]
  BY <1>3 DEF CloseStep, RemoveFd, Forget, DecLoad, DecStore, AfterClose, Goto
<1>5. OneShot!Moves(Main)
  <2>1. pc'[Main] # pc[Main] /\ \A w \in Workers : pc'[w] = pc[w]
    BY <1>4, Constants DEF Types, LoopTypes
  <2> QED
    BY <1>4, <2>1, MainMoves DEF poolVars
<1>6. CASE RemoveFd(Main) \/ Forget(Main)
  <2>1. /\ \A f \in Fds \ {fd} : Object(f)' = Object(f) /\ interest'[f] = interest[f]
        /\ conn'[fd] \in {conn[fd], NoConn}
    BY <1>1, <1>6
    DEF RemoveFd, Forget, Object, objectVars, kernelVars, Types, KernelTypes, ObjectTypes
  <2>2. MainHas' = MainHas
    BY <1>4, <1>6 DEF RemoveFd, Forget, MainHas
  <2> QED
    BY <1>2, <1>4, <1>5, <2>1, <2>2, MainWorks
<1>7. CASE DecLoad(Main)
  <2>1. UNCHANGED <<conn, interest, objectVars>> /\ MainHas' = MainHas
    BY <1>4, <1>7 DEF DecLoad, kernelVars, MainHas
  <2> QED
    BY <1>4, <1>5, <2>1, MainRests
<1>8. CASE DecStore(Main)
  <2>1. UNCHANGED <<conn, interest, objectVars>> /\ mfd' = NoFd /\ conn[fd] = NoConn
    BY <1>1, <1>8 DEF DecStore, AfterClose, kernelVars, Handed, MainPlace
  <2>2. MainHas' = MainHas \ {fd}
    BY <1>1, <1>2, <1>4, <2>1, Constants DEF MainHas, Reported
  <2>3. /\ \A f \in Fds \ {fd} : Object(f)' = Object(f) /\ interest'[f] = interest[f]
        /\ ~ Armed(fd)'
    BY <1>2, <2>1 DEF Object, objectVars, Armed, Claimed
  <2> QED
    BY <1>2, <1>4, <1>5, <2>1, <2>2, <2>3, MainHands DEF poolVars
<1> QED
  BY <1>3, <1>6, <1>7, <1>8 DEF CloseStep

LEMMA CustodyNext ==
  Types /\ Wired /\ Handed /\ OnlyMainCloses /\ [Next]_vars => Custodial
<1> SUFFICES ASSUME Types, Wired, Handed, OnlyMainCloses, [Next]_vars PROVE Custodial
  OBVIOUS
<1>1. CASE UNCHANGED vars
  BY <1>1, CustodyKept DEF vars, kernelVars
<1>2. CASE \E c \in Conns : ClientStep(c)
  BY <1>2, CustodyClient
<1>3. CASE MainStep
  BY <1>3, CustodyWait, CustodyListen, CustodyEvent, CustodyAppend, CustodyRefused, CustodyClose
     DEF MainStep
<1>4. CASE \E w \in Workers : Take(w) \/ WorkerStep(w)
  BY <1>4, CustodyWorker
<1> QED
  BY <1>1, <1>2, <1>3, <1>4 DEF Next

LEMMA CustodyStarts == Init => OneShot!CustodyInit
<1> SUFFICES ASSUME Init PROVE OneShot!CustodyInit
  OBVIOUS
<1>1. OpenFds = {} /\ LostFds = {} /\ Watched = {} /\ Entries = {} /\ MainHas = {}
  BY Constants DEF Init, OpenFds, LostFds, Watched, Entries, MainHas, Pool!QueueInit
<1>2. \A t \in Threads : Given[t] = {}
  BY <1>1, GivenIs, Constants DEF Init, Threads, Pool!QueueInit
<1> QED
  BY <1>1, <1>2 DEF OneShot!CustodyInit, OneShot!Threads, Threads, Given

\* EPOLLONESHOT as steps: a connection goes from epoll to main, to the queue, to a
\* worker and back, its object is changed only by the one who has it, accept hands a
\* descriptor out again when nobody has it any more, and the only way to be forgotten is
\* a full queue, whose answer main ignores (README 1.5; main.cpp:86-128,
\* threadpool.h:63-107, http_conn.cpp:34-75, 534-550), as long as main alone closes.
THEOREM ServerKeepsCustody ==
  ASSUME OnlyMainCloses PROVE Spec => ImplementsCustody
<1>1. ServerInv /\ [Next]_vars => Custodial
  BY CustodyNext DEF ServerInv
<1> QED
  BY <1>1, CustodyStarts, ServerInvHolds, PTL
  DEF Spec, ImplementsCustody, OneShot!CustodySpec, Custodial

\* What Custody's steps come to: two never have the same descriptor, and an open
\* connection is with somebody unless the queue refused it.
LEMMA ExclusiveStep ==
  OneShot!Exclusive /\ Custodial => OneShot!Exclusive'
<1> DEFINE open == OpenFds  queued == Entries  held == Given  lost == LostFds
           T == OneShot!Threads
<1> SUFFICES ASSUME OneShot!Exclusive, Custodial PROVE OneShot!Exclusive'
  OBVIOUS
<1>1. /\ open \subseteq Watched \cup queued \cup lost \cup UNION {held[t] : t \in T}
      /\ Watched \cap queued = {}
      /\ \A t \in T : held[t] \cap (Watched \cup queued) = {}
      /\ \A t, u \in T : t # u => held[t] \cap held[u] = {}
      /\ lost \subseteq open /\ lost \cap (Watched \cup queued) = {}
      /\ \A t \in T : lost \cap held[t] = {}
      /\ DOMAIN held = T /\ Main \in T /\ \A w \in Workers : w \in T
  <2>1. OneShot!Kept = Watched \cup queued \cup UNION {held[t] : t \in T}
    BY DEF OneShot!Kept
  <2>2. open \subseteq OneShot!Kept \cup lost /\ lost \subseteq open /\ lost \cap OneShot!Kept = {}
    BY DEF OneShot!Exclusive, OneShot!SomebodyHasIt, OneShot!NobodyElseHasIt
  <2>3. /\ Watched \cap queued = {}
        /\ \A t \in T : held[t] \cap (Watched \cup queued) = {}
        /\ \A t, u \in T : t # u => held[t] \cap held[u] = {}
    BY DEF OneShot!Exclusive, OneShot!NobodyElseHasIt
  <2>4. DOMAIN held = T /\ Main \in T /\ \A w \in Workers : w \in T
    BY DEF Given, OneShot!Threads, Threads
  <2> HIDE DEF open, queued, held, lost, T
  <2>5. \A t \in T : lost \cap held[t] = {}
    BY <2>1, <2>2
  <2> QED
    BY <2>1, <2>2, <2>3, <2>4, <2>5
<1>2. SUFFICES /\ open' \subseteq Watched' \cup queued' \cup lost' \cup UNION {held'[t] : t \in T}
               /\ Watched' \cap queued' = {}
               /\ \A t \in T : held'[t] \cap (Watched' \cup queued') = {}
               /\ \A t, u \in T : t # u => held'[t] \cap held'[u] = {}
               /\ lost' \subseteq open' /\ lost' \cap (Watched' \cup queued') = {}
               /\ \A t \in T : lost' \cap held'[t] = {}
  <2>1. OneShot!Kept' = Watched' \cup queued' \cup UNION {held'[t] : t \in T}
    BY DEF OneShot!Kept, OneShot!Threads
  <2>2. open' \subseteq OneShot!Kept' \cup lost' /\ lost' \subseteq open' \ OneShot!Kept'
    <3> HIDE DEF open, queued, held, lost, T
    <3> QED
      BY <1>2, <2>1
  <2> QED
    BY <1>2, <2>2
    DEF OneShot!Exclusive, OneShot!SomebodyHasIt, OneShot!NobodyElseHasIt, OneShot!Threads
<1>3. \/ lost' = lost /\ open' = open /\ Watched' = Watched /\ queued' = queued /\ held' = held
      \/ OneShot!Report
      \/ \E x \in Fds : OneShot!Register(x)
      \/ \E x \in Fds : OneShot!Enqueue(x)
      \/ \E x \in Fds : OneShot!Abandon(x)
      \/ \E w \in Workers, x \in Fds : OneShot!Fetch(w, x)
      \/ \E t \in T, x \in Fds : OneShot!Work(t, x)
      \/ \E t \in T, x \in Fds : OneShot!Rearm(t, x)
      \/ \E t \in T, x \in Fds : OneShot!LetGo(t, x)
  BY DEF Custodial, OneShot!CustodyNext, OneShot!MainStep, OneShot!ThreadStep, OneShot!Rest,
         OneShot!custodyVars
<1> HIDE DEF open, queued, held, lost, T
<1>4. CASE lost' = lost /\ open' = open /\ Watched' = Watched /\ queued' = queued /\ held' = held
  BY <1>1, <1>4
<1>5. CASE OneShot!Report
  <2>1. /\ Watched' \subseteq Watched /\ open' = open /\ queued' = queued /\ lost' = lost
        /\ held' = [held EXCEPT ![Main] = held[Main] \cup (Watched \ Watched')]
    BY <1>5 DEF OneShot!Report, open, queued, held, lost
  <2>2. /\ held'[Main] = held[Main] \cup (Watched \ Watched')
        /\ \A t \in T \ {Main} : held'[t] = held[t]
    BY <1>1, <2>1
  <2> QED
    BY <1>1, <2>1, <2>2
<1>6. CASE \E x \in Fds : OneShot!Register(x)
  <2>1. PICK x \in Fds :
          /\ x \notin open \cup Watched \cup queued \cup UNION {held[t] : t \in T}
          /\ open' = open \cup {x} /\ Watched' = Watched \cup {x}
          /\ queued' = queued /\ held' = held /\ lost' = lost
    BY <1>6 DEF OneShot!Register, OneShot!Kept, open, queued, held, lost, T
  <2> QED
    BY <1>1, <2>1
<1>7. CASE \E x \in Fds : OneShot!Enqueue(x)
  <2>1. PICK x \in Fds : /\ x \in held[Main] /\ queued' = queued \cup {x}
                         /\ held' = [held EXCEPT ![Main] = held[Main] \ {x}]
                         /\ open' = open /\ Watched' = Watched /\ lost' = lost
    BY <1>7 DEF OneShot!Enqueue, open, queued, held, lost
  <2>2. held'[Main] = held[Main] \ {x} /\ \A t \in T \ {Main} : held'[t] = held[t]
    BY <1>1, <2>1
  <2> QED
    BY <1>1, <2>1, <2>2
<1>8. CASE \E w \in Workers, x \in Fds : OneShot!Fetch(w, x)
  <2>1. PICK w \in Workers, x \in Fds :
          /\ x \in queued /\ held[w] = {} /\ queued' = queued \ {x}
          /\ held' = [held EXCEPT ![w] = {x}] /\ open' = open /\ Watched' = Watched /\ lost' = lost
    BY <1>8 DEF OneShot!Fetch, open, queued, held, lost
  <2>2. held'[w] = {x} /\ \A t \in T \ {w} : held'[t] = held[t]
    BY <1>1, <2>1
  <2> QED
    BY <1>1, <2>1, <2>2
<1>9. CASE \E t \in T, x \in Fds : OneShot!Work(t, x)
  <2>1. PICK t \in T, x \in Fds :
          /\ x \in held[t] /\ open' \in {open, open \ {x}}
          /\ Watched' = Watched /\ queued' = queued /\ held' = held /\ lost' = lost
    BY <1>9 DEF OneShot!Work, open, queued, held, lost
  <2> QED
    BY <1>1, <2>1
<1>10. CASE \E t \in T, x \in Fds : OneShot!Rearm(t, x)
  <2>1. PICK t \in T, x \in Fds :
          /\ x \in held[t] /\ Watched' = Watched \cup {x}
          /\ held' = [held EXCEPT ![t] = held[t] \ {x}] /\ open' = open
          /\ queued' = queued /\ lost' = lost
    BY <1>10 DEF OneShot!Rearm, open, queued, held, lost
  <2>2. held'[t] = held[t] \ {x} /\ \A u \in T \ {t} : held'[u] = held[u]
    BY <1>1, <2>1
  <2> QED
    BY <1>1, <2>1, <2>2
<1>11. CASE \E t \in T, x \in Fds : OneShot!LetGo(t, x)
  <2>1. PICK t \in T, x \in Fds :
          /\ x \in held[t] /\ open' = open \ {x} /\ Watched' = Watched
          /\ held' = [held EXCEPT ![t] = held[t] \ {x}] /\ queued' = queued /\ lost' = lost
    BY <1>11 DEF OneShot!LetGo, open, queued, held, lost
  <2>2. held'[t] = held[t] \ {x} /\ \A u \in T \ {t} : held'[u] = held[u]
    BY <1>1, <2>1
  <2> QED
    BY <1>1, <2>1, <2>2
<1>12. CASE \E x \in Fds : OneShot!Abandon(x)
  <2>1. PICK x \in Fds : /\ x \in held[Main] \cap open /\ lost' = lost \cup {x}
                         /\ held' = [held EXCEPT ![Main] = held[Main] \ {x}]
                         /\ open' = open /\ Watched' = Watched /\ queued' = queued
    BY <1>12 DEF OneShot!Abandon, open, queued, held, lost
  <2>2. held'[Main] = held[Main] \ {x} /\ \A t \in T \ {Main} : held'[t] = held[t]
    BY <1>1, <2>1
  <2> QED
    BY <1>1, <2>1, <2>2
<1> QED
  BY <1>3, <1>4, <1>5, <1>6, <1>7, <1>8, <1>9, <1>10, <1>11, <1>12

\* Whatever implements Custody is exclusive.
THEOREM CustodyIsExclusive == OneShot!CustodySpec => []OneShot!Exclusive
<1>1. OneShot!CustodyInit => OneShot!Exclusive
  BY DEF OneShot!CustodyInit, OneShot!Exclusive, OneShot!SomebodyHasIt, OneShot!NobodyElseHasIt
<1> QED
  BY <1>1, ExclusiveStep, PTL DEF OneShot!CustodySpec, Custodial
=============================================================================
