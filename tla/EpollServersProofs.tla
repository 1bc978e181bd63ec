--------------------------- MODULE EpollServersProofs ---------------------------
(* The small epoll servers, for any number of clients and threads: types, no     *)
(* data lost at a close, and one handler for a socket under EPOLLONESHOT.        *)
EXTENDS EpollServers, FiniteSetTheorems, SequenceTheorems, WellFoundedInduction, TLAPS

OpenFds == {fd \in Fds : conn[fd] # None}
\* A client waits once in the backlog, and an open one has one descriptor.
Queued ==
  /\ \A k \in 1 .. Len(backlog) : status[backlog[k]] = "backlog"
  /\ \A j, k \in 1 .. Len(backlog) : backlog[j] = backlog[k] => j = k
OneFd ==
  /\ \A fd \in OpenFds : status[conn[fd]] = "open"
  /\ \A f, g \in OpenFds : conn[f] = conn[g] => f = g
\* What is in events[] has not been taken by anybody else.
Waiting ==
  /\ ListenFd \in batch => backlog # <<>>
  /\ UdpFd \in batch => udp > 0
Shape == TypeOK /\ Queued /\ OneFd /\ Waiting

(* ---------------------------------- types -------------------------------------- *)

LEMMA ShapeInit == Init => Shape
<1> SUFFICES ASSUME Init PROVE Shape
  OBVIOUS
<1>1. TypeOK
  <2> USE EpollAssumption DEF EpollAssumption
  <2>1. ClientTypes
    BY DEF Init, ClientTypes
  <2>2. MainTypes
    BY DEF Init, MainTypes
  <2>3. ThreadTypes
    BY DEF Init, ThreadTypes
  <2>4. PipeTypes
    <3>1. pipe \in Seq(Signals)
      BY DEF Init
    <3>2. raised \in 0 .. MaxSignals
      BY DEF Init
    <3>3. udp \in Nat /\ stop_server \in BOOLEAN /\ overran \in BOOLEAN
      BY DEF Init
    <3> QED
      BY <3>1, <3>2, <3>3 DEF PipeTypes
  <2> QED
    BY <2>1, <2>2, <2>3, <2>4 DEF TypeOK
<1>2. Queued /\ OneFd /\ Waiting
  BY DEF Init, Queued, OneFd, Waiting, OpenFds
<1> QED
  BY <1>1, <1>2 DEF Shape

\* The least of some natural numbers is one of them.
LEMMA MinExists == ASSUME NEW S \in SUBSET Nat, S # {} PROVE Min(S) \in S
<1>1. PICK x \in S : \A y \in S : ~ (<<y, x>> \in OpToRel(<, Nat))
  BY NatLessThanWellFounded, WFMin
<1>2. ASSUME NEW y \in S PROVE x <= y
  <2>1. x \in Nat /\ y \in Nat /\ <<y, x>> \in Nat \X Nat
    OBVIOUS
  <2>2. <<y, x>> \in OpToRel(<, Nat) <=> y < x
    BY <2>1, Zenon DEF OpToRel
  <2>3. ~ (y < x)
    BY <1>1, <2>2, Zenon
  <2> QED
    BY <2>1, <2>3
<1> QED
  BY <1>2 DEF Min

LEMMA FdNumbers ==
  /\ Fds \subseteq Nat \ {ListenFd, UdpFd, PipeFd} /\ BadFd \notin Fds /\ None \notin Fds
  /\ IsFiniteSet(Fds) /\ Cardinality(Fds) = Cardinality(Conns)
<1>1. Cardinality(Conns) \in Nat
  BY EpollAssumption, FS_CardinalityType DEF EpollAssumption
<1>2. IsFiniteSet(Fds) /\ Cardinality(Fds) = Cardinality(Conns)
  <2> DEFINE n == Cardinality(Conns)
  <2>1. n \in Nat /\ 3 \in Int /\ 2 + n \in Int
    BY <1>1
  <2> HIDE DEF n
  <2>2. IsFiniteSet(3 .. 2 + n)
        /\ Cardinality(3 .. 2 + n) = IF 3 > 2 + n THEN 0 ELSE 2 + n - 3 + 1
    BY <2>1, FS_Interval
  <2>3. Fds = 3 .. 2 + n
    BY DEF Fds, n
  <2>4. Cardinality(Fds) = n
    BY <2>1, <2>2, <2>3
  <2> QED
    BY <2>2, <2>3, <2>4 DEF n
<1>3. Fds \subseteq Nat \ {ListenFd, UdpFd, PipeFd} /\ BadFd \notin Fds
  BY <1>1 DEF Fds, ListenFd, UdpFd, PipeFd, BadFd
<1>4. None \notin Fds
  <2>1. \A fd \in Fds : fd \in Int
    BY <1>3
  <2> QED
    BY <2>1, NoneAssumption, Zenon DEF NoneAssumption
<1> QED
  BY <1>2, <1>3, <1>4

\* There is a descriptor for a client that waits: open clients have one each.
LEMMA FreeFd ==
  ASSUME Shape, backlog # <<>>
  PROVE  /\ NewFd \in Fds /\ conn[NewFd] = None
         /\ Head(backlog) \in Conns /\ Tail(backlog) \in Seq(Conns)
         /\ status[Head(backlog)] = "backlog"
<1>1. backlog \in Seq(Conns) /\ conn \in [Fds -> Conns \cup {None}]
  BY DEF Shape, TypeOK, ClientTypes, MainTypes
<1>2. /\ Head(backlog) \in Conns /\ Tail(backlog) \in Seq(Conns) /\ 1 \in 1 .. Len(backlog)
      /\ Head(backlog) = backlog[1]
  BY <1>1
<1>3. status[Head(backlog)] = "backlog"
  BY <1>2 DEF Shape, Queued
<1> DEFINE free == {fd \in Fds : conn[fd] = None}
<1>4. free # {}
  <2> SUFFICES ASSUME free = {} PROVE FALSE
    OBVIOUS
  <2>1. OpenFds = Fds /\ conn \in [Fds -> Conns]
    BY <1>1 DEF OpenFds
  <2>2. conn \in Injection(Fds, Conns)
    <3>1. \A f, g \in Fds : conn[f] = conn[g] => f = g
      BY <2>1 DEF Shape, OneFd
    <3> QED
      BY <2>1, <3>1 DEF Injection, IsInjective
  <2>3. IsFiniteSet(Conns)
    BY EpollAssumption DEF EpollAssumption
  <2>4. conn \in Surjection(Fds, Conns)
    BY <2>2, <2>3, FdNumbers, FS_Injection
  <2>5. PICK fd \in Fds : conn[fd] = Head(backlog)
    BY <1>2, <2>4 DEF Surjection
  <2> QED
    BY <1>3, <2>1, <2>5 DEF Shape, OneFd
<1>5. Min(free) \in free
  BY <1>4, FdNumbers, MinExists
<1> QED
  BY <1>2, <1>3, <1>5 DEF NewFd

\* close gives the descriptor back, and its client is never seen again.
LEMMA CloseShape ==
  ASSUME Shape, NEW fd \in Fds, conn[fd] # None, Close(fd), UNCHANGED backlog
  PROVE  /\ Queued' /\ OneFd'
         /\ status' \in [Conns -> {"new", "backlog", "open", "closed"}]
         /\ conn' \in [Fds -> Conns \cup {None}] /\ edges' \subseteq Watched /\ armed' \subseteq Fds
<1>1. /\ conn \in [Fds -> Conns \cup {None}] /\ conn[fd] \in Conns /\ None \notin Conns
      /\ status \in [Conns -> {"new", "backlog", "open", "closed"}]
      /\ edges \subseteq Watched /\ armed \subseteq Fds /\ backlog \in Seq(Conns)
  BY EpollAssumption DEF EpollAssumption, Shape, TypeOK, ClientTypes, MainTypes
<1>2. /\ status' = [status EXCEPT ![conn[fd]] = "closed"] /\ conn' = [conn EXCEPT ![fd] = None]
      /\ edges' = edges \ {fd} /\ armed' = armed \ {fd}
  BY DEF Close
<1>3. OpenFds' = OpenFds \ {fd}
      /\ \A g \in OpenFds' : conn'[g] = conn[g] /\ conn[g] \in Conns /\ conn[g] # conn[fd]
  BY <1>1, <1>2 DEF OpenFds, Shape, OneFd
<1>4. status[conn[fd]] = "open"
  BY DEF OpenFds, Shape, OneFd
<1>5. OneFd'
  BY <1>1, <1>2, <1>3 DEF Shape, OneFd
<1>6. Queued'
  <2>1. \A k \in 1 .. Len(backlog) : backlog[k] \in Conns /\ backlog[k] # conn[fd]
    BY <1>1, <1>4 DEF Shape, Queued
  <2> QED
    BY <1>1, <1>2, <2>1 DEF Shape, Queued
<1> QED
  BY <1>1, <1>2, <1>5, <1>6

\* What recv said of a descriptor
LEMMA OutcomeMeans ==
  ASSUME Shape, NEW fd
  PROVE  /\ Outcome(fd) \in {"data", "error", "end", "eagain"}
              => fd # BadFd /\ conn[fd] # None
         /\ Outcome(fd) = "data" => wire[conn[fd]] > 0
         /\ Outcome(fd) \in {"error", "end"} => ~ (wire[conn[fd]] > 0)
  BY DEF Outcome

\* The steps of clients, of the network and of the signal handler
LEMMA ShapeClient ==
  ASSUME Shape, NEW c \in Conns, Connect(c) \/ Send(c) \/ Leave(c) \/ Reset(c) PROVE Shape'
<1>1. UNCHANGED <<server, got, conn, armed, mainVars, threadVars, udp, signalVars>>
      /\ edges' \subseteq Watched
  BY DEF Connect, Send, Leave, Reset, Edge, inputVars, Shape, TypeOK, MainTypes, Watched
<1>2. MainTypes' /\ ThreadTypes' /\ PipeTypes'
  BY <1>1 DEF Shape, TypeOK, MainTypes, ThreadTypes, PipeTypes, mainVars, threadVars, signalVars
<1>3. CASE Connect(c)
  <2>1. /\ backlog \in Seq(Conns) /\ backlog' = Append(backlog, c) /\ status[c] = "new"
        /\ status' = [status EXCEPT ![c] = "backlog"]
        /\ status \in [Conns -> {"new", "backlog", "open", "closed"}]
        /\ conn \in [Fds -> Conns \cup {None}]
    BY <1>3 DEF Connect, Shape, TypeOK, ClientTypes, MainTypes
  <2>2. /\ backlog' \in Seq(Conns) /\ backlog' # <<>>
        /\ Len(backlog') = Len(backlog) + 1 /\ backlog'[Len(backlog) + 1] = c
        /\ \A k \in 1 .. Len(backlog) : backlog'[k] = backlog[k] /\ backlog[k] \in Conns
        /\ Len(backlog) \in Nat
    BY <2>1, AppendProperties
  <2>3. \A k \in 1 .. Len(backlog) : backlog[k] # c
    BY <2>1 DEF Shape, Queued
  <2>4. Queued'
    BY <2>1, <2>2, <2>3 DEF Shape, Queued
  <2>5. OneFd'
    BY <1>1, <2>1 DEF Shape, OneFd, OpenFds
  <2>6. ClientTypes'
    BY <1>3, <2>1, <2>2 DEF Connect, Shape, TypeOK, ClientTypes, clientVars, inputVars
  <2>7. Waiting'
    BY <1>1, <2>2 DEF Shape, Waiting, mainVars
  <2> QED
    BY <1>2, <2>4, <2>5, <2>6, <2>7 DEF Shape, TypeOK
<1>4. CASE Send(c) \/ Leave(c) \/ Reset(c)
  <2>1. UNCHANGED <<status, backlog>>
    BY <1>4 DEF Send, Leave, Reset
  <2>2. Queued' /\ OneFd' /\ Waiting'
    BY <1>1, <2>1 DEF Shape, Queued, OneFd, Waiting, OpenFds, mainVars
  <2>3. CASE Send(c)
    BY <1>2, <2>2, <2>3 DEF Send, Shape, TypeOK, ClientTypes
  <2>4. CASE Leave(c)
    BY <1>2, <2>2, <2>4 DEF Leave, Shape, TypeOK, ClientTypes, inputVars
  <2>5. CASE Reset(c)
    BY <1>2, <2>2, <2>5 DEF Reset, Shape, TypeOK, ClientTypes
  <2> QED
    BY <1>4, <2>3, <2>4, <2>5
<1> QED
  BY <1>3, <1>4

\* The steps that leave the clients and the connections alone
LEMMA ShapeKept ==
  ASSUME Shape, UNCHANGED <<server, status, backlog, clientVars, inputVars, conn>>,
         MainTypes', ThreadTypes', PipeTypes', Waiting'
  PROVE  Shape'
<1>1. ClientTypes' /\ Queued' /\ OneFd'
  BY DEF Shape, TypeOK, ClientTypes, Queued, OneFd, OpenFds, clientVars, inputVars
<1> QED
  BY <1>1 DEF Shape, TypeOK

LEMMA ShapeDatagram == Shape /\ Datagram => Shape'
<1> SUFFICES ASSUME Shape, Datagram PROVE Shape'
  OBVIOUS
<1>1. MainTypes' /\ ThreadTypes' /\ Waiting'
  BY DEF Datagram, Shape, TypeOK, MainTypes, ThreadTypes, Waiting, Watched, mainVars, threadVars,
         PipeTypes
<1>2. PipeTypes'
  BY DEF Datagram, Shape, TypeOK, PipeTypes, signalVars
<1> QED
  BY <1>1, <1>2, ShapeKept DEF Datagram

LEMMA ShapeRaise == ASSUME Shape, NEW sig \in Signals, Raise(sig) PROVE Shape'
<1>1. MainTypes' /\ ThreadTypes' /\ Waiting'
  BY DEF Raise, Shape, TypeOK, MainTypes, ThreadTypes, Waiting, Watched, mainVars, threadVars
<1>2. pipe' \in Seq(Signals)
  BY DEF Raise, Shape, TypeOK, PipeTypes
<1>3. raised' \in 0 .. MaxSignals
  BY EpollAssumption DEF EpollAssumption, Raise, Shape, TypeOK, PipeTypes
<1>4. PipeTypes'
  BY <1>2, <1>3 DEF Raise, Shape, TypeOK, PipeTypes
<1> QED
  BY <1>1, <1>4, ShapeKept DEF Raise

LEMMA ShapeAcceptFails == Shape /\ AcceptFails => Shape'
<1> SUFFICES ASSUME Shape, AcceptFails PROVE Shape'
  OBVIOUS
<1>1. batch' = batch \ {ListenFd} /\ UNCHANGED <<backlog, conn, edges, armed, pc, cur, udp>>
  BY DEF AcceptFails, Dispatch
<1>2. MainTypes' /\ Waiting'
  BY <1>1 DEF Shape, TypeOK, MainTypes, Waiting
<1>3. ThreadTypes'
  BY DEF AcceptFails, Overwrite, Shape, TypeOK, ThreadTypes
<1>4. PipeTypes'
  BY DEF AcceptFails, Shape, TypeOK, PipeTypes, signalVars
<1> QED
  BY <1>2, <1>3, <1>4, ShapeKept DEF AcceptFails

LEMMA ShapeWait == Shape /\ (EpollWait \/ BatchDone) => Shape'
<1> SUFFICES ASSUME Shape, EpollWait \/ BatchDone PROVE Shape'
  OBVIOUS
<1>1. ThreadTypes' /\ PipeTypes'
  BY DEF EpollWait, BatchDone, Shape, TypeOK, ThreadTypes, PipeTypes, threadVars, signalVars
<1>2. CASE EpollWait
  <2>1. Ready \subseteq Watched
    BY DEF Ready, ReadyList, Shape, TypeOK, MainTypes, Watched
  <2>2. MainTypes'
    BY <1>2, <2>1 DEF EpollWait, Disarmed, Shape, TypeOK, MainTypes
  <2>3. (ListenFd \in Ready => backlog # <<>>) /\ (UdpFd \in Ready => udp > 0)
    BY FdNumbers DEF Ready, HasInput, ListenFd, UdpFd, PipeFd
  <2>4. Waiting'
    BY <1>2, <2>3 DEF EpollWait, Waiting
  <2> QED
    BY <1>1, <1>2, <2>2, <2>4, ShapeKept DEF EpollWait
<1>3. CASE BatchDone
  <2>1. MainTypes' /\ Waiting'
    BY <1>3 DEF BatchDone, Shape, TypeOK, MainTypes, Waiting
  <2> QED
    BY <1>1, <1>3, <2>1, ShapeKept DEF BatchDone
<1> QED
  BY <1>2, <1>3

LEMMA ShapeAccept == Shape /\ Accept => Shape'
<1> SUFFICES ASSUME Shape, Accept PROVE Shape'
  OBVIOUS
<1>1. backlog # <<>> /\ backlog \in Seq(Conns) /\ batch' = batch \ {ListenFd}
  BY DEF Accept, Dispatch, Shape, Waiting, TypeOK, ClientTypes
<1>2. /\ NewFd \in Fds /\ conn[NewFd] = None
      /\ Head(backlog) \in Conns /\ Tail(backlog) \in Seq(Conns)
      /\ status[Head(backlog)] = "backlog"
  BY <1>1, FreeFd
<1>3. /\ conn' = [conn EXCEPT ![NewFd] = Head(backlog)] /\ conn \in [Fds -> Conns \cup {None}]
      /\ status' = [status EXCEPT ![Head(backlog)] = "open"] /\ backlog' = Tail(backlog)
      /\ status \in [Conns -> {"new", "backlog", "open", "closed"}] /\ None \notin Conns
  BY EpollAssumption DEF EpollAssumption, Accept, Shape, TypeOK, ClientTypes, MainTypes
<1>4. OneFd'
  <2>1. OpenFds' = OpenFds \cup {NewFd} /\ NewFd \notin OpenFds
        /\ \A fd \in OpenFds : conn'[fd] = conn[fd] /\ conn[fd] \in Conns
                               /\ conn[fd] # Head(backlog)
    BY <1>2, <1>3 DEF OpenFds, Shape, OneFd
  <2> QED
    BY <1>2, <1>3, <2>1 DEF Shape, OneFd
<1>5. Queued'
  <2>1. Len(backlog) \in Nat \ {0} /\ Head(backlog) = backlog[1]
    BY <1>1
  <2>2. /\ Len(backlog') = Len(backlog) - 1
        /\ \A k \in 1 .. Len(backlog') : backlog'[k] = backlog[k + 1]
                                        /\ k + 1 \in 2 .. Len(backlog)
    BY <1>1, <1>3, <2>1
  <2>3. \A k \in 2 .. Len(backlog) : backlog[k] \in Conns /\ backlog[k] # Head(backlog)
    BY <1>1, <2>1 DEF Shape, Queued
  <2>4. \A k \in 1 .. Len(backlog') : status'[backlog'[k]] = "backlog"
    BY <1>2, <1>3, <2>1, <2>2, <2>3 DEF Shape, Queued
  <2>5. \A j, k \in 1 .. Len(backlog') : backlog'[j] = backlog'[k] => j = k
    BY <2>1, <2>2 DEF Shape, Queued
  <2> QED
    BY <2>4, <2>5 DEF Queued
<1>6. ClientTypes' /\ PipeTypes'
  BY <1>2, <1>3 DEF Accept, Shape, TypeOK, ClientTypes, PipeTypes, clientVars, inputVars, signalVars
<1>7. MainTypes'
  <2>1. edges' \subseteq Watched /\ armed' \subseteq Fds
    BY <1>2 DEF Accept, Shape, TypeOK, MainTypes, Watched
  <2> QED
    BY <1>1, <1>2, <1>3, <2>1 DEF Accept, Shape, TypeOK, MainTypes
<1>8. ThreadTypes'
  BY DEF Accept, Overwrite, Shape, TypeOK, ThreadTypes
<1>9. Waiting'
  BY <1>1 DEF Accept, Shape, Waiting, ListenFd, UdpFd
<1> QED
  BY <1>4, <1>5, <1>6, <1>7, <1>8, <1>9 DEF Shape, TypeOK

\* recv takes a piece that has arrived.
LEMMA TakeTypes ==
  ASSUME Shape, NEW fd \in Fds, Outcome(fd) = "data", Take(conn[fd])
  PROVE  wire' \in [Conns -> Nat] /\ got' \in [Conns -> Nat] /\ conn[fd] \in Conns
<1>1. conn[fd] \in Conns /\ wire[conn[fd]] > 0
  BY OutcomeMeans DEF Shape, TypeOK, MainTypes
<1>2. wire \in [Conns -> Nat] /\ got \in [Conns -> Nat]
  BY DEF Shape, TypeOK, ClientTypes
<1> QED
  BY <1>1, <1>2 DEF Take

\* main's recv of one descriptor: data, the end, an error or nothing
LEMMA ShapeMainRecv ==
  ASSUME Shape, NEW fd \in Fds \cup {BadFd},
         UNCHANGED <<server, backlog, clientVars, threadVars, udp, signalVars>>,
         batch' \in {batch, batch \ {fd}}, pc' \in {"events", "recv", "killed"},
         cur' \in Fds \cup {BadFd}, err' \in [Conns -> {"none", "pending", "taken"}],
         \/ Outcome(fd) = "data" /\ Take(conn[fd]) /\ StaysOpen
         \/ Outcome(fd) \in {"error", "end"} /\ Close(fd) /\ UNCHANGED <<wire, got>>
         \/ StaysOpen /\ UNCHANGED <<wire, got>>
  PROVE  Shape'
<1>1. ThreadTypes' /\ PipeTypes'
  BY DEF Shape, TypeOK, ThreadTypes, PipeTypes, threadVars, signalVars
<1>2. Waiting'
  BY DEF Shape, Waiting
<1>3. wire' \in [Conns -> Nat] /\ got' \in [Conns -> Nat]
  BY OutcomeMeans, TakeTypes DEF Shape, TypeOK, ClientTypes
<1>4. CASE StaysOpen
  <2>1. MainTypes' /\ Queued' /\ OneFd'
    BY <1>4 DEF StaysOpen, Shape, TypeOK, MainTypes, Queued, OneFd, OpenFds
  <2>2. ClientTypes'
    BY <1>3, <1>4 DEF StaysOpen, Shape, TypeOK, ClientTypes, clientVars
  <2> QED
    BY <1>1, <1>2, <2>1, <2>2 DEF Shape, TypeOK
<1>5. CASE Outcome(fd) \in {"error", "end"} /\ Close(fd)
  <2>1. fd \in Fds /\ conn[fd] # None
    BY <1>5, OutcomeMeans
  <2>2. /\ Queued' /\ OneFd'
        /\ status' \in [Conns -> {"new", "backlog", "open", "closed"}]
        /\ conn' \in [Fds -> Conns \cup {None}] /\ edges' \subseteq Watched /\ armed' \subseteq Fds
    BY <1>5, <2>1, CloseShape
  <2>3. ClientTypes' /\ MainTypes'
    BY <1>3, <2>2 DEF Shape, TypeOK, ClientTypes, MainTypes, clientVars
  <2> QED
    BY <1>1, <1>2, <2>2, <2>3 DEF Shape, TypeOK
<1> QED
  BY <1>4, <1>5

LEMMA ShapeLtRecv == ASSUME Shape, NEW fd \in Fds, LtRecv(fd) PROVE Shape'
<1>1. /\ UNCHANGED <<server, backlog, clientVars, threadVars, udp, signalVars, pc, cur, err>>
      /\ batch' = batch \ {fd} /\ pc = "events"
  BY DEF LtRecv, Dispatch, inputVars
<1>2. /\ pc' \in {"events", "recv", "killed"} /\ cur' \in Fds \cup {BadFd}
      /\ err' \in [Conns -> {"none", "pending", "taken"}]
  BY <1>1 DEF Shape, TypeOK, ClientTypes, MainTypes
<1>3. \/ Outcome(fd) = "data" /\ Take(conn[fd]) /\ StaysOpen
      \/ Outcome(fd) \in {"error", "end"} /\ Close(fd) /\ UNCHANGED <<wire, got>>
      \/ StaysOpen /\ UNCHANGED <<wire, got>>
  BY DEF LtRecv, inputVars
<1> QED
  BY <1>1, <1>2, <1>3, ShapeMainRecv

LEMMA ShapeEt == Shape /\ (EtData \/ EtEnd \/ EtBreak) => Shape'
<1> SUFFICES ASSUME Shape, EtData \/ EtEnd \/ EtBreak PROVE Shape'
  OBVIOUS
<1>1. /\ UNCHANGED <<server, backlog, clientVars, threadVars, udp, signalVars, batch>>
      /\ cur \in Fds \cup {BadFd} /\ cur' \in Fds \cup {BadFd}
  BY DEF EtData, EtEnd, EtBreak, mainVars, Shape, TypeOK, MainTypes
<1>2. pc' \in {"events", "recv", "killed"}
  BY DEF EtData, EtEnd, EtBreak, SendBack, mainVars
<1>3. err' \in [Conns -> {"none", "pending", "taken"}]
  BY DEF EtData, EtEnd, EtBreak, SendBack, inputVars, Shape, TypeOK, ClientTypes
<1>4. \/ Outcome(cur) = "data" /\ Take(conn[cur]) /\ StaysOpen
      \/ Outcome(cur) \in {"error", "end"} /\ Close(cur) /\ UNCHANGED <<wire, got>>
      \/ StaysOpen /\ UNCHANGED <<wire, got>>
  BY DEF EtData, EtEnd, EtBreak, inputVars
<1> QED
  BY <1>1, <1>2, <1>3, <1>4, ShapeMainRecv

\* Events that change no connection
LEMMA ShapeEvent ==
  ASSUME Shape, NEW fd \in Fds, EtEvent(fd) \/ NewThread(fd) \/ Ignore(fd) PROVE Shape'
<1>1. /\ UNCHANGED <<server, status, backlog, clientVars, inputVars, conn, edges, armed, udp,
                     signalVars>>
      /\ batch' = batch \ {fd} /\ pc' \in {"events", "recv"} /\ cur' \in Fds \cup {BadFd}
  BY DEF EtEvent, NewThread, Ignore, Dispatch, Shape, TypeOK, MainTypes
<1>2. MainTypes' /\ PipeTypes' /\ Waiting'
  BY <1>1 DEF Shape, TypeOK, MainTypes, PipeTypes, Waiting, signalVars
<1>3. ThreadTypes'
  <2>1. CASE EtEvent(fd) \/ Ignore(fd)
    BY <2>1 DEF EtEvent, Ignore, Shape, TypeOK, ThreadTypes, threadVars
  <2>2. CASE NewThread(fd)
    BY <2>2 DEF NewThread, Shape, TypeOK, ThreadTypes
  <2> QED
    BY <2>1, <2>2
<1> QED
  BY <1>1, <1>2, <1>3, ShapeKept

LEMMA ShapeEchoDatagram == Shape /\ EchoDatagram => Shape'
<1> SUFFICES ASSUME Shape, EchoDatagram PROVE Shape'
  OBVIOUS
<1>1. udp > 0 /\ udp' = udp - 1 /\ batch' = batch \ {UdpFd}
      /\ UNCHANGED <<conn, edges, armed, pc, cur, threadVars, signalVars, backlog>>
  BY DEF EchoDatagram, Dispatch, Shape, Waiting
<1>2. MainTypes' /\ ThreadTypes' /\ Waiting'
  BY <1>1 DEF Shape, TypeOK, MainTypes, ThreadTypes, Waiting, threadVars
<1>3. PipeTypes'
  BY <1>1 DEF Shape, TypeOK, PipeTypes, signalVars
<1> QED
  BY <1>2, <1>3, ShapeKept DEF EchoDatagram

LEMMA ShapeTakeSignals == Shape /\ TakeSignals => Shape'
<1> SUFFICES ASSUME Shape, TakeSignals PROVE Shape'
  OBVIOUS
<1>1. pipe \in Seq(Signals) /\ SignalBuffer \in Nat
  BY EpollAssumption DEF EpollAssumption, Shape, TypeOK, PipeTypes
<1>2. pipe' \in Seq(Signals)
  <2> DEFINE m == Min({SignalBuffer, Len(pipe)})
  <2>1. m \in Nat
    <3>1. {SignalBuffer, Len(pipe)} \in SUBSET Nat /\ {SignalBuffer, Len(pipe)} # {}
      BY <1>1
    <3> QED
      BY <3>1, MinExists
  <2> HIDE DEF m
  <2>2. Received = 1 .. m
    BY DEF Received, m
  <2>3. Cardinality(Received) = m
    BY <2>1, <2>2, FS_Interval
  <2>4. pipe' = SubSeq(pipe, m + 1, Len(pipe))
    BY <2>3 DEF TakeSignals
  <2>5. \A k \in (m + 1) .. Len(pipe) : pipe[k] \in Signals
    BY <1>1, <2>1
  <2> QED
    BY <1>1, <2>1, <2>4, <2>5, SubSeqProperties
<1>3. MainTypes' /\ ThreadTypes' /\ Waiting'
  BY DEF TakeSignals, Dispatch, Shape, TypeOK, MainTypes, ThreadTypes, Waiting, threadVars
<1>4. PipeTypes'
  BY <1>2 DEF TakeSignals, Shape, TypeOK, PipeTypes
<1> QED
  BY <1>3, <1>4, ShapeKept DEF TakeSignals

LEMMA ShapeWorker == ASSUME Shape, NEW t \in Threads, Worker(t) PROVE Shape'
<1>1. UNCHANGED <<server, backlog, clientVars, mainVars, udp, signalVars>>
  BY DEF Worker, ReadSockfd, ReadEpollfd, WorkerRecv, WorkerEnd, WorkerEagain, ResetOneshot
<1>2. PipeTypes' /\ Waiting'
  BY <1>1 DEF Shape, TypeOK, PipeTypes, Waiting, mainVars, signalVars
<1>3. ThreadTypes'
  <2>1. CASE ReadSockfd(t)
    <3>1. t \notin rearming
      BY <2>1, FdNumbers DEF ReadSockfd, Shape, TypeOK, ThreadTypes
    <3> QED
      BY <2>1, <3>1 DEF ReadSockfd, Shape, TypeOK, ThreadTypes
  <2>5. CASE ReadEpollfd(t) \/ WorkerRecv(t)
    BY <2>5 DEF ReadEpollfd, WorkerRecv, Shape, TypeOK, ThreadTypes, threadVars
  <2>2. CASE WorkerEagain(t)
    <3>1. sock[t] \in Fds
      BY <2>2, OutcomeMeans DEF WorkerEagain, Receiving, Shape, TypeOK, ThreadTypes
    <3> QED
      BY <2>2, <3>1 DEF WorkerEagain, Shape, TypeOK, ThreadTypes
  <2>3. CASE WorkerEnd(t)
    <3>1. t \notin rearming
      BY <2>3 DEF WorkerEnd, Receiving
    <3> QED
      BY <2>3, <3>1 DEF WorkerEnd, Shape, TypeOK, ThreadTypes
  <2>4. CASE ResetOneshot(t)
    BY <2>4 DEF ResetOneshot, Shape, TypeOK, ThreadTypes
  <2> QED
    BY <2>1, <2>2, <2>3, <2>4, <2>5 DEF Worker
<1>4. sock[t] \in Fds \cup {BadFd, None}
  BY DEF Shape, TypeOK, ThreadTypes
<1>5. CASE ReadSockfd(t) \/ ReadEpollfd(t) \/ WorkerEagain(t)
  <2>1. UNCHANGED <<status, inputVars, conn, edges, armed>>
    BY <1>5 DEF ReadSockfd, ReadEpollfd, WorkerEagain
  <2>2. MainTypes'
    BY <1>1, <2>1 DEF Shape, TypeOK, MainTypes, mainVars
  <2> QED
    BY <1>1, <1>2, <1>3, <2>1, <2>2, ShapeKept
<1>6. CASE WorkerRecv(t)
  <2>1. sock[t] \in Fds /\ conn[sock[t]] \in Conns
    BY <1>4, <1>6, OutcomeMeans DEF WorkerRecv, Receiving, Shape, TypeOK, MainTypes
  <2>2. UNCHANGED <<status, conn, edges, armed>>
    BY <1>6 DEF WorkerRecv
  <2>3. /\ wire' \in [Conns -> Nat] /\ got' \in [Conns -> Nat]
        /\ err' \in [Conns -> {"none", "pending", "taken"}]
    BY <1>6, <2>1, TakeTypes DEF WorkerRecv, TakeError, Shape, TypeOK, ClientTypes
  <2>4. MainTypes' /\ ClientTypes'
    BY <1>1, <2>2, <2>3 DEF Shape, TypeOK, MainTypes, ClientTypes, mainVars, clientVars
  <2>5. Queued' /\ OneFd'
    BY <1>1, <2>2 DEF Shape, Queued, OneFd, OpenFds
  <2> QED
    BY <1>2, <1>3, <2>4, <2>5 DEF Shape, TypeOK
<1>7. CASE WorkerEnd(t)
  <2>1. sock[t] \in Fds /\ conn[sock[t]] # None /\ Close(sock[t]) /\ UNCHANGED inputVars
    BY <1>4, <1>7, OutcomeMeans DEF WorkerEnd, Receiving
  <2>2. /\ Queued' /\ OneFd'
        /\ status' \in [Conns -> {"new", "backlog", "open", "closed"}]
        /\ conn' \in [Fds -> Conns \cup {None}] /\ edges' \subseteq Watched /\ armed' \subseteq Fds
    BY <1>1, <2>1, CloseShape
  <2>3. MainTypes' /\ ClientTypes'
    BY <1>1, <2>1, <2>2
    DEF Shape, TypeOK, MainTypes, ClientTypes, mainVars, clientVars, inputVars
  <2> QED
    BY <1>2, <1>3, <2>2, <2>3 DEF Shape, TypeOK
<1>8. CASE ResetOneshot(t)
  <2>1. UNCHANGED <<status, inputVars, conn>>
    BY <1>8 DEF ResetOneshot
  <2>2. sock[t] \in Fds
    BY <1>8 DEF ResetOneshot, Shape, TypeOK, ThreadTypes
  <2>3. edges' \subseteq Watched /\ armed' \subseteq Fds
    BY <1>8, <2>2 DEF ResetOneshot, Look, Watched, Shape, TypeOK, MainTypes
  <2>4. MainTypes'
    BY <1>1, <2>1, <2>3 DEF Shape, TypeOK, MainTypes, mainVars
  <2> QED
    BY <1>1, <1>2, <1>3, <2>1, <2>4, ShapeKept
<1> QED
  BY <1>5, <1>6, <1>7, <1>8 DEF Worker

LEMMA ShapeNext == Shape /\ [Next]_vars => Shape'
<1> SUFFICES ASSUME Shape, [Next]_vars PROVE Shape'
  OBVIOUS
<1>1. CASE UNCHANGED vars
  <2>1. MainTypes' /\ ThreadTypes' /\ PipeTypes' /\ Waiting'
    BY <1>1 DEF vars, mainVars, threadVars, signalVars, Shape, TypeOK, MainTypes, ThreadTypes,
                PipeTypes, Waiting
  <2> QED
    BY <1>1, <2>1, ShapeKept DEF vars
<1>2. CASE Main
  <2>1. CASE \E fd \in Fds : LtRecv(fd) \/ EtEvent(fd) \/ NewThread(fd) \/ Ignore(fd)
    BY <2>1, ShapeLtRecv, ShapeEvent
  <2> QED
    BY <1>2, <2>1, ShapeWait, ShapeAccept, ShapeAcceptFails, ShapeEt, ShapeEchoDatagram,
       ShapeTakeSignals DEF Main
<1>3. CASE \E c \in Conns : Client(c)
  BY <1>3, ShapeClient DEF Client
<1> QED
  BY <1>1, <1>2, <1>3, ShapeDatagram, ShapeRaise, ShapeWorker DEF Next

(* ------------------------- nothing is lost at a close -------------------------- *)

\* What was sent has been received or is still to be received, and nothing is
\* when the descriptor is closed.
Ledger == \A c \in Conns : /\ got[c] + wire[c] = sent[c]
                           /\ status[c] = "closed" => wire[c] = 0

\* Any recv, with the close after it if there is one
LEMMA LedgerRecv ==
  ASSUME Shape, Ledger, NEW fd \in Fds \cup {BadFd}, UNCHANGED sent,
         \/ Outcome(fd) = "data" /\ Take(conn[fd]) /\ UNCHANGED status
         \/ Outcome(fd) \in {"error", "end"} /\ Close(fd) /\ UNCHANGED <<wire, got>>
         \/ UNCHANGED <<status, wire, got>>
  PROVE  Ledger'
<1>1. /\ wire \in [Conns -> Nat] /\ got \in [Conns -> Nat] /\ sent \in [Conns -> Nat]
      /\ status \in [Conns -> {"new", "backlog", "open", "closed"}]
      /\ conn \in [Fds -> Conns \cup {None}]
  BY DEF Shape, TypeOK, ClientTypes, MainTypes
<1>2. CASE Outcome(fd) = "data" /\ Take(conn[fd]) /\ UNCHANGED status
  <2>1. conn[fd] \in Conns /\ wire[conn[fd]] > 0 /\ status[conn[fd]] = "open"
    BY <1>1, <1>2, OutcomeMeans DEF Shape, OneFd, OpenFds
  <2> QED
    BY <1>1, <1>2, <2>1 DEF Take, Ledger
<1>3. CASE Outcome(fd) \in {"error", "end"} /\ Close(fd) /\ UNCHANGED <<wire, got>>
  <2>1. conn[fd] \in Conns /\ ~ (wire[conn[fd]] > 0)
    BY <1>1, <1>3, OutcomeMeans
  <2> QED
    BY <1>1, <1>3, <2>1 DEF Close, Ledger
<1>4. CASE UNCHANGED <<status, wire, got>>
  BY <1>4 DEF Ledger
<1> QED
  BY <1>2, <1>3, <1>4

LEMMA LedgerClient ==
  ASSUME Shape, Ledger, NEW c \in Conns, Connect(c) \/ Send(c) \/ Leave(c) \/ Reset(c)
  PROVE  Ledger'
<1>1. /\ wire \in [Conns -> Nat] /\ got \in [Conns -> Nat] /\ sent \in [Conns -> Nat]
      /\ status \in [Conns -> {"new", "backlog", "open", "closed"}]
  BY DEF Shape, TypeOK, ClientTypes
<1>2. CASE Connect(c)
  BY <1>1, <1>2 DEF Connect, Ledger, clientVars, inputVars
<1>3. CASE Send(c)
  BY <1>1, <1>3 DEF Send, Alive, Ledger
<1>4. CASE Leave(c) \/ Reset(c)
  BY <1>4 DEF Leave, Reset, Ledger, inputVars
<1> QED
  BY <1>2, <1>3, <1>4

LEMMA LedgerAccept == Shape /\ Ledger /\ Accept => Ledger'
<1> SUFFICES ASSUME Shape, Ledger, Accept PROVE Ledger'
  OBVIOUS
<1>1. backlog # <<>>
  BY DEF Accept, Dispatch, Shape, Waiting
<1>2. Head(backlog) \in Conns /\ status \in [Conns -> {"new", "backlog", "open", "closed"}]
  BY <1>1, FreeFd DEF Shape, TypeOK, ClientTypes
<1> QED
  BY <1>2 DEF Accept, Ledger, clientVars, inputVars

LEMMA LedgerWorker == ASSUME Shape, Ledger, NEW t \in Threads, Worker(t) PROVE Ledger'
<1>1. UNCHANGED sent
  BY DEF Worker, ReadSockfd, ReadEpollfd, WorkerRecv, WorkerEnd, WorkerEagain, ResetOneshot,
         clientVars
<1>2. CASE WorkerRecv(t) \/ WorkerEnd(t)
  <2>1. sock[t] \in Fds \cup {BadFd}
    BY <1>2 DEF WorkerRecv, WorkerEnd, Receiving, Shape, TypeOK, ThreadTypes
  <2>2. \/ Outcome(sock[t]) = "data" /\ Take(conn[sock[t]]) /\ UNCHANGED status
        \/ Outcome(sock[t]) \in {"error", "end"} /\ Close(sock[t]) /\ UNCHANGED <<wire, got>>
        \/ UNCHANGED <<status, wire, got>>
    BY <1>2 DEF WorkerRecv, WorkerEnd, inputVars
  <2> QED
    BY <1>1, <2>1, <2>2, LedgerRecv
<1>3. CASE ReadSockfd(t) \/ ReadEpollfd(t) \/ WorkerEagain(t) \/ ResetOneshot(t)
  BY <1>3 DEF ReadSockfd, ReadEpollfd, WorkerEagain, ResetOneshot, Ledger, clientVars, inputVars
<1> QED
  BY <1>2, <1>3 DEF Worker

LEMMA LedgerMain == Shape /\ Ledger /\ Main => Ledger'
<1> SUFFICES ASSUME Shape, Ledger, Main PROVE Ledger'
  OBVIOUS
<1>1. CASE EtData \/ EtEnd \/ EtBreak
  <2>1. UNCHANGED sent /\ cur \in Fds \cup {BadFd}
    BY <1>1 DEF EtData, EtEnd, EtBreak, clientVars, Shape, TypeOK, MainTypes
  <2>2. \/ Outcome(cur) = "data" /\ Take(conn[cur]) /\ UNCHANGED status
        \/ Outcome(cur) \in {"error", "end"} /\ Close(cur) /\ UNCHANGED <<wire, got>>
        \/ UNCHANGED <<status, wire, got>>
    BY <1>1 DEF EtData, EtEnd, EtBreak, StaysOpen, inputVars
  <2> QED
    BY <2>1, <2>2, LedgerRecv
<1>2. CASE \E fd \in Fds : LtRecv(fd)
  <2>1. PICK fd \in Fds : LtRecv(fd)
    BY <1>2
  <2>2. UNCHANGED sent
    BY <2>1 DEF LtRecv, clientVars
  <2>3. \/ Outcome(fd) = "data" /\ Take(conn[fd]) /\ UNCHANGED status
        \/ Outcome(fd) \in {"error", "end"} /\ Close(fd) /\ UNCHANGED <<wire, got>>
        \/ UNCHANGED <<status, wire, got>>
    BY <2>1 DEF LtRecv, StaysOpen, inputVars
  <2> QED
    BY <2>2, <2>3, LedgerRecv
<1>3. CASE EpollWait \/ BatchDone \/ AcceptFails \/ EchoDatagram \/ TakeSignals
           \/ \E fd \in Fds : EtEvent(fd) \/ NewThread(fd) \/ Ignore(fd)
  <2>1. UNCHANGED <<status, clientVars, inputVars>>
    BY <1>3 DEF EpollWait, BatchDone, AcceptFails, EchoDatagram, TakeSignals, EtEvent, NewThread,
                Ignore
  <2> QED
    BY <2>1 DEF Ledger, clientVars, inputVars
<1> QED
  BY <1>1, <1>2, <1>3, LedgerAccept DEF Main

LEMMA LedgerNext == Shape /\ Ledger /\ [Next]_vars => Ledger'
<1> SUFFICES ASSUME Shape, Ledger, [Next]_vars PROVE Ledger'
  OBVIOUS
<1>1. CASE UNCHANGED vars \/ Datagram \/ \E sig \in Signals : Raise(sig)
  BY <1>1 DEF vars, Datagram, Raise, Ledger, clientVars, inputVars
<1>2. CASE \E c \in Conns : Client(c)
  BY <1>2, LedgerClient DEF Client
<1> QED
  BY <1>1, <1>2, LedgerMain, LedgerWorker DEF Next

\* No server closes a connection while something the client sent is still to be
\* received, whatever order data, the end, a reset and the threads come in
\* (1_4:59-89, 1_3:105-118, 1_5:53-70).
THEOREM NoDataLost == Spec => []NothingLost
<1>1. Init => Shape /\ Ledger
  <2>1. Init => Ledger
    BY DEF Init, Ledger
  <2> QED
    BY <2>1, ShapeInit
<1>2. Shape /\ Ledger /\ [Next]_vars => Shape' /\ Ledger'
  BY ShapeNext, LedgerNext
<1>3. Shape /\ Ledger => NothingLost
  BY DEF Ledger, NothingLost, Shape, TypeOK, ClientTypes
<1> QED
  BY <1>1, <1>2, <1>3, PTL DEF Spec

(* ------------------------- one handler for a socket ---------------------------- *)

\* The socket a thread answers for, from its creation on
Has(fd, t) == sock[t] = fd \/ (t \in starting /\ sock[t] = None /\ arg = fd)
Free(fd) == \A t \in Threads : ~ Has(fd, t)
Claimed(fd) ==
  /\ conn[fd] = None => fd \notin armed /\ fd \notin batch /\ Free(fd)
  /\ conn[fd] # None => fd \in armed \/ fd \in batch \/ ~ Free(fd)
  /\ fd \in armed => fd \notin batch
  /\ fd \in armed \cup batch => Free(fd)
  /\ \A t, u \in Threads : Has(fd, t) /\ Has(fd, u) => t = u

\* main of the oneshot server, whatever the threads read
MainPlace ==
  /\ pc \in {"wait", "events", "done"} /\ (pc = "wait" => batch = {})
  /\ \A fd \in Fds : fd \in edges => fd \in armed
\* The threads as long as nobody has overwritten the argument of one
Untouched ==
  /\ blind = {} /\ (\A t, u \in starting : t = u) /\ (starting # {} => arg \in Fds)
  /\ \A t \in Threads : sock[t] # BadFd
  /\ \A t \in rearming : t \notin starting
Handed == server = "oneshot" =>
            MainPlace /\ (~raced => Untouched /\ \A fd \in Fds : Claimed(fd))

\* Steps of main that touch no socket and no thread, and those of others
LEMMA HandedKept ==
  ASSUME Handed, UNCHANGED <<server, conn, armed, threadVars>>,
         \A fd \in Fds : fd \in batch' <=> fd \in batch,
         \A fd \in Fds : fd \in edges' => fd \in edges \/ fd \in armed,
         pc' \in {pc, "done"} \/ (pc' = "wait" /\ batch' = {}),
         batch' = batch \/ pc = "events"
  PROVE  Handed'
<1> SUFFICES ASSUME server = "oneshot"
             PROVE  MainPlace' /\ (~raced' => Untouched' /\ \A fd \in Fds : Claimed(fd)')
  BY DEF Handed
<1>1. MainPlace /\ (~raced => Untouched /\ \A fd \in Fds : Claimed(fd))
  BY DEF Handed
<1>2. MainPlace'
  BY <1>1 DEF MainPlace
<1>3. \A fd \in Fds, t \in Threads : Has(fd, t)' <=> Has(fd, t)
  BY DEF Has, threadVars
<1>4. ~raced' => Untouched' /\ \A fd \in Fds : Claimed(fd)'
  BY <1>1, <1>3 DEF Untouched, Claimed, Free, threadVars
<1> QED
  BY <1>2, <1>4

LEMMA HandedClient ==
  ASSUME Shape, Handed, NEW c \in Conns, Client(c) PROVE Handed'
<1>1. UNCHANGED <<server, conn, armed, threadVars, mainVars>>
  BY DEF Client, Connect, Send, Leave, Reset
<1>2. \A fd \in Fds : fd \in edges' => fd \in edges \/ fd \in armed
  BY FdNumbers DEF Client, Connect, Send, Leave, Reset, Edge
<1> QED
  BY <1>1, <1>2, HandedKept DEF mainVars

\* The actions of the other servers
LEMMA HandedOther ==
  ASSUME Shape, Handed,
         \/ Datagram \/ EtData \/ EtEnd \/ EtBreak
         \/ \E sig \in Signals : Raise(sig)
         \/ \E fd \in Fds : LtRecv(fd) \/ EtEvent(fd) \/ Ignore(fd)
  PROVE  Handed'
<1>1. server' = server
  BY DEF Datagram, EtData, EtEnd, EtBreak, Raise, LtRecv, EtEvent, Ignore
<1>2. server # "oneshot"
  BY DEF Datagram, EtData, EtEnd, EtBreak, Raise, LtRecv, EtEvent, Ignore, Handed, MainPlace
<1> QED
  BY <1>1, <1>2 DEF Handed

\* What epoll_wait reports is watched no more.
LEMMA HandedWait == Shape /\ Handed /\ EpollWait => Handed'
<1> SUFFICES ASSUME Shape, Handed, EpollWait, server = "oneshot"
             PROVE  MainPlace' /\ (~raced' => Untouched' /\ \A fd \in Fds : Claimed(fd)')
  BY DEF Handed, EpollWait
<1>1. /\ MainPlace /\ (~raced => Untouched /\ \A fd \in Fds : Claimed(fd))
      /\ UNCHANGED <<conn, threadVars>> /\ edges' = {} /\ pc = "wait" /\ pc' = "events"
      /\ batch' = Ready /\ armed' = armed \ Ready
  BY DEF Handed, EpollWait, Disarmed
<1>2. batch = {} /\ \A fd \in Fds : fd \in Ready => fd \in armed
  BY <1>1 DEF MainPlace, Ready, ReadyList
<1>3. MainPlace'
  BY <1>1 DEF MainPlace
<1>4. \A fd \in Fds, t \in Threads : Has(fd, t)' <=> Has(fd, t)
  BY <1>1 DEF Has, threadVars
<1>5. ASSUME ~raced', NEW fd \in Fds PROVE Claimed(fd)'
  <2>1. ~raced /\ Claimed(fd)
    BY <1>1, <1>5 DEF threadVars
  <2>2. fd \in batch' <=> fd \in Ready
    BY <1>1
  <2>3. fd \in armed' <=> fd \in armed /\ fd \notin Ready
    BY <1>1
  <2>4. Free(fd)' <=> Free(fd)
    BY <1>4 DEF Free
  <2> QED
    BY <1>1, <1>2, <1>4, <2>1, <2>2, <2>3, <2>4 DEF Claimed
<1>6. ~raced' => Untouched'
  BY <1>1 DEF Untouched, threadVars
<1> QED
  BY <1>3, <1>5, <1>6

\* An accept that fails only uses up the event, and main's stack.
LEMMA HandedAcceptFails == Shape /\ Handed /\ AcceptFails => Handed'
<1> SUFFICES ASSUME Shape, Handed, AcceptFails, server = "oneshot"
             PROVE  MainPlace' /\ (~raced' => Untouched' /\ \A fd \in Fds : Claimed(fd)')
  BY DEF Handed, AcceptFails
<1>1. /\ MainPlace /\ (~raced => Untouched /\ \A fd \in Fds : Claimed(fd))
      /\ UNCHANGED <<conn, edges, armed, pc, starting, sock, blind, rearming>>
      /\ pc = "events" /\ batch' = batch \ {ListenFd}
  BY DEF Handed, AcceptFails, Dispatch
<1>2. MainPlace'
  BY <1>1 DEF MainPlace
<1>3. ASSUME ~raced' PROVE ~raced /\ (arg' = arg \/ starting = {})
  BY <1>3 DEF AcceptFails, Overwrite
<1>4. ASSUME ~raced' PROVE Untouched'
  BY <1>1, <1>3, <1>4 DEF Untouched
<1>5. ASSUME ~raced', NEW fd \in Fds PROVE Claimed(fd)'
  <2>1. \A t \in Threads : Has(fd, t)' <=> Has(fd, t)
    BY <1>1, <1>3, <1>5 DEF Has
  <2>2. Claimed(fd) /\ ~raced
    BY <1>1, <1>3, <1>5
  <2>3. Free(fd)' <=> Free(fd)
    BY <2>1 DEF Free
  <2>4. fd \in batch' <=> fd \in batch
    BY <1>1, FdNumbers
  <2> QED
    BY <1>1, <2>1, <2>2, <2>3, <2>4 DEF Claimed
<1> QED
  BY <1>2, <1>4, <1>5

\* A new connection gets a descriptor nobody has.
LEMMA HandedAccept == Shape /\ Handed /\ Accept => Handed'
<1> SUFFICES ASSUME Shape, Handed, Accept, server = "oneshot"
             PROVE  MainPlace' /\ (~raced' => Untouched' /\ \A fd \in Fds : Claimed(fd)')
  BY DEF Handed, Accept
<1>1. /\ MainPlace /\ (~raced => Untouched /\ \A fd \in Fds : Claimed(fd))
      /\ UNCHANGED <<pc, starting, sock, blind, rearming>> /\ pc = "events"
      /\ batch' = batch \ {ListenFd} /\ armed' = armed \cup {NewFd}
      /\ \A fd \in Fds : fd \in edges' => fd \in edges \/ fd = NewFd
  BY DEF Handed, Accept, Dispatch
<1>2. /\ NewFd \in Fds /\ conn[NewFd] = None /\ Head(backlog) \in Conns
      /\ conn \in [Fds -> Conns \cup {None}] /\ Head(backlog) # None
      /\ conn' = [conn EXCEPT ![NewFd] = Head(backlog)]
  <2>1. backlog # <<>>
    BY DEF Accept, Dispatch, Shape, Waiting
  <2> QED
    BY <2>1, FreeFd, EpollAssumption DEF EpollAssumption, Accept, Shape, TypeOK, MainTypes
<1>3. MainPlace'
  BY <1>1 DEF MainPlace
<1>4. ASSUME ~raced' PROVE ~raced /\ (arg' = arg \/ starting = {})
  BY <1>4 DEF Accept, Overwrite
<1>5. ASSUME ~raced' PROVE Untouched'
  BY <1>1, <1>4, <1>5 DEF Untouched
<1>6. ASSUME ~raced', NEW fd \in Fds PROVE Claimed(fd)'
  <2>1. \A t \in Threads : Has(fd, t)' <=> Has(fd, t)
    BY <1>1, <1>4, <1>6 DEF Has
  <2>2. Claimed(fd) /\ ~raced
    BY <1>1, <1>4, <1>6
  <2>3. Free(fd)' <=> Free(fd)
    BY <2>1 DEF Free
  <2>4. fd \in batch' <=> fd \in batch
    BY <1>1, FdNumbers
  <2>5. CASE fd = NewFd
    BY <1>1, <1>2, <2>1, <2>2, <2>3, <2>4, <2>5 DEF Claimed
  <2>6. CASE fd # NewFd
    <3>1. conn'[fd] = conn[fd] /\ (fd \in armed' <=> fd \in armed)
      BY <1>1, <1>2, <2>6
    <3> QED
      BY <2>1, <2>2, <2>3, <2>4, <3>1 DEF Claimed
  <2> QED
    BY <2>5, <2>6
<1> QED
  BY <1>3, <1>5, <1>6

\* The event becomes a thread.
LEMMA HandedNewThread == ASSUME Shape, Handed, NEW fd \in Fds, NewThread(fd) PROVE Handed'
<1> SUFFICES MainPlace' /\ (~raced' => Untouched' /\ \A g \in Fds : Claimed(g)')
  BY DEF Handed
<1>1. /\ MainPlace /\ (~raced => Untouched /\ \A g \in Fds : Claimed(g))
      /\ UNCHANGED <<conn, edges, armed, pc, sock, blind, rearming>> /\ pc = "events"
      /\ fd \in batch /\ batch' = batch \ {fd} /\ arg' = fd
      /\ raced' = (raced \/ starting # {})
  BY DEF Handed, NewThread, Dispatch
<1>2. PICK t \in Threads \ Working : starting' = starting \cup {t}
  BY DEF NewThread
<1>3. t \notin starting /\ sock[t] = None
  BY <1>2 DEF Working
<1>4. MainPlace'
  BY <1>1 DEF MainPlace
<1>5. ASSUME ~raced' PROVE ~raced /\ starting = {} /\ starting' = {t}
  BY <1>1, <1>2, <1>5
<1>6. ASSUME ~raced' PROVE Untouched'
  <2>1. t \notin rearming
    BY <1>3, FdNumbers DEF Shape, TypeOK, ThreadTypes
  <2> QED
    BY <1>1, <1>5, <1>6, <2>1 DEF Untouched
<1>7. ASSUME ~raced', NEW g \in Fds PROVE Claimed(g)'
  <2>1. Claimed(g) /\ ~raced /\ starting = {} /\ starting' = {t}
    BY <1>1, <1>5, <1>7
  <2>2. \A u \in Threads : Has(g, u) <=> sock[u] = g
    BY <2>1 DEF Has
  <2>3. \A u \in Threads : Has(g, u)' <=> (sock[u] = g \/ (u = t /\ g = fd))
    BY <1>1, <1>3, <2>1 DEF Has
  <2>4. CASE g = fd
    BY <1>1, <1>2, <2>1, <2>2, <2>3, <2>4 DEF Claimed, Free
  <2>5. CASE g # fd
    <3>1. \A u \in Threads : Has(g, u)' <=> Has(g, u)
      BY <2>2, <2>3, <2>5
    <3>2. (Free(g)' <=> Free(g)) /\ (g \in batch' <=> g \in batch)
      BY <1>1, <2>5, <3>1 DEF Free
    <3> QED
      BY <1>1, <2>1, <3>1, <3>2 DEF Claimed
  <2> QED
    BY <2>4, <2>5
<1> QED
  BY <1>4, <1>6, <1>7

\* A thread that reads its argument keeps what it answers for.
LEMMA HandedRead ==
  ASSUME Shape, Handed, NEW t \in Threads, ReadSockfd(t) \/ ReadEpollfd(t) \/ WorkerEagain(t)
  PROVE  Handed'
<1> SUFFICES ASSUME server = "oneshot"
             PROVE  MainPlace' /\ (~raced' => Untouched' /\ \A fd \in Fds : Claimed(fd)')
  BY DEF Handed, ReadSockfd, ReadEpollfd, WorkerEagain
<1>1. /\ MainPlace /\ (~raced => Untouched /\ \A fd \in Fds : Claimed(fd))
      /\ UNCHANGED <<conn, edges, armed, mainVars, arg, raced>>
  BY DEF Handed, ReadSockfd, ReadEpollfd, WorkerEagain
<1>2. MainPlace'
  BY <1>1 DEF MainPlace, mainVars
<1>3. sock \in [Threads -> Fds \cup {BadFd, None}] /\ BadFd \notin Fds /\ None \notin Fds
  BY FdNumbers DEF Shape, TypeOK, ThreadTypes
<1>4. ASSUME ~raced PROVE Untouched' /\ \A fd \in Fds, u \in Threads : Has(fd, u)' <=> Has(fd, u)
  <2>1. Untouched
    BY <1>1, <1>4
  <2>2. CASE ReadSockfd(t)
    <3>1. /\ t \in starting /\ sock[t] = None /\ sock' = [sock EXCEPT ![t] = arg]
          /\ UNCHANGED <<starting, blind, rearming, arg>> /\ arg \in Fds /\ arg # BadFd
      BY <1>3, <2>1, <2>2 DEF ReadSockfd, Untouched
    <3>2. Untouched'
      BY <1>3, <2>1, <3>1 DEF Untouched
    <3>3. ASSUME NEW fd \in Fds, NEW u \in Threads PROVE Has(fd, u)' <=> Has(fd, u)
      <4>1. CASE u = t
        <5>1. sock'[t] = arg /\ sock[t] # fd /\ sock'[t] # None
          BY <1>3, <3>1
        <5> QED
          BY <3>1, <4>1, <5>1 DEF Has
      <4>2. CASE u # t
        BY <1>3, <3>1, <4>2 DEF Has
      <4> QED
        BY <4>1, <4>2
    <3> QED
      BY <3>2, <3>3
  <2>3. CASE ReadEpollfd(t)
    <3>1. /\ t \in starting /\ sock[t] # None /\ starting' = starting \ {t}
          /\ UNCHANGED <<sock, arg, rearming>> /\ blind' = blind
      BY <1>3, <2>1, <2>3 DEF ReadEpollfd, Untouched
    <3> QED
      BY <2>1, <3>1 DEF Untouched, Has
  <2>4. CASE WorkerEagain(t)
    BY <2>1, <2>4 DEF WorkerEagain, Receiving, Untouched, Has
  <2> QED
    BY <2>2, <2>3, <2>4
<1>5. ASSUME ~raced PROVE \A fd \in Fds : Claimed(fd)'
  BY <1>1, <1>4, <1>5 DEF Claimed, Free, mainVars
<1> QED
  BY <1>1, <1>2, <1>4, <1>5

\* A thread gives its socket back: closed, or to epoll.
LEMMA HandedGiveUp ==
  ASSUME Shape, Handed, NEW t \in Threads, WorkerEnd(t) \/ ResetOneshot(t) PROVE Handed'
<1> SUFFICES ASSUME server = "oneshot"
             PROVE  MainPlace' /\ (~raced' => Untouched' /\ \A fd \in Fds : Claimed(fd)')
  BY DEF Handed, WorkerEnd, ResetOneshot
<1>1. /\ MainPlace /\ (~raced => Untouched /\ \A fd \in Fds : Claimed(fd))
      /\ UNCHANGED <<mainVars, arg, starting, raced>>
      /\ sock' = [sock EXCEPT ![t] = None] /\ blind' = blind \ {t} /\ rearming' \subseteq rearming
  BY DEF Handed, WorkerEnd, ResetOneshot
<1>2. sock \in [Threads -> Fds \cup {BadFd, None}] /\ BadFd \notin Fds /\ None \notin Fds
      /\ conn \in [Fds -> Conns \cup {None}] /\ None \notin Conns
  BY FdNumbers, EpollAssumption DEF EpollAssumption, Shape, TypeOK, ThreadTypes, MainTypes
<1>3. PICK s \in Fds : s = sock[t]
  <2>1. CASE WorkerEnd(t)
    BY <2>1, <1>2, OutcomeMeans DEF WorkerEnd, Receiving
  <2>2. CASE ResetOneshot(t)
    BY <2>2 DEF ResetOneshot, Shape, TypeOK, ThreadTypes
  <2> QED
    BY <2>1, <2>2
<1>4. MainPlace'
  <2>1. \A fd \in Fds : fd \in edges' => fd \in armed'
    <3>1. CASE WorkerEnd(t)
      BY <1>1, <3>1 DEF WorkerEnd, Close, MainPlace
    <3>2. CASE ResetOneshot(t)
      BY <1>1, <3>2 DEF ResetOneshot, Look, MainPlace
    <3> QED
      BY <3>1, <3>2
  <2> QED
    BY <1>1, <2>1 DEF MainPlace, mainVars
<1> SUFFICES ASSUME ~raced PROVE Untouched' /\ \A fd \in Fds : Claimed(fd)'
  BY <1>1, <1>4
<1>5. Untouched /\ (\A fd \in Fds : Claimed(fd)) /\ t \notin starting
  BY <1>1 DEF WorkerEnd, Receiving, ResetOneshot, Untouched
<1>6. Untouched'
  <2>1. None # BadFd
    <3>1. BadFd \in Int
      BY DEF BadFd
    <3> QED
      BY <3>1, NoneAssumption, Zenon DEF NoneAssumption
  <2>2. \A u \in Threads : sock'[u] # BadFd
    BY <1>1, <1>2, <1>5, <2>1 DEF Untouched
  <2> QED
    BY <1>1, <1>5, <2>2 DEF Untouched
<1>7. /\ \A u \in Threads : ~ Has(s, u)'
      /\ \A fd \in Fds \ {s}, u \in Threads : Has(fd, u)' <=> Has(fd, u)
  <2>1. \A fd \in Fds : ~ Has(fd, t)'
    BY <1>1, <1>2, <1>5 DEF Has
  <2>2. \A fd \in Fds, u \in Threads \ {t} : Has(fd, u)' <=> Has(fd, u)
    BY <1>1, <1>2 DEF Has
  <2>3. Has(s, t) /\ Claimed(s) /\ \A fd \in Fds \ {s} : ~ Has(fd, t)
    BY <1>3, <1>5 DEF Has
  <2>4. \A u \in Threads \ {t} : ~ Has(s, u)
    BY <2>3 DEF Claimed
  <2>5. ASSUME NEW u \in Threads PROVE ~ Has(s, u)'
    <3>1. CASE u = t
      BY <1>3, <2>1, <3>1
    <3>2. CASE u # t
      BY <1>3, <2>2, <2>4, <3>2
    <3> QED
      BY <3>1, <3>2
  <2>6. ASSUME NEW fd \in Fds \ {s}, NEW u \in Threads PROVE Has(fd, u)' <=> Has(fd, u)
    <3>1. CASE u = t
      BY <2>1, <2>3, <3>1
    <3>2. CASE u # t
      BY <2>2, <3>2
    <3> QED
      BY <3>1, <3>2
  <2> QED
    BY <2>5, <2>6
<1>8. s \notin armed /\ s \notin batch /\ conn[s] # None
  <2>1. Has(s, t) /\ Claimed(s)
    BY <1>3, <1>5 DEF Has
  <2> QED
    BY <2>1 DEF Claimed, Free
<1>9. /\ (conn'[s] = None <=> s \notin armed')
      /\ \A fd \in Fds \ {s} : conn'[fd] = conn[fd] /\ (fd \in armed' <=> fd \in armed)
  <2>1. CASE WorkerEnd(t)
    BY <1>2, <1>3, <2>1 DEF WorkerEnd, Close
  <2>2. CASE ResetOneshot(t)
    BY <1>3, <1>5, <1>8, <2>2 DEF ResetOneshot, Untouched
  <2> QED
    BY <2>1, <2>2
<1>10. ASSUME NEW fd \in Fds PROVE Claimed(fd)'
  <2>1. batch' = batch
    BY <1>1 DEF mainVars
  <2>2. CASE fd = s
    <3>1. /\ Free(fd)' /\ fd \notin batch' /\ \A u \in Threads : ~ Has(fd, u)'
          /\ (conn'[fd] = None <=> fd \notin armed')
      BY <1>7, <1>8, <1>9, <2>1, <2>2 DEF Free
    <3> QED
      BY <3>1 DEF Claimed
  <2>3. CASE fd # s
    <3>1. (Free(fd)' <=> Free(fd)) /\ \A u \in Threads : Has(fd, u)' <=> Has(fd, u)
      BY <1>7, <2>3 DEF Free
    <3>2. conn'[fd] = conn[fd] /\ (fd \in armed' <=> fd \in armed) /\ Claimed(fd)
      BY <1>5, <1>9, <2>3
    <3> QED
      BY <2>1, <3>1, <3>2 DEF Claimed
  <2> QED
    BY <2>2, <2>3
<1> QED
  BY <1>6, <1>10

LEMMA HandedNext == Shape /\ Handed /\ [Next]_vars => Handed'
<1> SUFFICES ASSUME Shape, Handed, [Next]_vars PROVE Handed'
  OBVIOUS
<1>1. CASE UNCHANGED vars
  BY <1>1, HandedKept DEF vars, mainVars
<1>2. CASE BatchDone \/ EchoDatagram \/ TakeSignals
  <2>1. UNCHANGED <<server, conn, armed, edges, threadVars>> /\ pc = "events"
        /\ (pc' \in {pc, "done"} \/ (pc' = "wait" /\ batch' = {}))
    BY <1>2 DEF BatchDone, EchoDatagram, TakeSignals, Dispatch
  <2>2. \A fd \in Fds : fd \in batch' <=> fd \in batch
    BY <1>2, FdNumbers DEF BatchDone, EchoDatagram, TakeSignals, Dispatch
  <2> QED
    BY <2>1, <2>2, HandedKept
<1>3. CASE \E t \in Threads : Worker(t)
  <2>1. PICK t \in Threads : Worker(t)
    BY <1>3
  <2>2. CASE WorkerRecv(t)
    BY <2>2, HandedKept DEF WorkerRecv, mainVars
  <2> QED
    BY <2>1, <2>2, HandedRead, HandedGiveUp DEF Worker
<1>4. CASE Main
  <2>1. CASE \E fd \in Fds : LtRecv(fd) \/ EtEvent(fd) \/ NewThread(fd) \/ Ignore(fd)
    BY <2>1, HandedOther, HandedNewThread
  <2>2. CASE EtData \/ EtEnd \/ EtBreak
    BY <2>2, HandedOther
  <2> QED
    BY <1>2, <1>4, <2>1, <2>2, HandedWait, HandedAccept, HandedAcceptFails DEF Main
<1>5. CASE Datagram \/ \E sig \in Signals : Raise(sig)
  BY <1>5, HandedOther
<1>6. CASE \E c \in Conns : Client(c)
  BY <1>6, HandedClient
<1> QED
  BY <1>1, <1>3, <1>4, <1>5, <1>6 DEF Next

\* At most one of a set that has at most one kind of element
LEMMA CountOne ==
  ASSUME NEW S, \A x, y \in S : x = y
  PROVE  Cardinality(S) = IF S = {} THEN 0 ELSE 1
<1>1. CASE S = {}
  BY <1>1, FS_EmptySet
<1>2. CASE S # {}
  <2>1. PICK x : S = {x}
    BY <1>2
  <2> QED
    BY <1>2, <2>1, FS_Singleton
<1> QED
  BY <1>1, <1>2

LEMMA ClaimsCounted ==
  ASSUME Shape, NEW fd \in Fds, Claimed(fd)
  PROVE  Claims(fd) = IF conn[fd] = None THEN 0 ELSE 1
<1> DEFINE A == {x \in {fd} : x \in armed}
           B == {x \in {fd} : x \in batch}
           S == {t \in starting : sock[t] = None /\ arg = fd}
           H == {t \in Threads : sock[t] = fd}
<1>1. starting \subseteq Threads /\ None \notin Fds
  BY FdNumbers DEF Shape, TypeOK, ThreadTypes
<1>2. \A t \in S \cup H : t \in Threads /\ Has(fd, t)
  BY <1>1 DEF Has
<1>3. \A t, u \in S \cup H : t = u
  BY <1>2 DEF Claimed
<1>4. S \cap H = {}
  BY <1>1
<1>5. /\ Cardinality(A) = IF A = {} THEN 0 ELSE 1
      /\ Cardinality(B) = IF B = {} THEN 0 ELSE 1
      /\ Cardinality(S) = IF S = {} THEN 0 ELSE 1
      /\ Cardinality(H) = IF H = {} THEN 0 ELSE 1
  BY <1>3, CountOne
<1>6. /\ A = {} <=> fd \notin armed
      /\ B = {} <=> fd \notin batch
      /\ S \cup H = {} <=> Free(fd)
  BY <1>1, <1>2 DEF Free, Has
<1>7. S = {} \/ H = {}
  BY <1>3, <1>4
<1>8. Claims(fd) = Cardinality(A) + Cardinality(B) + Cardinality(S) + Cardinality(H)
  BY DEF Claims
<1> HIDE DEF A, B, S, H
<1>9. S \cup H = {} <=> S = {} /\ H = {}
  OBVIOUS
<1> QED
  BY <1>5, <1>6, <1>7, <1>8, <1>9 DEF Claimed

\* As long as every thread reads its argument before main uses the structure
\* again, a connection of the oneshot server is with epoll, in events[] or with
\* one thread, and never lost between them (1_5:31-47, 119-124).
THEOREM OneHandlerHolds == Spec => []OneHandler
<1>1. Init => Shape /\ Handed
  <2>1. ASSUME Init PROVE Handed
    <3>1. MainPlace
      BY <2>1 DEF Init, MainPlace
    <3>2. Untouched
      BY <2>1, NoneAssumption DEF NoneAssumption, Init, Untouched, BadFd
    <3>3. \A fd \in Fds, t \in Threads : ~ Has(fd, t)
      BY <2>1, FdNumbers DEF Init, Has
    <3>4. \A fd \in Fds : Claimed(fd)
      BY <2>1, <3>3 DEF Init, Claimed, Free
    <3> QED
      BY <3>1, <3>2, <3>4 DEF Handed
  <2> QED
    BY <2>1, ShapeInit
<1>2. Shape /\ Handed /\ [Next]_vars => Shape' /\ Handed'
  BY ShapeNext, HandedNext
<1>3. Shape /\ Handed => OneHandler
  BY ClaimsCounted DEF OneHandler, Handed, Shape
<1> QED
  BY <1>1, <1>2, <1>3, PTL DEF Spec
=============================================================================
