-------------------------------- MODULE PollChat --------------------------------
(* The chat server of 1/1_2_chat_server.cpp: one thread that polls a table of    *)
(* descriptors and scans it.  The table is compacted and extended while it is    *)
(* scanned, and what a user is to be sent is a pointer into another user's       *)
(* buffer.                                                                       *)
EXTENDS Integers, Sequences, FiniteSets, FiniteSetsExt

CONSTANTS Conns, None,
          UserLimit,            \* USER_LIMIT
          Leavers, Resetters,   \* clients that may end, may reset their connection
          Slow,                 \* clients that may stop reading
          MaxSaid               \* bound: how often each client speaks

ASSUME ChatAssumption ==
  /\ IsFiniteSet(Conns) /\ None \notin Conns /\ UserLimit \in Nat \ {0}
  /\ Leavers \subseteq Conns /\ Resetters \subseteq Conns /\ Slow \subseteq Conns
  /\ MaxSaid \in [Conns -> Nat]

Fds == 1 .. UserLimit + 1       \* UserLimit users and one that is turned away
Null == 0
Slots == 1 .. UserLimit

VARIABLES
  status, backlog,   \* of a connection: "new", "backlog", "open", "closed"
  said, wire, fin,   \* messages sent; text not received yet; no more will come
  err,               \* SO_ERROR: "none", "ECONNRESET", "EPIPE", or "taken" again
  full,              \* clients with no room left for what they are sent
  conn,              \* the connection behind a descriptor
  fds, user_counter, \* fds[0] is the listening socket and not in here
  buf, write_buf,    \* users[fd]: the message in buf, whose buf to send
  pc, i,             \* "poll", "scan", or "killed" by SIGPIPE
  ended,             \* history: clients whose end had come when the scan began
  posted,            \* history: who said each message the server has read
  joined,            \* history: messages posted before a user was accepted
  heard,             \* history: what a user was sent, in order
  ahead              \* history: descriptors poll reported and the scan has not seen

clientVars == <<said, wire, fin, err, full>>
tableVars == <<fds, user_counter>>
userVars == <<buf, write_buf>>
historyVars == <<posted, joined, heard>>
scanVars == <<pc, i, ended>>
vars == <<status, backlog, clientVars, conn, tableVars, userVars, scanVars, historyVars, ahead>>

Init ==
  /\ status = [c \in Conns |-> "new"] /\ backlog = <<>>
  /\ said = [c \in Conns |-> 0] /\ wire = [c \in Conns |-> FALSE]
  /\ fin = [c \in Conns |-> FALSE] /\ err = [c \in Conns |-> "none"] /\ full = {}
  /\ conn = [fd \in Fds |-> None]
  /\ fds = [s \in Slots |-> [fd |-> -1, events |-> {}, revents |-> {}]]
  /\ user_counter = 0
  /\ buf = [fd \in Fds |-> 0] /\ write_buf = [fd \in Fds |-> Null]
  /\ pc = "poll" /\ i = 0 /\ ended = {}
  /\ posted = <<>> /\ joined = [c \in Conns |-> 0] /\ heard = [c \in Conns |-> <<>>]
  /\ ahead = {}

(* ---------------------------------- clients ---------------------------------- *)

Alive(c) == status[c] \in {"backlog", "open"} /\ ~fin[c]

Connect(c) ==
  /\ status[c] = "new" /\ status' = [status EXCEPT ![c] = "backlog"]
  /\ backlog' = Append(backlog, c)
  /\ UNCHANGED <<clientVars, conn, tableVars, userVars, scanVars, historyVars, ahead>>
Say(c) ==
  /\ Alive(c) /\ said[c] < MaxSaid[c]
  /\ said' = [said EXCEPT ![c] = @ + 1] /\ wire' = [wire EXCEPT ![c] = TRUE]
  /\ UNCHANGED <<status, backlog, fin, err, full, conn, tableVars, userVars, scanVars, historyVars,
                 ahead>>
Leave(c) ==
  /\ Alive(c) /\ c \in Leavers
  /\ fin' = [fin EXCEPT ![c] = TRUE]
  /\ UNCHANGED <<status, backlog, said, wire, err, full, conn, tableVars, userVars, scanVars,
                 historyVars, ahead>>
\* What a client was sent may reach it after it has closed: its host answers with a
\* reset.  A reset is ECONNRESET, after a FIN it is EPIPE; the text that has arrived
\* can still be received.
Reset(c) ==
  /\ status[c] \in {"backlog", "open"} /\ err[c] = "none"
  /\ c \in Resetters \/ (fin[c] /\ heard[c] # <<>>)
  /\ err' = [err EXCEPT ![c] = IF fin[c] THEN "EPIPE" ELSE "ECONNRESET"]
  /\ fin' = [fin EXCEPT ![c] = TRUE]
  /\ UNCHANGED <<status, backlog, said, wire, full, conn, tableVars, userVars, scanVars,
                 historyVars, ahead>>
\* A client that had stopped reads again.
Drain(c) ==
  /\ c \in full /\ full' = full \ {c}
  /\ UNCHANGED <<status, backlog, said, wire, fin, err, conn, tableVars, userVars, scanVars,
                 historyVars, ahead>>

(* ----------------------------------- poll ------------------------------------ *)

Revents(e) ==
  LET c == conn[e.fd]
  IN  {r \in {"IN", "OUT", "RDHUP", "ERR"} :
         CASE r = "IN" -> wire[c] \/ fin[c]
           [] r = "OUT" -> "OUT" \in e.events /\ (c \notin full \/ err[c] # "none")
           [] r = "RDHUP" -> fin[c]
           [] r = "ERR" -> err[c] \in {"ECONNRESET", "EPIPE"}}
Polled == [s \in Slots |-> IF s <= user_counter THEN [fds[s] EXCEPT !.revents = Revents(fds[s])]
                                                ELSE fds[s]]
Reported == {s \in 1 .. user_counter : Revents(fds[s]) # {}}

\* i = 0 looks at the listening socket, which is skipped when not ready.
Poll ==
  /\ pc = "poll" /\ (backlog # <<>> \/ Reported # {})
  /\ fds' = Polled
  /\ ahead' = {fds[s].fd : s \in Reported}
  /\ pc' = "scan" /\ i' = IF backlog # <<>> THEN 0 ELSE 1
  /\ ended' = {c \in Conns : fin[c]}
  /\ UNCHANGED <<status, backlog, clientVars, conn, user_counter, userVars, historyVars>>
ScanDone ==
  /\ pc = "scan" /\ i > user_counter
  /\ pc' = "poll" /\ i' = 0 /\ ended' = {}
  /\ UNCHANGED <<status, backlog, clientVars, conn, tableVars, userVars, historyVars, ahead>>

(* ------------------------------- a new client -------------------------------- *)

\* A send to a connection that was reset fails and takes the error away; when the
\* error is EPIPE or has been taken it raises SIGPIPE, which nothing here ignores.
SendTo(c) ==
  /\ err' = IF err[c] = "ECONNRESET" THEN [err EXCEPT ![c] = "taken"] ELSE err
  /\ pc' = IF err[c] \in {"EPIPE", "taken"} THEN "killed" ELSE pc

NewFd == Min({fd \in Fds : conn[fd] = None})
Accepting == pc = "scan" /\ i = 0 /\ i' = 1

\* The client stays in the backlog for the next poll.
AcceptFails ==
  /\ Accepting
  /\ UNCHANGED <<status, backlog, clientVars, conn, tableVars, userVars, pc, ended, historyVars,
                 ahead>>
TurnAway ==
  /\ Accepting /\ user_counter >= UserLimit
  /\ SendTo(Head(backlog))
  /\ backlog' = Tail(backlog) /\ status' = [status EXCEPT ![Head(backlog)] = "closed"]
  /\ UNCHANGED <<said, wire, fin, full, conn, tableVars, userVars, ended, historyVars, ahead>>

NewEntryAsksToWrite(fd) == [fd |-> fd, events |-> {"IN", "OUT"}, revents |-> {}]
NewEntry(fd) == [fd |-> fd, events |-> {"IN"}, revents |-> {}]
Join ==
  /\ Accepting /\ user_counter < UserLimit
  /\ backlog' = Tail(backlog) /\ status' = [status EXCEPT ![Head(backlog)] = "open"]
  /\ conn' = [conn EXCEPT ![NewFd] = Head(backlog)]
  /\ user_counter' = user_counter + 1
  /\ fds' = [fds EXCEPT ![user_counter + 1] = NewEntry(NewFd)]
  /\ joined' = [joined EXCEPT ![Head(backlog)] = Len(posted)]
  /\ UNCHANGED <<clientVars, userVars, pc, ended, posted, heard, ahead>>

(* ----------------------------- the scan of the table ------------------------- *)

TurnWritesFirst(r) ==
  /\ pc = "scan" /\ i \in 1 .. user_counter
  /\ r = IF "ERR" \in fds[i].revents THEN "ERR"
         ELSE IF "OUT" \in fds[i].revents THEN "OUT"
         ELSE IF "RDHUP" \in fds[i].revents THEN "RDHUP" ELSE "IN"
  /\ ahead' = ahead \ {fds[i].fd}
\* The tests of the else-ifs, in their order
Turn(r) ==
  /\ pc = "scan" /\ i \in 1 .. user_counter
  /\ r = IF "ERR" \in fds[i].revents THEN "ERR"
         ELSE IF "RDHUP" \in fds[i].revents THEN "RDHUP"
         ELSE IF "IN" \in fds[i].revents THEN "IN" ELSE "OUT"
  /\ ahead' = ahead \ {fds[i].fd}
User == fds[i].fd

LeaveError ==
  /\ Turn("ERR") /\ i' = i + 1
  /\ UNCHANGED <<status, backlog, clientVars, conn, tableVars, userVars, pc, ended, historyVars>>
\* getsockopt takes the error away: the next poll reports the hangup alone.
TakeError ==
  /\ Turn("ERR") /\ i' = i + 1
  /\ err' = [err EXCEPT ![conn[User]] = "taken"]
  /\ UNCHANGED <<status, backlog, said, wire, fin, full, conn, tableVars, userVars, pc, ended,
                 historyVars>>

\* The last entry fills the gap and is looked at next.
GapLeft == fds
GapFilled == [fds EXCEPT ![i] = fds[user_counter]]
StepOn == i + 1
StepBack == i
CloseUser ==
  /\ i' = StepBack
  /\ status' = [status EXCEPT ![conn[User]] = "closed"]
  /\ conn' = [conn EXCEPT ![User] = None]
  /\ fds' = GapFilled /\ user_counter' = user_counter - 1
UserLeft ==
  /\ Turn("RDHUP") /\ CloseUser
  /\ UNCHANGED <<backlog, clientVars, userVars, pc, ended, historyVars>>

\* "|= ~POLLIN" sets every other bit and clears none.
Others == {s \in 1 .. user_counter : s # i}
NobodyAsked == fds
OthersAsked ==
  [s \in Slots |-> IF s \in Others THEN [fds[s] EXCEPT !.events = {"IN", "OUT"}] ELSE fds[s]]
TellOthers ==
  /\ i' = i + 1 /\ fds' = OthersAsked
  /\ write_buf' = [fd \in Fds |-> IF fd \in {fds[s].fd : s \in Others} THEN User ELSE write_buf[fd]]
  /\ posted' = Append(posted, conn[User])
  /\ UNCHANGED <<status, conn, user_counter>>
\* Without text, recv gives the error of a reset, which closes the connection, or
\* EAGAIN, or 0 at the end of the stream.
Text == wire[conn[User]]
Receive ==
  /\ Turn("IN")
  /\ wire' = [wire EXCEPT ![conn[User]] = FALSE]
  /\ buf' = [buf EXCEPT ![User] = IF Text THEN Len(posted) + 1 ELSE 0]
  /\ IF Text THEN TellOthers
     ELSE IF err[conn[User]] = "ECONNRESET" THEN CloseUser /\ UNCHANGED <<write_buf, posted>>
     ELSE i' = i + 1 /\ UNCHANGED <<status, conn, tableVars, write_buf, posted>>
  /\ UNCHANGED <<backlog, said, fin, err, full, pc, ended, joined, heard>>

\* What is sent fits, for poll has said that there is room, and may fill it.
Deliver ==
  /\ Turn("OUT") /\ i' = i + 1
  /\ "OUT" \in fds[i].revents /\ write_buf[User] # Null
  /\ SendTo(conn[User])
  /\ heard' = IF err[conn[User]] = "none"
               THEN [heard EXCEPT ![conn[User]] = Append(@, buf[write_buf[User]])] ELSE heard
  /\ full' \in {full, full \cup (Slow \cap {conn[User]})}
  /\ write_buf' = [write_buf EXCEPT ![User] = Null]
  /\ fds' = [fds EXCEPT ![i].events = {"IN", "OUT"}]
  /\ UNCHANGED <<status, backlog, said, wire, fin, conn, user_counter, buf, ended, posted, joined>>
NothingToDo ==
  /\ Turn("OUT") /\ i' = i + 1
  /\ "OUT" \notin fds[i].revents \/ write_buf[User] = Null
  /\ UNCHANGED <<status, backlog, clientVars, conn, tableVars, userVars, pc, ended, historyVars>>

(* ----------------------------------------------------------------------------- *)

Server == \/ Poll \/ ScanDone \/ AcceptFails \/ TurnAway \/ Join
          \/ TakeError \/ UserLeft \/ Receive \/ Deliver \/ NothingToDo
Next == Server \/ \E c \in Conns : Connect(c) \/ Say(c) \/ Leave(c) \/ Reset(c) \/ Drain(c)

\* The server runs on; no client has to do anything.
Spec == Init /\ [][Next]_vars /\ WF_vars(Server)

(* --------------------------------- properties -------------------------------- *)

Entry == [fd : Fds \cup {-1}, events : SUBSET {"IN", "OUT"},
          revents : SUBSET {"IN", "OUT", "RDHUP", "ERR"}]
\* Every variable has its type.
ClientTypes ==
  /\ status \in [Conns -> {"new", "backlog", "open", "closed"}] /\ backlog \in Seq(Conns)
  /\ said \in [Conns -> Nat] /\ wire \in [Conns -> BOOLEAN]
  /\ fin \in [Conns -> BOOLEAN] /\ full \subseteq Conns
  /\ err \in [Conns -> {"none", "ECONNRESET", "EPIPE", "taken"}]
  /\ conn \in [Fds -> Conns \cup {None}]
TableTypes ==
  /\ fds \in [Slots -> Entry] /\ user_counter \in 0 .. UserLimit
  /\ buf \in [Fds -> Nat] /\ write_buf \in [Fds -> Fds \cup {Null}]
  /\ pc \in {"poll", "scan", "killed"} /\ i \in 0 .. UserLimit + 1
  /\ ahead \subseteq Fds /\ ended \subseteq Conns
HistoryTypes ==
  posted \in Seq(Conns) /\ joined \in [Conns -> Nat] /\ heard \in [Conns -> Seq(Nat)]
TypeOK == ClientTypes /\ TableTypes /\ HistoryTypes

\* The first user_counter entries of the table are the open connections, each
\* once, however accepts and departures follow one another in a scan.
OpenFds == {fd \in Fds : conn[fd] # None}
TableRight ==
  /\ TypeOK
  /\ {fds[s].fd : s \in 1 .. user_counter} = OpenFds
  /\ Cardinality(OpenFds) = user_counter

\* While the table is compacted and extended under the scan, what poll reported
\* and the scan has not come to is exactly what the rest of the table reports:
\* no event is skipped, none is handled twice or for another user.
ScanComplete ==
  pc = "scan" =>
    ahead = {fds[s].fd : s \in {t \in 1 .. user_counter : t >= i /\ fds[t].revents # {}}}

\* What a user is sent through the pointers was said by somebody else, after the
\* user came, and comes once and in order.
HeardRight ==
  \A c \in Conns : \A k \in DOMAIN heard[c] :
    /\ heard[c][k] > joined[c] /\ posted[heard[c][k]] # c
    /\ k > 1 => heard[c][k - 1] < heard[c][k]

\* The server can be killed, by a client that ends its connection and resets it
\* before it is sent something, and in one moment only: between the poll and the
\* send, or while it waits to be turned away.  A client that had gone at the poll,
\* or whose error has been taken, is not sent anything.
Victim == IF i = 0 THEN Head(backlog) ELSE conn[User]
KilledOnlyBetween ==
  [][pc # "killed" /\ pc' = "killed"
       => err[Victim] = "EPIPE" /\ (i > 0 => Victim \notin ended)]_vars

\* A user that has gone is taken out of the table.
LeaverRemoved ==
  \A c \in Conns : (status[c] = "open" /\ fin[c]) ~> (status[c] = "closed" \/ pc = "killed")

\* When others have spoken, a user that reads is sent the last they said, or goes:
\* the newest message is never lost.
Owed(c) == /\ status[c] = "open" /\ ~fin[c]
           /\ \E m \in joined[c] + 1 .. Len(posted) :
                posted[m] # c /\ \A k \in DOMAIN heard[c] : heard[c][k] < m
LastHeard == \A c \in Conns : Owed(c) ~> (~Owed(c) \/ c \in full \/ pc = "killed")

\* src/README.md:140, 206: what a client says is sent to every other one.  Whoever
\* is sent a message was sent all that others had said since it came.
NothingSkipped ==
  \A c \in Conns : \A k \in DOMAIN heard[c] : \A m \in joined[c] + 1 .. heard[c][k] :
    posted[m] # c => \E h \in DOMAIN heard[c] : heard[c][h] = m
=============================================================================
