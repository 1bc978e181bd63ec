----------------------------- MODULE PollChatProofs -----------------------------
(* The table of 1/1_2_chat_server.cpp stays right under its own scan, SIGPIPE    *)
(* comes at one moment only, the scan misses nothing, and what is sent through   *)
(* the pointers into other users' buffers was said by another, for any number of *)
(* clients and places.                                                           *)
EXTENDS PollChat, FiniteSetTheorems, SequenceTheorems, WellFoundedInduction, TLAPS

\* The entries in use are open descriptors, every open one is there, and no
\* descriptor twice.
Rows ==
  /\ \A s \in 1 .. user_counter : fds[s].fd \in Fds /\ conn[fds[s].fd] # None
  /\ \A fd \in OpenFds : \E s \in 1 .. user_counter : fds[s].fd = fd
  /\ \A s, t \in 1 .. user_counter : fds[s].fd = fds[t].fd => s = t
\* main looks at the listening socket when it has a client.
LoopPlace == /\ pc = "scan" /\ i = 0 => backlog # <<>>
             /\ pc = "poll" => i = 0
TableInv == TypeOK /\ Rows /\ LoopPlace

\* The least of some natural numbers is one of them.
LEMMA MinExists == ASSUME NEW S \in SUBSET Nat, S # {} PROVE Min(S) \in S
<1>1. PICK x \in S : \A y \in S : ~ (<<y, x>> \in OpToRel(<, Nat))
  BY NatLessThanWellFounded, WFMin
<1>2. ASSUME NEW y \in S PROVE x <= y
  <2>1. x \in Nat /\ y \in Nat /\ <<y, x>> \in Nat \X Nat
    OBVIOUS
  <2>2. <<y, x>> \in OpToRel(<, Nat) <=> y < x
    BY <2>1, Zenon DEF OpToRel
  <2>3. ~ (y < x)
    BY <1>1, <2>2, Zenon
  <2> QED
    BY <2>1, <2>3
<1> QED
  BY <1>2 DEF Min

LEMMA FdsFinite == IsFiniteSet(Fds) /\ Cardinality(Fds) = UserLimit + 1
  BY ChatAssumption, FS_Interval DEF ChatAssumption, Fds

\* accept has a descriptor for a client that finds a place.
LEMMA FreeFd == TableInv /\ user_counter < UserLimit => NewFd \in Fds /\ conn[NewFd] = None
<1> SUFFICES ASSUME TableInv, user_counter < UserLimit PROVE NewFd \in Fds /\ conn[NewFd] = None
  OBVIOUS
<1> DEFINE free == {fd \in Fds : conn[fd] = None}
<1> DEFINE f == [s \in 1 .. user_counter |-> fds[s].fd]
<1>1. user_counter \in Nat /\ UserLimit \in Nat
  BY ChatAssumption DEF ChatAssumption, TableInv, TypeOK, TableTypes
<1>2. free # {}
  <2> SUFFICES ASSUME free = {} PROVE FALSE
    OBVIOUS
  <2>1. OpenFds = Fds
    BY DEF OpenFds
  <2>2. f \in Surjection(1 .. user_counter, Fds)
    BY <2>1 DEF Surjection, TableInv, Rows
  <2>3. IsFiniteSet(1 .. user_counter) /\ Cardinality(1 .. user_counter) = user_counter
    BY <1>1, FS_Interval
  <2>4. Cardinality(Fds) <= user_counter
    BY <2>2, <2>3, FS_Surjection
  <2> QED
    BY <2>4, <1>1, FdsFinite
<1>3. free \in SUBSET Nat
  BY <1>1 DEF Fds
<1>4. Min(free) \in free
  BY <1>2, <1>3, MinExists
<1> QED
  BY <1>4 DEF NewFd

LEMMA TableInit == Init => TableInv
<1> USE ChatAssumption DEF ChatAssumption
<1>1. Init => TypeOK
  BY DEF Init, TypeOK, ClientTypes, TableTypes, HistoryTypes, Entry, Fds, Slots, Null
<1>2. Init => Rows /\ LoopPlace
  BY DEF Init, Rows, LoopPlace, OpenFds
<1> QED
  BY <1>1, <1>2 DEF TableInv

\* A step that keeps the descriptors of the entries and the connections.
LEMMA RowsKept ==
  Rows /\ conn' = conn /\ user_counter' = user_counter
    /\ (\A s \in 1 .. user_counter : fds'[s].fd = fds[s].fd) => Rows'
  BY DEF Rows, OpenFds

\* The entry the scan is at is that of an open connection.
LEMMA ScanPlace ==
  ASSUME TableInv, pc = "scan", i \in 1 .. user_counter
  PROVE  /\ user_counter \in 1 .. UserLimit /\ 1 .. user_counter \subseteq Slots /\ i \in Slots
         /\ User \in Fds /\ conn[User] \in Conns
         /\ i + 1 \in 1 .. UserLimit + 1 /\ i \in 1 .. UserLimit + 1
  BY ChatAssumption DEF ChatAssumption, TableInv, TypeOK, ClientTypes, TableTypes, Rows, Slots, User

\* A step of a client leaves the table alone.
LEMMA TableClient ==
  ASSUME TableInv, NEW c \in Conns, Connect(c) \/ Say(c) \/ Leave(c) \/ Reset(c) \/ Drain(c)
  PROVE  TableInv'
<1>1. UNCHANGED <<conn, tableVars, userVars, scanVars, historyVars, ahead>>
  BY DEF Connect, Say, Leave, Reset, Drain
<1>2. TableTypes' /\ HistoryTypes'
  BY <1>1
  DEF TableInv, TypeOK, TableTypes, HistoryTypes, tableVars, userVars, scanVars, historyVars
<1>3. backlog' \in {backlog, Append(backlog, c)}
  BY DEF Connect, Say, Leave, Reset, Drain
<1>4. backlog' \in Seq(Conns) /\ (backlog # <<>> => backlog' # <<>>)
  <2>1. backlog \in Seq(Conns)
    BY DEF TableInv, TypeOK, ClientTypes
  <2>2. Append(backlog, c) \in Seq(Conns) /\ Append(backlog, c) # <<>>
    BY <2>1, AppendProperties
  <2> QED
    BY <1>3, <2>1, <2>2
<1>5. LoopPlace'
  BY <1>1, <1>4 DEF TableInv, LoopPlace, scanVars
<1>6. ClientTypes'
  <2>1. CASE Connect(c)
    BY <2>1, <1>4 DEF Connect, TableInv, TypeOK, ClientTypes, clientVars
  <2>2. CASE Say(c)
    BY <2>2, <1>4 DEF Say, TableInv, TypeOK, ClientTypes
  <2>3. CASE Leave(c)
    BY <2>3, <1>4 DEF Leave, TableInv, TypeOK, ClientTypes
  <2>4. CASE Reset(c)
    BY <2>4, <1>4 DEF Reset, TableInv, TypeOK, ClientTypes
  <2>5. CASE Drain(c)
    BY <2>5, <1>4 DEF Drain, TableInv, TypeOK, ClientTypes
  <2> QED
    BY <2>1, <2>2, <2>3, <2>4, <2>5
<1>7. Rows'
  BY <1>1, RowsKept DEF TableInv, tableVars
<1> QED
  BY <1>2, <1>5, <1>6, <1>7 DEF TableInv, TypeOK

LEMMA TablePoll == TableInv /\ Poll => TableInv'
<1> SUFFICES ASSUME TableInv, Poll PROVE TableInv'
  OBVIOUS
<1>1. user_counter \in Nat /\ 1 .. user_counter \subseteq Slots
  BY ChatAssumption DEF ChatAssumption, TableInv, TypeOK, TableTypes, Slots
<1>2. Polled \in [Slots -> Entry] /\ \A s \in Slots : Polled[s].fd = fds[s].fd
  <2>1. ASSUME NEW s \in Slots
        PROVE  Polled[s] \in Entry /\ Polled[s].fd = fds[s].fd
    <3>1. fds[s] \in Entry /\ Revents(fds[s]) \in SUBSET {"IN", "OUT", "RDHUP", "ERR"}
      BY DEF TableInv, TypeOK, TableTypes, Revents
    <3>2. [fds[s] EXCEPT !.revents = Revents(fds[s])] \in Entry
          /\ [fds[s] EXCEPT !.revents = Revents(fds[s])].fd = fds[s].fd
      BY <3>1 DEF Entry
    <3> QED
      BY <3>1, <3>2 DEF Polled
  <2> QED
    BY <2>1 DEF Polled
<1>3. ahead' \subseteq Fds
  BY DEF Poll, TableInv, Rows, Reported
<1>4. TableTypes'
  BY <1>2, <1>3, ChatAssumption
  DEF ChatAssumption, Poll, TableInv, TypeOK, TableTypes, userVars
<1>5. ClientTypes' /\ HistoryTypes' /\ LoopPlace'
  BY DEF Poll, TableInv, TypeOK, ClientTypes, HistoryTypes, LoopPlace, clientVars, historyVars
<1>6. Rows'
  BY <1>1, <1>2, RowsKept DEF Poll, TableInv
<1> QED
  BY <1>4, <1>5, <1>6 DEF TableInv, TypeOK

LEMMA TableJoin == TableInv /\ Join => TableInv'
<1> SUFFICES ASSUME TableInv, Join PROVE TableInv'
  OBVIOUS
<1>1. NewFd \in Fds /\ conn[NewFd] = None
  BY FreeFd DEF Join
<1>2. backlog # <<>> /\ Head(backlog) \in Conns /\ Tail(backlog) \in Seq(Conns)
      /\ Head(backlog) # None
  BY ChatAssumption DEF ChatAssumption, Join, Accepting, TableInv, TypeOK, ClientTypes, LoopPlace
<1>3. user_counter \in Nat /\ user_counter + 1 \in Slots /\ user_counter' = user_counter + 1
      /\ user_counter + 1 \in 0 .. UserLimit
  BY ChatAssumption DEF ChatAssumption, Join, TableInv, TypeOK, TableTypes, Slots
<1>4. NewEntry(NewFd) \in Entry /\ NewEntry(NewFd).fd = NewFd
  BY <1>1 DEF NewEntry, Entry
<1>5. fds' = [fds EXCEPT ![user_counter + 1] = NewEntry(NewFd)] /\ fds \in [Slots -> Entry]
      /\ conn' = [conn EXCEPT ![NewFd] = Head(backlog)] /\ conn \in [Fds -> Conns \cup {None}]
  BY DEF Join, TableInv, TypeOK, TableTypes, ClientTypes
<1>6. TableTypes'
  BY <1>3, <1>4, <1>5, ChatAssumption
  DEF ChatAssumption, Join, Accepting, TableInv, TypeOK, TableTypes, userVars
<1>7. ClientTypes'
  BY <1>1, <1>2, <1>5 DEF Join, TableInv, TypeOK, ClientTypes, clientVars
<1>8. HistoryTypes'
  BY <1>2 DEF Join, TableInv, TypeOK, HistoryTypes
<1>9. Rows'
  <2>1. fds'[user_counter + 1].fd = NewFd
        /\ \A s \in 1 .. user_counter : fds'[s] = fds[s] /\ s # user_counter + 1
    BY <1>3, <1>4, <1>5
  <2>2. conn'[NewFd] # None /\ \A fd \in Fds \ {NewFd} : conn'[fd] = conn[fd]
    BY <1>1, <1>2, <1>5
  <2>3. 1 .. user_counter' = (1 .. user_counter) \cup {user_counter + 1}
    BY <1>3
  <2>4. \A s \in 1 .. user_counter : fds[s].fd \in Fds \ {NewFd} /\ conn[fds[s].fd] # None
    BY <1>1 DEF TableInv, Rows
  <2>5. \A s \in 1 .. user_counter' : fds'[s].fd \in Fds /\ conn'[fds'[s].fd] # None
    BY <1>1, <2>1, <2>2, <2>3, <2>4
  <2>6. \A fd \in OpenFds' : \E s \in 1 .. user_counter' : fds'[s].fd = fd
    BY <2>1, <2>2, <2>3 DEF TableInv, Rows, OpenFds
  <2>7. \A s, t \in 1 .. user_counter' : fds'[s].fd = fds'[t].fd => s = t
    BY <2>1, <2>3, <2>4 DEF TableInv, Rows
  <2> QED
    BY <2>5, <2>6, <2>7 DEF Rows
<1>10. LoopPlace'
  BY DEF Join, Accepting, LoopPlace
<1> QED
  BY <1>6, <1>7, <1>8, <1>9, <1>10 DEF TableInv, TypeOK

\* A connection is closed: the last entry is moved into the gap.
LEMMA TableClose ==
  ASSUME TableInv, pc = "scan", i \in 1 .. user_counter, CloseUser
  PROVE  /\ status' \in [Conns -> {"new", "backlog", "open", "closed"}]
         /\ conn' \in [Fds -> Conns \cup {None}] /\ fds' \in [Slots -> Entry]
         /\ user_counter' \in 0 .. UserLimit /\ i' \in 1 .. UserLimit + 1 /\ Rows'
<1>1. /\ user_counter' = user_counter - 1 /\ fds' = [fds EXCEPT ![i] = fds[user_counter]]
      /\ conn' = [conn EXCEPT ![User] = None] /\ i' = i
      /\ status' = [status EXCEPT ![conn[User]] = "closed"]
  BY DEF CloseUser, StepBack, GapFilled
<1>2. /\ user_counter \in 1 .. UserLimit /\ 1 .. user_counter \subseteq Slots /\ i \in Slots
      /\ User \in Fds /\ conn[User] \in Conns /\ user_counter \in Slots
      /\ i \in 1 .. UserLimit + 1 /\ user_counter - 1 \in 0 .. UserLimit
  BY ScanPlace, ChatAssumption DEF ChatAssumption
<1>3. fds \in [Slots -> Entry] /\ conn \in [Fds -> Conns \cup {None}]
      /\ status \in [Conns -> {"new", "backlog", "open", "closed"}]
  BY DEF TableInv, TypeOK, TableTypes, ClientTypes
<1>4. /\ status' \in [Conns -> {"new", "backlog", "open", "closed"}]
      /\ conn' \in [Fds -> Conns \cup {None}] /\ fds' \in [Slots -> Entry]
      /\ user_counter' \in 0 .. UserLimit /\ i' \in 1 .. UserLimit + 1
  BY <1>1, <1>2, <1>3
<1>7. Rows'
  <2>1. \A s \in 1 .. user_counter' : s \in 1 .. user_counter /\ s # user_counter
          /\ fds'[s] = IF s = i THEN fds[user_counter] ELSE fds[s]
    BY <1>1, <1>2, <1>3
  <2>2. conn'[User] = None /\ \A fd \in Fds \ {User} : conn'[fd] = conn[fd]
    BY <1>1, <1>2, <1>3
  <2>3. \A s \in 1 .. user_counter : fds[s].fd \in Fds /\ conn[fds[s].fd] # None
          /\ (fds[s].fd = User => s = i)
    BY <1>1 DEF TableInv, Rows, User
  <2>4. ASSUME NEW s \in 1 .. user_counter'
        PROVE  fds'[s].fd \in Fds \ {User} /\ conn'[fds'[s].fd] # None
    <3>1. CASE s = i
      <4>1. fds'[s] = fds[user_counter] /\ user_counter \in 1 .. user_counter /\ user_counter # i
        BY <3>1, <2>1, <1>2
      <4> QED
        BY <4>1, <2>2, <2>3
    <3>2. CASE s # i
      BY <3>2, <2>1, <2>2, <2>3
    <3> QED
      BY <3>1, <3>2
  <2>5. \A fd \in OpenFds' : \E s \in 1 .. user_counter' : fds'[s].fd = fd
    <3> SUFFICES ASSUME NEW fd \in OpenFds' PROVE \E s \in 1 .. user_counter' : fds'[s].fd = fd
      OBVIOUS
    <3>1. fd \in OpenFds /\ fd # User
      BY <2>2 DEF OpenFds
    <3>2. PICK s \in 1 .. user_counter : fds[s].fd = fd
      BY <3>1 DEF TableInv, Rows
    <3>3. s # i
      BY <3>1, <3>2 DEF User
    <3>4. CASE s = user_counter
      <4>1. i \in 1 .. user_counter' /\ fds'[i] = fds[s]
        BY <1>1, <1>2, <2>1, <3>3, <3>4
      <4> QED
        BY <4>1, <3>2
    <3>5. CASE s # user_counter
      <4>1. s \in 1 .. user_counter' /\ fds'[s] = fds[s]
        BY <1>1, <1>2, <2>1, <3>3, <3>5
      <4> QED
        BY <4>1, <3>2
    <3> QED
      BY <3>4, <3>5
  <2>6. \A s, t \in 1 .. user_counter' : fds'[s].fd = fds'[t].fd => s = t
    <3>1. user_counter \in 1 .. user_counter
      BY <1>2
    <3> QED
      BY <3>1, <2>1 DEF TableInv, Rows
  <2> QED
    BY <2>4, <2>5, <2>6 DEF Rows
<1> QED
  BY <1>4, <1>7

LEMMA TableUserLeft == TableInv /\ UserLeft => TableInv'
<1> SUFFICES ASSUME TableInv, UserLeft PROVE TableInv'
  OBVIOUS
<1>1. i \in 1 .. user_counter /\ pc = "scan" /\ ahead' \subseteq ahead /\ CloseUser
      /\ UNCHANGED <<backlog, clientVars, userVars, pc, ended, historyVars>>
  BY DEF UserLeft, Turn
<1>2. /\ status' \in [Conns -> {"new", "backlog", "open", "closed"}]
      /\ conn' \in [Fds -> Conns \cup {None}] /\ fds' \in [Slots -> Entry]
      /\ user_counter' \in 0 .. UserLimit /\ i' \in 1 .. UserLimit + 1 /\ Rows'
  BY <1>1, TableClose
<1>3. TypeOK'
  BY <1>1, <1>2 DEF TableInv, TypeOK, TableTypes, ClientTypes, HistoryTypes, userVars, clientVars,
                    historyVars
<1>4. LoopPlace'
  BY <1>1, <1>2 DEF LoopPlace
<1> QED
  BY <1>2, <1>3, <1>4 DEF TableInv

LEMMA TableReceive == TableInv /\ Receive => TableInv'
<1> SUFFICES ASSUME TableInv, Receive PROVE TableInv'
  OBVIOUS
<1>1. i \in 1 .. user_counter /\ pc = "scan" /\ ahead' \subseteq ahead
  BY DEF Receive, Turn
<1>2. /\ user_counter \in 1 .. UserLimit /\ 1 .. user_counter \subseteq Slots /\ i \in Slots
      /\ User \in Fds /\ conn[User] \in Conns /\ i + 1 \in 1 .. UserLimit + 1
  BY <1>1, ScanPlace
<1>3. OthersAsked \in [Slots -> Entry] /\ \A s \in Slots : OthersAsked[s].fd = fds[s].fd
  <2>1. ASSUME NEW s \in Slots
        PROVE  OthersAsked[s] \in Entry /\ OthersAsked[s].fd = fds[s].fd
    <3>1. fds[s] \in Entry
      BY DEF TableInv, TypeOK, TableTypes
    <3>2. [fds[s] EXCEPT !.events = {"IN", "OUT"}] \in Entry
          /\ [fds[s] EXCEPT !.events = {"IN", "OUT"}].fd = fds[s].fd
      BY <3>1 DEF Entry
    <3> QED
      BY <3>1, <3>2 DEF OthersAsked
  <2> QED
    BY <2>1 DEF OthersAsked
<1>4. /\ wire' \in [Conns -> BOOLEAN] /\ buf' \in [Fds -> Nat] /\ Len(posted) + 1 \in Nat
      /\ UNCHANGED <<backlog, said, fin, err, full, pc, ended, joined, heard>>
  BY <1>2 DEF Receive, TableInv, TypeOK, ClientTypes, TableTypes, HistoryTypes
<1>5. /\ status' \in [Conns -> {"new", "backlog", "open", "closed"}]
      /\ conn' \in [Fds -> Conns \cup {None}] /\ fds' \in [Slots -> Entry]
      /\ user_counter' \in 0 .. UserLimit /\ i' \in 1 .. UserLimit + 1 /\ Rows'
      /\ write_buf' \in [Fds -> Fds \cup {Null}] /\ posted' \in Seq(Conns)
  <2>1. CASE Text
    <3>1. TellOthers
      BY <2>1 DEF Receive
    <3>2. write_buf' \in [Fds -> Fds \cup {Null}] /\ posted' \in Seq(Conns)
      BY <1>2, <3>1 DEF TellOthers, TableInv, TypeOK, TableTypes, HistoryTypes
    <3>3. Rows'
      BY <1>2, <1>3, <3>1, RowsKept DEF TellOthers, TableInv
    <3> QED
      BY <1>2, <1>3, <3>1, <3>2, <3>3
      DEF TellOthers, TableInv, TypeOK, TableTypes, ClientTypes
  <2>2. CASE ~ Text /\ err[conn[User]] = "ECONNRESET"
    <3>1. CloseUser /\ UNCHANGED <<write_buf, posted>>
      BY <2>2 DEF Receive
    <3> QED
      BY <1>1, <3>1, TableClose DEF TableInv, TypeOK, TableTypes, HistoryTypes
  <2>3. CASE ~ Text /\ err[conn[User]] # "ECONNRESET"
    <3>1. i' = i + 1 /\ UNCHANGED <<status, conn, fds, user_counter, write_buf, posted>>
      BY <2>3 DEF Receive, tableVars
    <3>2. Rows'
      BY <3>1, RowsKept DEF TableInv
    <3> QED
      BY <1>2, <3>1, <3>2 DEF TableInv, TypeOK, TableTypes, ClientTypes, HistoryTypes
  <2> QED
    BY <2>1, <2>2, <2>3
<1>6. TableTypes'
  BY <1>1, <1>4, <1>5 DEF TableInv, TypeOK, TableTypes
<1>7. ClientTypes' /\ HistoryTypes'
  BY <1>4, <1>5 DEF TableInv, TypeOK, ClientTypes, HistoryTypes
<1>8. LoopPlace'
  BY <1>1, <1>4, <1>5 DEF LoopPlace
<1> QED
  BY <1>5, <1>6, <1>7, <1>8 DEF TableInv, TypeOK

LEMMA TableDeliver == TableInv /\ Deliver => TableInv'
<1> SUFFICES ASSUME TableInv, Deliver PROVE TableInv'
  OBVIOUS
<1>1. i \in 1 .. user_counter /\ pc = "scan" /\ ahead' \subseteq ahead
  BY DEF Deliver, Turn
<1>2. /\ user_counter \in 1 .. UserLimit /\ 1 .. user_counter \subseteq Slots /\ i \in Slots
      /\ User \in Fds /\ conn[User] \in Conns /\ i + 1 \in 1 .. UserLimit + 1
  BY <1>1, ScanPlace
<1>3. fds' = [fds EXCEPT ![i].events = {"IN", "OUT"}] /\ fds \in [Slots -> Entry]
  BY DEF Deliver, TableInv, TypeOK, TableTypes
<1>4. fds' \in [Slots -> Entry] /\ \A s \in Slots : fds'[s].fd = fds[s].fd
  <2>1. fds[i] \in Entry
    BY <1>2, <1>3
  <2>2. [fds[i] EXCEPT !.events = {"IN", "OUT"}] \in Entry
        /\ [fds[i] EXCEPT !.events = {"IN", "OUT"}].fd = fds[i].fd
    BY <2>1 DEF Entry
  <2> QED
    BY <1>2, <1>3, <2>2
<1>5. write_buf \in [Fds -> Fds \cup {Null}] /\ write_buf[User] # Null /\ buf \in [Fds -> Nat]
  BY DEF Deliver, TableInv, TypeOK, TableTypes
<1>6. buf[write_buf[User]] \in Nat /\ write_buf' \in [Fds -> Fds \cup {Null}]
  BY <1>2, <1>5 DEF Deliver
<1>7. /\ pc' \in {"scan", "killed"} /\ full' \subseteq Conns
      /\ err' \in [Conns -> {"none", "ECONNRESET", "EPIPE", "taken"}]
      /\ heard' \in [Conns -> Seq(Nat)]
  BY <1>1, <1>2, <1>6 DEF Deliver, SendTo, TableInv, TypeOK, ClientTypes, HistoryTypes
<1>8. TableTypes'
  BY <1>1, <1>2, <1>4, <1>6, <1>7 DEF Deliver, TableInv, TypeOK, TableTypes, Turn
<1>9. ClientTypes' /\ HistoryTypes'
  BY <1>7 DEF Deliver, TableInv, TypeOK, ClientTypes, HistoryTypes
<1>10. Rows'
  BY <1>2, <1>4, RowsKept DEF Deliver, TableInv
<1>11. LoopPlace'
  BY <1>1, <1>2, <1>7 DEF Deliver, Turn, LoopPlace
<1> QED
  BY <1>8, <1>9, <1>10, <1>11 DEF TableInv, TypeOK

\* The steps that touch neither the table nor the connections.
LEMMA TableRest ==
  ASSUME TableInv, ScanDone \/ AcceptFails \/ TurnAway \/ TakeError \/ NothingToDo
  PROVE  TableInv'
<1>1. UNCHANGED <<conn, tableVars, userVars, historyVars>> /\ ahead' \subseteq ahead
      /\ pc' \in {"poll", "scan", "killed"} /\ ended' \in {ended, {}}
  BY DEF ScanDone, AcceptFails, TurnAway, TakeError, NothingToDo, Accepting, SendTo, Turn
<1>2. i' \in 0 .. UserLimit + 1 /\ LoopPlace'
  <2>1. CASE ScanDone
    BY <2>1, ChatAssumption DEF ChatAssumption, ScanDone, LoopPlace
  <2>2. CASE AcceptFails \/ TurnAway
    <3>1. i' = 1 /\ pc' \in {"scan", "killed"}
      BY <2>2 DEF AcceptFails, TurnAway, Accepting, SendTo
    <3> QED
      BY <3>1, ChatAssumption DEF ChatAssumption, LoopPlace
  <2>3. CASE TakeError \/ NothingToDo
    <3>1. pc = "scan" /\ pc' = "scan" /\ i \in 1 .. user_counter /\ i' = i + 1
      BY <2>3 DEF TakeError, NothingToDo, Turn
    <3> QED
      BY <3>1, ScanPlace DEF LoopPlace
  <2> QED
    BY <2>1, <2>2, <2>3
<1>3. TableTypes' /\ HistoryTypes'
  BY <1>1, <1>2 DEF TableInv, TypeOK, TableTypes, HistoryTypes, tableVars, userVars, historyVars
<1>4. ClientTypes'
  <2>1. CASE ScanDone \/ AcceptFails \/ NothingToDo
    BY <2>1 DEF ScanDone, AcceptFails, NothingToDo, TableInv, TypeOK, ClientTypes, clientVars
  <2>2. CASE TurnAway
    <3>1. backlog # <<>>
      BY <2>2 DEF TurnAway, Accepting, TableInv, LoopPlace
    <3>2. err' \in [Conns -> {"none", "ECONNRESET", "EPIPE", "taken"}]
      BY <2>2 DEF TurnAway, SendTo, TableInv, TypeOK, ClientTypes
    <3>3. backlog \in Seq(Conns) /\ Tail(backlog) \in Seq(Conns) /\ Head(backlog) \in Conns
      BY <3>1 DEF TableInv, TypeOK, ClientTypes
    <3>4. status' \in [Conns -> {"new", "backlog", "open", "closed"}]
      BY <2>2, <3>3 DEF TurnAway, TableInv, TypeOK, ClientTypes
    <3> QED
      BY <2>2, <3>2, <3>3, <3>4 DEF TurnAway, TableInv, TypeOK, ClientTypes
  <2>3. CASE TakeError
    BY <2>3 DEF TakeError, TableInv, TypeOK, ClientTypes
  <2> QED
    BY <2>1, <2>2, <2>3
<1>5. Rows'
  BY <1>1, RowsKept DEF TableInv, tableVars
<1> QED
  BY <1>2, <1>3, <1>4, <1>5 DEF TableInv, TypeOK

LEMMA TableNext == TableInv /\ [Next]_vars => TableInv'
<1>1. TableInv /\ UNCHANGED vars => TableInv'
  BY SMTT(30) DEF vars, TableInv, TypeOK, ClientTypes, TableTypes, HistoryTypes, Rows, LoopPlace,
                  OpenFds, clientVars, tableVars, userVars, scanVars, historyVars
<1> QED
  BY <1>1, TableClient, TablePoll, TableJoin, TableUserLeft, TableReceive, TableDeliver, TableRest
  DEF Next, Server

\* TableInv counts the open descriptors.
LEMMA TableCounts == TableInv => TableRight
<1> SUFFICES ASSUME TableInv PROVE TableRight
  OBVIOUS
<1> DEFINE f == [s \in 1 .. user_counter |-> fds[s].fd]
<1>1. {fds[s].fd : s \in 1 .. user_counter} = OpenFds
  BY DEF TableInv, Rows, OpenFds
<1>2. f \in Bijection(1 .. user_counter, OpenFds)
  <2>1. f \in [1 .. user_counter -> OpenFds]
    BY DEF TableInv, Rows, OpenFds
  <2>2. f \in Injection(1 .. user_counter, OpenFds)
    <3>1. \A s, t \in 1 .. user_counter : f[s] = f[t] => s = t
      BY DEF TableInv, Rows
    <3> QED
      BY <2>1, <3>1 DEF Injection, IsInjective
  <2>3. f \in Surjection(1 .. user_counter, OpenFds)
    BY <2>1 DEF Surjection, TableInv, Rows
  <2> QED
    BY <2>2, <2>3 DEF Bijection
<1>3. user_counter \in Nat
  BY DEF TableInv, TypeOK, TableTypes
<1>4. IsFiniteSet(1 .. user_counter) /\ Cardinality(1 .. user_counter) = user_counter
  BY <1>3, FS_Interval
<1>5. Cardinality(OpenFds) = user_counter
  BY <1>2, <1>4, FS_Bijection DEF ExistsBijection
<1> QED
  BY <1>1, <1>5 DEF TableRight, TableInv

\* Whatever accepts and departures do in one scan, the first user_counter entries
\* of the table are the open connections, each once, and the table never
\* overflows (lines 92, 99-104, 117-124).
THEOREM TableCorrect == Spec => []TableRight
<1>1. Spec => []TableInv
  BY TableInit, TableNext, PTL DEF Spec
<1> QED
  BY <1>1, TableCounts, PTL

(* ---------------------------------- SIGPIPE ------------------------------------ *)

\* A client waits once in the backlog, and an open one has one descriptor.
Queued ==
  /\ \A k \in 1 .. Len(backlog) : status[backlog[k]] = "backlog"
  /\ \A j, k \in 1 .. Len(backlog) : backlog[j] = backlog[k] => j = k
OneFd ==
  /\ \A fd \in OpenFds : status[conn[fd]] = "open"
  /\ \A f, g \in OpenFds : conn[f] = conn[g] => f = g
\* What poll said of an entry that the scan has not come to still holds: one with
\* an error has it still, and one with neither error nor hangup has its text, was
\* not gone, and its error, if one came meanwhile, nobody has taken.
Quiet(e) == "ERR" \notin e.revents /\ "RDHUP" \notin e.revents
Told(e) ==
  /\ "ERR" \in e.revents => err[conn[e.fd]] # "none"
  /\ Quiet(e) /\ "IN" \in e.revents => wire[conn[e.fd]]
  /\ Quiet(e) /\ "OUT" \in e.revents => err[conn[e.fd]] # "taken" /\ conn[e.fd] \notin ended
StillSo == pc = "scan" => \A s \in 1 .. user_counter : s >= i => Told(fds[s])
ErrorEnds == \A c \in Conns : /\ err[c] # "none" => fin[c]
                              /\ status[c] \in {"new", "backlog"} => err[c] # "taken"
ResetInv == TableInv /\ Queued /\ OneFd /\ ErrorEnds /\ StillSo

LEMMA ResetInit == Init => ResetInv
<1> SUFFICES ASSUME Init PROVE ResetInv
  OBVIOUS
<1>1. Queued /\ OneFd
  BY DEF Init, Queued, OneFd, OpenFds
<1>2. ErrorEnds /\ StillSo
  BY DEF Init, ErrorEnds, StillSo
<1> QED
  BY <1>1, <1>2, TableInit DEF ResetInv

\* The client at the head of the backlog is taken out of it.
LEMMA QueueTail ==
  ASSUME TypeOK, Queued, backlog # <<>>, backlog' = Tail(backlog),
         NEW st \in {"open", "closed"}, status' = [status EXCEPT ![Head(backlog)] = st]
  PROVE  Queued' /\ status[Head(backlog)] = "backlog" /\ Head(backlog) \in Conns
<1>1. backlog \in Seq(Conns) /\ status \in [Conns -> {"new", "backlog", "open", "closed"}]
  BY DEF TypeOK, ClientTypes
<1>2. Len(backlog) \in Nat \ {0} /\ Head(backlog) = backlog[1] /\ Head(backlog) \in Conns
  BY <1>1
<1>3. Len(backlog') = Len(backlog) - 1
      /\ \A k \in 1 .. Len(backlog') : backlog'[k] = backlog[k + 1] /\ k + 1 \in 2 .. Len(backlog)
  BY <1>1, <1>2
<1>4. \A k \in 2 .. Len(backlog) : backlog[k] \in Conns /\ backlog[k] # Head(backlog)
  BY <1>1, <1>2 DEF Queued
<1>5. \A k \in 1 .. Len(backlog') : status'[backlog'[k]] = "backlog"
  BY <1>1, <1>2, <1>3, <1>4 DEF Queued
<1>6. \A j, k \in 1 .. Len(backlog') : backlog'[j] = backlog'[k] => j = k
  BY <1>2, <1>3 DEF Queued
<1> QED
  BY <1>2, <1>5, <1>6 DEF Queued

LEMMA ResetClient ==
  ASSUME ResetInv, NEW c \in Conns, Connect(c) \/ Say(c) \/ Leave(c) \/ Reset(c) \/ Drain(c)
  PROVE  ResetInv'
<1>1. TableInv' /\ UNCHANGED <<conn, tableVars, scanVars>>
  BY TableClient DEF ResetInv, Connect, Say, Leave, Reset, Drain
<1>2. Queued' /\ OneFd'
  <2>1. CASE Connect(c)
    <3>1. backlog \in Seq(Conns) /\ backlog' = Append(backlog, c) /\ status[c] = "new"
          /\ status' = [status EXCEPT ![c] = "backlog"]
          /\ status \in [Conns -> {"new", "backlog", "open", "closed"}]
          /\ conn \in [Fds -> Conns \cup {None}]
      BY <2>1 DEF Connect, ResetInv, TableInv, TypeOK, ClientTypes
    <3>2. Len(backlog') = Len(backlog) + 1 /\ backlog'[Len(backlog) + 1] = c
          /\ \A k \in 1 .. Len(backlog) : backlog'[k] = backlog[k] /\ backlog[k] \in Conns
      BY <3>1, AppendProperties
    <3>3. Len(backlog) \in Nat
      BY <3>1
    <3>4. \A k \in 1 .. Len(backlog) : backlog[k] # c
      BY <3>1 DEF ResetInv, Queued
    <3>5. Queued'
      BY <3>1, <3>2, <3>3, <3>4 DEF ResetInv, Queued
    <3>6. OneFd'
      BY <1>1, <3>1 DEF ResetInv, OneFd, OpenFds
    <3> QED
      BY <3>5, <3>6
  <2>2. CASE Say(c) \/ Leave(c) \/ Reset(c) \/ Drain(c)
    BY <1>1, <2>2 DEF Say, Leave, Reset, Drain, ResetInv, Queued, OneFd, OpenFds
  <2> QED
    BY <2>1, <2>2
<1>3. /\ ErrorEnds'
      /\ \A d \in Conns : /\ err'[d] = "taken" => err[d] = "taken"
                          /\ err'[d] = "none" => err[d] = "none"
                          /\ wire[d] => wire'[d]
  <2>1. CASE Connect(c)
    BY <2>1 DEF Connect, clientVars, ResetInv, ErrorEnds, TableInv, TypeOK, ClientTypes
  <2>2. CASE Say(c) \/ Leave(c) \/ Drain(c)
    BY <2>2 DEF Say, Leave, Drain, ResetInv, ErrorEnds, TableInv, TypeOK, ClientTypes
  <2>3. CASE Reset(c)
    BY <2>3 DEF Reset, ResetInv, ErrorEnds, TableInv, TypeOK, ClientTypes
  <2> QED
    BY <2>1, <2>2, <2>3
<1>4. StillSo'
  <2>1. \A s \in 1 .. user_counter : conn[fds[s].fd] \in Conns
    BY DEF ResetInv, TableInv, TypeOK, ClientTypes, Rows
  <2>2. UNCHANGED <<conn, fds, user_counter, pc, i, ended>>
    BY <1>1 DEF tableVars, scanVars
  <2>3. ASSUME NEW s \in 1 .. user_counter, pc = "scan", s >= i
        PROVE  Told(fds[s])'
    <3>1. Told(fds[s])
      BY <2>3 DEF ResetInv, StillSo
    <3>2. PICK d \in Conns : d = conn[fds[s].fd] /\ conn'[fds'[s].fd] = d /\ fds'[s] = fds[s]
      BY <2>1, <2>2
    <3>3. /\ err'[d] = "taken" => err[d] = "taken"
          /\ err'[d] = "none" => err[d] = "none"
          /\ wire[d] => wire'[d]
      BY <1>3
    <3>4. /\ "ERR" \in fds[s].revents => err[d] # "none"
          /\ Quiet(fds[s]) /\ "IN" \in fds[s].revents => wire[d]
          /\ Quiet(fds[s]) /\ "OUT" \in fds[s].revents => err[d] # "taken" /\ d \notin ended
      BY <3>1, <3>2 DEF Told
    <3>5. /\ "ERR" \in fds'[s].revents => err'[d] # "none"
          /\ Quiet(fds[s])' /\ "IN" \in fds'[s].revents => wire'[d]
          /\ Quiet(fds[s])' /\ "OUT" \in fds'[s].revents => err'[d] # "taken" /\ d \notin ended'
      BY <2>2, <3>2, <3>3, <3>4, Zenon DEF Quiet
    <3> QED
      BY <3>2, <3>5, Zenon DEF Told
  <2> QED
    BY <2>2, <2>3 DEF StillSo
<1> QED
  BY <1>1, <1>2, <1>3, <1>4 DEF ResetInv

\* poll does not report a connection whose error was taken without its hangup.
LEMMA ResetPoll == ResetInv /\ Poll => ResetInv'
<1> SUFFICES ASSUME ResetInv, Poll PROVE ResetInv'
  OBVIOUS
<1>1. TableInv'
  BY TablePoll DEF ResetInv
<1>2. UNCHANGED <<status, backlog, clientVars, conn, user_counter>> /\ fds' = Polled
      /\ ended' = {c \in Conns : fin[c]}
  BY DEF Poll
<1>3. Queued' /\ OneFd' /\ ErrorEnds'
  BY <1>2 DEF ResetInv, Queued, OneFd, ErrorEnds, OpenFds, clientVars
<1>4. ASSUME NEW s \in 1 .. user_counter
      PROVE  Told(fds[s])'
  <2>1. s \in Slots /\ s <= user_counter /\ fds[s] \in Entry /\ conn[fds[s].fd] \in Conns
    BY ChatAssumption
    DEF ChatAssumption, ResetInv, TableInv, TypeOK, TableTypes, ClientTypes, Rows, Slots
  <2>2. Polled[s] = [fds[s] EXCEPT !.revents = Revents(fds[s])]
    BY <2>1 DEF Polled
  <2>3. Polled[s].revents = Revents(fds[s]) /\ Polled[s].fd = fds[s].fd
    BY <2>1, <2>2 DEF Entry
  <2> DEFINE c == conn[fds[s].fd]
  <2>4. /\ "RDHUP" \notin Polled[s].revents => ~ fin[c]
        /\ "ERR" \in Polled[s].revents => err[c] \in {"ECONNRESET", "EPIPE"}
        /\ "IN" \in Polled[s].revents => wire[c] \/ fin[c]
    BY <2>3 DEF Revents
  <2>5. ~ fin[c] => err[c] = "none" /\ c \notin ended'
    BY <1>2, <2>1 DEF ResetInv, ErrorEnds
  <2>6. /\ "ERR" \in Polled[s].revents => err[c] # "none"
        /\ Quiet(Polled[s]) /\ "IN" \in Polled[s].revents => wire[c]
        /\ Quiet(Polled[s]) /\ "OUT" \in Polled[s].revents => err[c] # "taken" /\ c \notin ended'
    BY <2>4, <2>5 DEF Quiet
  <2>7. fds'[s] = Polled[s] /\ conn' = conn /\ err' = err /\ wire' = wire
    BY <1>2 DEF clientVars
  <2> HIDE DEF c
  <2>8. conn'[fds'[s].fd] = c
    BY <2>3, <2>7 DEF c
  <2>9. Told(fds[s])'
    BY <2>6, <2>7, <2>8 DEF Told, Quiet
  <2> QED
    BY <2>9
<1>6. StillSo'
  BY <1>2, <1>4 DEF StillSo
<1> QED
  BY <1>1, <1>3, <1>6 DEF ResetInv

\* A new entry has no events, and nobody has the descriptor it is for.
LEMMA ResetJoin == ResetInv /\ Join => ResetInv'
<1> SUFFICES ASSUME ResetInv, Join PROVE ResetInv'
  OBVIOUS
<1>1. TableInv'
  BY TableJoin DEF ResetInv
<1>2. NewFd \in Fds /\ conn[NewFd] = None
  BY FreeFd DEF Join, ResetInv
<1>3. backlog # <<>>
  BY DEF Join, Accepting, ResetInv, TableInv, LoopPlace
<1>4. Queued' /\ status[Head(backlog)] = "backlog" /\ Head(backlog) \in Conns
  BY <1>3, QueueTail DEF Join, ResetInv, TableInv
<1>5. conn' = [conn EXCEPT ![NewFd] = Head(backlog)] /\ conn \in [Fds -> Conns \cup {None}]
      /\ status' = [status EXCEPT ![Head(backlog)] = "open"]
      /\ status \in [Conns -> {"new", "backlog", "open", "closed"}] /\ None \notin Conns
  BY ChatAssumption DEF ChatAssumption, Join, ResetInv, TableInv, TypeOK, ClientTypes
<1>6. OpenFds' = OpenFds \cup {NewFd} /\ NewFd \notin OpenFds
      /\ \A fd \in OpenFds : conn'[fd] = conn[fd] /\ conn[fd] \in Conns
                             /\ conn[fd] # Head(backlog)
  BY <1>2, <1>4, <1>5 DEF OpenFds, ResetInv, OneFd
<1>7. OneFd'
  BY <1>2, <1>4, <1>5, <1>6 DEF ResetInv, OneFd
<1>8. StillSo'
  <2>1. user_counter + 1 \in Slots /\ user_counter' = user_counter + 1 /\ user_counter \in Nat
        /\ fds' = [fds EXCEPT ![user_counter + 1] = NewEntry(NewFd)] /\ fds \in [Slots -> Entry]
        /\ i = 0 /\ i' = 1 /\ pc = "scan" /\ UNCHANGED <<err, wire, ended>>
    BY ChatAssumption DEF ChatAssumption, Join, Accepting, ResetInv, TableInv, TypeOK, TableTypes,
                          Slots, clientVars
  <2> DEFINE last == user_counter + 1
  <2>2. fds'[last].revents = {}
    BY <2>1 DEF NewEntry
  <2>3. ASSUME NEW s \in 1 .. user_counter
        PROVE  Told(fds[s])'
    <3>1. fds[s].fd \in Fds /\ fds[s].fd # NewFd
      BY <1>2 DEF ResetInv, TableInv, Rows
    <3>2. fds'[s] = fds[s] /\ conn'[fds[s].fd] = conn[fds[s].fd] /\ s >= i
      BY <1>5, <2>1, <3>1
    <3>3. Told(fds[s])
      BY <2>1, <3>2 DEF ResetInv, StillSo
    <3> QED
      BY <2>1, <3>2, <3>3 DEF Told, Quiet
  <2>4. ASSUME NEW s \in 1 .. user_counter', s \notin 1 .. user_counter
        PROVE  Told(fds[s])'
    <3>1. fds'[s].revents = {}
      BY <2>1, <2>2, <2>4
    <3> QED
      BY <3>1 DEF Told
  <2> QED
    BY <2>3, <2>4 DEF StillSo
<1>9. ErrorEnds'
  BY <1>5 DEF Join, clientVars, ResetInv, ErrorEnds
<1> QED
  BY <1>1, <1>4, <1>7, <1>8, <1>9 DEF ResetInv

LEMMA ResetUserLeft == ResetInv /\ UserLeft => ResetInv'
<1> SUFFICES ASSUME ResetInv, UserLeft PROVE ResetInv'
  OBVIOUS
<1>1. TableInv'
  BY TableUserLeft DEF ResetInv
<1>2. i \in 1 .. user_counter /\ pc = "scan" /\ UNCHANGED <<pc, ended, backlog, clientVars>>
      /\ i' = i /\ user_counter' = user_counter - 1
      /\ fds' = [fds EXCEPT ![i] = fds[user_counter]]
      /\ conn' = [conn EXCEPT ![User] = None]
      /\ status' = [status EXCEPT ![conn[User]] = "closed"]
  BY DEF UserLeft, CloseUser, Turn, StepBack, GapFilled
<1>3. /\ user_counter \in 1 .. UserLimit /\ 1 .. user_counter \subseteq Slots /\ i \in Slots
      /\ User \in Fds /\ conn[User] \in Conns /\ i \in 1 .. UserLimit + 1
  BY <1>2, ScanPlace DEF ResetInv
<1>4. conn \in [Fds -> Conns \cup {None}] /\ fds \in [Slots -> Entry] /\ None \notin Conns
      /\ status \in [Conns -> {"new", "backlog", "open", "closed"}] /\ backlog \in Seq(Conns)
  BY ChatAssumption
  DEF ChatAssumption, ResetInv, TableInv, TypeOK, TableTypes, ClientTypes
<1>5. User \in OpenFds /\ OpenFds' = OpenFds \ {User}
      /\ \A fd \in OpenFds' : conn'[fd] = conn[fd] /\ conn[fd] \in Conns /\ conn[fd] # conn[User]
  BY <1>2, <1>3, <1>4 DEF OpenFds, ResetInv, OneFd
<1>6. OneFd'
  BY <1>2, <1>3, <1>4, <1>5 DEF ResetInv, OneFd
<1>7. Queued'
  <2>1. \A k \in 1 .. Len(backlog) : backlog[k] \in Conns /\ backlog[k] # conn[User]
    BY <1>4, <1>5 DEF ResetInv, Queued, OneFd
  <2> QED
    BY <1>2, <1>3, <1>4, <2>1 DEF ResetInv, Queued
<1>8. StillSo'
  <2> SUFFICES ASSUME NEW s \in 1 .. user_counter', s >= i PROVE Told(fds[s])'
    BY <1>2 DEF StillSo
  <2>1. PICK t \in 1 .. user_counter : fds'[s] = fds[t] /\ t >= i
    <3>1. CASE s = i
      BY <1>2, <1>3, <1>4, <3>1
    <3>2. CASE s # i
      BY <1>2, <1>3, <1>4, <3>2
    <3> QED
      BY <3>1, <3>2
  <2>2. fds[t].fd \in OpenFds'
    BY <1>1, <2>1, <1>2 DEF TableInv, Rows, OpenFds
  <2>3. Told(fds[t])
    BY <1>2, <2>1 DEF ResetInv, StillSo
  <2>4. conn'[fds[t].fd] = conn[fds[t].fd] /\ UNCHANGED <<err, wire, ended>>
    BY <1>2, <1>5, <2>2 DEF clientVars
  <2> QED
    BY <2>1, <2>3, <2>4 DEF Told, Quiet
<1>9. ErrorEnds'
  BY <1>2, <1>3, <1>4 DEF clientVars, ResetInv, ErrorEnds
<1> QED
  BY <1>1, <1>6, <1>7, <1>8, <1>9 DEF ResetInv

\* What is done to the connection at i concerns no later entry.
LEMMA OthersKept ==
  ASSUME ResetInv, pc = "scan", i \in 1 .. user_counter, i' = i + 1,
         \A s \in 1 .. user_counter : fds'[s].fd = fds[s].fd /\ fds'[s].revents = fds[s].revents,
         UNCHANGED <<user_counter, conn, ended>>,
         \A c \in Conns \ {conn[User]} : err'[c] = err[c] /\ wire'[c] = wire[c]
  PROVE  StillSo'
<1> SUFFICES ASSUME NEW s \in 1 .. user_counter, s >= i + 1 PROVE Told(fds[s])'
  BY DEF StillSo
<1>1. user_counter \in Nat
  BY DEF ResetInv, TableInv, TypeOK, TableTypes
<1>2. s >= i /\ s # i
  BY <1>1
<1>3. fds[s].fd \in OpenFds /\ User \in OpenFds /\ fds[s].fd # User
  BY <1>2 DEF ResetInv, TableInv, Rows, OpenFds, User
<1>4. conn[fds[s].fd] \in Conns \ {conn[User]}
  BY <1>3 DEF ResetInv, OneFd, TableInv, TypeOK, ClientTypes, OpenFds
<1>5. Told(fds[s])
  BY <1>2 DEF ResetInv, StillSo
<1> QED
  BY <1>4, <1>5 DEF Told, Quiet

\* The entry the scan is at is as poll said.
LEMMA TurnTold == ASSUME ResetInv, pc = "scan", i \in 1 .. user_counter PROVE Told(fds[i])
<1>1. i >= i
  OBVIOUS
<1>2. \A s \in 1 .. user_counter : s >= i => Told(fds[s])
  BY DEF ResetInv, StillSo
<1> QED
  BY <1>1, <1>2, Zenon

\* What poll said that can be received is text.
LEMMA TextThere == ResetInv /\ Receive => Text
<1> SUFFICES ASSUME ResetInv, Receive PROVE Text
  OBVIOUS
<1>0. Turn("IN")
  BY DEF Receive
<1>1. i \in 1 .. user_counter /\ pc = "scan" /\ Quiet(fds[i]) /\ "IN" \in fds[i].revents
  BY <1>0 DEF Turn, Quiet
<1>2. Told(fds[i])
  BY <1>1, TurnTold
<1> QED
  BY <1>1, <1>2 DEF Told, Text, User

LEMMA ResetReceive == ResetInv /\ Receive => ResetInv'
<1> SUFFICES ASSUME ResetInv, Receive PROVE ResetInv'
  OBVIOUS
<1>1. TableInv'
  BY TableReceive DEF ResetInv
<1>2. i \in 1 .. user_counter /\ pc = "scan" /\ i' = i + 1 /\ fds' = OthersAsked
      /\ wire' = [wire EXCEPT ![conn[User]] = FALSE]
      /\ UNCHANGED <<status, backlog, fin, err, conn, user_counter, pc, ended>>
  BY TextThere DEF Receive, TellOthers, Turn
<1>3. Queued' /\ OneFd' /\ ErrorEnds'
  BY <1>2 DEF ResetInv, Queued, OneFd, ErrorEnds, OpenFds
<1>4. ASSUME NEW s \in 1 .. user_counter
      PROVE  fds'[s].fd = fds[s].fd /\ fds'[s].revents = fds[s].revents
  <2>1. s \in Slots /\ fds[s] \in Entry
    BY ChatAssumption DEF ChatAssumption, ResetInv, TableInv, TypeOK, TableTypes, Slots
  <2>2. OthersAsked[s] \in {fds[s], [fds[s] EXCEPT !.events = {"IN", "OUT"}]}
    BY <2>1 DEF OthersAsked
  <2> QED
    BY <1>2, <2>1, <2>2 DEF Entry
<1>5. \A c \in Conns \ {conn[User]} : err'[c] = err[c] /\ wire'[c] = wire[c]
  BY <1>2 DEF ResetInv, TableInv, TypeOK, ClientTypes
<1>6. StillSo'
  BY <1>2, <1>4, <1>5, OthersKept
<1> QED
  BY <1>1, <1>3, <1>6 DEF ResetInv

\* The error of the connection that is sent to has not been taken.
LEMMA NotTaken ==
  ResetInv /\ Deliver => err[conn[User]] # "taken" /\ conn[User] \notin ended
<1> SUFFICES ASSUME ResetInv, Deliver
             PROVE  err[conn[User]] # "taken" /\ conn[User] \notin ended
  OBVIOUS
<1>1. i \in 1 .. user_counter /\ pc = "scan" /\ Quiet(fds[i]) /\ "OUT" \in fds[i].revents
  BY DEF Deliver, Turn, Quiet
<1>2. Told(fds[i])
  BY <1>1, TurnTold
<1> QED
  BY <1>1, <1>2 DEF Told, User

LEMMA ResetDeliver == ResetInv /\ Deliver => ResetInv'
<1> SUFFICES ASSUME ResetInv, Deliver PROVE ResetInv'
  OBVIOUS
<1>1. TableInv'
  BY TableDeliver DEF ResetInv
<1>2. i \in 1 .. user_counter /\ pc = "scan" /\ i' = i + 1
      /\ fds' = [fds EXCEPT ![i].events = {"IN", "OUT"}]
      /\ UNCHANGED <<status, backlog, wire, fin, conn, user_counter, ended>>
  BY DEF Deliver, Turn
<1>3. /\ user_counter \in 1 .. UserLimit /\ 1 .. user_counter \subseteq Slots /\ i \in Slots
      /\ User \in Fds /\ conn[User] \in Conns /\ i \in Int /\ status[conn[User]] = "open"
  <2>1. User \in OpenFds
    BY <1>2 DEF ResetInv, TableInv, Rows, OpenFds, User
  <2> QED
    BY <1>2, <2>1, ScanPlace DEF ResetInv, OneFd
<1>5. err' \in {err, [err EXCEPT ![conn[User]] = "taken"]}
      /\ (err' # err => err[conn[User]] = "ECONNRESET")
  BY DEF Deliver, SendTo
<1>6. ErrorEnds' /\ \A c \in Conns \ {conn[User]} : err'[c] = err[c]
  BY <1>2, <1>3, <1>5 DEF ResetInv, ErrorEnds, TableInv, TypeOK, ClientTypes
<1>7. Queued' /\ OneFd'
  BY <1>2 DEF ResetInv, Queued, OneFd, OpenFds
<1>8. \A s \in 1 .. user_counter : fds'[s].fd = fds[s].fd /\ fds'[s].revents = fds[s].revents
  <2>1. fds \in [Slots -> Entry]
    BY DEF ResetInv, TableInv, TypeOK, TableTypes
  <2> QED
    BY <1>2, <1>3, <2>1 DEF Entry
<1>9. StillSo'
  BY <1>2, <1>6, <1>8, OthersKept
<1> QED
  BY <1>1, <1>6, <1>7, <1>9 DEF ResetInv

\* A client is turned away: no entry is concerned.
LEMMA ResetTurnAway ==
  ASSUME ResetInv, TurnAway
  PROVE  ResetInv' /\ err[Head(backlog)] # "taken"
<1>1. TableInv'
  BY TableRest DEF ResetInv
<1>2. backlog # <<>>
  BY DEF TurnAway, Accepting, ResetInv, TableInv, LoopPlace
<1>3. Queued' /\ status[Head(backlog)] = "backlog" /\ Head(backlog) \in Conns
  BY <1>2, QueueTail DEF TurnAway, ResetInv, TableInv
<1>4. err[Head(backlog)] # "taken"
  BY <1>3 DEF ResetInv, ErrorEnds
<1>5. UNCHANGED <<conn, fds, user_counter, fin, wire, ended>> /\ i = 0 /\ pc = "scan"
      /\ status' = [status EXCEPT ![Head(backlog)] = "closed"]
      /\ err' \in {err, [err EXCEPT ![Head(backlog)] = "taken"]}
      /\ (err' # err => err[Head(backlog)] = "ECONNRESET")
  BY DEF TurnAway, Accepting, SendTo, tableVars
<1>6. status \in [Conns -> {"new", "backlog", "open", "closed"}]
      /\ err \in [Conns -> {"none", "ECONNRESET", "EPIPE", "taken"}]
      /\ conn \in [Fds -> Conns \cup {None}] /\ user_counter \in Nat
  BY DEF ResetInv, TableInv, TypeOK, ClientTypes, TableTypes
<1>7. \A fd \in OpenFds : conn[fd] \in Conns \ {Head(backlog)} /\ status[conn[fd]] = "open"
  BY <1>3, <1>6 DEF ResetInv, OneFd, OpenFds
<1>8. OneFd'
  BY <1>5, <1>6, <1>7 DEF ResetInv, OneFd, OpenFds
<1>9. ErrorEnds'
  BY <1>3, <1>5, <1>6 DEF ResetInv, ErrorEnds
<1>10. StillSo'
  <2> SUFFICES ASSUME NEW s \in 1 .. user_counter PROVE Told(fds[s])'
    BY <1>5 DEF StillSo
  <2>1. Told(fds[s]) /\ fds[s].fd \in OpenFds
    BY <1>5, <1>6 DEF ResetInv, StillSo, TableInv, Rows, OpenFds
  <2>2. err'[conn[fds[s].fd]] = err[conn[fds[s].fd]]
    BY <1>5, <1>6, <1>7, <2>1
  <2> QED
    BY <1>5, <2>1, <2>2 DEF Told, Quiet
<1> QED
  BY <1>1, <1>3, <1>4, <1>8, <1>9, <1>10 DEF ResetInv

LEMMA ResetRest ==
  ASSUME ResetInv, ScanDone \/ AcceptFails \/ TakeError \/ NothingToDo
  PROVE  ResetInv'
<1>1. TableInv' /\ UNCHANGED <<status, backlog, conn, fds, user_counter, fin, wire>>
  BY TableRest DEF ResetInv, ScanDone, AcceptFails, TakeError, NothingToDo, tableVars, clientVars
<1>2. CASE ScanDone
  BY <1>1, <1>2 DEF ScanDone, clientVars, ResetInv, Queued, OneFd, ErrorEnds, StillSo, OpenFds
<1>3. CASE AcceptFails
  <2>1. UNCHANGED <<err, ended>> /\ i = 0 /\ pc = "scan" /\ user_counter \in Nat
    BY <1>3 DEF AcceptFails, Accepting, clientVars, ResetInv, TableInv, TypeOK, TableTypes
  <2>2. StillSo'
    BY <1>1, <2>1 DEF ResetInv, StillSo, Told, Quiet
  <2> QED
    BY <1>1, <2>1, <2>2 DEF ResetInv, Queued, OneFd, ErrorEnds, OpenFds
<1>4. CASE TakeError \/ NothingToDo
  <2>1. i \in 1 .. user_counter /\ pc = "scan" /\ i' = i + 1 /\ ended' = ended
    BY <1>4 DEF TakeError, NothingToDo, Turn
  <2>2. conn[User] \in Conns /\ status[conn[User]] = "open"
    <3>1. User \in OpenFds
      BY <2>1 DEF ResetInv, TableInv, Rows, OpenFds, User
    <3> QED
      BY <2>1, <3>1, ScanPlace DEF ResetInv, OneFd
  <2>3. err' \in {err, [err EXCEPT ![conn[User]] = "taken"]} /\ (err' # err => fin[conn[User]])
    <3>1. CASE NothingToDo
      BY <3>1 DEF NothingToDo, clientVars
    <3>2. CASE TakeError
      <4>1. "ERR" \in fds[i].revents /\ err' = [err EXCEPT ![conn[User]] = "taken"]
        BY <3>2 DEF TakeError, Turn
      <4>2. err[conn[User]] # "none"
        BY <2>1, <4>1, TurnTold DEF Told, User
      <4> QED
        BY <2>2, <4>1, <4>2 DEF ResetInv, ErrorEnds
    <3> QED
      BY <1>4, <3>1, <3>2
  <2>4. ErrorEnds' /\ \A c \in Conns \ {conn[User]} : err'[c] = err[c]
    BY <1>1, <2>2, <2>3 DEF ResetInv, ErrorEnds, TableInv, TypeOK, ClientTypes
  <2>5. StillSo'
    BY <1>1, <2>1, <2>4, OthersKept
  <2>6. Queued' /\ OneFd'
    BY <1>1 DEF ResetInv, Queued, OneFd, OpenFds
  <2> QED
    BY <1>1, <2>4, <2>5, <2>6 DEF ResetInv
<1> QED
  BY <1>2, <1>3, <1>4

LEMMA ResetNext == ResetInv /\ [Next]_vars => ResetInv'
<1>1. ResetInv /\ UNCHANGED vars => ResetInv'
  <2> SUFFICES ASSUME ResetInv, UNCHANGED vars PROVE ResetInv'
    OBVIOUS
  <2>1. TableInv'
    BY TableNext DEF ResetInv
  <2> QED
    BY <2>1 DEF vars, clientVars, tableVars, scanVars, ResetInv, Queued, OneFd, ErrorEnds, StillSo,
                Told, Quiet, OpenFds
<1> QED
  BY <1>1, ResetClient, ResetPoll, ResetJoin, ResetUserLeft, ResetReceive, ResetDeliver,
     ResetTurnAway, ResetRest
  DEF Next, Server

\* SIGPIPE comes from a client that had not gone at the poll and has ended and then
\* reset its connection before the send, or before it is turned away; never from
\* one whose end the poll reported or whose error has been taken: the error and
\* the hangup are looked at before anything is sent (lines 95, 107-153).
THEOREM KilledAtNoOtherMoment == Spec => KilledOnlyBetween
<1>1. ASSUME ResetInv, [Next]_vars, pc # "killed", pc' = "killed"
      PROVE  err[Victim] = "EPIPE" /\ (i > 0 => Victim \notin ended)
  <2>1. TurnAway \/ Deliver
    BY <1>1 DEF Next, Server, vars, scanVars, Connect, Say, Leave, Reset, Drain, Poll, ScanDone,
                AcceptFails, Join, TakeError, UserLeft, Receive, NothingToDo, Accepting, Turn
  <2>2. CASE TurnAway
    <3>1. i = 0 /\ err[Head(backlog)] \in {"EPIPE", "taken"}
      BY <1>1, <2>2 DEF TurnAway, Accepting, SendTo
    <3> QED
      BY <1>1, <2>2, <3>1, ResetTurnAway DEF Victim
  <2>3. CASE Deliver
    <3>1. i # 0 /\ err[conn[User]] \in {"EPIPE", "taken"}
      <4>1. i \in 1 .. user_counter /\ err[conn[User]] \in {"EPIPE", "taken"}
        BY <1>1, <2>3 DEF Deliver, SendTo, Turn
      <4> QED
        BY <4>1
    <3> QED
      BY <1>1, <2>3, <3>1, NotTaken DEF Victim
  <2> QED
    BY <2>1, <2>2, <2>3
<1>2. ResetInv /\ [Next]_vars
      => [pc # "killed" /\ pc' = "killed"
            => err[Victim] = "EPIPE" /\ (i > 0 => Victim \notin ended)]_vars
  BY <1>1
<1> QED
  BY <1>2, ResetInit, ResetNext, PTL DEF Spec, KilledOnlyBetween

\* recv always finds text: a user whose entry says POLLIN and neither POLLERR nor
\* POLLRDHUP has spoken and been read by nobody since, so that the branches for an
\* error and for the end of the stream (lines 130-138) are never taken.
THEOREM RecvFindsText == Spec => [][Receive => Text]_vars
<1>1. ResetInv /\ [Next]_vars => [Receive => Text]_vars
  BY TextThere
<1> QED
  BY <1>1, ResetInit, ResetNext, PTL DEF Spec

(* ------------------------------- the scan -------------------------------------- *)

\* ScanComplete, in two halves
AheadRight ==
  pc = "scan" =>
    /\ \A fd \in ahead : \E s \in 1 .. user_counter :
         s >= i /\ fds[s].revents # {} /\ fds[s].fd = fd
    /\ \A s \in 1 .. user_counter : s >= i /\ fds[s].revents # {} => fds[s].fd \in ahead

LEMMA AheadMeans == AheadRight => ScanComplete
<1> SUFFICES ASSUME AheadRight, pc = "scan"
             PROVE  ahead = {fds[s].fd : s \in {t \in 1 .. user_counter :
                                                  t >= i /\ fds[t].revents # {}}}
  BY DEF ScanComplete
<1> QED
  BY DEF AheadRight

\* The scan has looked at one entry and goes on to the next.
LEMMA AheadStep ==
  ASSUME TableInv, AheadRight, pc = "scan", i \in 1 .. user_counter, i' = i + 1,
         ahead' = ahead \ {User}, user_counter' = user_counter,
         \A s \in 1 .. user_counter : fds'[s].fd = fds[s].fd /\ fds'[s].revents = fds[s].revents
  PROVE  AheadRight'
<1>1. user_counter \in Nat /\ i \in Nat
  BY DEF TableInv, TypeOK, TableTypes
<1>2. ASSUME NEW fd \in ahead'
      PROVE  \E s \in 1 .. user_counter' : s >= i' /\ fds'[s].revents # {} /\ fds'[s].fd = fd
  <2>1. fd \in ahead /\ fd # User
    BY <1>2
  <2>2. PICK s \in 1 .. user_counter : s >= i /\ fds[s].revents # {} /\ fds[s].fd = fd
    BY <2>1 DEF AheadRight
  <2>3. s # i
    BY <2>1, <2>2 DEF User
  <2>4. s >= i + 1
    BY <1>1, <2>2, <2>3
  <2> QED
    BY <2>2, <2>4
<1>3. ASSUME NEW s \in 1 .. user_counter, s >= i', fds'[s].revents # {}
      PROVE  fds'[s].fd \in ahead'
  <2>1. s >= i /\ s # i
    BY <1>1, <1>3
  <2>2. fds[s].fd \in ahead
    BY <1>3, <2>1 DEF AheadRight
  <2>3. fds[s].fd # User
    BY <2>1 DEF TableInv, Rows, User
  <2> QED
    BY <2>2, <2>3
<1> QED
  BY <1>2, <1>3 DEF AheadRight

LEMMA AheadPoll == TableInv /\ Poll => AheadRight'
<1> SUFFICES ASSUME TableInv, Poll PROVE AheadRight'
  OBVIOUS
<1>1. /\ fds' = Polled /\ ahead' = {fds[s].fd : s \in Reported} /\ user_counter' = user_counter
      /\ i' \in {0, 1}
  BY DEF Poll
<1>2. ASSUME NEW s \in 1 .. user_counter
      PROVE  Polled[s].fd = fds[s].fd /\ Polled[s].revents = Revents(fds[s]) /\ s >= i'
  <2>1. s \in Slots /\ s <= user_counter /\ fds[s] \in Entry /\ s \in Nat \ {0}
    BY ChatAssumption DEF ChatAssumption, TableInv, TypeOK, TableTypes, Slots
  <2>2. Polled[s] = [fds[s] EXCEPT !.revents = Revents(fds[s])]
    BY <2>1 DEF Polled
  <2> QED
    BY <1>1, <2>1, <2>2 DEF Entry
<1>3. Reported = {s \in 1 .. user_counter : Revents(fds[s]) # {}}
  BY DEF Reported
<1> QED
  BY <1>1, <1>2, <1>3 DEF AheadRight

\* A new entry has no events.
LEMMA AheadAccept ==
  TableInv /\ AheadRight /\ (Join \/ TurnAway \/ AcceptFails) => AheadRight'
<1> SUFFICES ASSUME TableInv, AheadRight, Join \/ TurnAway \/ AcceptFails PROVE AheadRight'
  OBVIOUS
<1>1. pc = "scan" /\ i = 0 /\ i' = 1 /\ ahead' = ahead /\ user_counter \in Nat
  BY DEF Join, TurnAway, AcceptFails, Accepting, TableInv, TypeOK, TableTypes
<1>2. CASE TurnAway \/ AcceptFails
  BY <1>1, <1>2 DEF TurnAway, AcceptFails, tableVars, AheadRight
<1>3. CASE Join
  <2>1. user_counter + 1 \in Slots /\ user_counter' = user_counter + 1
        /\ fds' = [fds EXCEPT ![user_counter + 1] = NewEntry(NewFd)] /\ fds \in [Slots -> Entry]
    BY <1>3, ChatAssumption DEF ChatAssumption, Join, TableInv, TypeOK, TableTypes, Slots
  <2>2. fds'[user_counter + 1].revents = {}
    BY <2>1 DEF NewEntry
  <2>3. \A s \in 1 .. user_counter : /\ fds'[s] = fds[s] /\ s >= i /\ s >= i'
                                     /\ s \in 1 .. user_counter'
    BY <1>1, <2>1
  <2>4. \A s \in 1 .. user_counter' : s \in 1 .. user_counter \/ s = user_counter + 1
    BY <1>1, <2>1
  <2> QED
    BY <1>1, <2>2, <2>3, <2>4 DEF AheadRight
<1> QED
  BY <1>2, <1>3

\* The last entry comes to the place the scan is at, and is still to be seen.
LEMMA AheadUserLeft == TableInv /\ AheadRight /\ UserLeft => AheadRight'
<1> SUFFICES ASSUME TableInv, AheadRight, UserLeft PROVE AheadRight'
  OBVIOUS
<1>1. i \in 1 .. user_counter /\ pc = "scan" /\ ahead' = ahead \ {User} /\ i' = i
      /\ user_counter' = user_counter - 1 /\ fds' = [fds EXCEPT ![i] = fds[user_counter]]
  BY DEF UserLeft, CloseUser, Turn, StepBack, GapFilled, User
<1>2. /\ user_counter \in 1 .. UserLimit /\ 1 .. user_counter \subseteq Slots /\ i \in Slots
      /\ user_counter \in Slots /\ fds \in [Slots -> Entry] /\ user_counter \in Nat /\ i \in Nat
  BY <1>1, ScanPlace, ChatAssumption DEF ChatAssumption, TableInv, TypeOK, TableTypes
<1>3. \A s \in 1 .. user_counter' : s \in 1 .. user_counter /\ s # user_counter
        /\ fds'[s] = IF s = i THEN fds[user_counter] ELSE fds[s]
  BY <1>1, <1>2
<1>4. ASSUME NEW fd \in ahead'
      PROVE  \E s \in 1 .. user_counter' : s >= i' /\ fds'[s].revents # {} /\ fds'[s].fd = fd
  <2>1. fd \in ahead /\ fd # User
    BY <1>1, <1>4
  <2>2. PICK s \in 1 .. user_counter : s >= i /\ fds[s].revents # {} /\ fds[s].fd = fd
    BY <1>1, <2>1 DEF AheadRight
  <2>3. s # i
    BY <2>1, <2>2 DEF User
  <2>4. CASE s = user_counter
    <3>1. i \in 1 .. user_counter' /\ fds'[i] = fds[s]
      BY <1>1, <1>2, <1>3, <2>3, <2>4
    <3> QED
      BY <1>1, <1>2, <2>2, <3>1
  <2>5. CASE s # user_counter
    <3>1. s \in 1 .. user_counter' /\ fds'[s] = fds[s]
      BY <1>1, <1>2, <1>3, <2>3, <2>5
    <3> QED
      BY <1>1, <2>2, <3>1
  <2> QED
    BY <2>4, <2>5
<1>5. ASSUME NEW s \in 1 .. user_counter', s >= i', fds'[s].revents # {}
      PROVE  fds'[s].fd \in ahead'
  <2>1. PICK t \in 1 .. user_counter : fds'[s] = fds[t] /\ t >= i /\ t # i
    <3>1. CASE s = i
      <4>1. fds'[s] = fds[user_counter] /\ user_counter # i /\ user_counter >= i
            /\ user_counter \in 1 .. user_counter
        BY <1>1, <1>2, <1>3, <3>1
      <4> QED
        BY <4>1
    <3>2. CASE s # i
      BY <1>1, <1>3, <1>5, <3>2
    <3> QED
      BY <3>1, <3>2
  <2>2. fds[t].fd \in ahead
    BY <1>1, <1>5, <2>1 DEF AheadRight
  <2>3. fds[t].fd # User
    BY <1>1, <2>1 DEF TableInv, Rows, User
  <2> QED
    BY <1>1, <2>1, <2>2, <2>3
<1> QED
  BY <1>4, <1>5 DEF AheadRight

\* Receiving and sending change what is asked of later polls, not what this one said.
LEMMA ReventsKept ==
  ASSUME TableInv, (Receive /\ Text) \/ Deliver, NEW s \in 1 .. user_counter
  PROVE  fds'[s].fd = fds[s].fd /\ fds'[s].revents = fds[s].revents
<1>1. s \in Slots /\ fds \in [Slots -> Entry] /\ fds[s] \in Entry
  BY ChatAssumption DEF ChatAssumption, TableInv, TypeOK, TableTypes, Slots
<1>2. CASE Receive /\ Text
  <2>1. fds'[s] \in {fds[s], [fds[s] EXCEPT !.events = {"IN", "OUT"}]}
    BY <1>1, <1>2 DEF Receive, TellOthers, OthersAsked
  <2> QED
    BY <1>1, <2>1 DEF Entry
<1>3. CASE Deliver
  <2>1. i \in Slots
    BY <1>3, ScanPlace DEF Deliver, Turn
  <2>2. fds'[s] \in {fds[s], [fds[s] EXCEPT !.events = {"IN", "OUT"}]}
    BY <1>1, <1>3, <2>1 DEF Deliver
  <2> QED
    BY <1>1, <2>2 DEF Entry
<1> QED
  BY <1>2, <1>3

LEMMA AheadNext == ResetInv /\ AheadRight /\ [Next]_vars => AheadRight'
<1> SUFFICES ASSUME ResetInv, AheadRight, [Next]_vars PROVE AheadRight'
  OBVIOUS
<1>0. TableInv
  BY DEF ResetInv
<1>1. CASE \/ UNCHANGED vars
           \/ \E c \in Conns : Connect(c) \/ Say(c) \/ Leave(c) \/ Reset(c) \/ Drain(c)
  <2>1. UNCHANGED <<tableVars, scanVars, ahead>>
    BY <1>1 DEF vars, Connect, Say, Leave, Reset, Drain
  <2> QED
    BY <2>1 DEF AheadRight, tableVars, scanVars
<1>2. CASE ScanDone
  BY <1>2 DEF ScanDone, AheadRight
<1>3. CASE TakeError \/ NothingToDo
  <2>1. i \in 1 .. user_counter /\ pc = "scan" /\ i' = i + 1 /\ ahead' = ahead \ {User}
        /\ UNCHANGED <<fds, user_counter>>
    BY <1>3 DEF TakeError, NothingToDo, Turn, tableVars, User
  <2> QED
    BY <1>0, <2>1, AheadStep
<1>4. CASE Receive \/ Deliver
  <2>1. (Receive /\ Text) \/ Deliver
    BY <1>4, TextThere
  <2>2. i \in 1 .. user_counter /\ pc = "scan" /\ i' = i + 1 /\ ahead' = ahead \ {User}
        /\ UNCHANGED user_counter
    BY <2>1 DEF Receive, TellOthers, Deliver, Turn, User
  <2> QED
    BY <1>0, <2>1, <2>2, AheadStep, ReventsKept
<1> QED
  BY <1>0, <1>1, <1>2, <1>3, <1>4, AheadPoll, AheadAccept, AheadUserLeft DEF Next, Server

\* While entries leave the table, move in it and are added to it under the scan,
\* no event of the poll is skipped and none is handled for another user or twice
\* (lines 83-158).
THEOREM ScanMissesNothing == Spec => []ScanComplete
<1>1. Init => ResetInv /\ AheadRight
  <2>1. Init => AheadRight
    BY DEF Init, AheadRight
  <2> QED
    BY <2>1, ResetInit
<1>2. ResetInv /\ AheadRight /\ [Next]_vars => ResetInv' /\ AheadRight'
  BY ResetNext, AheadNext
<1> QED
  BY <1>1, <1>2, AheadMeans, PTL DEF Spec

(* ----------------------------- what a user is sent ----------------------------- *)

\* Message m of all those said is new for user c, who came after the first j and was
\* sent those in h: it is another's, later than j and than all in h.
Fresh(p, c, j, h, m) ==
  /\ m \in 1 .. Len(p) /\ p[m] # c /\ m > j
  /\ \A k \in DOMAIN h : h[k] < m
\* A pointer that an entry is asked to write from leads to such a message, though
\* its owner may have spoken again, left or been replaced since.
Asked ==
  \A s \in 1 .. user_counter :
    /\ "OUT" \in fds[s].revents => "OUT" \in fds[s].events
    /\ "OUT" \in fds[s].events /\ write_buf[fds[s].fd] # Null
       => Fresh(posted, conn[fds[s].fd], joined[conn[fds[s].fd]], heard[conn[fds[s].fd]],
                buf[write_buf[fds[s].fd]])
NoOwn == \A fd \in Fds : write_buf[fd] # fd
Past ==
  \A c \in Conns : /\ joined[c] <= Len(posted)
                   /\ \A k \in DOMAIN heard[c] : heard[c][k] <= Len(posted)
                   /\ status[c] \in {"new", "backlog"} => heard[c] = <<>>
Pointers == Asked /\ NoOwn /\ Past /\ HeardRight
HearInv == ResetInv /\ Pointers

LEMMA HearTypes ==
  ASSUME HearInv
  PROVE  /\ posted \in Seq(Conns) /\ joined \in [Conns -> Nat] /\ heard \in [Conns -> Seq(Nat)]
         /\ conn \in [Fds -> Conns \cup {None}] /\ None \notin Conns
         /\ fds \in [Slots -> Entry] /\ buf \in [Fds -> Nat]
         /\ write_buf \in [Fds -> Fds \cup {Null}] /\ Null \notin Fds
         /\ status \in [Conns -> {"new", "backlog", "open", "closed"}]
         /\ user_counter \in 0 .. UserLimit /\ user_counter \in Nat
         /\ \A s \in 1 .. user_counter : /\ s \in Slots /\ fds[s].fd \in Fds
                                         /\ conn[fds[s].fd] \in Conns
                                         /\ status[conn[fds[s].fd]] = "open"
         /\ \A s, t \in 1 .. user_counter :
              s # t => fds[s].fd # fds[t].fd /\ conn[fds[s].fd] # conn[fds[t].fd]
<1>1. TypeOK /\ Rows /\ OneFd
  BY DEF HearInv, ResetInv, TableInv
<1>2. ClientTypes /\ TableTypes /\ HistoryTypes /\ None \notin Conns /\ UserLimit \in Nat
  BY <1>1, ChatAssumption DEF ChatAssumption, TypeOK
<1>3. Null \notin Fds
  BY DEF Null, Fds
<1>4. user_counter \in Nat /\ \A s \in 1 .. user_counter : s \in Slots
  BY <1>2 DEF TableTypes, Slots
<1>5. \A s \in 1 .. user_counter : /\ fds[s].fd \in Fds /\ conn[fds[s].fd] \in Conns
                                   /\ fds[s].fd \in OpenFds /\ status[conn[fds[s].fd]] = "open"
  BY <1>1, <1>2 DEF Rows, OneFd, OpenFds, ClientTypes
<1>6. \A s, t \in 1 .. user_counter :
        s # t => fds[s].fd # fds[t].fd /\ conn[fds[s].fd] # conn[fds[t].fd]
  BY <1>1, <1>5 DEF Rows, OneFd
<1> QED
  BY <1>2, <1>3, <1>4, <1>5, <1>6 DEF ClientTypes, TableTypes, HistoryTypes

\* The steps that change neither messages nor pointers, and whose entries are
\* entries of before.
LEMMA PointersKept ==
  ASSUME HearInv, UNCHANGED <<userVars, historyVars>>,
         \A c \in Conns : status'[c] \in {"new", "backlog"} => status[c] \in {"new", "backlog"},
         \A s \in 1 .. user_counter' : \E t \in 1 .. user_counter :
           /\ fds'[s].fd = fds[t].fd /\ fds'[s].events = fds[t].events
           /\ "OUT" \in fds'[s].revents => "OUT" \in fds'[s].events
           /\ conn'[fds[t].fd] = conn[fds[t].fd]
  PROVE  Pointers'
<1>1. Asked'
  <2> SUFFICES ASSUME NEW s \in 1 .. user_counter'
               PROVE  /\ "OUT" \in fds'[s].revents => "OUT" \in fds'[s].events
                      /\ "OUT" \in fds'[s].events /\ write_buf'[fds'[s].fd] # Null
                         => Fresh(posted', conn'[fds'[s].fd], joined'[conn'[fds'[s].fd]],
                                  heard'[conn'[fds'[s].fd]], buf'[write_buf'[fds'[s].fd]])
    BY DEF Asked
  <2>1. PICK t \in 1 .. user_counter :
           /\ fds'[s].fd = fds[t].fd /\ fds'[s].events = fds[t].events
           /\ "OUT" \in fds'[s].revents => "OUT" \in fds'[s].events
           /\ conn'[fds[t].fd] = conn[fds[t].fd]
    OBVIOUS
  <2> QED
    BY <2>1 DEF HearInv, Pointers, Asked, Fresh, userVars, historyVars
<1>2. NoOwn' /\ Past' /\ HeardRight'
  BY DEF HearInv, Pointers, NoOwn, Past, HeardRight, userVars, historyVars
<1> QED
  BY <1>1, <1>2 DEF Pointers

LEMMA PointersQuiet ==
  ASSUME HearInv, [Next]_vars, ~ Join, ~ Receive, ~ Deliver
  PROVE  Pointers'
<1>1. CASE \/ UNCHANGED vars \/ ScanDone \/ AcceptFails \/ TurnAway \/ TakeError \/ NothingToDo
           \/ \E c \in Conns : Connect(c) \/ Say(c) \/ Leave(c) \/ Reset(c) \/ Drain(c)
  <2>1. UNCHANGED <<conn, tableVars, userVars, historyVars>>
    BY <1>1 DEF vars, ScanDone, AcceptFails, TurnAway, TakeError, NothingToDo, Connect, Say, Leave,
                Reset, Drain
  <2>2. \A c \in Conns : status'[c] \in {"new", "backlog"} => status[c] \in {"new", "backlog"}
    <3>1. CASE TurnAway
      <4>1. backlog # <<>>
        BY <3>1 DEF TurnAway, Accepting, HearInv, ResetInv, TableInv, LoopPlace
      <4>2. Head(backlog) \in Conns
        BY <4>1 DEF HearInv, ResetInv, TableInv, TypeOK, ClientTypes
      <4> QED
        BY <3>1, <4>2, HearTypes DEF TurnAway
    <3>2. CASE \E c \in Conns : Connect(c)
      BY <3>2, HearTypes DEF Connect
    <3>3. CASE UNCHANGED status
      BY <3>3
    <3> QED
      BY <1>1, <3>1, <3>2, <3>3
      DEF vars, ScanDone, AcceptFails, TakeError, NothingToDo, Say, Leave, Reset, Drain
  <2>3. \A s \in 1 .. user_counter : "OUT" \in fds[s].revents => "OUT" \in fds[s].events
    BY DEF HearInv, Pointers, Asked
  <2> QED
    BY <2>1, <2>2, <2>3, PointersKept DEF tableVars
<1>2. CASE Poll
  <2>1. UNCHANGED <<status, conn, user_counter, userVars, historyVars>> /\ fds' = Polled
    BY <1>2 DEF Poll
  <2>2. ASSUME NEW s \in 1 .. user_counter
        PROVE  /\ Polled[s].fd = fds[s].fd /\ Polled[s].events = fds[s].events
               /\ "OUT" \in Polled[s].revents => "OUT" \in Polled[s].events
    <3>1. s \in Slots /\ fds[s] \in Entry /\ s <= user_counter
      BY HearTypes
    <3>2. Polled[s] = [fds[s] EXCEPT !.revents = Revents(fds[s])]
      BY <3>1 DEF Polled
    <3>3. "OUT" \in Revents(fds[s]) => "OUT" \in fds[s].events
      BY DEF Revents
    <3> QED
      BY <3>1, <3>2, <3>3 DEF Entry
  <2> QED
    BY <2>1, <2>2, PointersKept
<1>3. CASE UserLeft
  <2>1. i \in 1 .. user_counter /\ user_counter' = user_counter - 1
        /\ fds' = [fds EXCEPT ![i] = fds[user_counter]] /\ conn' = [conn EXCEPT ![User] = None]
        /\ status' = [status EXCEPT ![conn[User]] = "closed"]
        /\ UNCHANGED <<userVars, historyVars>>
    BY <1>3 DEF UserLeft, CloseUser, Turn, GapFilled
  <2>2. \A c \in Conns : status'[c] \in {"new", "backlog"} => status[c] \in {"new", "backlog"}
    BY <2>1, HearTypes DEF User
  <2>3. ASSUME NEW s \in 1 .. user_counter'
        PROVE  \E t \in 1 .. user_counter :
                 /\ fds'[s].fd = fds[t].fd /\ fds'[s].events = fds[t].events
                 /\ "OUT" \in fds'[s].revents => "OUT" \in fds'[s].events
                 /\ conn'[fds[t].fd] = conn[fds[t].fd]
    <3>1. s \in 1 .. user_counter /\ s # user_counter /\ user_counter \in 1 .. user_counter
          /\ s \in Slots
      BY <2>1, HearTypes
    <3>2. PICK t \in 1 .. user_counter : fds'[s] = fds[t] /\ t # i
      <4>1. CASE s = i
        BY <2>1, <3>1, <4>1, HearTypes
      <4>2. CASE s # i
        BY <2>1, <3>1, <4>2, HearTypes
      <4> QED
        BY <4>1, <4>2
    <3>3. fds[t].fd # User
      BY <2>1, <3>2, HearTypes DEF User
    <3>4. conn'[fds[t].fd] = conn[fds[t].fd]
      BY <2>1, <3>3, HearTypes
    <3>5. "OUT" \in fds[t].revents => "OUT" \in fds[t].events
      BY DEF HearInv, Pointers, Asked
    <3> QED
      BY <3>2, <3>4, <3>5
  <2> QED
    BY <2>1, <2>2, <2>3, PointersKept
<1> QED
  BY <1>1, <1>2, <1>3 DEF Next, Server

\* Who comes has heard nothing and is asked nothing.
LEMMA PointersJoin == HearInv /\ Join => Pointers'
<1> SUFFICES ASSUME HearInv, Join PROVE Pointers'
  OBVIOUS
<1> DEFINE c == Head(backlog)
<1>1. NewFd \in Fds /\ conn[NewFd] = None
  BY FreeFd DEF Join, HearInv, ResetInv
<1>2. c \in Conns /\ status[c] = "backlog"
  <2>1. backlog # <<>>
    BY DEF Join, Accepting, HearInv, ResetInv, TableInv, LoopPlace
  <2> QED
    BY <2>1, QueueTail DEF Join, HearInv, ResetInv, TableInv
<1>3. /\ user_counter + 1 \in Slots /\ user_counter' = user_counter + 1
      /\ fds' = [fds EXCEPT ![user_counter + 1] = NewEntry(NewFd)]
      /\ conn' = [conn EXCEPT ![NewFd] = c] /\ joined' = [joined EXCEPT ![c] = Len(posted)]
      /\ status' = [status EXCEPT ![c] = "open"] /\ UNCHANGED <<userVars, posted, heard>>
  BY ChatAssumption, HearTypes DEF ChatAssumption, Join, Slots
<1>4. ASSUME NEW s \in 1 .. user_counter
      PROVE  /\ fds'[s] = fds[s] /\ conn'[fds[s].fd] = conn[fds[s].fd] /\ conn[fds[s].fd] # c
             /\ joined'[conn[fds[s].fd]] = joined[conn[fds[s].fd]]
  BY <1>1, <1>2, <1>3, HearTypes
<1>5. fds'[user_counter + 1].events = {"IN"} /\ fds'[user_counter + 1].revents = {}
  BY <1>3, HearTypes DEF NewEntry
<1>6. \A s \in 1 .. user_counter' : s \in 1 .. user_counter \/ s = user_counter + 1
  BY <1>3, HearTypes
<1>7. Asked'
  <2> SUFFICES ASSUME NEW s \in 1 .. user_counter'
               PROVE  /\ "OUT" \in fds'[s].revents => "OUT" \in fds'[s].events
                      /\ "OUT" \in fds'[s].events /\ write_buf'[fds'[s].fd] # Null
                         => Fresh(posted', conn'[fds'[s].fd], joined'[conn'[fds'[s].fd]],
                                  heard'[conn'[fds'[s].fd]], buf'[write_buf'[fds'[s].fd]])
    BY DEF Asked
  <2>1. CASE s = user_counter + 1
    BY <1>5, <2>1
  <2>2. CASE s \in 1 .. user_counter
    <3>1. /\ "OUT" \in fds[s].revents => "OUT" \in fds[s].events
          /\ "OUT" \in fds[s].events /\ write_buf[fds[s].fd] # Null
             => Fresh(posted, conn[fds[s].fd], joined[conn[fds[s].fd]],
                      heard[conn[fds[s].fd]], buf[write_buf[fds[s].fd]])
      BY <2>2 DEF HearInv, Pointers, Asked
    <3> QED
      BY <1>3, <1>4, <2>2, <3>1 DEF userVars
  <2> QED
    BY <1>6, <2>1, <2>2
<1>8. NoOwn'
  BY <1>3 DEF HearInv, Pointers, NoOwn, userVars
<1>9. heard[c] = <<>> /\ DOMAIN heard[c] = {}
  BY <1>2, HearTypes DEF HearInv, Pointers, Past
<1>10. Past'
  BY <1>2, <1>3, HearTypes DEF HearInv, Pointers, Past
<1>11. HeardRight'
  <2> SUFFICES ASSUME NEW d \in Conns, NEW k \in DOMAIN heard[d]
               PROVE  /\ heard[d][k] > joined'[d] /\ posted[heard[d][k]] # d
                      /\ k > 1 => heard[d][k - 1] < heard[d][k]
    BY <1>3 DEF HeardRight
  <2>1. d # c
    BY <1>9
  <2> QED
    BY <1>2, <1>3, <2>1, HearTypes DEF HearInv, Pointers, HeardRight
<1> QED
  BY <1>7, <1>8, <1>10, <1>11 DEF Pointers

\* What is said is new to all the others, whose pointers now lead to it.
LEMMA PointersReceive == HearInv /\ Receive => Pointers'
<1> SUFFICES ASSUME HearInv, Receive PROVE Pointers'
  OBVIOUS
<1>0. PICK n \in Nat : n = Len(posted)
  BY HearTypes
<1>1. /\ i \in 1 .. user_counter /\ posted' = Append(posted, conn[User])
      /\ buf' = [buf EXCEPT ![User] = n + 1] /\ fds' = OthersAsked
      /\ write_buf' = [fd \in Fds |-> IF fd \in {fds[s].fd : s \in Others} THEN User
                                                                      ELSE write_buf[fd]]
      /\ UNCHANGED <<conn, user_counter, status, joined, heard>>
  BY <1>0, TextThere DEF HearInv, Receive, TellOthers, Turn
<1>2. User \in Fds /\ conn[User] \in Conns /\ User = fds[i].fd
  BY <1>1, HearTypes DEF User
<1>3. /\ n \in Nat /\ Len(posted') = n + 1 /\ posted'[n + 1] = conn[User]
      /\ \A m \in 1 .. n : posted'[m] = posted[m]
  <2>1. posted \in Seq(Conns)
    BY HearTypes
  <2> QED
    BY <1>0, <1>1, <1>2, <2>1, AppendProperties
<1>4. \A s \in Others : s \in 1 .. user_counter /\ fds[s].fd # User
        /\ conn[fds[s].fd] # conn[User] /\ conn[fds[s].fd] \in Conns
  BY <1>1, <1>2, HearTypes DEF Others
<1>5. ASSUME NEW s \in 1 .. user_counter
      PROVE  /\ fds'[s].fd = fds[s].fd /\ fds'[s].revents = fds[s].revents
             /\ s \in Others => "OUT" \in fds'[s].events
             /\ s \notin Others => fds'[s] = fds[s] /\ s = i
  <2>1. s \in Slots /\ fds[s] \in Entry
    BY HearTypes
  <2>2. fds'[s] = IF s \in Others THEN [fds[s] EXCEPT !.events = {"IN", "OUT"}] ELSE fds[s]
    BY <1>1, <2>1 DEF OthersAsked
  <2>3. s \notin Others => s = i
    BY DEF Others
  <2> QED
    BY <2>1, <2>2, <2>3 DEF Entry
<1>6. Asked'
  <2> SUFFICES ASSUME NEW s \in 1 .. user_counter
               PROVE  /\ "OUT" \in fds'[s].revents => "OUT" \in fds'[s].events
                      /\ "OUT" \in fds'[s].events /\ write_buf'[fds'[s].fd] # Null
                         => Fresh(posted', conn'[fds'[s].fd], joined'[conn'[fds'[s].fd]],
                                  heard'[conn'[fds'[s].fd]], buf'[write_buf'[fds'[s].fd]])
    BY <1>1 DEF Asked
  <2>1. "OUT" \in fds[s].revents => "OUT" \in fds[s].events
    BY DEF HearInv, Pointers, Asked
  <2>2. CASE s \in Others
    <3>1. write_buf'[fds[s].fd] = User /\ buf'[User] = n + 1
      BY <1>1, <1>2, <2>2, HearTypes
    <3>2. joined[conn[fds[s].fd]] < n + 1
          /\ \A k \in DOMAIN heard[conn[fds[s].fd]] : heard[conn[fds[s].fd]][k] < n + 1
      <4> DEFINE d == conn[fds[s].fd]
      <4>1. d \in Conns
        BY <1>4, <2>2
      <4>2. joined[d] \in Nat /\ heard[d] \in Seq(Nat)
        BY <4>1, HearTypes
      <4>3. joined[d] <= n /\ \A k \in DOMAIN heard[d] : heard[d][k] <= n
        BY <1>0, <4>1 DEF HearInv, Pointers, Past
      <4>4. \A k \in DOMAIN heard[d] : heard[d][k] \in Nat
        BY <4>2
      <4> HIDE DEF d
      <4> QED
        BY <1>3, <4>2, <4>3, <4>4 DEF d
    <3>3. Fresh(posted', conn[fds[s].fd], joined[conn[fds[s].fd]], heard[conn[fds[s].fd]],
                n + 1)
      BY <1>3, <1>4, <2>2, <3>2 DEF Fresh
    <3> QED
      BY <1>1, <1>3, <1>5, <2>2, <3>1, <3>3
  <2>3. CASE s \notin Others
    <3>1. s = i /\ fds'[s] = fds[s] /\ fds[s].fd = User
      BY <1>2, <1>5, <2>3
    <3>2. write_buf'[User] = write_buf[User] /\ write_buf[User] # User
      BY <1>1, <1>2, <1>4 DEF HearInv, Pointers, NoOwn
    <3>3. write_buf[User] # Null => buf'[write_buf[User]] = buf[write_buf[User]]
      BY <1>1, <1>2, <3>2, HearTypes
    <3>4. ASSUME "OUT" \in fds[s].events, write_buf[User] # Null
          PROVE  Fresh(posted', conn[User], joined[conn[User]], heard[conn[User]],
                       buf[write_buf[User]])
      <4>1. Fresh(posted, conn[User], joined[conn[User]], heard[conn[User]],
                  buf[write_buf[User]])
        BY <3>1, <3>4 DEF HearInv, Pointers, Asked
      <4> QED
        BY <1>0, <1>3, <4>1 DEF Fresh
    <3> QED
      BY <1>1, <2>1, <3>1, <3>2, <3>3, <3>4
  <2> QED
    BY <2>2, <2>3
<1>7. NoOwn'
  BY <1>1, <1>4 DEF HearInv, Pointers, NoOwn
<1>8. Past'
  BY <1>1, <1>3, HearTypes DEF HearInv, Pointers, Past
<1>9. HeardRight'
  <2> SUFFICES ASSUME NEW c \in Conns, NEW k \in DOMAIN heard[c]
               PROVE  /\ heard[c][k] > joined[c] /\ posted'[heard[c][k]] # c
                      /\ k > 1 => heard[c][k - 1] < heard[c][k]
    BY <1>1 DEF HeardRight
  <2>1. heard[c][k] \in 1 .. n
    <3>1. heard[c] \in Seq(Nat) /\ joined[c] \in Nat
      BY HearTypes
    <3>2. heard[c][k] \in Nat /\ heard[c][k] <= n /\ heard[c][k] > joined[c]
      BY <1>0, <3>1 DEF HearInv, Pointers, Past, HeardRight
    <3> QED
      BY <3>1, <3>2
  <2> QED
    BY <1>3, <2>1 DEF HearInv, Pointers, HeardRight
<1> QED
  BY <1>6, <1>7, <1>8, <1>9 DEF Pointers

\* The message sent is new to the user, and then the last it heard.
LEMMA PointersDeliver == HearInv /\ Deliver => Pointers'
<1> SUFFICES ASSUME HearInv, Deliver PROVE Pointers'
  OBVIOUS
<1>1. /\ i \in 1 .. user_counter /\ "OUT" \in fds[i].revents /\ write_buf[User] # Null
      /\ fds' = [fds EXCEPT ![i].events = {"IN", "OUT"}]
      /\ write_buf' = [write_buf EXCEPT ![User] = Null]
      /\ UNCHANGED <<conn, user_counter, status, joined, posted, buf>>
  BY DEF Deliver, Turn
<1>2. PICK m \in Nat, c \in Conns :
        /\ m = buf[write_buf[User]] /\ c = conn[User] /\ status[c] = "open"
        /\ Fresh(posted, c, joined[c], heard[c], m)
        /\ User \in Fds /\ User = fds[i].fd
  <2>1. Fresh(posted, conn[User], joined[conn[User]], heard[conn[User]], buf[write_buf[User]])
    BY <1>1 DEF HearInv, Pointers, Asked, User
  <2> QED
    BY <1>1, <2>1, HearTypes DEF User
<1>3. heard' \in {heard, [heard EXCEPT ![c] = Append(heard[c], m)]}
  BY <1>2 DEF Deliver, SendTo
<1>4. \A d \in Conns \ {c} : heard'[d] = heard[d]
  BY <1>3, HearTypes
<1>5. ASSUME NEW s \in 1 .. user_counter
      PROVE  /\ fds'[s].fd = fds[s].fd /\ fds'[s].revents = fds[s].revents
             /\ s # i => fds'[s] = fds[s] /\ fds[s].fd # User /\ conn[fds[s].fd] \in Conns \ {c}
             /\ s = i => "OUT" \in fds'[s].events
  <2>1. s \in Slots /\ fds[s] \in Entry /\ i \in Slots
    BY <1>1, HearTypes
  <2>2. s # i => fds[s].fd # User /\ conn[fds[s].fd] \in Conns \ {c}
    BY <1>1, <1>2, HearTypes
  <2>3. fds'[s] = IF s = i THEN [fds[s] EXCEPT !.events = {"IN", "OUT"}] ELSE fds[s]
    BY <1>1, <2>1, HearTypes
  <2> QED
    BY <2>1, <2>2, <2>3 DEF Entry
<1>6. Asked'
  <2> SUFFICES ASSUME NEW s \in 1 .. user_counter
               PROVE  /\ "OUT" \in fds'[s].revents => "OUT" \in fds'[s].events
                      /\ "OUT" \in fds'[s].events /\ write_buf'[fds'[s].fd] # Null
                         => Fresh(posted', conn'[fds'[s].fd], joined'[conn'[fds'[s].fd]],
                                  heard'[conn'[fds'[s].fd]], buf'[write_buf'[fds'[s].fd]])
    BY <1>1 DEF Asked
  <2>1. CASE s = i
    BY <1>1, <1>2, <1>5, <2>1, HearTypes
  <2>2. CASE s # i
    <3>1. fds'[s] = fds[s] /\ write_buf'[fds[s].fd] = write_buf[fds[s].fd]
          /\ heard'[conn[fds[s].fd]] = heard[conn[fds[s].fd]]
      BY <1>1, <1>4, <1>5, <2>2, HearTypes
    <3> QED
      BY <1>1, <3>1 DEF HearInv, Pointers, Asked, Fresh
  <2> QED
    BY <2>1, <2>2
<1>7. NoOwn'
  BY <1>1, <1>2, HearTypes DEF HearInv, Pointers, NoOwn
<1>8. /\ Len(heard[c]) \in Nat /\ DOMAIN heard[c] = 1 .. Len(heard[c])
      /\ \A k \in DOMAIN heard[c] : heard[c][k] \in Nat /\ heard[c][k] < m
      /\ m \in 1 .. Len(posted) /\ posted[m] # c /\ m > joined[c]
  <2>1. heard[c] \in Seq(Nat) /\ posted \in Seq(Conns)
    BY HearTypes
  <2>2. Len(heard[c]) \in Nat /\ DOMAIN heard[c] = 1 .. Len(heard[c])
        /\ \A k \in DOMAIN heard[c] : heard[c][k] \in Nat
    BY <2>1
  <2> QED
    BY <1>2, <2>2 DEF Fresh
<1>9. heard'[c] = heard[c]
      \/ /\ DOMAIN heard'[c] = 1 .. Len(heard[c]) + 1 /\ heard'[c][Len(heard[c]) + 1] = m
         /\ \A k \in DOMAIN heard[c] : heard'[c][k] = heard[c][k]
  <2>1. heard[c] \in Seq(Nat)
    BY HearTypes
  <2>2. /\ Len(Append(heard[c], m)) = Len(heard[c]) + 1
        /\ Append(heard[c], m) \in Seq(Nat)
        /\ Append(heard[c], m)[Len(heard[c]) + 1] = m
        /\ \A k \in 1 .. Len(heard[c]) : Append(heard[c], m)[k] = heard[c][k]
    BY <2>1, AppendProperties
  <2>3. DOMAIN Append(heard[c], m) = 1 .. Len(heard[c]) + 1
    BY <2>2
  <2>4. heard'[c] \in {heard[c], Append(heard[c], m)}
    BY <1>3, HearTypes
  <2> QED
    BY <1>8, <2>2, <2>3, <2>4
<1>10. Past'
  <2> SUFFICES ASSUME NEW d \in Conns
               PROVE  /\ joined[d] <= Len(posted)
                      /\ \A k \in DOMAIN heard'[d] : heard'[d][k] <= Len(posted)
                      /\ status[d] \in {"new", "backlog"} => heard'[d] = <<>>
    BY <1>1 DEF Past
  <2>1. CASE d = c
    <3>1. joined[c] <= Len(posted) /\ \A k \in DOMAIN heard[c] : heard[c][k] <= Len(posted)
      BY DEF HearInv, Pointers, Past
    <3>2. ASSUME NEW k \in DOMAIN heard'[c]
          PROVE  heard'[c][k] <= Len(posted)
      <4>1. (k \in DOMAIN heard[c] /\ heard'[c][k] = heard[c][k]) \/ heard'[c][k] = m
        BY <1>8, <1>9
      <4>2. m <= Len(posted)
        BY <1>8
      <4> QED
        BY <3>1, <4>1, <4>2
    <3> QED
      BY <1>2, <2>1, <3>1, <3>2
  <2>2. CASE d # c
    BY <1>4, <2>2 DEF HearInv, Pointers, Past
  <2> QED
    BY <2>1, <2>2
<1>11. HeardRight'
  <2> SUFFICES ASSUME NEW d \in Conns, NEW k \in DOMAIN heard'[d]
               PROVE  /\ heard'[d][k] > joined[d] /\ posted[heard'[d][k]] # d
                      /\ k > 1 => heard'[d][k - 1] < heard'[d][k]
    BY <1>1 DEF HeardRight
  <2>1. CASE d # c
    BY <1>4, <2>1 DEF HearInv, Pointers, HeardRight
  <2>2. CASE d = c /\ heard'[c] = heard[c]
    BY <2>2 DEF HearInv, Pointers, HeardRight
  <2>3. CASE d = c /\ heard'[c] # heard[c] /\ k = Len(heard[c]) + 1
    <3>1. heard'[c][k] = m
      BY <1>9, <2>3
    <3>2. k > 1 => k - 1 \in DOMAIN heard[c] /\ heard'[c][k - 1] = heard[c][k - 1]
      BY <1>8, <1>9, <2>3
    <3> QED
      BY <1>8, <2>3, <3>1, <3>2
  <2>4. CASE d = c /\ heard'[c] # heard[c] /\ k # Len(heard[c]) + 1
    <3>1. k \in DOMAIN heard[c] /\ heard'[c][k] = heard[c][k]
          /\ (k > 1 => k - 1 \in DOMAIN heard[c] /\ heard'[c][k - 1] = heard[c][k - 1])
      <4>1. k \in 1 .. Len(heard[c]) + 1 /\ k # Len(heard[c]) + 1
        BY <1>9, <2>4
      <4>2. k \in 1 .. Len(heard[c]) /\ (k > 1 => k - 1 \in 1 .. Len(heard[c]))
        BY <1>8, <4>1
      <4> QED
        BY <1>8, <1>9, <2>4, <4>2
    <3> QED
      BY <2>4, <3>1 DEF HearInv, Pointers, HeardRight
  <2> QED
    BY <2>1, <2>2, <2>3, <2>4
<1> QED
  BY <1>6, <1>7, <1>10, <1>11 DEF Pointers

\* What a user is sent was said by another, after the user came, and comes once
\* and in order, though it is read through a pointer into the buffer of whoever
\* spoke last (lines 127, 146, 153).
THEOREM HeardIsNew == Spec => []HeardRight
<1>1. Init => HearInv
  <2>1. Init => Pointers
    BY DEF Init, Pointers, Asked, NoOwn, Past, HeardRight, Fds, Null
  <2> QED
    BY <2>1, ResetInit DEF HearInv
<1>2. HearInv /\ [Next]_vars => HearInv'
  <2> SUFFICES ASSUME HearInv, [Next]_vars PROVE HearInv'
    OBVIOUS
  <2>1. ResetInv'
    BY ResetNext DEF HearInv
  <2>2. Pointers'
    BY PointersQuiet, PointersJoin, PointersReceive, PointersDeliver
  <2> QED
    BY <2>1, <2>2 DEF HearInv
<1>3. HearInv => HeardRight
  BY DEF HearInv, Pointers
<1> QED
  BY <1>1, <1>2, <1>3, PTL DEF Spec
=============================================================================
