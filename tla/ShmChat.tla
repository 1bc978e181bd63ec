-------------------------------- MODULE ShmChat --------------------------------
(* 5/5_1_server.cpp: a chat server with one child process for each client.     *)
(* The child copies what its client sends into its segment of a shared memory  *)
(* and announces the index of the segment to the main process over a pipe;     *)
(* main relays the index to the other children, which send the segment to      *)
(* their clients.  A client's child is named after the client.                 *)
EXTENDS Integers, Sequences, SequencesExt, FiniteSets

CONSTANTS Clients, None,
          UserLimit,   \* USER_LIMIT
          Crowds       \* who may come, who of them may send, once, and who may close

ASSUME ChatAssumption ==
  /\ IsFiniteSet(Clients) /\ {None, "listen", "sig"} \cap Clients = {}
  /\ UserLimit \in Nat \ {0}
  /\ Crowds \subseteq [comers : SUBSET Clients, talkers : SUBSET Clients, leavers : SUBSET Clients]

VARIABLES
  crowd,                   \* which clients there are, chosen once
  status, backlog,         \* of a connection: "new", "backlog", "open", "closed"
  sent, wire, fin,         \* the client has sent; data and FIN not received yet
  heard,                   \* segments' contents that were sent to a client
  mpc, medges, mbatch,     \* main: place, what epoll will report, has reported
  sigs, taken,             \* signals in the pipe, read and not handled yet
  users, sub_process,      \* the children by index, the index by child
  terminate, stop_server,
  cpc, cedges, cbatch,     \* the same of a child
  stop_child, idx,         \* its stop_child, the index it was given
  up, down,                \* pipe to main (how many indices), pipe from main
  share_mem,               \* a segment holds what it got from a client, or None
  moved                    \* history: a user was given another's place in users

netVars == <<crowd, status, backlog, sent, wire, fin>>
mainVars == <<mpc, mbatch, taken, users, sub_process, terminate, stop_server, moved>>
childVars == <<cpc, cbatch, stop_child, idx>>
vars == <<netVars, heard, mainVars, medges, sigs, childVars, cedges, up, down, share_mem>>

Init ==
  /\ crowd \in Crowds
  /\ status = [c \in Clients |-> "new"] /\ backlog = <<>>
  /\ sent = [c \in Clients |-> FALSE]
  /\ wire = [c \in Clients |-> FALSE] /\ fin = [c \in Clients |-> FALSE]
  /\ heard = [c \in Clients |-> {}]
  /\ mpc = "wait" /\ medges = {} /\ mbatch = {} /\ sigs = {} /\ taken = {}
  /\ users = <<>> /\ sub_process = [c \in Clients |-> -1]
  /\ terminate = FALSE /\ stop_server = FALSE
  /\ cpc = [c \in Clients |-> "none"] /\ cedges = [c \in Clients |-> {}]
  /\ cbatch = [c \in Clients |-> {}] /\ stop_child = [c \in Clients |-> FALSE]
  /\ idx = [c \in Clients |-> 0]
  /\ up = [c \in Clients |-> 0] /\ down = [c \in Clients |-> <<>>]
  /\ share_mem = [i \in 0 .. UserLimit - 1 |-> None] /\ moved = FALSE

(* ------------------------ clients and the outside world ---------------------- *)

Connect(c) ==
  /\ c \in crowd.comers /\ status[c] = "new"
  /\ status' = [status EXCEPT ![c] = "backlog"]
  /\ backlog' = Append(backlog, c) /\ medges' = medges \cup {"listen"}
  /\ UNCHANGED <<crowd, sent, wire, fin, heard, mainVars, sigs, childVars, cedges, up, down,
                 share_mem>>

\* Data and FIN of a connection are an edge for its child.
Alive(c) == status[c] = "open" /\ ~fin[c]
Send(c) ==
  /\ c \in crowd.talkers /\ Alive(c) /\ ~sent[c]
  /\ sent' = [sent EXCEPT ![c] = TRUE] /\ wire' = [wire EXCEPT ![c] = TRUE]
  /\ cedges' = [cedges EXCEPT ![c] = @ \cup {"conn"}]
  /\ UNCHANGED <<crowd, status, backlog, fin, heard, mainVars, medges, sigs, childVars, up, down,
                 share_mem>>
Leave(c) ==
  /\ c \in crowd.leavers /\ Alive(c)
  /\ fin' = [fin EXCEPT ![c] = TRUE]
  /\ cedges' = [cedges EXCEPT ![c] = @ \cup {"conn"}]
  /\ UNCHANGED <<crowd, status, backlog, sent, wire, heard, mainVars, medges, sigs, childVars, up,
                 down, share_mem>>

\* sig_handler of main: the signal goes into the pipe.
Raise(sig) == sigs' = sigs \cup {sig} /\ medges' = medges \cup {"sig"}
Terminate ==
  /\ "TERM" \notin sigs \cup taken /\ ~terminate /\ mpc # "done"
  /\ Raise("TERM")
  /\ UNCHANGED <<netVars, heard, mainVars, childVars, cedges, up, down, share_mem>>

(* ------------------------------- main's loop --------------------------------- *)

EpollWait ==
  /\ mpc = "wait" /\ medges # {}
  /\ mbatch' = medges /\ medges' = {} /\ mpc' = "events"
  /\ UNCHANGED <<netVars, heard, sigs, taken, users, sub_process, terminate, stop_server, moved,
                 childVars, cedges, up, down, share_mem>>

\* When main ends, its ends of the pipes are closed: an edge for the child there
\* may be, a client accepted after the last look at user_count.  It is alone, so no
\* sibling forked later has a copy of main's end.
BatchDone ==
  /\ mpc = "events" /\ mbatch = {}
  /\ mpc' = IF stop_server THEN "done" ELSE "wait"
  /\ cedges' = [c \in Clients |-> IF stop_server /\ cpc[c] \notin {"none", "zombie", "gone"}
                                THEN cedges[c] \cup {"pipe"} ELSE cedges[c]]
  /\ UNCHANGED <<netVars, heard, medges, mbatch, sigs, taken, users, sub_process, terminate,
                 stop_server, moved, childVars, up, down, share_mem>>

Dispatch(e) == mpc = "events" /\ e \in mbatch /\ mbatch' = mbatch \ {e}

\* One accept per event.  Too many users, or fork fails: the client is closed.
Turned(c) ==
  /\ status' = [status EXCEPT ![c] = "closed"]
  /\ UNCHANGED <<users, sub_process, cpc, idx>>
Forked(c) ==
  /\ status' = [status EXCEPT ![c] = "open"]
  /\ users' = Append(users, c)
  /\ sub_process' = [sub_process EXCEPT ![c] = Len(users)]
  /\ idx' = [idx EXCEPT ![c] = Len(users)]
  /\ cpc' = [cpc EXCEPT ![c] = "forked"]
Accept ==
  /\ Dispatch("listen") /\ backlog' = Tail(backlog)
  /\ \/ Turned(Head(backlog))
     \/ Len(users) < UserLimit /\ Forked(Head(backlog))
  /\ UNCHANGED <<crowd, sent, wire, fin, heard, mpc, medges, sigs, taken, terminate, stop_server,
                 moved, cbatch, stop_child, cedges, up, down, share_mem>>

\* The event is used up: the client waits for that of another.
AcceptFails ==
  /\ Dispatch("listen")
  /\ UNCHANGED <<netVars, heard, mpc, medges, sigs, taken, users, sub_process, terminate,
                 stop_server, moved, childVars, cedges, up, down, share_mem>>

\* recv of up to 1024 signals
TakeSignals ==
  /\ Dispatch("sig")
  /\ taken' = sigs /\ sigs' = {}
  /\ mpc' = IF sigs = {} THEN "events" ELSE "signals"
  /\ UNCHANGED <<netVars, heard, medges, users, sub_process, terminate, stop_server, moved,
                 childVars, cedges, up, down, share_mem>>

Handled(sig) ==
  /\ taken' = taken \ {sig}
  /\ mpc' = IF taken = {sig} THEN "events" ELSE mpc

\* waitpid returns a child: the last user takes its place.  Events of its
\* pipe that are still to be looked at find a closed descriptor.
Compact(c) ==
  LET del == sub_process[c]
      last == Last(users)
  IN  /\ users' = Front([users EXCEPT ![del + 1] = last])
      /\ sub_process' = [sub_process EXCEPT ![c] = -1, ![last] = del]
      /\ moved' = (moved \/ last # c)
Forget(c) ==
  /\ cpc' = [cpc EXCEPT ![c] = "gone"]
  /\ mbatch' = mbatch \ {c} /\ medges' = medges \ {c}
  /\ up' = [up EXCEPT ![c] = 0] /\ idx' = [idx EXCEPT ![c] = 0]
ReapKeepsIndex(c) ==
  /\ mpc = "signals" /\ "CHLD" \in taken /\ cpc[c] = "zombie"
  /\ users' = Front([users EXCEPT ![sub_process[c] + 1] = Last(users)])
  /\ sub_process' = [sub_process EXCEPT ![c] = -1]
  /\ moved' = (moved \/ Last(users) # c)
  /\ Forget(c)
  /\ UNCHANGED <<netVars, heard, mpc, sigs, taken, terminate, stop_server, cbatch, stop_child,
                 cedges, down, share_mem>>
Reap(c) ==
  /\ mpc = "signals" /\ "CHLD" \in taken /\ cpc[c] = "zombie"
  /\ Compact(c) /\ Forget(c)
  /\ UNCHANGED <<netVars, heard, mpc, sigs, taken, terminate, stop_server, cbatch, stop_child,
                 cedges, down, share_mem>>

\* waitpid finds no more.
ReapedSome ==
  /\ mpc = "signals" /\ "CHLD" \in taken
  /\ Handled("CHLD")
  /\ stop_server' = (stop_server \/ (terminate /\ users = <<>>))
  /\ UNCHANGED <<netVars, heard, medges, mbatch, sigs, users, sub_process, terminate, moved,
                 childVars, cedges, up, down, share_mem>>
ReapedAll ==
  /\ mpc = "signals" /\ "CHLD" \in taken /\ \A c \in Clients : cpc[c] # "zombie"
  /\ Handled("CHLD")
  /\ stop_server' = (stop_server \/ (terminate /\ users = <<>>))
  /\ UNCHANGED <<netVars, heard, medges, mbatch, sigs, users, sub_process, terminate, moved,
                 childVars, cedges, up, down, share_mem>>

\* kill(pid, SIGTERM) of every user.  A child that has just been forked still
\* has main's handler and pipe, then only the handler, then its own one, which
\* is noticed in epoll_wait (EINTR) and at the next test of stop_child.
KillAll ==
  LET killed == {users[i] : i \in DOMAIN users}
      running == {c \in killed : cpc[c] \in {"check", "enter", "wait", "events", "announce"}}
  IN  /\ stop_child' = [c \in Clients |-> stop_child[c] \/ c \in running]
      /\ cpc' = [c \in Clients |-> IF c \in running /\ cpc[c] = "wait" THEN "check" ELSE cpc[c]]
      /\ IF \E c \in killed : cpc[c] = "forked" THEN Raise("TERM") ELSE UNCHANGED <<sigs, medges>>
HandleTerm ==
  /\ mpc = "signals" /\ "TERM" \in taken
  /\ Handled("TERM")
  /\ IF users = <<>>
     THEN stop_server' = TRUE /\ UNCHANGED <<terminate, stop_child, cpc, sigs, medges>>
     ELSE terminate' = TRUE /\ KillAll /\ UNCHANGED stop_server
  /\ UNCHANGED <<netVars, heard, mbatch, users, sub_process, moved, cbatch, idx, cedges, up, down,
                 share_mem>>

\* One index is read from the pipe of a child and sent to all others.
Others(c) == {users[i] : i \in DOMAIN users} \ {c}
Listening(cs) == {c \in cs : cpc[c] # "zombie"}
SendDown(cs, i) ==
  /\ down' = [c \in Clients |-> IF c \in Listening(cs) THEN Append(down[c], i) ELSE down[c]]
  /\ cedges' = [c \in Clients |-> IF c \in Listening(cs) THEN cedges[c] \cup {"pipe"} ELSE cedges[c]]
RelayToAll(c) ==
  /\ Dispatch(c) /\ up[c] > 0
  /\ up' = [up EXCEPT ![c] = @ - 1]
  /\ SendDown(Others(None), idx[c])
  /\ UNCHANGED <<netVars, heard, mpc, medges, sigs, taken, users, sub_process, terminate,
                 stop_server, moved, childVars, share_mem>>
Relay(c) ==
  /\ Dispatch(c) /\ up[c] > 0
  /\ up' = [up EXCEPT ![c] = @ - 1]
  /\ SendDown(Others(c), idx[c])
  /\ UNCHANGED <<netVars, heard, mpc, medges, sigs, taken, users, sub_process, terminate,
                 stop_server, moved, childVars, share_mem>>

(* --------------------------------- run_child --------------------------------- *)

ChildGoto(c, from, to) == cpc[c] = from /\ cpc' = [cpc EXCEPT ![c] = to]

\* The child closes main's descriptors, the signal pipe among them, then makes
\* its own epoll and installs child_term_handler.
ClosePipes(c) ==
  /\ ChildGoto(c, "forked", "closed")
  /\ UNCHANGED <<netVars, heard, mainVars, medges, sigs, cbatch, stop_child, idx, cedges, up, down,
                 share_mem>>
Install(c) ==
  /\ ChildGoto(c, "closed", "check")
  /\ UNCHANGED <<netVars, heard, mainVars, medges, sigs, cbatch, stop_child, idx, cedges, up, down,
                 share_mem>>

\* while (!stop_child): a signal that comes after the test is not seen by the
\* epoll_wait that follows.
Check(c) ==
  /\ ~stop_child[c] /\ ChildGoto(c, "check", "enter")
  /\ UNCHANGED <<netVars, heard, mainVars, medges, sigs, cbatch, stop_child, idx, cedges, up, down,
                 share_mem>>
Enter(c) ==
  /\ ChildGoto(c, "enter", "wait")
  /\ UNCHANGED <<netVars, heard, mainVars, medges, sigs, cbatch, stop_child, idx, cedges, up, down,
                 share_mem>>
\* What the process had is gone; its client, and main, find closed ends.
Exit(c) ==
  /\ stop_child[c] /\ ChildGoto(c, "check", "zombie")
  /\ status' = [status EXCEPT ![c] = "closed"]
  /\ wire' = [wire EXCEPT ![c] = FALSE] /\ down' = [down EXCEPT ![c] = <<>>]
  /\ cedges' = [cedges EXCEPT ![c] = {}] /\ stop_child' = [stop_child EXCEPT ![c] = FALSE]
  /\ Raise("CHLD")
  /\ UNCHANGED <<crowd, backlog, sent, fin, heard, mainVars, cbatch, idx, up, share_mem>>

ChildWait(c) ==
  /\ cedges[c] # {} /\ ChildGoto(c, "wait", "events")
  /\ cbatch' = [cbatch EXCEPT ![c] = cedges[c]] /\ cedges' = [cedges EXCEPT ![c] = {}]
  /\ UNCHANGED <<netVars, heard, mainVars, medges, sigs, stop_child, idx, up, down, share_mem>>
ChildBatchDone(c) ==
  /\ cbatch[c] = {} /\ ChildGoto(c, "events", "check")
  /\ UNCHANGED <<netVars, heard, mainVars, medges, sigs, cbatch, stop_child, idx, cedges, up, down,
                 share_mem>>
ChildDispatch(c, e) ==
  cpc[c] = "events" /\ e \in cbatch[c] /\ cbatch' = [cbatch EXCEPT ![c] = @ \ {e}]

\* memset and one recv into the segment: data is announced next, the end of the
\* stream or a reset (both are fin) ends the child, EAGAIN leaves the segment empty.
Recv(c) ==
  /\ ChildDispatch(c, "conn")
  /\ share_mem' = [share_mem EXCEPT ![idx[c]] = IF wire[c] THEN c ELSE None]
  /\ wire' = [wire EXCEPT ![c] = FALSE]
  /\ stop_child' = [stop_child EXCEPT ![c] = @ \/ (~wire[c] /\ fin[c])]
  /\ cpc' = [cpc EXCEPT ![c] = IF wire[c] THEN "announce" ELSE "events"]
  /\ UNCHANGED <<crowd, status, backlog, sent, fin, heard, mainVars, medges, sigs, idx, cedges,
                 up, down>>
Announce(c) ==
  /\ ChildGoto(c, "announce", "events")
  /\ up' = [up EXCEPT ![c] = @ + 1] /\ medges' = medges \cup {c}
  /\ UNCHANGED <<netVars, heard, mainVars, sigs, cbatch, stop_child, idx, cedges, down, share_mem>>

\* One index is read, and that segment sent to the client as it is by now.  An empty
\* pipe whose other end main has closed ends the child.
SendSegment(c) ==
  IF down[c] = <<>> THEN UNCHANGED <<down, heard>>
  ELSE /\ down' = [down EXCEPT ![c] = Tail(@)]
       /\ heard' = [heard EXCEPT ![c] = @ \cup ({share_mem[Head(down[c])]} \ {None})]
ForwardIgnoresEnd(c) ==
  /\ ChildDispatch(c, "pipe") /\ SendSegment(c)
  /\ UNCHANGED <<netVars, mainVars, medges, sigs, cpc, stop_child, idx, cedges, up, share_mem>>
Forward(c) ==
  /\ ChildDispatch(c, "pipe") /\ SendSegment(c)
  /\ stop_child' = [stop_child EXCEPT ![c] = @ \/ (down[c] = <<>> /\ mpc = "done")]
  /\ UNCHANGED <<netVars, mainVars, medges, sigs, cpc, idx, cedges, up, share_mem>>

(* ----------------------------------------------------------------------------- *)

MainStep == \/ EpollWait \/ BatchDone \/ Accept \/ AcceptFails \/ TakeSignals
            \/ ReapedAll \/ HandleTerm
            \/ \E c \in Clients : Reap(c) \/ Relay(c)
ChildStep(c) == \/ ClosePipes(c) \/ Install(c) \/ Check(c) \/ Enter(c) \/ Exit(c)
                \/ ChildWait(c) \/ ChildBatchDone(c) \/ Recv(c) \/ Announce(c) \/ Forward(c)

Next == \/ MainStep \/ Terminate
        \/ \E c \in Clients : Connect(c) \/ Send(c) \/ Leave(c) \/ ChildStep(c)

\* The processes are scheduled; nobody has to connect, send, leave or terminate.
Spec == Init /\ [][Next]_vars /\ WF_vars(MainStep) /\ \A c \in Clients : WF_vars(ChildStep(c))

(* --------------------------------- properties -------------------------------- *)

\* Every variable has its type; the indices fit share_mem.
TypeOK ==
  /\ crowd \in Crowds
  /\ status \in [Clients -> {"new", "backlog", "open", "closed"}] /\ backlog \in Seq(Clients)
  /\ sent \in [Clients -> BOOLEAN] /\ wire \in [Clients -> BOOLEAN] /\ fin \in [Clients -> BOOLEAN]
  /\ heard \in [Clients -> SUBSET Clients]
  /\ mpc \in {"wait", "events", "signals", "done"}
  /\ medges \subseteq Clients \cup {"listen", "sig"} /\ mbatch \subseteq Clients \cup {"listen", "sig"}
  /\ sigs \subseteq {"CHLD", "TERM"} /\ taken \subseteq {"CHLD", "TERM"}
  /\ users \in Seq(Clients) /\ sub_process \in [Clients -> -1 .. UserLimit - 1]
  /\ terminate \in BOOLEAN /\ stop_server \in BOOLEAN /\ moved \in BOOLEAN
  /\ cpc \in [Clients -> {"none", "forked", "closed", "check", "enter", "wait", "events", "announce",
                          "zombie", "gone"}]
  /\ cedges \in [Clients -> SUBSET {"conn", "pipe"}] /\ cbatch \in [Clients -> SUBSET {"conn", "pipe"}]
  /\ stop_child \in [Clients -> BOOLEAN] /\ idx \in [Clients -> 0 .. UserLimit - 1]
  /\ up \in [Clients -> Nat] /\ down \in [Clients -> Seq(0 .. UserLimit - 1)]
  /\ share_mem \in [0 .. UserLimit - 1 -> Clients \cup {None}]

Children == {c \in Clients : cpc[c] \notin {"none", "gone"}}

\* Through accepts and the compaction on SIGCHLD, users holds each child that
\* is not reaped once, and sub_process says where.
TableRight ==
  /\ TypeOK
  /\ {users[i] : i \in DOMAIN users} = Children
  /\ \A i \in DOMAIN users : sub_process[users[i]] = i - 1

\* main decides to end only when there is no child that it has not reaped (on
\* SIGCHLD and SIGTERM).
StopsWithoutChildren == [][~stop_server /\ stop_server' => Children = {}]_vars

\* As long as no user was moved, a client is never sent what it sent itself:
\* indices that were relayed before a child ended and another got its segment
\* do not come back to the wrong child.
NoEcho == ~moved => \A c \in Clients : c \notin heard[c]

\* While main runs, a child that ended is reaped and its place is free again,
\* also when several SIGCHLDs come as one signal or one edge of the pipe.
ChildrenReaped ==
  (\E c \in Clients : cpc[c] = "zombie") ~> (mpc = "done" \/ \A c \in Clients : cpc[c] # "zombie")

\* No child outlives main for long: whoever was accepted while main made up its
\* mind to end finds the end of its pipe, wherever it is by then.
ChildrenEnd == mpc = "done" ~> \A c \in Clients : cpc[c] \in {"none", "zombie", "gone"}
=============================================================================
