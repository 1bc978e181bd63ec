------------------------------ MODULE TimerServer ------------------------------
(* 4/4_2_server.cpp: one thread, epoll, a pipe the signal handler writes to,   *)
(* and a timer per connection, kept in sort_timer_lst (TimerList), that closes *)
(* a client that is silent for 3 * TIMESLOT.  The timer of a connection is     *)
(* named after the connection: each connection allocates one.  Once the        *)
(* program dereferences NULL or deleted memory it is nowhere any more.         *)
EXTENDS TimerList

CONSTANTS Fds,        \* descriptors accept can return
          Slot,       \* TIMESLOT
          MaxTime,    \* bound on the clock
          MaxSends,   \* bound on the data each client sends
          Talkers,    \* the clients that may send
          Leavers     \* the clients that may close

Conns == Timers
Lifetime == 3 * Slot
Never == -1

ASSUME TimerServerAssumption ==
  /\ Slot \in Nat \ {0} /\ MaxTime \in Nat /\ MaxSends \in Nat
  /\ NULL \notin Fds /\ {"listen", "pipe", NULL} \cap Conns = {} /\ NULL # "pipe"

VARIABLES
  now, alarm_at,      \* time(NULL), when SIGALRM is due
  status,             \* of a connection: "new", "backlog", "open", "closed"
  sent, wire, fin,    \* data sent and not received, FIN arrived
  edges,              \* what epoll will report: connections, "listen", "pipe"
  backlog, sigs,      \* connections to accept, signals in the pipe
  conn,               \* the connection behind a descriptor
  user_timer,         \* users[fd].timer
  fd_of,              \* timer->user_data
  timer_lst, expire, deleted,
  batch, pc, cur, timeout, stop_server,
  heard               \* history: when the server last had data of a client

netVars == <<status, sent, wire, fin, backlog>>
fdVars == <<conn, user_timer, fd_of>>
timerVars == <<timer_lst, expire, deleted>>
loopVars == <<batch, pc, cur, timeout, stop_server>>
vars == <<now, alarm_at, netVars, edges, sigs, fdVars, timerVars, loopVars, heard>>

Init ==
  /\ now = 0 /\ alarm_at = Slot
  /\ status = [c \in Conns |-> "new"] /\ sent = [c \in Conns |-> 0]
  /\ wire = [c \in Conns |-> 0] /\ fin = [c \in Conns |-> FALSE]
  /\ edges = {} /\ backlog = {} /\ sigs = {}
  /\ conn = [fd \in Fds |-> NULL] /\ user_timer = [fd \in Fds |-> NULL]
  /\ fd_of = [c \in Conns |-> NULL]
  /\ timer_lst = EmptyList /\ expire = [c \in Conns |-> 0] /\ deleted = {}
  /\ batch = {} /\ pc = "wait" /\ cur = 0 /\ timeout = FALSE /\ stop_server = FALSE
  /\ heard = [c \in Conns |-> Never]

\* The server dereferences the nodes and goes on at the given place.
ub == pc = "undefined"
Touch(nodes, place) ==
  pc' = IF NULL \in nodes \/ nodes \cap deleted # {} THEN "undefined" ELSE place

(* ------------------------ time, signals and clients ------------------------ *)

Elapse == /\ now < MaxTime /\ now' = now + 1
          /\ UNCHANGED <<alarm_at, netVars, edges, sigs, fdVars, timerVars, loopVars, heard>>

\* sig_handler sends the signal into the pipe.
Signal(sig) ==
  /\ \/ sig = "ALRM" /\ alarm_at # Never /\ now >= alarm_at /\ alarm_at' = Never
     \/ sig = "TERM" /\ ~stop_server /\ UNCHANGED alarm_at
  /\ sigs' = sigs \cup {sig} /\ edges' = edges \cup {"pipe"}
  /\ UNCHANGED <<now, netVars, fdVars, timerVars, loopVars, heard>>

Connect(c) ==
  /\ status[c] = "new" /\ status' = [status EXCEPT ![c] = "backlog"]
  /\ backlog' = backlog \cup {c} /\ edges' = edges \cup {"listen"}
  /\ UNCHANGED <<now, alarm_at, sent, wire, fin, sigs, fdVars, timerVars, loopVars, heard>>

Send(c) ==
  /\ c \in Talkers /\ status[c] = "open" /\ ~fin[c] /\ sent[c] < MaxSends
  /\ sent' = [sent EXCEPT ![c] = @ + 1] /\ wire' = [wire EXCEPT ![c] = @ + 1]
  /\ edges' = edges \cup {c}
  /\ UNCHANGED <<now, alarm_at, status, fin, backlog, sigs, fdVars, timerVars, loopVars, heard>>

Leave(c) ==
  /\ c \in Leavers /\ status[c] = "open" /\ ~fin[c]
  /\ fin' = [fin EXCEPT ![c] = TRUE] /\ edges' = edges \cup {c}
  /\ UNCHANGED <<now, alarm_at, status, sent, wire, backlog, sigs, fdVars, timerVars,
                 loopVars, heard>>

(* ------------------------------- the main loop ----------------------------- *)

\* Everything is registered with EPOLLET: an edge is reported once.
EpollWait ==
  /\ pc = "wait" /\ edges # {}
  /\ batch' = edges /\ edges' = {} /\ pc' = "events"
  /\ UNCHANGED <<now, alarm_at, netVars, sigs, fdVars, timerVars, cur, timeout, stop_server,
                 heard>>

Dispatch(e) == pc = "events" /\ e \in batch /\ batch' = batch \ {e}
               /\ UNCHANGED cur

\* One accept per event, its result unchecked: users[-1] when none is free.
FreeFds == {fd \in Fds : conn[fd] = NULL}
Accept ==
  /\ Dispatch("listen")
  /\ IF FreeFds = {} \/ backlog = {}
     THEN /\ pc' = "undefined"
          /\ UNCHANGED <<status, backlog, conn, user_timer, fd_of, timer_lst, expire, heard>>
     ELSE \E c \in backlog, fd \in FreeFds :
            /\ backlog' = backlog \ {c}
            /\ status' = [status EXCEPT ![c] = "open"]
            /\ conn' = [conn EXCEPT ![fd] = c]
            /\ user_timer' = [user_timer EXCEPT ![fd] = c]
            /\ fd_of' = [fd_of EXCEPT ![c] = fd]
            /\ expire' = [expire EXCEPT ![c] = now + Lifetime]
            /\ heard' = [heard EXCEPT ![c] = now]
            /\ timer_lst' = AddTimer(timer_lst, c, expire')
            /\ Touch(AddTouches(timer_lst, c, expire'), pc)
  /\ UNCHANGED <<now, alarm_at, sent, wire, fin, edges, sigs, deleted, timeout, stop_server>>

\* recv of up to 1024 signals takes all there are.
Signals ==
  /\ Dispatch("pipe")
  /\ timeout' = (timeout \/ "ALRM" \in sigs)
  /\ stop_server' = (stop_server \/ "TERM" \in sigs)
  /\ sigs' = {}
  /\ UNCHANGED <<pc, now, alarm_at, netVars, edges, fdVars, timerVars, heard>>

\* One recv, which takes what fits in the buffer: the timer gets its new time
\* and is added (not adjusted), although it is in the list.
DataExpireKept(fd, n) ==
  /\ conn[fd] # NULL /\ Dispatch(conn[fd]) /\ n <= wire[conn[fd]]
  /\ wire' = [wire EXCEPT ![conn[fd]] = @ - n]
  /\ heard' = [heard EXCEPT ![conn[fd]] = now]
  /\ timer_lst' = AddTimer(timer_lst, user_timer[fd], expire)
  /\ Touch(AddTouches(timer_lst, user_timer[fd], expire), pc)
  /\ UNCHANGED <<now, alarm_at, status, sent, fin, backlog, edges, sigs, fdVars, expire,
                 deleted, timeout, stop_server>>
Data(fd, n) ==
  /\ conn[fd] # NULL /\ Dispatch(conn[fd]) /\ n <= wire[conn[fd]]
  /\ wire' = [wire EXCEPT ![conn[fd]] = @ - n]
  /\ heard' = [heard EXCEPT ![conn[fd]] = now]
  /\ expire' = [expire EXCEPT ![user_timer[fd]] = now + Lifetime]
  /\ timer_lst' = AddTimer(timer_lst, user_timer[fd], expire')
  /\ Touch(AddTouches(timer_lst, user_timer[fd], expire'), pc)
  /\ UNCHANGED <<now, alarm_at, status, sent, fin, backlog, edges, sigs, fdVars, deleted,
                 timeout, stop_server>>

\* An earlier recv took it already: EAGAIN.
NoData(fd) ==
  /\ conn[fd] # NULL /\ Dispatch(conn[fd]) /\ wire[conn[fd]] = 0 /\ ~fin[conn[fd]]
  /\ UNCHANGED <<pc, now, alarm_at, netVars, edges, sigs, fdVars, timerVars, timeout, stop_server,
                 heard>>

\* cb_func: close(user_data->sockfd)
Close(fd) ==
  /\ conn' = [conn EXCEPT ![fd] = NULL]
  /\ status' = [c \in Conns |-> IF conn[fd] = c THEN "closed" ELSE status[c]]
  /\ wire' = [c \in Conns |-> IF conn[fd] = c THEN 0 ELSE wire[c]]
  /\ edges' = edges \ {conn[fd]}

\* fin stands for the end of the stream and for a reset, which comes after the data that
\* had arrived as well: whether recv returns 0 or fails with an error that is not EAGAIN,
\* cb_func runs, then del_timer.
Eof(fd) ==
  /\ conn[fd] # NULL /\ Dispatch(conn[fd]) /\ wire[conn[fd]] = 0 /\ fin[conn[fd]]
  /\ Close(fd)
  /\ timer_lst' = DelTimer(timer_lst, user_timer[fd])
  /\ Touch(DelTouches(timer_lst, user_timer[fd]), pc)
  /\ deleted' = deleted \cup {user_timer[fd]}
  /\ UNCHANGED <<now, alarm_at, sent, fin, backlog, sigs, user_timer, fd_of, expire, timeout,
                 stop_server, heard>>

BatchDone ==
  /\ pc = "events" /\ batch = {}
  /\ IF timeout THEN pc' = "tick" /\ cur' = now
                ELSE pc' = (IF stop_server THEN "done" ELSE "wait") /\ UNCHANGED cur
  /\ UNCHANGED <<now, alarm_at, netVars, edges, sigs, fdVars, timerVars, batch, timeout,
                 stop_server, heard>>

\* tick(): the head has expired; its callback closes the descriptor of its
\* user_data, whoever has it now.
TickSkipsCallback ==
  /\ pc = "tick" /\ timer_lst.head # NULL /\ cur >= expire[timer_lst.head]
  /\ timer_lst' = PopHead(timer_lst)
  /\ Touch(PopTouches(timer_lst), pc)
  /\ deleted' = deleted \cup {timer_lst.head}
  /\ UNCHANGED <<now, alarm_at, netVars, edges, sigs, fdVars, expire, batch, cur,
                 timeout, stop_server, heard>>
Tick ==
  /\ pc = "tick" /\ timer_lst.head # NULL /\ cur >= expire[timer_lst.head]
  /\ Close(fd_of[timer_lst.head])
  /\ timer_lst' = PopHead(timer_lst)
  /\ Touch(PopTouches(timer_lst), pc)
  /\ deleted' = deleted \cup {timer_lst.head}
  /\ UNCHANGED <<now, alarm_at, sent, fin, backlog, sigs, user_timer, fd_of, expire, batch, cur, timeout,
                 stop_server, heard>>

\* timer_handler: alarm(TIMESLOT)
TickForgetsAlarm ==
  /\ pc = "tick" /\ (timer_lst.head # NULL => cur < expire[timer_lst.head])
  /\ Touch({timer_lst.head} \ {NULL}, IF stop_server THEN "done" ELSE "wait")
  /\ timeout' = FALSE /\ cur' = 0
  /\ UNCHANGED <<now, alarm_at, netVars, edges, sigs, fdVars, timerVars, batch, stop_server,
                 heard>>
TickDone ==
  /\ pc = "tick" /\ (timer_lst.head # NULL => cur < expire[timer_lst.head])
  /\ Touch({timer_lst.head} \ {NULL}, IF stop_server THEN "done" ELSE "wait")
  /\ alarm_at' = now + Slot /\ timeout' = FALSE /\ cur' = 0
  /\ UNCHANGED <<now, netVars, edges, sigs, fdVars, timerVars, batch, stop_server, heard>>

Next == \/ Elapse \/ (\E s \in {"ALRM", "TERM"} : Signal(s))
        \/ \E c \in Conns : Connect(c) \/ Send(c) \/ Leave(c)
        \/ EpollWait \/ Accept \/ Signals \/ BatchDone \/ Tick \/ TickDone
        \/ \E fd \in Fds : NoData(fd) \/ Eof(fd)
        \/ \E fd \in Fds, n \in 1 .. MaxSends : Data(fd, n)

Spec == Init /\ [][Next]_vars

(* -------------------------------- properties ------------------------------- *)

\* Every variable has its type.
TypeOK ==
  /\ now \in 0 .. MaxTime /\ alarm_at \in Nat \cup {Never}
  /\ status \in [Conns -> {"new", "backlog", "open", "closed"}]
  /\ sent \in [Conns -> 0 .. MaxSends] /\ wire \in [Conns -> 0 .. MaxSends]
  /\ fin \in [Conns -> BOOLEAN]
  /\ edges \subseteq Conns \cup {"listen", "pipe"} /\ backlog \subseteq Conns
  /\ sigs \subseteq {"ALRM", "TERM"}
  /\ conn \in [Fds -> Conns \cup {NULL}] /\ user_timer \in [Fds -> Conns \cup {NULL}]
  /\ fd_of \in [Conns -> Fds \cup {NULL}]
  /\ timer_lst.head \in Timers \cup {NULL} /\ timer_lst.tail \in Timers \cup {NULL}
  /\ expire \in [Conns -> Nat] /\ deleted \subseteq Timers
  /\ pc \in {"wait", "events", "tick", "done", "undefined"} /\ batch \subseteq Conns \cup {"listen", "pipe"}
  /\ timeout \in BOOLEAN /\ stop_server \in BOOLEAN

OpenFds == {fd \in Fds : conn[fd] # NULL}

\* users[fd].timer of an open connection is the connection's own, and it has
\* not been deleted: reads and del_timer never go to another client's timer,
\* although the pointer is never cleared when a descriptor is used again.
TimerOwnership ==
  /\ TypeOK
  /\ ~ub => \A fd \in OpenFds : user_timer[fd] = conn[fd] /\ conn[fd] \notin deleted

\* tick closes only a client of which nothing was heard for 3 * TIMESLOT, also
\* when the descriptor was used again since the timer was set.
NoEarlyClose ==
  [][pc = "tick" => \A c \in Conns : status[c] = "open" /\ status'[c] = "closed" =>
                      now >= heard[c] + Lifetime]_vars

\* The tick never dies out: until the server stops, the next SIGALRM is due, or
\* in the pipe with an edge to report it, or noted in timeout, and only one.
TickNeverStops ==
  ~ub /\ ~stop_server =>
    \/ alarm_at # Never /\ "ALRM" \notin sigs /\ ~timeout
    \/ alarm_at = Never /\ "ALRM" \in sigs /\ ~timeout /\ "pipe" \in edges \cup batch
    \/ alarm_at = Never /\ "ALRM" \notin sigs /\ timeout

\* As long as no client sends or leaves, the list is in order and holds the
\* timers of the open connections, so that tick finds all that are due.
Undisturbed == \A c \in Conns : sent[c] = 0 /\ ~fin[c]
ListSound ==
  ~ub /\ Undisturbed => /\ Ascending(timer_lst, expire)
                        /\ NodesFrom(timer_lst, timer_lst.head) = {conn[fd] : fd \in OpenFds}
=============================================================================
