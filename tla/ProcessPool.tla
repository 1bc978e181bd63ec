------------------------------ MODULE ProcessPool ------------------------------
(* 6/processpool.h with the cgi_conn of 6/6_CGI_server.cpp: a parent that       *)
(* watches the listening socket and tells its children in turn, with an integer *)
(* on a pipe, to accept; children that accept, read the name of a program and   *)
(* start it; signals that reach each process through a pipe of its own.         *)
EXTENDS Integers, Sequences, SequencesExt, FiniteSets, FiniteSetsExt, Functions

CONSTANTS ProcessNumber,   \* m_process_number
          Conns, None,
          Requests,        \* what each client sends: pieces "part", and "end" with CR LF
          BufferSize,      \* BUFFER_SIZE - 1, in pieces
          Leavers,         \* the clients that end their stream
          MaxCrashes       \* bound on the children that die by themselves

Children == 0 .. ProcessNumber - 1

ASSUME PoolAssumption ==
  /\ ProcessNumber \in Nat \ {0} /\ IsFiniteSet(Conns)
  /\ {None, "pipe", "sig"} \cap Conns = {} /\ None \notin Children
  /\ Requests \in [Conns -> Seq({"part", "end"})]
  /\ BufferSize \in Nat \ {0} /\ Leavers \subseteq Conns /\ MaxCrashes \in Nat

VARIABLES
  status, backlog, owner,    \* of a connection: "new", "backlog", "open", "closed"
  sent, wire, fin,           \* pieces sent, arrived and not received; FIN arrived
  buf,                       \* m_buf
  cgi,                       \* its program: "none", "running", "zombie", "reaped"
  ppc, pedges, pbatch,       \* parent: place, what epoll will report, has reported
  psigs, ptaken,             \* signals in the pipe, read and not handled yet
  alive,                     \* the children with m_pid # -1
  sub_process_counter, pstop,
  cpc, cedges, cbatch, csigs, cstop,   \* the same of each child
  pipe,                      \* integers in the pipe to a child
  asked,                     \* SIGTERM has been sent, which happens once
  crashes, given             \* history: deaths, connections announced to a child

connVars == <<status, owner, sent, wire, fin, buf, cgi>>
parentVars == <<ppc, pbatch, ptaken, alive, sub_process_counter, pstop, given>>
childVars == <<cpc, cbatch, cstop, crashes, asked>>
vars == <<connVars, backlog, parentVars, pedges, psigs, childVars, cedges, csigs, pipe>>

\* The children are forked, the parent is in its loop.
Init ==
  /\ status = [c \in Conns |-> "new"] /\ backlog = <<>> /\ owner = [c \in Conns |-> None]
  /\ sent = [c \in Conns |-> 0] /\ wire = [c \in Conns |-> <<>>]
  /\ fin = [c \in Conns |-> FALSE] /\ buf = [c \in Conns |-> <<>>]
  /\ cgi = [c \in Conns |-> "none"]
  /\ ppc = "wait" /\ pedges = {} /\ pbatch = {} /\ psigs = {} /\ ptaken = {}
  /\ alive = Children /\ sub_process_counter = 0 /\ pstop = FALSE
  /\ cpc = [i \in Children |-> "starting"] /\ cedges = [i \in Children |-> {}]
  /\ cbatch = [i \in Children |-> {}] /\ csigs = [i \in Children |-> {}]
  /\ cstop = [i \in Children |-> FALSE] /\ pipe = [i \in Children |-> 0]
  /\ crashes = 0 /\ asked = FALSE /\ given = [i \in Children |-> 0]

(* -------------------------- clients and signals ------------------------------ *)

Connect(c) ==
  /\ status[c] = "new" /\ status' = [status EXCEPT ![c] = "backlog"]
  /\ backlog' = Append(backlog, c) /\ pedges' = pedges \cup {"listen"}
  /\ UNCHANGED <<owner, sent, wire, fin, buf, cgi, parentVars, psigs, childVars, cedges, csigs,
                 pipe>>

\* What arrives is an edge for the child that has accepted the connection.
Edge(c) ==
  cedges' = [i \in Children |->
               cedges[i] \cup (IF status[c] = "open" /\ owner[c] = i THEN {c} ELSE {})]
Alive(c) == status[c] \in {"backlog", "open"} /\ ~fin[c]
Send(c) ==
  /\ Alive(c) /\ sent[c] < Len(Requests[c])
  /\ sent' = [sent EXCEPT ![c] = @ + 1]
  /\ wire' = [wire EXCEPT ![c] = Append(@, Requests[c][sent[c] + 1])]
  /\ Edge(c)
  /\ UNCHANGED <<status, owner, fin, buf, cgi, backlog, parentVars, pedges, psigs, childVars, csigs,
                 pipe>>
Leave(c) ==
  /\ c \in Leavers /\ Alive(c) /\ sent[c] = Len(Requests[c])
  /\ fin' = [fin EXCEPT ![c] = TRUE] /\ Edge(c)
  /\ UNCHANGED <<status, owner, sent, wire, buf, cgi, backlog, parentVars, pedges, psigs, childVars,
                 csigs, pipe>>

\* sig_handler: the signal goes into the process's own pipe.
Raise(sig) == psigs' = psigs \cup {sig} /\ pedges' = pedges \cup {"sig"}
Terminate ==
  /\ ppc # "done" /\ ~asked /\ asked' = TRUE /\ Raise("TERM")
  /\ UNCHANGED <<connVars, backlog, parentVars, cpc, cbatch, cstop, crashes, cedges, csigs, pipe>>

(* ---------------------------- the end of a child ----------------------------- *)

\* The children D end and K get SIGTERM. No process of the server has the connections
\* of D any more: they are closed, but for the copies of their descriptors that a
\* program still running was forked with and does not know of. The programs that
\* D have started fall to init.
End(D, K) ==
  LET theirs == {c \in Conns : owner[c] \in D}
  IN  /\ cpc' = [i \in Children |-> IF i \in D THEN "zombie" ELSE cpc[i]]
      /\ cbatch' = [i \in Children |-> IF i \in D THEN {} ELSE cbatch[i]]
      /\ pipe' = [i \in Children |-> IF i \in D THEN 0 ELSE pipe[i]]
      /\ cedges' = [i \in Children |-> IF i \in D THEN {} ELSE
                                       IF i \in K THEN cedges[i] \cup {"sig"} ELSE cedges[i]]
      /\ csigs' = [i \in Children |-> IF i \in D THEN {} ELSE
                                      IF i \in K THEN csigs[i] \cup {"TERM"} ELSE csigs[i]]
      /\ status' = [c \in Conns |-> IF c \in theirs THEN "closed" ELSE status[c]]
      /\ wire' = [c \in Conns |-> IF c \in theirs THEN <<>> ELSE wire[c]]
      /\ buf' = [c \in Conns |-> IF c \in theirs THEN <<>> ELSE buf[c]]
      /\ cgi' = [c \in Conns |-> IF c \in theirs /\ cgi[c] = "zombie" THEN "reaped" ELSE cgi[c]]
      /\ IF D = {} THEN UNCHANGED <<psigs, pedges>> ELSE Raise("CHLD")
      /\ UNCHANGED <<owner, sent, fin, backlog, sub_process_counter, pstop, given, cstop>>
Crash(i) ==
  /\ cpc[i] \in {"starting", "wait", "events"} /\ crashes < MaxCrashes
  /\ crashes' = crashes + 1 /\ End({i}, {})
  /\ UNCHANGED <<ppc, pbatch, ptaken, alive, asked>>

(* -------------------------------- run_parent --------------------------------- *)

EpollWait ==
  /\ ppc = "wait" /\ pedges # {}
  /\ pbatch' = pedges /\ pedges' = {} /\ ppc' = "events"
  /\ UNCHANGED <<connVars, backlog, ptaken, alive, sub_process_counter, pstop, given, psigs,
                 childVars, cedges, csigs, pipe>>
BatchDone ==
  /\ ppc = "events" /\ pbatch = {}
  /\ ppc' = IF pstop THEN "done" ELSE "wait"
  /\ UNCHANGED <<connVars, backlog, pbatch, ptaken, alive, sub_process_counter, pstop, given,
                 pedges, psigs, childVars, cedges, csigs, pipe>>

Dispatch(e) == ppc = "events" /\ e \in pbatch /\ pbatch' = pbatch \ {e}

\* The first child from the counter on that has not been reaped
Turn(k) == (sub_process_counter + k) % ProcessNumber
Chosen == Turn(Min({k \in Children : Turn(k) \in alive}))

\* One integer for each event of the listening socket, which a dead child
\* does not get.
SendNewConn(i) ==
  /\ given' = [given EXCEPT ![i] = @ + 1]
  /\ IF cpc[i] = "zombie" THEN UNCHANGED <<pipe, cedges>>
     ELSE /\ pipe' = [pipe EXCEPT ![i] = @ + 1]
          /\ cedges' = [cedges EXCEPT ![i] = @ \cup {"pipe"}]
ListenStuck ==
  /\ alive # {} /\ Dispatch("listen")
  /\ SendNewConn(Chosen) /\ sub_process_counter' = Chosen
  /\ UNCHANGED <<connVars, backlog, ppc, ptaken, alive, pstop, pedges, psigs, childVars, csigs>>
ListenTwice ==
  /\ alive # {} /\ Dispatch("listen")
  /\ given' = [given EXCEPT ![Chosen] = @ + 1]
  /\ pipe' = [pipe EXCEPT ![Chosen] = @ + 2]
  /\ cedges' = [cedges EXCEPT ![Chosen] = @ \cup {"pipe"}]
  /\ sub_process_counter' = (Chosen + 1) % ProcessNumber
  /\ UNCHANGED <<connVars, backlog, ppc, ptaken, alive, pstop, pedges, psigs, childVars, csigs>>
Listen ==
  /\ alive # {} /\ Dispatch("listen")
  /\ SendNewConn(Chosen)
  /\ sub_process_counter' = (Chosen + 1) % ProcessNumber
  /\ UNCHANGED <<connVars, backlog, ppc, ptaken, alive, pstop, pedges, psigs, childVars, csigs>>

\* No child is left: the parent stops and drops the rest of the batch.
ListenNoChild ==
  /\ alive = {} /\ ppc = "events" /\ "listen" \in pbatch /\ pbatch' = {}
  /\ pstop' = TRUE
  /\ UNCHANGED <<connVars, backlog, ppc, ptaken, alive, sub_process_counter, given, pedges, psigs,
                 childVars, cedges, csigs, pipe>>

TakeSignals ==
  /\ Dispatch("sig")
  /\ ptaken' = psigs /\ psigs' = {} /\ ppc' = IF psigs = {} THEN "events" ELSE "signals"
  /\ UNCHANGED <<connVars, backlog, alive, sub_process_counter, pstop, given, pedges, childVars,
                 cedges, csigs, pipe>>
Handled(sig) ==
  /\ ppc = "signals" /\ sig \in ptaken
  /\ ptaken' = ptaken \ {sig} /\ ppc' = IF ptaken' = {} THEN "events" ELSE "signals"

\* SIGTERM to every child not reaped: one that has no handler yet dies of it.
KillAll(targets) ==
  /\ Handled("TERM")
  /\ End({i \in targets : cpc[i] = "starting"}, {i \in targets : cpc[i] \in {"wait", "events"}})
  /\ UNCHANGED <<pbatch, alive, crashes, asked>>
HandleTermButLast == KillAll(alive \ {ProcessNumber - 1})
HandleTerm == KillAll(alive)

\* Every child that has ended is reaped; the parent stops after the last.
Reap ==
  /\ Handled("CHLD")
  /\ alive' = {i \in alive : cpc[i] # "zombie"}
  /\ cpc' = [i \in Children |-> IF cpc[i] = "zombie" THEN "gone" ELSE cpc[i]]
  /\ UNCHANGED <<connVars, backlog, pbatch, sub_process_counter, given, pedges, psigs, cbatch,
                 cstop, crashes, asked, cedges, csigs, pipe>>
HandleChldNoReset == Reap /\ pstop' = TRUE
HandleChld == Reap /\ pstop' = (alive' = {})

(* --------------------------------- run_child --------------------------------- *)

Setup(i) ==
  /\ cpc[i] = "starting" /\ cpc' = [cpc EXCEPT ![i] = "wait"]
  /\ UNCHANGED <<connVars, backlog, parentVars, pedges, psigs, cbatch, cstop, crashes, asked,
                 cedges, csigs, pipe>>

\* A socket from which nothing can be received is not reported.
Reported(i) == {e \in cedges[i] : e \in Conns => wire[e] # <<>> \/ fin[e]}
ChildWait(i) ==
  /\ cpc[i] = "wait" /\ Reported(i) # {}
  /\ cbatch' = [cbatch EXCEPT ![i] = Reported(i)] /\ cedges' = [cedges EXCEPT ![i] = {}]
  /\ cpc' = [cpc EXCEPT ![i] = "events"]
  /\ UNCHANGED <<connVars, backlog, parentVars, pedges, psigs, cstop, crashes, asked, csigs, pipe>>
ChildBatchDone(i) ==
  /\ cpc[i] = "events" /\ cbatch[i] = {} /\ ~cstop[i]
  /\ cpc' = [cpc EXCEPT ![i] = "wait"]
  /\ UNCHANGED <<connVars, backlog, parentVars, pedges, psigs, cbatch, cstop, crashes, asked,
                 cedges, csigs, pipe>>
ChildStops(i) ==
  /\ cpc[i] = "events" /\ cbatch[i] = {} /\ cstop[i]
  /\ End({i}, {})
  /\ UNCHANGED <<ppc, pbatch, ptaken, alive, crashes, asked>>
ChildDispatch(i, e) ==
  /\ cpc[i] = "events" /\ e \in cbatch[i]
  /\ cbatch' = [cbatch EXCEPT ![i] = @ \ {e}]

\* The bytes taken from the pipe: TERM stops the child, CHLD lets it reap all
\* its programs that have ended.
Collected(i) == [c \in Conns |-> IF owner[c] = i /\ cgi[c] = "zombie" THEN "reaped" ELSE cgi[c]]
ChildSignals(i) ==
  /\ ChildDispatch(i, "sig")
  /\ csigs' = [csigs EXCEPT ![i] = {}]
  /\ cstop' = [cstop EXCEPT ![i] = @ \/ "TERM" \in csigs[i]]
  /\ cgi' = IF "CHLD" \in csigs[i] THEN Collected(i) ELSE cgi
  /\ UNCHANGED <<status, owner, sent, wire, fin, buf, backlog, parentVars, pedges, psigs, cpc,
                 crashes, asked, cedges, pipe>>

\* recv of an integer and accept of the connection that has waited longest; the
\* registration reports at once what has arrived before it.
ChildAccept(i) ==
  /\ ChildDispatch(i, "pipe") /\ pipe[i] > 0
  /\ pipe' = [pipe EXCEPT ![i] = @ - 1]
  /\ IF backlog = <<>> THEN UNCHANGED <<status, owner, cedges, backlog>>
     ELSE LET c == Head(backlog)
          IN  /\ backlog' = Tail(backlog)
              /\ status' = [status EXCEPT ![c] = "open"] /\ owner' = [owner EXCEPT ![c] = i]
              /\ cedges' = [cedges EXCEPT ![i] = @ \cup {c}]
  /\ UNCHANGED <<sent, wire, fin, buf, cgi, parentVars, pedges, psigs, cpc, cstop, crashes, asked,
                 csigs>>

\* accept fails: the integer is used up, and the connection waits for the next one.
ChildAcceptFails(i) ==
  /\ ChildDispatch(i, "pipe") /\ pipe[i] > 0
  /\ pipe' = [pipe EXCEPT ![i] = @ - 1]
  /\ UNCHANGED <<connVars, backlog, parentVars, pedges, psigs, cpc, cstop, crashes, asked, cedges,
                 csigs>>

(* ----------------------------- cgi_conn::process ----------------------------- *)

Take(s, n) == SubSeq(s, 1, Min({n, Len(s)}))
Close(c) ==
  /\ status' = [status EXCEPT ![c] = "closed"]
  /\ wire' = [wire EXCEPT ![c] = <<>>] /\ buf' = [buf EXCEPT ![c] = <<>>]
Keep(c, n) ==
  /\ buf' = [buf EXCEPT ![c] = @ \o Take(wire[c], n)]
  /\ wire' = [wire EXCEPT ![c] = SubSeq(@, n + 1, Len(@))]
  /\ UNCHANGED <<status, cgi>>

\* It receives until nothing is left, n pieces at most. With the end of the line
\* it starts the program, unless there is none or fork fails, and closes; it also
\* closes at the end of the stream and with no room left for what has arrived. A
\* recv into no room when nothing has arrived may return 0 or EAGAIN.
Process(i, c, n) ==
  LET text == Take(buf[c] \o Take(wire[c], n), BufferSize)
      more == Len(buf[c]) + Len(wire[c]) > BufferSize
  IN  /\ ChildDispatch(i, c)
      /\ \/ /\ Contains(text, "end") /\ Close(c)
            /\ \E p \in {"none", "running"} : cgi' = [cgi EXCEPT ![c] = p]
         \/ /\ ~Contains(text, "end") /\ (fin[c] \/ Len(text) = BufferSize)
            /\ Close(c) /\ UNCHANGED cgi
         \/ ~Contains(text, "end") /\ ~fin[c] /\ ~more /\ Keep(c, n)
      /\ UNCHANGED <<owner, sent, fin, backlog, parentVars, pedges, psigs, cpc, cstop, crashes,
                     asked, cedges, csigs, pipe>>
ReadOnce(i, c) == Process(i, c, 1)
ReadStartsAnyLine(i, c) ==
  /\ ChildDispatch(i, c) /\ Close(c)
  /\ cgi' = [cgi EXCEPT ![c] = IF buf[c] \o wire[c] = <<>> THEN @ ELSE "running"]
  /\ UNCHANGED <<owner, sent, fin, backlog, parentVars, pedges, psigs, cpc, cstop, crashes,
                 asked, cedges, csigs, pipe>>
Read(i, c) == Process(i, c, Len(wire[c]))

\* A program ends: its parent, if it still has one, is told.
CgiEnds(c) ==
  /\ cgi[c] = "running"
  /\ IF cpc[owner[c]] \in {"wait", "events"}
     THEN /\ cgi' = [cgi EXCEPT ![c] = "zombie"]
          /\ csigs' = [csigs EXCEPT ![owner[c]] = @ \cup {"CHLD"}]
          /\ cedges' = [cedges EXCEPT ![owner[c]] = @ \cup {"sig"}]
     ELSE cgi' = [cgi EXCEPT ![c] = "reaped"] /\ UNCHANGED <<csigs, cedges>>
  /\ UNCHANGED <<status, owner, sent, wire, fin, buf, backlog, parentVars, pedges, psigs, childVars,
                 pipe>>

(* ------------------------------- specification ------------------------------- *)

ParentStep == EpollWait \/ BatchDone \/ Listen \/ ListenNoChild \/ TakeSignals \/ HandleTerm
              \/ HandleChld
ChildStep(i) == Setup(i) \/ ChildWait(i) \/ ChildBatchDone(i) \/ ChildStops(i) \/ ChildSignals(i)
                \/ ChildAccept(i) \/ ChildAcceptFails(i) \/ \E c \in Conns : Read(i, c)
Environment ==
  \/ Terminate
  \/ \E c \in Conns : Connect(c) \/ Send(c) \/ Leave(c) \/ CgiEnds(c)
  \/ \E i \in Children : Crash(i)
Next == ParentStep \/ (\E i \in Children : ChildStep(i)) \/ Environment

Fairness == WF_vars(ParentStep) /\ \A i \in Children : WF_vars(ChildStep(i))
Spec == Init /\ [][Next]_vars /\ Fairness

(* -------------------------------- properties --------------------------------- *)

\* Every variable has its type; the counter is a child's index.
TypeOK ==
  /\ status \in [Conns -> {"new", "backlog", "open", "closed"}]
  /\ IsInjective(backlog) /\ ToSet(backlog) = {c \in Conns : status[c] = "backlog"}
  /\ owner \in [Conns -> Children \cup {None}]
  /\ \A c \in Conns : status[c] = "open" <=> owner[c] # None /\ status[c] # "closed"
  /\ sent \in [Conns -> Nat] /\ fin \in [Conns -> BOOLEAN]
  /\ \A c \in Conns : Len(buf[c]) <= BufferSize
  /\ \A c \in Conns : cgi[c] # "none" => status[c] = "closed"
  /\ cgi \in [Conns -> {"none", "running", "zombie", "reaped"}]
  /\ ppc \in {"wait", "events", "signals", "done"}
  /\ pedges \cup pbatch \subseteq {"listen", "sig"} /\ psigs \cup ptaken \subseteq {"TERM", "CHLD"}
  /\ alive \subseteq Children /\ sub_process_counter \in Children /\ pstop \in BOOLEAN
  /\ cpc \in [Children -> {"starting", "wait", "events", "zombie", "gone"}]
  /\ \A i \in Children : cedges[i] \cup cbatch[i] \subseteq Conns \cup {"pipe", "sig"}
  /\ csigs \in [Children -> SUBSET {"TERM", "CHLD"}] /\ cstop \in [Children -> BOOLEAN]
  /\ asked \in BOOLEAN
  /\ pipe \in [Children -> Nat] /\ given \in [Children -> Nat] /\ crashes \in 0 .. MaxCrashes

\* The integers that are in the pipes
InPipes == UNION {{i} \X (1 .. pipe[i]) : i \in Children}

\* processpool.h:236-249, 167-181: an integer in a pipe, or an event of the
\* listening socket that the parent has yet to answer, always has a connection of
\* its own that waits to be accepted, and a child never finds its pipe empty.
HandoverCovered ==
  /\ Cardinality(InPipes) + Cardinality({"listen"} \cap pedges)
       + Cardinality({"listen"} \cap pbatch) <= Len(backlog)
  /\ \A i \in Children :
       Cardinality({"pipe"} \cap cedges[i]) + Cardinality({"pipe"} \cap cbatch[i]) <= pipe[i]

\* What Prefork speaks of, in this pool
Contract == INSTANCE Prefork
              WITH Clients <- Conns, Workers <- Children, waiting <- backlog, tickets <- pipe,
                   up <- {i \in Children : cpc[i] \notin {"zombie", "gone"}}, server <- owner,
                   open <- {c \in Conns : status[c] = "open"},
                   complete <- {c \in Conns : Contains(SubSeq(Requests[c], 1, sent[c]), "end")},
                   started <- {c \in Conns : cgi[c] # "none"}

\* processpool.h:163-185, 236-277; 6_CGI_server.cpp:30-80: what the pool does is what
\* Prefork allows: with the backlog as the queue and the pipes as tickets, accepts
\* come in the order of the connects, one for one ticket, a connection stays with
\* the child that accepted it, and its program is started at most once, for a line
\* all of which the client has sent, through reads, deaths and signals.
ImplementsPrefork == Contract!PreforkSpec

\* processpool.h:237-248: as long as no child has been reaped, the connections
\* announced to any two children differ by at most one, and the turn stays in the
\* table.
RoundRobin ==
  /\ TypeOK
  /\ alive = Children => \A i, j \in Children : given[i] - given[j] <= 1

\* processpool.h:270-277: the parent is not gone while a child is left.
NoOrphans == ppc = "done" => \A i \in Children : cpc[i] = "gone"

\* processpool.h:280-289, 198-201, 258-279: after SIGTERM all processes end,
\* whatever else happens: a child that has no handler yet, one that is in the
\* middle of a batch, one that has just ended by itself.
TerminationCompletes == "TERM" \in psigs ~> ppc = "done"

\* 6_CGI_server.cpp:30-69: a child never keeps a connection whose client has sent
\* the end of its line, in however many pieces, although each report comes once.
RequestsServed ==
  LET Complete == \E c \in Conns : /\ status[c] = "open"
                                   /\ Contains(SubSeq(Requests[c], 1, sent[c]), "end")
  IN  Complete ~> ~Complete
=============================================================================
