--------------------------- MODULE TimerServerProofs ---------------------------
(* 4/4_2_server.cpp with 4/lst_timer.h, for any number of clients and           *)
(* descriptors and any clock: the tick never dies out, a timer goes with its    *)
(* connection, nobody is closed too early, and the list nobody has disturbed    *)
(* is the sorted one that was meant.                                            *)
EXTENDS TimerServer, Sequences, FiniteSetTheorems, WellFoundedInduction, TLAPS

(* ---------------------------------- the list --------------------------------- *)

\* Lists whose pointers all lead to nodes of S
Lists(S) == [head : S \cup {NULL}, tail : S \cup {NULL},
             next : [Timers -> S \cup {NULL}], prev : [Timers -> S \cup {NULL}]]

\* Some natural numbers have a least one.
LEMMA LeastIs ==
  ASSUME NEW S \in SUBSET Nat, S # {} PROVE Min(S) \in S /\ \A k \in S : Min(S) <= k
<1>1. PICK x \in S : \A y \in S : ~ (<<y, x>> \in OpToRel(<, Nat))
  BY NatLessThanWellFounded, WFMin
<1>2. ASSUME NEW y \in S PROVE x <= y
  <2>1. x \in Nat /\ y \in Nat /\ <<y, x>> \in Nat \X Nat
    OBVIOUS
  <2>2. <<y, x>> \in OpToRel(<, Nat) <=> y < x
    BY <2>1, Zenon DEF OpToRel
  <2>3. ~ (y < x)
    BY <1>1, <2>2, Zenon
  <2> QED
    BY <2>1, <2>3
<1> QED
  BY <1>2 DEF Min

LEMMA TimersFinite == IsFiniteSet(Timers) /\ Cardinality(Timers) \in Nat /\ NULL \notin Timers
  BY TimersAssumption, FS_CardinalityType DEF TimersAssumption

\* A walk of the list goes from each node to the next.
LEMMA ChainIs ==
  ASSUME NEW l, NEW n
  PROVE  Chain(l, n) = [k \in 0 .. Cardinality(Timers) |->
           IF k = 0 THEN n ELSE IF Chain(l, n)[k - 1] = NULL THEN NULL
                                ELSE l.next[Chain(l, n)[k - 1]]]
<1> DEFINE Walk(f, m) == f = [k \in 0 .. m |->
             IF k = 0 THEN n ELSE IF f[k - 1] = NULL THEN NULL ELSE l.next[f[k - 1]]]
           Bad == {m \in Nat : ~ \E f : Walk(f, m)}
<1>1. Bad = {}
  <2> SUFFICES ASSUME Bad # {} PROVE FALSE
    OBVIOUS
  <2> DEFINE m == Min(Bad)
  <2>1. m \in Nat /\ m \in Bad /\ \A k \in Bad : m <= k
    BY LeastIs
  <2> HIDE DEF m
  <2>2. CASE m = 0
    <3>1. Walk([k \in 0 .. m |-> n], m)
      BY <2>2
    <3> QED
      BY <2>1, <3>1
  <2>3. CASE m # 0
    <3>1. m - 1 \in Nat /\ m - 1 \notin Bad
      BY <2>1, <2>3
    <3>2. PICK g : Walk(g, m - 1)
      BY <3>1
    <3> DEFINE f == [k \in 0 .. m |-> IF k < m THEN g[k]
                       ELSE IF g[m - 1] = NULL THEN NULL ELSE l.next[g[m - 1]]]
    <3>3. \A k \in 0 .. m - 1 : g[k] = IF k = 0 THEN n ELSE IF g[k - 1] = NULL THEN NULL
                                       ELSE l.next[g[k - 1]]
      BY <3>2
    <3>4. ASSUME NEW k \in 0 .. m
          PROVE  f[k] = IF k = 0 THEN n ELSE IF f[k - 1] = NULL THEN NULL ELSE l.next[f[k - 1]]
      <4>1. CASE k < m
        <5>1. k \in 0 .. m - 1 /\ f[k] = g[k] /\ (k # 0 => k - 1 \in 0 .. m /\ f[k - 1] = g[k - 1])
          BY <2>1, <4>1
        <5> QED
          BY <3>3, <5>1
      <4>2. CASE k = m
        <5>1. f[k - 1] = g[k - 1] /\ k # 0
          BY <2>1, <2>3, <4>2
        <5> QED
          BY <4>2, <5>1, <2>1
      <4> QED
        BY <4>1, <4>2, <2>1
    <3>5. Walk(f, m)
      <4> DEFINE g2 == [k \in 0 .. m |->
             IF k = 0 THEN n ELSE IF f[k - 1] = NULL THEN NULL ELSE l.next[f[k - 1]]]
      <4>1. \A k \in 0 .. m : f[k] = g2[k]
        BY <3>4
      <4>2. f = g2
        BY <4>1
      <4> QED
        BY <4>2
    <3> QED
      BY <2>1, <3>5
  <2> QED
    BY <2>2, <2>3
<1>2. \E f : Walk(f, Cardinality(Timers))
  BY <1>1, TimersFinite
<1>3. Chain(l, n) = CHOOSE f : Walk(f, Cardinality(Timers))
  BY DEF Chain
<1> HIDE DEF Walk
<1>4. Walk(Chain(l, n), Cardinality(Timers))
  BY <1>2, <1>3
<1> QED
  BY <1>4 DEF Walk

LEMMA ChainStep ==
  ASSUME NEW l, NEW n, NEW k \in 0 .. Cardinality(Timers)
  PROVE  Chain(l, n)[k] = IF k = 0 THEN n ELSE IF Chain(l, n)[k - 1] = NULL THEN NULL
                                               ELSE l.next[Chain(l, n)[k - 1]]
<1> DEFINE ch == Chain(l, n)
<1>1. ch = [j \in 0 .. Cardinality(Timers) |->
              IF j = 0 THEN n ELSE IF ch[j - 1] = NULL THEN NULL ELSE l.next[ch[j - 1]]]
  BY ChainIs
<1> HIDE DEF ch
<1>2. ch[k] = IF k = 0 THEN n ELSE IF ch[k - 1] = NULL THEN NULL ELSE l.next[ch[k - 1]]
  BY <1>1
<1> QED
  BY <1>2 DEF ch

\* It stays on the nodes the list has.
LEMMA ChainInside ==
  ASSUME NEW S \in SUBSET Timers, NEW l \in Lists(S), NEW n \in S \cup {NULL},
         NEW i \in 0 .. Cardinality(Timers)
  PROVE  Chain(l, n)[i] \in S \cup {NULL}
<1> DEFINE Bad == {k \in 0 .. Cardinality(Timers) : Chain(l, n)[k] \notin S \cup {NULL}}
<1> SUFFICES ASSUME Bad # {} PROVE FALSE
  OBVIOUS
<1> DEFINE m == Min(Bad)
<1>1. m \in Bad /\ \A k \in Bad : m <= k
  BY LeastIs, TimersFinite
<1> HIDE DEF m
<1>2. m \in 0 .. Cardinality(Timers) /\ m # 0 /\ m - 1 \in 0 .. Cardinality(Timers)
  BY <1>1, ChainStep, TimersFinite
<1>3. Chain(l, n)[m - 1] \in S \cup {NULL}
  BY <1>1, <1>2, TimersFinite
<1>4. Chain(l, n)[m] = IF Chain(l, n)[m - 1] = NULL THEN NULL ELSE l.next[Chain(l, n)[m - 1]]
  BY <1>2, ChainStep
<1>5. Chain(l, n)[m] \in S \cup {NULL}
  BY <1>3, <1>4 DEF Lists
<1> QED
  BY <1>1, <1>5

\* The operations make no pointer to another node than the one they add.
LEMMA AddInside ==
  ASSUME NEW S \in SUBSET Timers, NEW l \in Lists(S), NEW t \in S, NEW e
  PROVE  AddTimer(l, t, e) \in Lists(S)
<1>1. CASE l.head = NULL
  BY <1>1 DEF AddTimer, Lists
<1>2. AddFirst(l, t) \in Lists(S)
  BY DEF AddFirst, Lists
<1>3. InsertAfter(l, t, l.head, e) \in Lists(S)
  <2>1. CASE Steps(l, t, l.head, e) = {}
    BY <2>1 DEF InsertAfter
  <2>2. CASE Steps(l, t, l.head, e) # {}
    <3> DEFINE k == Min(Steps(l, t, l.head, e))
               c == Chain(l, l.head)[k]
    <3>1. k \in Steps(l, t, l.head, e)
      BY <2>2, LeastIs, TimersFinite DEF Steps
    <3>2. k \in 0 .. Cardinality(Timers)
      BY <3>1, TimersFinite DEF Steps
    <3>3. l.head \in S \cup {NULL}
      BY DEF Lists
    <3>4. c \in S \cup {NULL}
      BY <3>2, <3>3, ChainInside
    <3> HIDE DEF k, c
    <3>5. InsertAfter(l, t, l.head, e)
            = [l EXCEPT !.next = [[l.next EXCEPT ![Chain(l, l.head)[k - 1]] = t] EXCEPT ![t] = c],
                        !.prev = [l.prev EXCEPT ![t] = Chain(l, l.head)[k - 1]]]
      BY <2>2 DEF InsertAfter, k, c
    <3>6. Chain(l, l.head)[k - 1] \in S \cup {NULL}
      <4>1. k - 1 \in 0 .. Cardinality(Timers)
        BY <3>1, TimersFinite DEF Steps
      <4> QED
        BY <4>1, <3>3, ChainInside
    <3> DEFINE p == Chain(l, l.head)[k - 1]
    <3> HIDE DEF p
    <3> DEFINE next == [[l.next EXCEPT ![p] = t] EXCEPT ![t] = c]
               prev == [l.prev EXCEPT ![t] = p]
    <3>7. next \in [Timers -> S \cup {NULL}] /\ prev \in [Timers -> S \cup {NULL}]
      BY <3>4, <3>6 DEF Lists, p
    <3>8. InsertAfter(l, t, l.head, e) = [l EXCEPT !.next = next, !.prev = prev]
      BY <3>5 DEF p
    <3> HIDE DEF next, prev
    <3> QED
      BY <3>7, <3>8 DEF Lists
  <2> QED
    BY <2>1, <2>2
<1> QED
  BY <1>1, <1>2, <1>3 DEF AddTimer

LEMMA DelInside ==
  ASSUME NEW S \in SUBSET Timers, NEW l \in Lists(S), NEW t \in Timers
  PROVE  DelTimer(l, t) \in Lists(S)
<1>1. l.next[t] \in S \cup {NULL} /\ l.prev[t] \in S \cup {NULL}
  BY DEF Lists
<1> QED
  BY <1>1 DEF DelTimer, Lists

LEMMA PopInside ==
  ASSUME NEW S \in SUBSET Timers, NEW l \in Lists(S), l.head # NULL
  PROVE  PopHead(l) \in Lists(S)
<1>1. l.next[l.head] \in S \cup {NULL}
  BY DEF Lists
<1> QED
  BY <1>1 DEF PopHead, Lists

LEMMA ListsGrow == ASSUME NEW S, NEW T, S \subseteq T PROVE Lists(S) \subseteq Lists(T)
  BY DEF Lists

\* What the next SIGALRM is waiting for
AlarmChain ==
  \/ alarm_at # Never /\ "ALRM" \notin sigs /\ ~timeout
  \/ alarm_at = Never /\ "ALRM" \in sigs /\ ~timeout /\ "pipe" \in edges \cup batch
  \/ alarm_at = Never /\ "ALRM" \notin sigs /\ timeout

\* epoll_wait is called with no event left over, and tick with timeout set;
\* connections, whose edges and events are dropped, are never the pipe.
LoopInv ==
  /\ backlog \subseteq Conns
  /\ now \in Nat
  /\ conn \in [Fds -> Conns \cup {NULL}]
  /\ pc = "wait" => batch = {}
  /\ pc = "tick" => batch = {} /\ timeout
  /\ timeout \in BOOLEAN
AlarmInv == LoopInv /\ (~ub /\ ~stop_server => AlarmChain)

\* The first alarm() is set before the loop.
LEMMA AlarmInit == Init => AlarmInv
<1>1. Slot # Never
  BY TimerServerAssumption DEF TimerServerAssumption, Never
<1>2. Init => LoopInv
  <2>1. Init => backlog \subseteq Conns /\ now \in Nat /\ conn \in [Fds -> Conns \cup {NULL}]
    BY DEF Init
  <2>2. Init => batch = {} /\ pc = "wait" /\ timeout = FALSE
    BY DEF Init
  <2> QED
    BY <2>1, <2>2 DEF LoopInv
<1>3. Init => AlarmChain
  BY <1>1 DEF Init, AlarmChain
<1> QED
  BY <1>2, <1>3 DEF AlarmInv

\* No step of the clock, of a client, of the loop or of tick breaks the chain.
LEMMA AlarmNext == AlarmInv /\ [Next]_vars => AlarmInv'
<1> SUFFICES ASSUME AlarmInv, [Next]_vars PROVE AlarmInv'
  OBVIOUS
<1> USE TimerServerAssumption DEF TimerServerAssumption, AlarmInv, LoopInv, AlarmChain, Never, ub
<1>1. CASE Elapse
  BY <1>1 DEF Elapse, netVars, fdVars, timerVars, loopVars
<1>2. ASSUME NEW s \in {"ALRM", "TERM"}, Signal(s) PROVE AlarmInv'
  BY <1>2 DEF Signal, netVars, fdVars, timerVars, loopVars
<1>3. ASSUME NEW c \in Conns, Connect(c) PROVE AlarmInv'
  BY <1>3 DEF Connect, fdVars, timerVars, loopVars
<1>4. ASSUME NEW c \in Conns, Send(c) PROVE AlarmInv'
  BY <1>4 DEF Send, fdVars, timerVars, loopVars
<1>5. ASSUME NEW c \in Conns, Leave(c) PROVE AlarmInv'
  BY <1>5 DEF Leave, fdVars, timerVars, loopVars
<1>6. CASE EpollWait
  BY <1>6 DEF EpollWait, netVars, fdVars, timerVars
<1>7. CASE Accept
  <2>1. pc = "events" /\ batch' = batch \ {"listen"} /\ pc' \in {"events", "undefined"}
    BY <1>7 DEF Accept, Dispatch, Touch
  <2>2. UNCHANGED <<now, alarm_at, edges, sigs, timeout, stop_server>>
    BY <1>7 DEF Accept
  <2>3. backlog' \subseteq Conns /\ conn' \in [Fds -> Conns \cup {NULL}]
    BY <1>7 DEF Accept, FreeFds
  <2> QED
    BY <2>1, <2>2, <2>3
<1>8. CASE Signals
  BY <1>8 DEF Signals, Dispatch, netVars, fdVars, timerVars
<1>9. CASE BatchDone
  BY <1>9 DEF BatchDone, netVars, fdVars, timerVars
<1>10. CASE Tick
  <2>1. pc = "tick" /\ pc' \in {"tick", "undefined"}
    BY <1>10 DEF Tick, Touch
  <2>2. UNCHANGED <<now, alarm_at, backlog, sigs, batch, timeout, stop_server>>
    BY <1>10 DEF Tick
  <2>3. conn' \in [Fds -> Conns \cup {NULL}]
    BY <1>10 DEF Tick, Close
  <2> QED
    BY <2>1, <2>2, <2>3
<1>11. CASE TickDone
  <2>1. pc = "tick" /\ pc' \in {"wait", "done", "undefined"}
    BY <1>11 DEF TickDone, Touch
  <2>2. timeout' = FALSE /\ alarm_at' = now + Slot
    BY <1>11 DEF TickDone
  <2>3. alarm_at' # Never
    BY <2>2
  <2>4. UNCHANGED <<now, backlog, conn, batch, sigs, stop_server>>
    BY <1>11 DEF TickDone, netVars, fdVars
  <2>5. LoopInv'
    BY <2>1, <2>2, <2>4
  <2> QED
    BY <2>1, <2>2, <2>3, <2>4, <2>5
<1>12. ASSUME NEW fd \in Fds, NoData(fd) PROVE AlarmInv'
  BY <1>12 DEF NoData, Dispatch, netVars, fdVars, timerVars
<1>13. ASSUME NEW fd \in Fds, Eof(fd) PROVE AlarmInv'
  <2>1. conn[fd] \in Conns /\ conn[fd] # "pipe"
    BY <1>13 DEF Eof
  <2>2. pc = "events" /\ batch' = batch \ {conn[fd]} /\ pc' \in {"events", "undefined"}
    BY <1>13 DEF Eof, Dispatch, Touch
  <2>3. UNCHANGED <<now, alarm_at, backlog, sigs, timeout, stop_server>>
    BY <1>13 DEF Eof
  <2>4. edges' = edges \ {conn[fd]} /\ conn' \in [Fds -> Conns \cup {NULL}]
    BY <1>13 DEF Eof, Close
  <2> QED
    BY <2>1, <2>2, <2>3, <2>4
<1>14. ASSUME NEW fd \in Fds, NEW n \in 1 .. MaxSends, Data(fd, n) PROVE AlarmInv'
  <2>1. conn[fd] \in Conns /\ conn[fd] # "pipe"
    BY <1>14 DEF Data
  <2>2. pc = "events" /\ batch' = batch \ {conn[fd]} /\ pc' \in {"events", "undefined"}
    BY <1>14 DEF Data, Dispatch, Touch
  <2>3. UNCHANGED <<now, alarm_at, backlog, edges, sigs, conn, timeout, stop_server>>
    BY <1>14 DEF Data, fdVars
  <2> QED
    BY <2>1, <2>2, <2>3
<1>15. CASE UNCHANGED vars
  BY <1>15 DEF vars, netVars, fdVars, timerVars, loopVars
<1> QED
  BY <1>1, <1>2, <1>3, <1>4, <1>5, <1>6, <1>7, <1>8, <1>9, <1>10, <1>11, <1>12, <1>13, <1>14,
     <1>15 DEF Next

\* The tick never dies out (alarm, sig_handler, the signal pipe and
\* timer_handler): until SIGTERM or undefined behaviour there is always
\* exactly one SIGALRM to come, in the pipe or noted.
THEOREM TickAlive == Spec => []TickNeverStops
<1>1. AlarmInv => TickNeverStops
  BY DEF AlarmInv, AlarmChain, TickNeverStops
<1> QED
  BY <1>1, AlarmInit, AlarmNext, PTL DEF Spec

(* ------------------------- the timers and their owners ----------------------- *)

Accepted == {c \in Conns : status[c] \in {"open", "closed"}}

\* Descriptor, connection and timer of an open connection know each other, and
\* only those who were accepted have any.
Descriptors ==
  /\ \A c \in backlog : status[c] = "backlog"
  /\ \A fd \in OpenFds : /\ status[conn[fd]] = "open" /\ fd_of[conn[fd]] = fd
                         /\ user_timer[fd] = conn[fd]
  /\ \A c \in Accepted : fd_of[c] \in Fds /\ (status[c] = "open" => conn[fd_of[c]] = c)
  /\ deleted \subseteq Accepted
\* A timer lives as long as its connection, and expires a lifetime after the
\* last that was heard of it.
Lives ==
  ~ub => \A c \in Conns :
           /\ status[c] = "open" => c \notin deleted /\ expire[c] = heard[c] + Lifetime
           /\ status[c] = "closed" => c \in deleted
\* del_timer and tick may leave a deleted timer at the head, as a node can be its
\* own next: its descriptor is not used again, since add_timer would meet it.
HeadGone == ~ub /\ timer_lst.head \in deleted => conn[fd_of[timer_lst.head]] = NULL
Clock ==
  /\ cur \in Nat /\ (pc = "tick" => cur <= now)
  /\ heard \in [Conns -> Int]
  /\ \A c \in Conns : wire[c] <= sent[c] /\ expire[c] <= now + Lifetime
OwnerInv == TypeOK /\ timer_lst \in Lists(Accepted) /\ Descriptors /\ Lives /\ HeadGone /\ Clock

LEMMA TimerConstants ==
  /\ Slot \in Nat \ {0} /\ Lifetime \in Nat /\ MaxTime \in Nat /\ MaxSends \in Nat
  /\ NULL \notin Fds /\ NULL \notin Conns /\ "listen" \notin Conns /\ "pipe" \notin Conns
  /\ NULL # "pipe" /\ Conns = Timers
  BY TimersAssumption, TimerServerAssumption DEF TimersAssumption, TimerServerAssumption, Lifetime, Conns

LEMMA OwnerInit == Init => OwnerInv
<1> SUFFICES ASSUME Init PROVE OwnerInv
  OBVIOUS
<1> USE TimerConstants
<1>1. TypeOK
  <2>1. timer_lst = EmptyList /\ timer_lst.head = NULL /\ timer_lst.tail = NULL
    BY DEF Init, EmptyList
  <2>2. 0 \in 0 .. MaxTime /\ 0 \in 0 .. MaxSends /\ alarm_at \in Nat
    BY DEF Init
  <2>3. now \in 0 .. MaxTime /\ sent \in [Conns -> 0 .. MaxSends] /\ wire \in [Conns -> 0 .. MaxSends]
    BY <2>2 DEF Init
  <2> QED
    BY <2>1, <2>2, <2>3 DEF Init, TypeOK
<1>2. timer_lst \in Lists(Accepted)
  BY DEF Init, EmptyList, Lists
<1>3. Descriptors /\ Lives /\ HeadGone
  BY DEF Init, Descriptors, Lives, HeadGone, Accepted, OpenFds
<1>4. Clock
  BY DEF Init, Clock, Never
<1> QED
  BY <1>1, <1>2, <1>3, <1>4 DEF OwnerInv

\* A step that neither moves a pointer nor opens or closes anything
LEMMA OwnerKept ==
  ASSUME OwnerInv, TypeOK', Clock', ub => ub',
         UNCHANGED <<fdVars, timerVars, heard>>,
         \A c \in Conns : status'[c] # status[c] => status[c] = "new" /\ status'[c] = "backlog",
         \A c \in backlog' : status'[c] = "backlog"
  PROVE  OwnerInv'
<1>1. Accepted' = Accepted
  BY DEF Accepted, OwnerInv, TypeOK
<1>2. OpenFds' = OpenFds
  BY DEF OpenFds, fdVars
<1>3. \A c \in Accepted : status'[c] = status[c]
  BY DEF Accepted
<1>4. (timer_lst \in Lists(Accepted))'
  BY <1>1 DEF OwnerInv, timerVars
<1>5. Descriptors'
  <2>1. \A fd \in OpenFds' : /\ (status')[conn'[fd]] = "open" /\ fd_of'[conn'[fd]] = fd
                             /\ user_timer'[fd] = conn'[fd]
    BY <1>2 DEF OwnerInv, Descriptors, OpenFds, fdVars, TypeOK
  <2>2. \A c \in Accepted' : fd_of'[c] \in Fds /\ (status'[c] = "open" => conn'[fd_of'[c]] = c)
    BY <1>1, <1>3 DEF OwnerInv, Descriptors, fdVars
  <2>3. deleted' \subseteq Accepted'
    BY <1>1 DEF OwnerInv, Descriptors, timerVars
  <2> QED
    BY <2>1, <2>2, <2>3 DEF Descriptors
<1>6. Lives'
  <2> SUFFICES ASSUME ~ub', NEW c \in Conns
               PROVE  /\ status'[c] = "open" => c \notin deleted' /\ expire'[c] = heard'[c] + Lifetime
                      /\ status'[c] = "closed" => c \in deleted'
    BY DEF Lives
  <2>1. ~ub
    OBVIOUS
  <2>2. status'[c] \in {"open", "closed"} => status'[c] = status[c]
    OBVIOUS
  <2> QED
    BY <2>1, <2>2 DEF OwnerInv, Lives, timerVars
<1>7. HeadGone'
  BY DEF OwnerInv, HeadGone, timerVars, fdVars
<1> QED
  BY <1>4, <1>5, <1>6, <1>7 DEF OwnerInv

\* The clock, the signals, the clients, the waiting and the reading of signals
LEMMA OwnerQuiet ==
  ASSUME OwnerInv,
         \/ Elapse \/ (\E s \in {"ALRM", "TERM"} : Signal(s))
         \/ (\E c \in Conns : Connect(c) \/ Send(c) \/ Leave(c))
         \/ EpollWait \/ Signals \/ BatchDone \/ TickDone
         \/ (\E fd \in Fds : NoData(fd))
         \/ UNCHANGED vars
  PROVE  OwnerInv'
<1> USE TimerConstants DEF ub
<1>0. TypeOK /\ Clock /\ Descriptors
  BY DEF OwnerInv
<1>1. CASE Elapse
  <2>1. TypeOK' /\ Clock'
    BY <1>0, <1>1 DEF Elapse, TypeOK, Clock, netVars, fdVars, timerVars, loopVars
  <2> QED
    BY <1>0, <1>1, <2>1, OwnerKept DEF Elapse, Descriptors, netVars, loopVars
<1>2. ASSUME NEW s \in {"ALRM", "TERM"}, Signal(s) PROVE OwnerInv'
  <2>1. TypeOK' /\ Clock'
    BY <1>0, <1>2 DEF Signal, TypeOK, Clock, netVars, fdVars, timerVars, loopVars
  <2> QED
    BY <1>0, <1>2, <2>1, OwnerKept DEF Signal, Descriptors, netVars, loopVars
<1>3. ASSUME NEW c \in Conns, Connect(c) PROVE OwnerInv'
  <2>1. TypeOK' /\ Clock'
    BY <1>0, <1>3 DEF Connect, TypeOK, Clock, fdVars, timerVars, loopVars
  <2>2. \A d \in backlog' : status'[d] = "backlog"
    BY <1>0, <1>3 DEF Connect, Descriptors, TypeOK
  <2>3. \A d \in Conns : status'[d] # status[d] => status[d] = "new" /\ status'[d] = "backlog"
    BY <1>0, <1>3 DEF Connect, TypeOK
  <2> QED
    BY <1>3, <2>1, <2>2, <2>3, OwnerKept DEF Connect, loopVars
<1>4. ASSUME NEW c \in Conns, Send(c) PROVE OwnerInv'
  <2>1. TypeOK' /\ Clock'
    BY <1>0, <1>4 DEF Send, TypeOK, Clock, fdVars, timerVars, loopVars
  <2> QED
    BY <1>0, <1>4, <2>1, OwnerKept DEF Send, Descriptors, loopVars
<1>5. ASSUME NEW c \in Conns, Leave(c) PROVE OwnerInv'
  <2>1. TypeOK' /\ Clock'
    BY <1>0, <1>5 DEF Leave, TypeOK, Clock, fdVars, timerVars, loopVars
  <2> QED
    BY <1>0, <1>5, <2>1, OwnerKept DEF Leave, Descriptors, loopVars
<1>6. CASE EpollWait
  <2>1. TypeOK' /\ Clock'
    BY <1>0, <1>6 DEF EpollWait, TypeOK, Clock, netVars, fdVars, timerVars
  <2> QED
    BY <1>0, <1>6, <2>1, OwnerKept DEF EpollWait, Descriptors, netVars
<1>7. CASE Signals
  <2>1. TypeOK' /\ Clock'
    BY <1>0, <1>7 DEF Signals, Dispatch, TypeOK, Clock, netVars, fdVars, timerVars
  <2> QED
    BY <1>0, <1>7, <2>1, OwnerKept DEF Signals, Descriptors, netVars
<1>8. CASE BatchDone
  <2>1. TypeOK' /\ Clock'
    BY <1>0, <1>8 DEF BatchDone, TypeOK, Clock, netVars, fdVars, timerVars
  <2> QED
    BY <1>0, <1>8, <2>1, OwnerKept DEF BatchDone, Descriptors, netVars
<1>9. CASE TickDone
  <2>1. TypeOK' /\ Clock'
    <3>1. /\ pc' \in {"wait", "done", "undefined"} /\ timeout' = FALSE /\ cur' = 0
          /\ alarm_at' = now + Slot
      BY <1>9 DEF TickDone, Touch
    <3>2. UNCHANGED <<now, netVars, edges, sigs, fdVars, timerVars, batch, stop_server, heard>>
      BY <1>9 DEF TickDone
    <3>3. alarm_at' \in Nat
      BY <1>0, <3>1 DEF TypeOK
    <3>4. TypeOK'
      BY <1>0, <3>1, <3>2, <3>3 DEF TypeOK, netVars, fdVars, timerVars
    <3> QED
      BY <1>0, <3>1, <3>2, <3>4 DEF TypeOK, Clock, netVars, fdVars, timerVars
  <2> QED
    BY <1>0, <1>9, <2>1, OwnerKept DEF TickDone, Descriptors, netVars
<1>10. ASSUME NEW fd \in Fds, NoData(fd) PROVE OwnerInv'
  <2>1. TypeOK' /\ Clock'
    BY <1>0, <1>10 DEF NoData, Dispatch, TypeOK, Clock, netVars, fdVars, timerVars
  <2> QED
    BY <1>0, <1>10, <2>1, OwnerKept DEF NoData, Descriptors, netVars
<1>11. CASE UNCHANGED vars
  <2>1. TypeOK' /\ Clock'
    BY <1>0, <1>11 DEF vars, TypeOK, Clock, netVars, fdVars, timerVars, loopVars
  <2> QED
    BY <1>0, <1>11, <2>1, OwnerKept DEF vars, Descriptors, netVars, loopVars
<1> QED
  BY <1>1, <1>2, <1>3, <1>4, <1>5, <1>6, <1>7, <1>8, <1>9, <1>10, <1>11

\* add_timer dereferences the head it leaves.
LEMMA AddMeetsHead ==
  ASSUME NEW S \in SUBSET Timers, NEW l \in Lists(S), NEW t \in Timers, NEW e,
         NULL \notin AddTouches(l, t, e)
  PROVE  AddTimer(l, t, e).head \in AddTouches(l, t, e)
<1>1. CASE l.head = NULL \/ e[t] < e[l.head]
  <2>1. AddTimer(l, t, e).head = t
    BY <1>1 DEF AddTimer, AddFirst, Lists
  <2> QED
    BY <2>1 DEF AddTouches
<1>2. CASE ~ (l.head = NULL \/ e[t] < e[l.head])
  <2>1. AddTouches(l, t, e) = {t} \cup Walked(l, t, l.head, e)
    BY <1>2 DEF AddTouches
  <2>2. Steps(l, t, l.head, e) # {}
    BY <2>1 DEF Walked
  <2>3. Min(Steps(l, t, l.head, e)) \in Nat \ {0}
    BY <2>2, LeastIs, TimersFinite DEF Steps
  <2>4. Chain(l, l.head)[0] = l.head
    BY ChainStep, TimersFinite
  <2>5. l.head \in Walked(l, t, l.head, e)
    BY <2>2, <2>3, <2>4 DEF Walked
  <2>6. InsertAfter(l, t, l.head, e).head = l.head
    BY DEF InsertAfter, Lists
  <2> QED
    BY <1>2, <2>1, <2>5, <2>6 DEF AddTimer
<1> QED
  BY <1>1, <1>2

LEMMA OwnerAccept == OwnerInv /\ Accept => OwnerInv'
<1> SUFFICES ASSUME OwnerInv, Accept PROVE OwnerInv'
  OBVIOUS
<1> USE TimerConstants DEF ub
<1>0. TypeOK /\ Clock /\ Descriptors /\ Lives /\ pc = "events" /\ batch' \subseteq batch
      /\ UNCHANGED <<now, alarm_at, sent, wire, fin, edges, sigs, deleted, timeout, stop_server, cur>>
  BY DEF OwnerInv, Accept, Dispatch
<1>1. CASE FreeFds = {} \/ backlog = {}
  <2>1. /\ pc' = "undefined"
        /\ UNCHANGED <<status, backlog, conn, user_timer, fd_of, timer_lst, expire, heard>>
    BY <1>1 DEF Accept
  <2>2. TypeOK' /\ Clock'
    BY <1>0, <2>1 DEF TypeOK, Clock
  <2> QED
    BY <1>0, <2>1, <2>2, OwnerKept DEF Descriptors, fdVars, timerVars
<1>2. CASE ~ (FreeFds = {} \/ backlog = {})
  <2>1. PICK c \in backlog, fd \in FreeFds :
          /\ backlog' = backlog \ {c}
          /\ status' = [status EXCEPT ![c] = "open"]
          /\ conn' = [conn EXCEPT ![fd] = c]
          /\ user_timer' = [user_timer EXCEPT ![fd] = c]
          /\ fd_of' = [fd_of EXCEPT ![c] = fd]
          /\ expire' = [expire EXCEPT ![c] = now + Lifetime]
          /\ heard' = [heard EXCEPT ![c] = now]
          /\ timer_lst' = AddTimer(timer_lst, c, expire')
          /\ Touch(AddTouches(timer_lst, c, expire'), pc)
    BY <1>2 DEF Accept
  <2>2. c \in Conns /\ status[c] = "backlog" /\ fd \in Fds /\ conn[fd] = NULL /\ c \notin deleted
    BY <1>0 DEF TypeOK, Descriptors, FreeFds, Accepted
  <2>3. Accepted' = Accepted \cup {c} /\ Accepted' \subseteq Timers
    BY <1>0, <2>1, <2>2 DEF Accepted, TypeOK
  <2>4. timer_lst \in Lists(Accepted') /\ timer_lst' \in Lists(Accepted')
    BY <2>1, <2>3, AddInside, ListsGrow DEF OwnerInv
  <2>5. timer_lst'.head \in Timers \cup {NULL} /\ timer_lst'.tail \in Timers \cup {NULL}
    BY <2>3, <2>4 DEF Lists
  <2>6. now + Lifetime \in Nat /\ now \in Nat
    BY <1>0 DEF TypeOK
  <2>7. pc' \in {"events", "undefined"}
    BY <1>0, <2>1 DEF Touch
  <2>8. TypeOK'
    BY <1>0, <2>1, <2>2, <2>5, <2>6, <2>7 DEF TypeOK
  <2>9. Descriptors'
    <3>1. \A d \in backlog' : status'[d] = "backlog"
      BY <1>0, <2>1, <2>2 DEF Descriptors, TypeOK
    <3>2. \A g \in OpenFds' : /\ (status')[conn'[g]] = "open" /\ fd_of'[conn'[g]] = g
                              /\ user_timer'[g] = conn'[g]
      <4> TAKE g \in OpenFds'
      <4>1. g \in Fds /\ conn'[g] # NULL
        BY DEF OpenFds
      <4>2. CASE g = fd
        BY <1>0, <2>1, <2>2, <4>2 DEF TypeOK
      <4>3. CASE g # fd
        <5>1. g \in OpenFds /\ conn'[g] = conn[g] /\ conn[g] \in Conns
          BY <1>0, <2>1, <4>1, <4>3 DEF OpenFds, TypeOK
        <5>2. conn[g] # c
          BY <1>0, <2>2, <5>1 DEF Descriptors
        <5> QED
          BY <1>0, <2>1, <2>2, <4>3, <5>1, <5>2 DEF Descriptors, TypeOK
      <4> QED
        BY <4>2, <4>3
    <3>3. \A d \in Accepted' : fd_of'[d] \in Fds /\ (status'[d] = "open" => conn'[fd_of'[d]] = d)
      <4> TAKE d \in Accepted'
      <4>1. CASE d = c
        BY <1>0, <2>1, <2>2, <4>1 DEF TypeOK
      <4>2. CASE d # c
        <5>1. d \in Accepted /\ d \in Conns /\ fd_of'[d] = fd_of[d] /\ status'[d] = status[d]
          BY <1>0, <2>1, <2>3, <4>2 DEF Accepted, TypeOK
        <5> QED
          BY <1>0, <2>1, <2>2, <5>1 DEF Descriptors, TypeOK
      <4> QED
        BY <4>1, <4>2
    <3> QED
      BY <1>0, <2>3, <3>1, <3>2, <3>3 DEF Descriptors
  <2>10. Lives'
    BY <1>0, <2>1, <2>2, <2>6 DEF Lives, TypeOK, Clock
  <2>11. HeadGone'
    <3>1. timer_lst'.head \in AddTouches(timer_lst, c, expire') \/ pc' = "undefined"
      BY <2>1, <2>2, <2>3, <2>4, AddMeetsHead DEF Touch
    <3> QED
      BY <1>0, <2>1, <3>1 DEF HeadGone, Touch
  <2>12. Clock'
    BY <1>0, <2>1, <2>2, <2>6, <2>7 DEF Clock, TypeOK
  <2> QED
    BY <2>4, <2>8, <2>9, <2>10, <2>11, <2>12 DEF OwnerInv
<1> QED
  BY <1>1, <1>2

LEMMA OwnerData ==
  ASSUME OwnerInv, NEW fd \in Fds, NEW n \in 1 .. MaxSends, Data(fd, n) PROVE OwnerInv'
<1> USE TimerConstants DEF ub
<1> DEFINE c == conn[fd]
<1>0. TypeOK /\ Clock /\ Descriptors /\ Lives /\ pc = "events" /\ batch' \subseteq batch
      /\ UNCHANGED <<now, alarm_at, status, sent, fin, backlog, edges, sigs, deleted, timeout,
                     stop_server, cur, conn, user_timer, fd_of>>
  BY DEF OwnerInv, Data, Dispatch, fdVars
<1>1. c \in Conns /\ c # NULL /\ user_timer[fd] = c /\ status[c] = "open" /\ fd \in OpenFds
      /\ n <= wire[c] /\ c \in Accepted
  BY <1>0 DEF Data, Descriptors, TypeOK, OpenFds, Accepted
<1> HIDE DEF c
<1>2. /\ wire' = [wire EXCEPT ![c] = @ - n]
      /\ heard' = [heard EXCEPT ![c] = now]
      /\ expire' = [expire EXCEPT ![c] = now + Lifetime]
      /\ timer_lst' = AddTimer(timer_lst, c, expire')
      /\ Touch(AddTouches(timer_lst, c, expire'), pc)
  BY <1>1 DEF Data, c
<1>3. Accepted' = Accepted /\ Accepted \subseteq Timers /\ OpenFds' = OpenFds
  BY <1>0 DEF Accepted, OpenFds
<1>4. timer_lst \in Lists(Accepted) /\ timer_lst' \in Lists(Accepted)
  BY <1>1, <1>2, <1>3, AddInside DEF OwnerInv
<1>5. timer_lst'.head \in Timers \cup {NULL} /\ timer_lst'.tail \in Timers \cup {NULL}
  BY <1>3, <1>4 DEF Lists
<1>6. now + Lifetime \in Nat /\ now \in Nat /\ wire[c] - n \in 0 .. MaxSends
      /\ wire[c] - n <= sent[c]
  BY <1>0, <1>1 DEF TypeOK, Clock
<1>7. pc' \in {"events", "undefined"}
  BY <1>0, <1>2 DEF Touch
<1>8. TypeOK'
  BY <1>0, <1>1, <1>2, <1>5, <1>6, <1>7 DEF TypeOK
<1>9. Descriptors'
  BY <1>0, <1>3 DEF Descriptors
<1>10. Lives'
  BY <1>0, <1>1, <1>2, <1>6 DEF Lives, TypeOK, Clock
<1>11. HeadGone'
  <2>1. timer_lst'.head \in AddTouches(timer_lst, c, expire') \/ pc' = "undefined"
    BY <1>1, <1>2, <1>3, <1>4, AddMeetsHead DEF Touch
  <2> QED
    BY <1>0, <1>2, <2>1 DEF HeadGone, Touch
<1>12. Clock'
  BY <1>0, <1>1, <1>2, <1>6, <1>7 DEF Clock, TypeOK
<1> QED
  BY <1>3, <1>4, <1>8, <1>9, <1>10, <1>11, <1>12 DEF OwnerInv

\* What close() does, to whoever has the descriptor
LEMMA CloseIs ==
  ASSUME TypeOK, Descriptors, NEW fd \in Fds, Close(fd), UNCHANGED <<user_timer, fd_of, sent, backlog>>,
         deleted' \subseteq Accepted
  PROVE  /\ conn' \in [Fds -> Conns \cup {NULL}] /\ conn'[fd] = NULL
         /\ status' \in [Conns -> {"new", "backlog", "open", "closed"}]
         /\ wire' \in [Conns -> 0 .. MaxSends] /\ edges' \subseteq edges
         /\ \A c \in Conns : wire'[c] <= wire[c]
         /\ \A c \in Conns : status'[c] = IF c = conn[fd] THEN "closed" ELSE status[c]
         /\ \A g \in Fds : conn[g] = NULL => conn'[g] = NULL
         /\ Accepted' = Accepted /\ Descriptors'
<1> USE TimerConstants
<1>1. conn' = [conn EXCEPT ![fd] = NULL]
      /\ status' = [c \in Conns |-> IF conn[fd] = c THEN "closed" ELSE status[c]]
      /\ wire' = [c \in Conns |-> IF conn[fd] = c THEN 0 ELSE wire[c]]
      /\ edges' = edges \ {conn[fd]}
  BY DEF Close
<1>2. conn' \in [Fds -> Conns \cup {NULL}] /\ conn'[fd] = NULL
      /\ status' \in [Conns -> {"new", "backlog", "open", "closed"}]
      /\ wire' \in [Conns -> 0 .. MaxSends] /\ edges' \subseteq edges
  BY <1>1 DEF TypeOK
<1>3. /\ \A c \in Conns : wire'[c] <= wire[c]
      /\ \A c \in Conns : status'[c] = IF c = conn[fd] THEN "closed" ELSE status[c]
      /\ \A g \in Fds : conn[g] = NULL => conn'[g] = NULL
  BY <1>1 DEF TypeOK
<1>4. conn[fd] # NULL => conn[fd] \in Conns /\ status[conn[fd]] = "open" /\ fd_of[conn[fd]] = fd
  BY DEF Descriptors, OpenFds, TypeOK
<1>5. Accepted' = Accepted
  BY <1>3, <1>4 DEF Accepted
<1>6. Descriptors'
  <2>1. \A c \in backlog' : status'[c] = "backlog"
    BY <1>3, <1>4 DEF Descriptors, TypeOK
  <2>2. \A g \in OpenFds' : /\ (status')[conn'[g]] = "open" /\ fd_of'[conn'[g]] = g
                            /\ user_timer'[g] = conn'[g]
    <3> TAKE g \in OpenFds'
    <3>1. g \in OpenFds /\ g # fd /\ conn'[g] = conn[g] /\ conn[g] \in Conns
      BY <1>1 DEF OpenFds, TypeOK
    <3>2. conn[g] # conn[fd]
      BY <1>4, <3>1 DEF Descriptors
    <3> QED
      BY <1>3, <3>1, <3>2 DEF Descriptors
  <2>3. \A c \in Accepted' : fd_of'[c] \in Fds /\ (status'[c] = "open" => conn'[fd_of'[c]] = c)
    <3> TAKE c \in Accepted'
    <3>1. c \in Accepted /\ c \in Conns /\ fd_of[c] \in Fds
      BY <1>5 DEF Accepted, Descriptors
    <3>2. ASSUME status'[c] = "open" PROVE conn'[fd_of[c]] = c
      <4>1. status[c] = "open" /\ c # conn[fd]
        BY <1>3, <3>1, <3>2
      <4>2. conn[fd_of[c]] = c /\ fd_of[c] # fd
        BY <3>1, <4>1 DEF Descriptors
      <4> QED
        BY <1>1, <3>1, <4>2
    <3> QED
      BY <3>1, <3>2
  <2> QED
    BY <1>5, <2>1, <2>2, <2>3 DEF Descriptors
<1> QED
  BY <1>2, <1>3, <1>5, <1>6

LEMMA OwnerEof == ASSUME OwnerInv, NEW fd \in Fds, Eof(fd) PROVE OwnerInv'
<1> USE TimerConstants DEF ub
<1> DEFINE c == conn[fd]
<1>0. TypeOK /\ Clock /\ Descriptors /\ Lives /\ HeadGone /\ pc = "events" /\ batch' \subseteq batch
      /\ UNCHANGED <<now, alarm_at, sent, fin, backlog, sigs, user_timer, fd_of, expire, timeout,
                     stop_server, heard, cur>>
  BY DEF OwnerInv, Eof, Dispatch
<1>1. c \in Conns /\ c # NULL /\ user_timer[fd] = c /\ status[c] = "open" /\ fd_of[c] = fd
      /\ c \in Accepted
  BY <1>0 DEF Eof, Descriptors, TypeOK, OpenFds, Accepted
<1> HIDE DEF c
<1>2. /\ timer_lst' = DelTimer(timer_lst, c) /\ deleted' = deleted \cup {c}
      /\ Touch(DelTouches(timer_lst, c), pc)
  BY <1>1 DEF Eof, c
<1>3. deleted' \subseteq Accepted
  BY <1>0, <1>1, <1>2 DEF Descriptors
<1>4. /\ conn' \in [Fds -> Conns \cup {NULL}] /\ conn'[fd] = NULL
      /\ status' \in [Conns -> {"new", "backlog", "open", "closed"}]
      /\ wire' \in [Conns -> 0 .. MaxSends] /\ edges' \subseteq edges
      /\ \A d \in Conns : wire'[d] <= wire[d]
      /\ \A d \in Conns : status'[d] = IF d = c THEN "closed" ELSE status[d]
      /\ \A g \in Fds : conn[g] = NULL => conn'[g] = NULL
      /\ Accepted' = Accepted /\ Descriptors'
  <2>1. Close(fd) /\ UNCHANGED <<user_timer, fd_of, sent, backlog>>
    BY DEF Eof
  <2> QED
    BY <1>0, <1>3, <2>1, CloseIs DEF c
<1>5. timer_lst' \in Lists(Accepted)
  BY <1>1, <1>2, DelInside DEF OwnerInv, Accepted
<1>6. timer_lst'.head \in Timers \cup {NULL} /\ timer_lst'.tail \in Timers \cup {NULL}
  BY <1>5 DEF Lists, Accepted
<1>7. pc' \in {"events", "undefined"}
  BY <1>0, <1>2 DEF Touch
<1>8. TypeOK'
  BY <1>0, <1>1, <1>2, <1>4, <1>6, <1>7 DEF TypeOK
<1>9. Lives'
  BY <1>0, <1>1, <1>2, <1>4 DEF Lives
<1>10. HeadGone'
  <2> SUFFICES ASSUME pc' # "undefined", timer_lst'.head \in deleted'
               PROVE  conn'[fd_of[timer_lst'.head]] = NULL
    BY <1>0 DEF HeadGone
  <2>1. DelTouches(timer_lst, c) \cap deleted = {}
    BY <1>2 DEF Touch
  <2>2. timer_lst.head \in Accepted \cup {NULL}
    BY DEF OwnerInv, Lists
  <2>3. CASE c = timer_lst.head /\ c = timer_lst.tail
    <3>1. timer_lst'.head = NULL
      BY <1>2, <2>3 DEF DelTimer, OwnerInv, Lists
    <3> QED
      BY <1>3, <3>1 DEF Accepted
  <2>4. CASE c = timer_lst.head /\ c # timer_lst.tail
    <3>1. timer_lst'.head = timer_lst.next[c] /\ timer_lst.next[c] \in DelTouches(timer_lst, c)
      BY <1>2, <2>4 DEF DelTimer, DelTouches, OwnerInv, Lists
    <3>2. timer_lst'.head = c
      BY <1>2, <2>1, <3>1
    <3> QED
      BY <1>1, <1>4, <3>2
  <2>5. CASE c # timer_lst.head
    <3>1. timer_lst'.head = timer_lst.head
      BY <1>2, <2>5 DEF DelTimer, OwnerInv, Lists
    <3>2. timer_lst.head \in deleted /\ timer_lst.head \in Accepted
      BY <1>2, <1>3, <2>5, <3>1
    <3>3. conn[fd_of[timer_lst.head]] = NULL /\ fd_of[timer_lst.head] \in Fds
      BY <1>0, <3>2 DEF HeadGone, Descriptors
    <3> QED
      BY <1>4, <3>1, <3>3
  <2> QED
    BY <2>3, <2>4, <2>5
<1>11. Clock'
  BY <1>0, <1>4, <1>7 DEF Clock, TypeOK
<1> QED
  BY <1>4, <1>5, <1>8, <1>9, <1>10, <1>11 DEF OwnerInv

\* An expired timer at the head that has not been deleted is that of an open
\* connection, and its descriptor that connection's.
LEMMA TickCloses ==
  ASSUME OwnerInv, Tick
  PROVE  /\ timer_lst.head \in Accepted /\ fd_of[timer_lst.head] \in Fds
         /\ timer_lst.head \notin deleted => conn[fd_of[timer_lst.head]] = timer_lst.head
         /\ timer_lst.head \in deleted => /\ conn[fd_of[timer_lst.head]] = NULL
                                          /\ pc' = "undefined"
<1>1. pc = "tick" /\ timer_lst.head # NULL
  BY DEF Tick
<1>2. timer_lst.head \in Accepted
  BY <1>1 DEF OwnerInv, Lists
<1>3. ASSUME timer_lst.head \notin deleted
      PROVE  conn[fd_of[timer_lst.head]] = timer_lst.head
  BY <1>1, <1>2, <1>3 DEF OwnerInv, Lives, Accepted, Descriptors, ub
<1>4. ASSUME timer_lst.head \in deleted
      PROVE  conn[fd_of[timer_lst.head]] = NULL /\ pc' = "undefined"
  <2>1. Touch(PopTouches(timer_lst), pc)
    BY DEF Tick
  <2> QED
    BY <1>1, <1>4, <2>1 DEF OwnerInv, HeadGone, ub, Touch, PopTouches
<1> QED
  BY <1>2, <1>3, <1>4 DEF OwnerInv, Descriptors

LEMMA OwnerTick == OwnerInv /\ Tick => OwnerInv'
<1> SUFFICES ASSUME OwnerInv, Tick PROVE OwnerInv'
  OBVIOUS
<1> USE TimerConstants DEF ub
<1> DEFINE h == timer_lst.head
           fd == fd_of[h]
<1>0. TypeOK /\ Clock /\ Descriptors /\ Lives /\ HeadGone /\ pc = "tick" /\ h # NULL
      /\ UNCHANGED <<now, alarm_at, sent, fin, backlog, sigs, user_timer, fd_of, expire, batch, cur,
                     timeout, stop_server, heard>>
  BY DEF OwnerInv, Tick
<1>1. /\ h \in Accepted /\ h \in Conns /\ fd \in Fds
      /\ h \notin deleted => conn[fd] = h
      /\ h \in deleted => conn[fd] = NULL /\ pc' = "undefined"
  BY TickCloses DEF Accepted
<1>2. /\ timer_lst' = PopHead(timer_lst) /\ deleted' = deleted \cup {h}
      /\ Touch(PopTouches(timer_lst), pc)
  BY DEF Tick
<1>3. deleted' \subseteq Accepted
  BY <1>0, <1>1, <1>2 DEF Descriptors
<1>4. /\ conn' \in [Fds -> Conns \cup {NULL}] /\ conn'[fd] = NULL
      /\ status' \in [Conns -> {"new", "backlog", "open", "closed"}]
      /\ wire' \in [Conns -> 0 .. MaxSends] /\ edges' \subseteq edges
      /\ \A d \in Conns : wire'[d] <= wire[d]
      /\ \A d \in Conns : status'[d] = IF d = conn[fd] THEN "closed" ELSE status[d]
      /\ \A g \in Fds : conn[g] = NULL => conn'[g] = NULL
      /\ Accepted' = Accepted /\ Descriptors'
  <2>1. Close(fd) /\ UNCHANGED <<user_timer, fd_of, sent, backlog>>
    BY DEF Tick
  <2> QED
    BY <1>0, <1>1, <1>3, <2>1, CloseIs
<1>5. timer_lst' \in Lists(Accepted)
  BY <1>0, <1>2, PopInside DEF OwnerInv, Accepted
<1>6. timer_lst'.head \in Timers \cup {NULL} /\ timer_lst'.tail \in Timers \cup {NULL}
  BY <1>5 DEF Lists, Accepted
<1>7. pc' \in {"tick", "undefined"}
  BY <1>0, <1>2 DEF Touch
<1> HIDE DEF h, fd
<1>8. TypeOK'
  BY <1>0, <1>1, <1>2, <1>4, <1>6, <1>7 DEF TypeOK
<1>9. Lives'
  BY <1>0, <1>1, <1>2, <1>4 DEF Lives
<1>10. HeadGone'
  <2> SUFFICES ASSUME pc' # "undefined", timer_lst'.head \in deleted'
               PROVE  conn'[fd_of[timer_lst'.head]] = NULL
    BY <1>0 DEF HeadGone
  <2>1. PopTouches(timer_lst) \cap deleted = {}
    BY <1>2 DEF Touch
  <2>2. timer_lst'.head = timer_lst.next[h]
    BY <1>2 DEF PopHead, OwnerInv, Lists, h
  <2>3. timer_lst'.head # NULL
    BY <1>3 DEF Accepted
  <2>4. timer_lst'.head \notin deleted
    BY <2>1, <2>2, <2>3 DEF PopTouches, h
  <2>5. timer_lst'.head = h
    BY <1>2, <2>4
  <2> QED
    BY <1>4, <2>5 DEF fd
<1>11. Clock'
  BY <1>0, <1>4, <1>7 DEF Clock, TypeOK
<1> QED
  BY <1>4, <1>5, <1>8, <1>9, <1>10, <1>11 DEF OwnerInv

LEMMA OwnerNext == OwnerInv /\ [Next]_vars => OwnerInv'
  BY OwnerQuiet, OwnerAccept, OwnerData, OwnerEof, OwnerTick DEF Next

\* Reads and del_timer go to the connection's own timer, and to one that exists,
\* whenever a descriptor is used again (users[fd].timer of 4_2_server.cpp is
\* never cleared), for any number of clients and descriptors and any clock.
THEOREM TimersOwned == Spec => []TimerOwnership
<1>1. OwnerInv => TimerOwnership
  BY DEF OwnerInv, TimerOwnership, Descriptors, Lives, OpenFds, TypeOK
<1> QED
  BY <1>1, OwnerInit, OwnerNext, PTL DEF Spec

\* tick closes nobody too early, whatever the corrupted list leads it to.
LEMMA TickIsLate ==
  ASSUME OwnerInv, [Next]_vars, pc = "tick", NEW c \in Conns, status[c] = "open",
         status'[c] = "closed"
  PROVE  now >= heard[c] + Lifetime
<1> USE TimerConstants DEF ub
<1>1. TypeOK /\ Clock /\ Lives /\ c \notin deleted /\ expire[c] = heard[c] + Lifetime
  BY DEF OwnerInv, Lives
<1>2. Tick
  <2>1. ~ (EpollWait \/ Accept \/ Signals \/ BatchDone \/ \E fd \in Fds : NoData(fd) \/ Eof(fd))
    BY DEF EpollWait, Accept, Signals, BatchDone, NoData, Eof, Dispatch
  <2>2. ~ \E fd \in Fds, n \in 1 .. MaxSends : Data(fd, n)
    BY DEF Data, Dispatch
  <2>3. ~ (Elapse \/ TickDone \/ UNCHANGED vars \/ (\E s \in {"ALRM", "TERM"} : Signal(s)))
    BY DEF Elapse, TickDone, vars, Signal, netVars
  <2>4. ~ \E d \in Conns : Connect(d) \/ Send(d) \/ Leave(d)
    BY <1>1 DEF Connect, Send, Leave, TypeOK
  <2> QED
    BY <2>1, <2>2, <2>3, <2>4 DEF Next
<1>3. c = conn[fd_of[timer_lst.head]]
  BY <1>1, <1>2 DEF Tick, Close, TypeOK
<1>4. c = timer_lst.head
  BY <1>2, <1>3, TickCloses
<1>5. cur >= expire[c] /\ cur <= now
  BY <1>1, <1>2, <1>4 DEF Tick, Clock
<1> QED
  BY <1>1, <1>5 DEF TypeOK, Clock

\* A client is closed by tick of 4/lst_timer.h only when nothing was heard of it
\* for 3 * TIMESLOT: the callback closes the descriptor in the timer's user_data,
\* and no other connection has that by then.
THEOREM ClosedWhenSilent == Spec => NoEarlyClose
<1>1. OwnerInv /\ [Next]_vars =>
        [pc = "tick" => \A c \in Conns : status[c] = "open" /\ status'[c] = "closed" =>
                          now >= heard[c] + Lifetime]_vars
  BY TickIsLate
<1> QED
  BY <1>1, OwnerInit, OwnerNext, PTL DEF Spec, NoEarlyClose

(* ------------------------ the list nobody has disturbed ---------------------- *)

\* The list is s: each node once, each after the one before it and not due
\* before it.
Listing(l, s) ==
  /\ s \in Seq(Timers)
  /\ \A i, j \in 1 .. Len(s) : s[i] = s[j] => i = j
  /\ l.head = IF Len(s) = 0 THEN NULL ELSE s[1]
  /\ \A i \in 1 .. Len(s) : l.next[s[i]] = IF i < Len(s) THEN s[i + 1] ELSE NULL
  /\ \A i \in 1 .. Len(s) : i < Len(s) => /\ l.prev[s[i + 1]] = s[i]
                                          /\ expire[s[i]] <= expire[s[i + 1]]
IsListed(t, s) == \E i \in 1 .. Len(s) : s[i] = t
\* It lists the open connections, and the others have never been in it.
InOrder ==
  /\ \E s : Listing(timer_lst, s) /\ \A c \in Conns : IsListed(c, s) <=> status[c] = "open"
  /\ \A c \in Conns \ Accepted : timer_lst.next[c] = NULL
OrderInv == OwnerInv /\ (~ub /\ Undisturbed => InOrder)

\* A list has no more nodes than there are timers.
LEMMA ListingShort ==
  ASSUME NEW l, NEW s, Listing(l, s) PROVE Len(s) \in Nat /\ Len(s) <= Cardinality(Timers)
<1>1. Len(s) \in Nat /\ s \in [1 .. Len(s) -> Timers]
  BY DEF Listing
<1>2. IsFiniteSet(1 .. Len(s)) /\ Cardinality(1 .. Len(s)) = Len(s)
  BY SMTT(30), <1>1, FS_Interval
<1>3. ASSUME Cardinality(Timers) < Len(s) PROVE FALSE
  <2>1. \E i, j \in 1 .. Len(s) : i # j /\ s[i] = s[j]
    BY <1>1, <1>2, <1>3, TimersFinite, FS_PigeonHole
  <2> QED
    BY <2>1 DEF Listing
<1> QED
  BY <1>1, <1>3, TimersFinite

\* A walk from the head meets the nodes in their order, and then NULL.
LEMMA ListingChain ==
  ASSUME NEW l, NEW s, Listing(l, s), NEW i \in 0 .. Cardinality(Timers)
  PROVE  Chain(l, l.head)[i] = IF i < Len(s) THEN s[i + 1] ELSE NULL
<1> DEFINE Bad == {k \in 0 .. Cardinality(Timers) :
                     Chain(l, l.head)[k] # IF k < Len(s) THEN s[k + 1] ELSE NULL}
<1> SUFFICES ASSUME Bad # {} PROVE FALSE
  OBVIOUS
<1> DEFINE m == Min(Bad)
<1>1. m \in Bad /\ \A k \in Bad : m <= k
  <2>1. Bad \in SUBSET Nat
    BY TimersFinite
  <2> HIDE DEF Bad
  <2> QED
    BY <2>1, LeastIs
<1> HIDE DEF m
<1>2. m \in 0 .. Cardinality(Timers) /\ m # 0 /\ m - 1 \in 0 .. Cardinality(Timers)
  <2>1. Chain(l, l.head)[0] = l.head
    BY ChainStep, TimersFinite
  <2>2. 0 \notin Bad
    BY <2>1, ListingShort DEF Listing
  <2> QED
    BY <1>1, <2>2, TimersFinite
<1>3. Chain(l, l.head)[m - 1] = IF m - 1 < Len(s) THEN s[m - 1 + 1] ELSE NULL
  BY <1>1, <1>2, TimersFinite
<1>4. Chain(l, l.head)[m] = IF Chain(l, l.head)[m - 1] = NULL THEN NULL
                            ELSE l.next[Chain(l, l.head)[m - 1]]
  BY <1>2, ChainStep
<1>5. m \in Nat /\ Len(s) \in Nat /\ m - 1 + 1 = m
  BY <1>2, ListingShort, TimersFinite
<1>6. CASE m - 1 < Len(s)
  <2>1. m \in 1 .. Len(s) /\ s[m] \in Timers
    BY <1>2, <1>5, <1>6 DEF Listing
  <2>2. Chain(l, l.head)[m] = l.next[s[m]]
    BY <1>3, <1>4, <1>5, <1>6, <2>1, TimersFinite
  <2> QED
    BY <1>1, <2>1, <2>2 DEF Listing
<1>7. CASE ~ (m - 1 < Len(s))
  <2>1. Chain(l, l.head)[m] = NULL /\ ~ (m < Len(s))
    BY <1>3, <1>4, <1>5, <1>7
  <2> QED
    BY <1>1, <2>1
<1> QED
  BY <1>6, <1>7

\* In such a list add_timer finds the place behind the last for a timer that
\* expires last.
LEMMA ListingAppend ==
  ASSUME NEW S \in SUBSET Timers, NEW l \in Lists(S), NEW s, NEW t \in Timers, NEW e,
         Listing(l, s), Len(s) # 0,
         \A i \in 1 .. Len(s) : ~ (e[t] < e[s[i]])
  PROVE  AddTimer(l, t, e) = [l EXCEPT !.next = [[l.next EXCEPT ![s[Len(s)]] = t] EXCEPT ![t] = NULL],
                                       !.prev = [l.prev EXCEPT ![t] = s[Len(s)]]]
<1> DEFINE steps == Steps(l, t, l.head, e)
           n == Len(s)
<1>1. n \in Nat \ {0} /\ n <= Cardinality(Timers) /\ Cardinality(Timers) \in Nat
  BY ListingShort, TimersFinite
<1>2. \A k \in 0 .. Cardinality(Timers) :
        Chain(l, l.head)[k] = IF k < n THEN s[k + 1] ELSE NULL
  BY ListingChain
<1>3. \A i \in 1 .. n : s[i] \in Timers /\ s[i] # NULL
  BY TimersFinite DEF Listing
<1> HIDE DEF n
<1>4. n \in steps
  <2>1. n \in 1 .. Cardinality(Timers) /\ Chain(l, l.head)[n] = NULL
    BY <1>1, <1>2
  <2> QED
    BY <2>1 DEF Steps
<1>5. ASSUME NEW k \in steps PROVE n <= k
  <2>1. k \in 1 .. Cardinality(Timers)
        /\ (Chain(l, l.head)[k] = NULL \/ e[t] < e[Chain(l, l.head)[k]])
    BY <1>5 DEF Steps
  <2>2. ASSUME k < n PROVE FALSE
    <3>1. Chain(l, l.head)[k] = s[k + 1] /\ k + 1 \in 1 .. n
      BY <1>1, <1>2, <2>1, <2>2
    <3> QED
      BY <1>3, <2>1, <3>1 DEF n
  <2> QED
    BY <1>1, <2>1, <2>2
<1>6. Min(steps) = n
  <2>1. steps \in SUBSET Nat
    BY <1>1 DEF Steps
  <2>2. Min(steps) \in steps /\ \A k \in steps : Min(steps) <= k
    BY <1>4, <2>1, LeastIs
  <2> QED
    BY <1>1, <1>4, <1>5, <2>1, <2>2
<1>7. Chain(l, l.head)[n] = NULL /\ Chain(l, l.head)[n - 1] = s[n]
  <2>1. n \in 0 .. Cardinality(Timers) /\ n - 1 \in 0 .. Cardinality(Timers)
    BY <1>1
  <2>2. Chain(l, l.head)[n - 1] = s[n - 1 + 1]
    BY <1>1, <1>2, <2>1
  <2> QED
    BY <1>1, <1>2, <2>1, <2>2
<1>8. l.head # NULL /\ ~ (e[t] < e[l.head])
  BY <1>1, <1>3 DEF Listing, n
<1>9. AddTimer(l, t, e) = InsertAfter(l, t, l.head, e)
  BY <1>8 DEF AddTimer
<1> QED
  BY <1>4, <1>6, <1>7, <1>9 DEF InsertAfter, n

LEMMA OrderInit == Init => OrderInv
<1> SUFFICES ASSUME Init PROVE OrderInv
  OBVIOUS
<1>1. Listing(timer_lst, <<>>) /\ \A c \in Conns : IsListed(c, <<>>) <=> status[c] = "open"
  BY DEF Init, EmptyList, Listing, IsListed
<1>2. \A c \in Conns \ Accepted : timer_lst.next[c] = NULL
  BY DEF Init, EmptyList, Conns
<1> QED
  BY <1>1, <1>2, OwnerInit DEF OrderInv, InOrder

LEMMA OrderAccept == OrderInv /\ Accept /\ ~ub' /\ Undisturbed => InOrder'
<1> SUFFICES ASSUME OrderInv, Accept, ~ub', Undisturbed PROVE InOrder'
  OBVIOUS
<1> USE TimerConstants DEF ub
<1>0. OwnerInv /\ TypeOK /\ Clock /\ Descriptors /\ Lives /\ pc = "events" /\ InOrder
  BY DEF OwnerInv, OrderInv, Accept, Dispatch
<1>1. PICK c \in backlog, fd \in FreeFds :
        /\ status' = [status EXCEPT ![c] = "open"]
        /\ expire' = [expire EXCEPT ![c] = now + Lifetime]
        /\ timer_lst' = AddTimer(timer_lst, c, expire')
  BY DEF Accept
<1>2. c \in Conns /\ status[c] = "backlog" /\ now + Lifetime \in Nat /\ c # NULL /\ c \notin Accepted
  BY <1>0 DEF TypeOK, Descriptors, Accepted
<1>3. PICK s : Listing(timer_lst, s) /\ \A d \in Conns : IsListed(d, s) <=> status[d] = "open"
  BY <1>0 DEF InOrder
<1>4. s \in Seq(Timers) /\ Len(s) \in Nat /\ \A i \in 1 .. Len(s) : s[i] \in Timers
  BY <1>3 DEF Listing
<1>5. \A i \in 1 .. Len(s) : s[i] # c
  BY <1>2, <1>3 DEF IsListed
<1>6. timer_lst \in Lists(Accepted) /\ Accepted \subseteq Timers
  BY <1>0 DEF OwnerInv, Accepted
<1> DEFINE r == Append(s, c)
<1>7. /\ r \in Seq(Timers) /\ Len(r) = Len(s) + 1 /\ r[Len(s) + 1] = c
      /\ \A i \in 1 .. Len(s) : r[i] = s[i]
  BY <1>2, <1>4
<1>8. \A i, j \in 1 .. Len(r) : r[i] = r[j] => i = j
  <2> TAKE i, j \in 1 .. Len(r)
  <2>1. (i \in 1 .. Len(s) \/ i = Len(s) + 1) /\ (j \in 1 .. Len(s) \/ j = Len(s) + 1)
    BY <1>4, <1>7
  <2> QED
    BY <1>3, <1>5, <1>7, <2>1 DEF Listing
<1>9. /\ \A i \in 1 .. Len(s) : expire'[s[i]] = expire[s[i]] /\ expire[s[i]] <= now + Lifetime
                                /\ expire[s[i]] \in Nat
      /\ expire'[c] = now + Lifetime
  BY <1>0, <1>1, <1>2, <1>4, <1>5 DEF TypeOK, Clock
<1>10. /\ timer_lst'.head = IF Len(s) = 0 THEN c ELSE timer_lst.head
       /\ timer_lst'.next[c] = NULL
       /\ Len(s) # 0 => timer_lst'.next[s[Len(s)]] = c /\ timer_lst'.prev[c] = s[Len(s)]
       /\ \A d \in Timers \ {c} : /\ d # s[Len(s)] => timer_lst'.next[d] = timer_lst.next[d]
                                  /\ timer_lst'.prev[d] = timer_lst.prev[d]
  <2>1. CASE Len(s) = 0
    <3>1. timer_lst.head = NULL
      BY <1>3, <2>1 DEF Listing
    <3>2. timer_lst' = [timer_lst EXCEPT !.head = c, !.tail = c]
      BY <1>1, <3>1 DEF AddTimer
    <3>3. timer_lst.next[c] = NULL
      BY <1>0, <1>2 DEF InOrder
    <3> QED
      BY <1>6, <2>1, <3>2, <3>3 DEF Lists
  <2>2. CASE Len(s) # 0
    <3>1. \A i \in 1 .. Len(s) : ~ (expire'[c] < expire'[s[i]])
      BY <1>2, <1>9
    <3> DEFINE p == s[Len(s)]
    <3>2. p \in Timers /\ p # c
      BY <1>4, <1>5, <2>2
    <3>3. timer_lst' = [timer_lst EXCEPT
                          !.next = [[timer_lst.next EXCEPT ![p] = c] EXCEPT ![c] = NULL],
                          !.prev = [timer_lst.prev EXCEPT ![c] = p]]
      BY <1>1, <1>2, <1>3, <1>6, <2>2, <3>1, ListingAppend
    <3> HIDE DEF p
    <3>4. /\ timer_lst'.head = timer_lst.head
          /\ timer_lst'.next = [[timer_lst.next EXCEPT ![p] = c] EXCEPT ![c] = NULL]
          /\ timer_lst'.prev = [timer_lst.prev EXCEPT ![c] = p]
          /\ timer_lst.next \in [Timers -> Accepted \cup {NULL}]
          /\ timer_lst.prev \in [Timers -> Accepted \cup {NULL}]
      BY <1>6, <3>3 DEF Lists
    <3>5. /\ timer_lst'.next[c] = NULL /\ timer_lst'.next[p] = c /\ timer_lst'.prev[c] = p
          /\ \A d \in Timers \ {c} : /\ d # p => timer_lst'.next[d] = timer_lst.next[d]
                                     /\ timer_lst'.prev[d] = timer_lst.prev[d]
      BY <1>2, <3>2, <3>4
    <3> QED
      BY <2>2, <3>4, <3>5 DEF p
  <2> QED
    BY <2>1, <2>2
<1>11. Listing(timer_lst, r)'
  <2>1. timer_lst'.head = IF Len(r) = 0 THEN NULL ELSE r[1]
    BY <1>3, <1>4, <1>7, <1>10 DEF Listing
  <2>2. ASSUME NEW i \in 1 .. Len(r)
        PROVE  timer_lst'.next[r[i]] = IF i < Len(r) THEN r[i + 1] ELSE NULL
    <3>1. CASE i = Len(s) + 1
      BY <1>4, <1>7, <1>10, <3>1
    <3>2. CASE i = Len(s) /\ Len(s) # 0
      BY <1>4, <1>7, <1>10, <3>2
    <3>3. CASE i < Len(s)
      <4>1. i \in 1 .. Len(s) /\ i + 1 \in 1 .. Len(s) /\ Len(s) \in 1 .. Len(s)
        BY <1>4, <1>7, <3>3
      <4>2. s[i] # s[Len(s)] /\ s[i] # c /\ s[i] \in Timers
        BY <1>3, <1>4, <1>5, <3>3, <4>1 DEF Listing
      <4>3. timer_lst'.next[s[i]] = s[i + 1]
        BY <1>3, <1>10, <3>3, <4>1, <4>2 DEF Listing
      <4> QED
        BY <1>7, <3>3, <4>1, <4>3
    <3> QED
      BY <1>4, <1>7, <3>1, <3>2, <3>3
  <2>3. ASSUME NEW i \in 1 .. Len(r), i < Len(r)
        PROVE  /\ timer_lst'.prev[r[i + 1]] = r[i]
               /\ expire'[r[i]] <= expire'[r[i + 1]]
    <3>1. i \in 1 .. Len(s) /\ r[i] = s[i]
      BY <1>4, <1>7, <2>3
    <3>2. CASE i = Len(s)
      BY <1>7, <1>9, <1>10, <3>1, <3>2
    <3>3. CASE i < Len(s)
      <4>1. i + 1 \in 1 .. Len(s) /\ r[i + 1] = s[i + 1]
        BY <1>4, <1>7, <3>1, <3>3
      <4>2. s[i + 1] \in Timers \ {c}
        BY <1>4, <1>5, <4>1
      <4> QED
        BY <1>3, <1>9, <1>10, <3>1, <3>3, <4>1, <4>2 DEF Listing
    <3> QED
      BY <1>4, <3>1, <3>2, <3>3
  <2> QED
    BY <1>7, <1>8, <2>1, <2>2, <2>3 DEF Listing
<1>12. \A d \in Conns : IsListed(d, r) <=> status'[d] = "open"
  <2> TAKE d \in Conns
  <2>1. IsListed(d, r) <=> IsListed(d, s) \/ d = c
    BY <1>4, <1>7 DEF IsListed
  <2> QED
    BY <1>0, <1>1, <1>2, <1>3, <2>1 DEF TypeOK
<1>13. \A d \in Conns \ Accepted' : timer_lst'.next[d] = NULL
  <2> TAKE d \in Conns \ Accepted'
  <2>1. d # c /\ d \in Conns \ Accepted
    BY <1>0, <1>1, <1>2 DEF Accepted, TypeOK
  <2>2. ASSUME Len(s) # 0 PROVE d # s[Len(s)]
    <3>1. Len(s) \in 1 .. Len(s) /\ s[Len(s)] \in Conns
      BY <1>4, <2>2
    <3>2. status[s[Len(s)]] = "open"
      BY <1>3, <3>1 DEF IsListed
    <3> QED
      BY <2>1, <3>2 DEF Accepted
  <2>3. timer_lst.next[d] = NULL
    BY <1>0, <2>1 DEF InOrder
  <2>4. CASE Len(s) # 0
    BY <1>10, <2>1, <2>2, <2>3, <2>4
  <2>5. CASE Len(s) = 0
    <3>1. timer_lst' = [timer_lst EXCEPT !.head = c, !.tail = c]
      BY <1>1, <1>3, <2>5 DEF AddTimer, Listing
    <3> QED
      BY <1>6, <2>3, <3>1 DEF Lists
  <2> QED
    BY <2>4, <2>5
<1> QED
  BY <1>11, <1>12, <1>13 DEF InOrder

LEMMA OrderTick == OrderInv /\ Tick /\ ~ub' /\ Undisturbed => InOrder'
<1> SUFFICES ASSUME OrderInv, Tick, ~ub', Undisturbed PROVE InOrder'
  OBVIOUS
<1> USE TimerConstants DEF ub
<1> DEFINE h == timer_lst.head
<1>0. OwnerInv /\ TypeOK /\ Descriptors /\ pc = "tick" /\ h # NULL /\ InOrder
      /\ UNCHANGED <<sent, backlog, user_timer, fd_of, expire>>
  BY DEF OwnerInv, OrderInv, Tick
<1>1. h \in Accepted /\ h \in Timers /\ fd_of[h] \in Fds /\ conn[fd_of[h]] = h
  BY <1>0, TickCloses DEF Accepted
<1>2. /\ Accepted' = Accepted
      /\ \A d \in Conns : status'[d] = IF d = h THEN "closed" ELSE status[d]
  <2>1. deleted' \subseteq Accepted /\ Close(fd_of[h])
    BY <1>0, <1>1 DEF Tick, Descriptors
  <2> QED
    BY <1>0, <1>1, <2>1, CloseIs
<1>3. PICK s : Listing(timer_lst, s) /\ \A d \in Conns : IsListed(d, s) <=> status[d] = "open"
  BY <1>0 DEF InOrder
<1>4. timer_lst \in Lists(Accepted) /\ timer_lst' = PopHead(timer_lst)
  BY <1>0 DEF OwnerInv, Tick
<1>5. s \in Seq(Timers) /\ Len(s) \in Nat \ {0} /\ s[1] = h /\ \A i \in 1 .. Len(s) : s[i] \in Timers
  BY <1>0, <1>3 DEF Listing
<1> DEFINE r == Tail(s)
<1>6. r \in Seq(Timers) /\ Len(r) = Len(s) - 1 /\ \A i \in 1 .. Len(r) : r[i] = s[i + 1]
  BY <1>5
<1>7. \A i, j \in 1 .. Len(r) : r[i] = r[j] => i = j
  <2> TAKE i, j \in 1 .. Len(r)
  <2>1. i + 1 \in 1 .. Len(s) /\ j + 1 \in 1 .. Len(s)
    BY <1>5, <1>6
  <2> QED
    BY <1>3, <1>6, <2>1 DEF Listing
<1>8. /\ timer_lst'.head = timer_lst.next[h]
      /\ timer_lst'.next = timer_lst.next
      /\ \A d \in Timers : d # timer_lst.next[h] => timer_lst'.prev[d] = timer_lst.prev[d]
  BY <1>4 DEF PopHead, Lists
<1>9. timer_lst.next[h] = IF 1 < Len(s) THEN s[2] ELSE NULL
  BY <1>3, <1>5 DEF Listing
<1> HIDE DEF r, h
<1>10. Listing(timer_lst, r)'
  <2>1. timer_lst'.head = IF Len(r) = 0 THEN NULL ELSE r[1]
    BY <1>5, <1>6, <1>8, <1>9
  <2>2. ASSUME NEW i \in 1 .. Len(r)
        PROVE  timer_lst'.next[r[i]] = IF i < Len(r) THEN r[i + 1] ELSE NULL
    <3>1. i + 1 \in 1 .. Len(s) /\ r[i] = s[i + 1] /\ (i < Len(r) <=> i + 1 < Len(s))
          /\ (i < Len(r) => r[i + 1] = s[i + 1 + 1])
      BY <1>5, <1>6
    <3> QED
      BY <1>3, <1>8, <3>1 DEF Listing
  <2>3. ASSUME NEW i \in 1 .. Len(r), i < Len(r)
        PROVE  timer_lst'.prev[r[i + 1]] = r[i] /\ expire'[r[i]] <= expire'[r[i + 1]]
    <3>1. /\ i + 1 \in 1 .. Len(s) /\ i + 1 < Len(s) /\ i + 1 + 1 \in 1 .. Len(s)
          /\ 2 \in 1 .. Len(s) /\ i + 1 + 1 # 2
          /\ r[i] = s[i + 1] /\ r[i + 1] = s[i + 1 + 1]
      BY <1>5, <1>6, <2>3
    <3>2. timer_lst.prev[s[i + 1 + 1]] = s[i + 1] /\ expire[s[i + 1]] <= expire[s[i + 1 + 1]]
      BY <1>3, <3>1 DEF Listing
    <3>3. s[i + 1 + 1] # s[2]
      BY <1>3, <3>1 DEF Listing
    <3>4. timer_lst.next[h] = s[2] /\ s[i + 1 + 1] \in Timers
      BY <1>5, <1>9, <3>1
    <3> QED
      BY <1>0, <1>8, <3>1, <3>2, <3>3, <3>4
  <2> QED
    BY <1>6, <1>7, <2>1, <2>2, <2>3 DEF Listing
<1>11. \A d \in Conns : IsListed(d, r) <=> status'[d] = "open"
  <2> TAKE d \in Conns
  <2>1. IsListed(d, r) <=> IsListed(d, s) /\ d # h
    <3>1. ASSUME IsListed(d, r) PROVE IsListed(d, s) /\ d # h
      <4>1. PICK i \in 1 .. Len(r) : r[i] = d
        BY <3>1 DEF IsListed
      <4>2. i + 1 \in 1 .. Len(s) /\ 1 \in 1 .. Len(s) /\ i + 1 # 1 /\ s[i + 1] = d
        BY <1>5, <1>6, <4>1
      <4> QED
        BY <1>3, <1>5, <4>2 DEF IsListed, Listing
    <3>2. ASSUME IsListed(d, s), d # h PROVE IsListed(d, r)
      <4>1. PICK i \in 1 .. Len(s) : s[i] = d
        BY <3>2 DEF IsListed
      <4>2. i - 1 \in 1 .. Len(r) /\ r[i - 1] = s[i - 1 + 1] /\ i - 1 + 1 = i
        BY <1>5, <1>6, <3>2, <4>1
      <4> QED
        BY <4>1, <4>2 DEF IsListed
    <3> QED
      BY <3>1, <3>2
  <2> QED
    BY <1>2, <1>3, <2>1
<1>12. \A d \in Conns \ Accepted' : timer_lst'.next[d] = NULL
  BY <1>0, <1>2, <1>8 DEF InOrder
<1> QED
  BY <1>10, <1>11, <1>12 DEF InOrder

\* A step that leaves the list and the open connections as they are
LEMMA OrderKept ==
  ASSUME InOrder, TypeOK, UNCHANGED <<timer_lst, expire>>,
         \A c \in Conns : status'[c] # status[c] => status[c] = "new" /\ status'[c] = "backlog"
  PROVE  InOrder'
<1>1. PICK s : Listing(timer_lst, s) /\ \A c \in Conns : IsListed(c, s) <=> status[c] = "open"
  BY DEF InOrder
<1>2. Listing(timer_lst, s)'
  BY <1>1 DEF Listing
<1>3. \A c \in Conns : IsListed(c, s) <=> status'[c] = "open"
  BY <1>1 DEF TypeOK
<1>4. \A c \in Conns \ Accepted' : timer_lst'.next[c] = NULL
  BY DEF InOrder, Accepted, TypeOK
<1> QED
  BY <1>2, <1>3, <1>4 DEF InOrder

LEMMA OrderNext == OrderInv /\ [Next]_vars => OrderInv'
<1> SUFFICES ASSUME OrderInv, [Next]_vars, ~ub', Undisturbed' PROVE InOrder'
  BY OwnerNext DEF OrderInv
<1> USE TimerConstants DEF ub
<1>0. TypeOK /\ Clock
  BY DEF OrderInv, OwnerInv
<1>1. CASE Accept
  <2>1. Undisturbed
    BY <1>1 DEF Undisturbed, Accept
  <2> QED
    BY <1>1, <2>1, OrderAccept
<1>2. CASE Tick
  <2>1. Undisturbed
    BY <1>2 DEF Undisturbed, Tick
  <2> QED
    BY <1>2, <2>1, OrderTick
<1>3. ASSUME NEW fd \in Fds, NEW n \in 1 .. MaxSends, Data(fd, n) PROVE FALSE
  <2>1. conn[fd] \in Conns /\ n <= wire[conn[fd]] /\ sent' = sent
    BY <1>0, <1>3 DEF Data, TypeOK
  <2>2. wire[conn[fd]] <= 0 /\ wire[conn[fd]] \in Nat
    BY <1>0, <2>1 DEF Undisturbed, Clock, TypeOK
  <2> QED
    BY <2>1, <2>2
<1>4. ASSUME NEW fd \in Fds, Eof(fd) PROVE FALSE
  BY <1>0, <1>4 DEF Eof, Undisturbed, TypeOK
<1>5. ASSUME NEW c \in Conns, Connect(c) PROVE InOrder'
  <2>1. UNCHANGED <<pc, timer_lst, expire, sent, fin>> /\ Undisturbed
        /\ \A d \in Conns : status'[d] # status[d] => status[d] = "new" /\ status'[d] = "backlog"
    BY <1>0, <1>5 DEF Connect, timerVars, loopVars, Undisturbed, TypeOK
  <2> QED
    BY <1>0, <2>1, OrderKept DEF OrderInv
<1>6. ASSUME NEW c \in Conns, Send(c) \/ Leave(c) PROVE FALSE
  BY <1>0, <1>6 DEF Send, Leave, Undisturbed, TypeOK
<1>7. ASSUME \/ Elapse \/ (\E s \in {"ALRM", "TERM"} : Signal(s))
             \/ EpollWait \/ Signals \/ BatchDone \/ TickDone
             \/ (\E fd \in Fds : NoData(fd)) \/ UNCHANGED vars
      PROVE  InOrder'
  <2>1. UNCHANGED <<timer_lst, expire, status, sent, fin>>
    BY <1>7 DEF Elapse, Signal, EpollWait, Signals, BatchDone, TickDone, NoData, vars,
                netVars, timerVars
  <2>2. pc = pc' \/ pc # "undefined"
    BY <1>7 DEF Elapse, Signal, EpollWait, Signals, BatchDone, TickDone, NoData, vars, loopVars
  <2>3. Undisturbed /\ ~ub
    BY <2>1, <2>2 DEF Undisturbed
  <2> QED
    BY <1>0, <2>1, <2>3, OrderKept DEF OrderInv
<1> QED
  BY <1>1, <1>2, <1>3, <1>4, <1>5, <1>6, <1>7 DEF Next

LEMMA OrderGives == OrderInv => ListSound
<1> SUFFICES ASSUME OrderInv, ~ub, Undisturbed
             PROVE  /\ Ascending(timer_lst, expire)
                    /\ NodesFrom(timer_lst, timer_lst.head) = {conn[fd] : fd \in OpenFds}
  BY DEF ListSound
<1> DEFINE nodes == NodesFrom(timer_lst, timer_lst.head)
<1>0. TypeOK /\ Descriptors
  BY DEF OrderInv, OwnerInv
<1>1. PICK s : Listing(timer_lst, s) /\ \A c \in Conns : IsListed(c, s) <=> status[c] = "open"
  BY DEF OrderInv, InOrder
<1>2. Len(s) \in Nat /\ Len(s) <= Cardinality(Timers) /\ Cardinality(Timers) \in Nat
  BY <1>1, ListingShort, TimersFinite
<1>3. \A i \in 1 .. Len(s) : s[i] \in Timers /\ s[i] # NULL
  BY <1>1, TimersFinite DEF Listing
<1>4. \A k \in 0 .. Cardinality(Timers) :
        Chain(timer_lst, timer_lst.head)[k] = IF k < Len(s) THEN s[k + 1] ELSE NULL
  BY <1>1, ListingChain
<1>5. ASSUME NEW t PROVE t \in nodes <=> IsListed(t, s)
  <2>1. ASSUME t \in nodes PROVE IsListed(t, s)
    <3>1. PICK k \in 0 .. Cardinality(Timers) :
            t = Chain(timer_lst, timer_lst.head)[k] /\ t # NULL
      BY <2>1 DEF NodesFrom
    <3>2. k < Len(s) /\ t = s[k + 1] /\ k + 1 \in 1 .. Len(s)
      BY <1>2, <1>4, <3>1
    <3> QED
      BY <3>2 DEF IsListed
  <2>2. ASSUME IsListed(t, s) PROVE t \in nodes
    <3>1. PICK i \in 1 .. Len(s) : s[i] = t
      BY <2>2 DEF IsListed
    <3>2. i - 1 \in 0 .. Cardinality(Timers) /\ i - 1 < Len(s) /\ i - 1 + 1 = i
      BY <1>2, <3>1
    <3>3. t = Chain(timer_lst, timer_lst.head)[i - 1] /\ t # NULL
      BY <1>3, <1>4, <3>1, <3>2
    <3> QED
      BY <3>2, <3>3 DEF NodesFrom
  <2> QED
    BY <2>1, <2>2
<1> HIDE DEF nodes
<1>6. ASSUME NEW t \in nodes, timer_lst.next[t] # NULL
      PROVE  expire[t] <= expire[timer_lst.next[t]] /\ timer_lst.prev[timer_lst.next[t]] = t
  <2>1. PICK i \in 1 .. Len(s) : s[i] = t
    BY <1>5 DEF IsListed
  <2>2. i < Len(s) /\ timer_lst.next[t] = s[i + 1]
    BY <1>1, <1>6, <2>1 DEF Listing
  <2> QED
    BY <1>1, <2>1, <2>2 DEF Listing
<1>7. ASSUME NEW t PROVE t \in nodes <=> t \in {conn[fd] : fd \in OpenFds}
  <2>1. IsListed(t, s) => t \in Conns
    BY <1>1 DEF IsListed, Listing, Conns
  <2>2. t \in nodes <=> t \in Conns /\ status[t] = "open"
    BY <1>1, <1>5, <2>1
  <2>3. ASSUME t \in Conns, status[t] = "open" PROVE t \in {conn[fd] : fd \in OpenFds}
    <3>1. t \in Accepted /\ fd_of[t] \in Fds /\ conn[fd_of[t]] = t /\ t # NULL
      BY <1>0, <2>3, TimerConstants DEF Accepted, Descriptors
    <3> QED
      BY <3>1 DEF OpenFds
  <2>4. ASSUME t \in {conn[fd] : fd \in OpenFds} PROVE t \in Conns /\ status[t] = "open"
    BY <1>0, <2>4 DEF Descriptors, TypeOK, OpenFds
  <2> QED
    BY <2>2, <2>3, <2>4
<1>8. Ascending(timer_lst, expire)
  BY <1>6 DEF Ascending, nodes
<1> QED
  BY <1>7, <1>8 DEF nodes

\* Until a client sends or leaves, add_timer of 4/lst_timer.h keeps the list
\* sorted and linked both ways, and it holds the timers of the open connections
\* and no other: tick finds all that are due.
THEOREM ListKept == Spec => []ListSound
  BY OrderInit, OrderNext, OrderGives, PTL DEF Spec
=============================================================================
