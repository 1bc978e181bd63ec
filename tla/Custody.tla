-------------------------------- MODULE Custody --------------------------------
(* What EPOLLONESHOT is used for (README 1.5; 7/main.cpp, 1/1_5_server.cpp): an *)
(* open connection is in the care of epoll, of the queue of the workers or of   *)
(* one thread, and the object that belongs to it is changed by that thread      *)
(* alone.  A full queue refuses, and then nobody has the connection any more.   *)
(* Nothing is said of what the threads do with it.  WebServer implements this   *)
(* module.                                                                      *)
EXTENDS Naturals, FiniteSets

CONSTANTS Things,    \* the descriptors, with the objects that belong to them
          Limit,     \* places of the queue
          Main,      \* the thread that accepts and calls epoll_wait
          Workers

Threads == Workers \cup {Main}

VARIABLES open,      \* the things that belong to a connection
          armed,     \* epoll watches them, and has not reported them
          queued,    \* handed to the workers, not taken yet
          held,      \* of a thread: what was given to it
          lost,      \* refused by the queue: still open, and nobody's
          place,     \* of a thread: where it is, whatever that may be
          object     \* of a thing: what the threads read and write

custodyVars == <<open, armed, queued, held, lost, place, object>>

CustodyInit == /\ open = {} /\ armed = {} /\ queued = {} /\ lost = {}
               /\ held = [t \in Threads |-> {}]

\* A step is one thread's, and changes at most the objects of X.
Moves(t) == place'[t] # place[t] /\ \A u \in Threads \ {t} : place'[u] = place[u]
Changes(X) == \A x \in Things \ X : object'[x] = object[x]

Kept == armed \cup queued \cup UNION {held[t] : t \in Threads}

\* A descriptor nobody has any more is given to a new connection.
Register(x) == /\ x \notin open \cup Kept
               /\ open' = open \cup {x} /\ armed' = armed \cup {x} /\ Changes({x})
               /\ UNCHANGED <<queued, held, lost>>

\* epoll_wait: what it reports, if anything, is main's.
Report == /\ armed' \subseteq armed
          /\ held' = [held EXCEPT ![Main] = @ \cup (armed \ armed')]
          /\ Changes({}) /\ UNCHANGED <<open, queued, lost>>

Enqueue(x) == /\ x \in held[Main] /\ Cardinality(queued) < Limit
              /\ queued' = queued \cup {x} /\ held' = [held EXCEPT ![Main] = @ \ {x}]
              /\ Changes({}) /\ UNCHANGED <<open, armed, lost>>

\* Only a full queue refuses.
Abandon(x) == /\ x \in held[Main] \cap open /\ Cardinality(queued) >= Limit
              /\ lost' = lost \cup {x} /\ held' = [held EXCEPT ![Main] = @ \ {x}]
              /\ Changes({}) /\ UNCHANGED <<open, armed, queued>>

Fetch(w, x) == /\ x \in queued /\ held[w] = {}
               /\ queued' = queued \ {x} /\ held' = [held EXCEPT ![w] = {x}]
               /\ Changes({}) /\ UNCHANGED <<open, armed, lost>>

\* The thread that has a thing changes its object and may close the connection.
Work(t, x) == /\ x \in held[t]
              /\ open' \in {open, open \ {x}} /\ Changes({x})
              /\ UNCHANGED <<armed, queued, held, lost>>

\* MOD: the thing goes back to epoll.
Rearm(t, x) == /\ x \in held[t] \cap open
               /\ armed' = armed \cup {x} /\ held' = [held EXCEPT ![t] = @ \ {x}]
               /\ Changes({x}) /\ UNCHANGED <<open, queued, lost>>

\* Only a thing whose connection is closed is let go by everybody.
LetGo(t, x) == /\ x \in held[t]
               /\ open' = open \ {x} /\ held' = [held EXCEPT ![t] = @ \ {x}]
               /\ Changes({x}) /\ UNCHANGED <<armed, queued, lost>>

Rest == Changes({}) /\ UNCHANGED <<open, armed, queued, held, lost>>

MainStep == Report \/ \E x \in Things : Register(x) \/ Enqueue(x) \/ Abandon(x)
ThreadStep(t) == Rest \/ \E x \in Things : Work(t, x) \/ Rearm(t, x) \/ LetGo(t, x)

CustodyNext == \/ Moves(Main) /\ MainStep
               \/ \E w \in Workers : Moves(w) /\ \E x \in Things : Fetch(w, x)
               \/ \E t \in Threads : Moves(t) /\ ThreadStep(t)

CustodySpec == CustodyInit /\ [][CustodyNext]_custodyVars

\* What follows from that for whoever looks: two never have the same thing, and
\* an open connection is never forgotten but by a queue that is full.
SomebodyHasIt == open \subseteq Kept \cup lost
NobodyElseHasIt ==
  /\ armed \cap queued = {}
  /\ \A t \in Threads : held[t] \cap (armed \cup queued) = {}
  /\ \A t, u \in Threads : t # u => held[t] \cap held[u] = {}
  /\ lost \subseteq open \ Kept
Exclusive == SomebodyHasIt /\ NobodyElseHasIt
=============================================================================
