-------------------------------- MODULE Prefork --------------------------------
(* What a pool of processes that accept for themselves promises its clients     *)
(* (6/processpool.h with the cgi_conn of 6/6_CGI_server.cpp).  A worker accepts *)
(* only with a ticket, and each ticket has a client of its own that waits: the  *)
(* one that has waited longest is taken.  Whoever accepted a client serves it,  *)
(* and a program is started at most once for it, for a line that is complete.   *)
(* The parent, the pipes, epoll and the buffers are not here.                   *)
EXTENDS Integers, Sequences, FiniteSets

CONSTANTS Clients, Workers, None

VARIABLES waiting,    \* the clients to accept, in the order they came
          tickets,    \* of a worker: how many it may accept
          up,         \* the workers that have not ended
          server,     \* of a client: who accepted it
          open,       \* the clients being served
          complete,   \* the clients that have sent all of a line
          started     \* the clients a program was started for

preforkVars == <<waiting, tickets, up, server, open, complete, started>>

PreforkInit == /\ waiting = <<>> /\ tickets = [w \in Workers |-> 0] /\ up = Workers
               /\ server = [c \in Clients |-> None] /\ open = {}
               /\ complete = {} /\ started = {}

Tickets == UNION {{w} \X (1 .. tickets[w]) : w \in Workers}

Arrive(c) == /\ server[c] = None /\ \A k \in DOMAIN waiting : waiting[k] # c
             /\ waiting' = Append(waiting, c)
             /\ UNCHANGED <<tickets, up, server, open, complete, started>>

\* A client that is not turned away yet sends the end of its line.
CompleteLine(c) == /\ c \in open \/ server[c] = None
                   /\ complete' = complete \cup {c}
                   /\ UNCHANGED <<waiting, tickets, up, server, open, started>>

Announce(w) == /\ w \in up /\ Cardinality(Tickets) < Len(waiting)
               /\ tickets' = [tickets EXCEPT ![w] = @ + 1]
               /\ UNCHANGED <<waiting, up, server, open, complete, started>>

Accept(w) == /\ w \in up /\ tickets[w] > 0 /\ waiting # <<>>
             /\ waiting' = Tail(waiting) /\ tickets' = [tickets EXCEPT ![w] = @ - 1]
             /\ server' = [server EXCEPT ![Head(waiting)] = w]
             /\ open' = open \cup {Head(waiting)}
             /\ UNCHANGED <<up, complete, started>>

\* An accept that fails uses up a ticket.
Waste(w) == /\ w \in up /\ tickets[w] > 0
            /\ tickets' = [tickets EXCEPT ![w] = @ - 1]
            /\ UNCHANGED <<waiting, up, server, open, complete, started>>

\* The worker closes, with the program of a complete line started or not.
Serve(c) == /\ c \in open /\ server[c] \in up
            /\ open' = open \ {c}
            /\ started' = started \/ (c \in complete /\ started' = started \cup {c})
            /\ UNCHANGED <<waiting, tickets, up, server, complete>>

\* Workers end with their tickets and their connections; the waiting wait on.
Die(W) == /\ up' = up \ W
          /\ tickets' = [w \in Workers |-> IF w \in W THEN 0 ELSE tickets[w]]
          /\ open' = {c \in open : server[c] \notin W}
          /\ UNCHANGED <<waiting, server, complete, started>>

PreforkNext == \/ \E c \in Clients : Arrive(c) \/ CompleteLine(c) \/ Serve(c)
               \/ \E w \in Workers : Announce(w) \/ Accept(w) \/ Waste(w)
               \/ \E W \in SUBSET up : Die(W)

PreforkSpec == PreforkInit /\ [][PreforkNext]_preforkVars

\* What follows from that: each ticket has a client that waits, and a program was
\* started only for a client with a complete line that is neither waiting nor open.
Covered == Cardinality(Tickets) <= Len(waiting)
StartedOnce == /\ started \subseteq complete
               /\ \A c \in started : c \notin open /\ server[c] # None
Promise == Covered /\ StartedOnce
=============================================================================
