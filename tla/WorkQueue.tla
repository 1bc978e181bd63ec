------------------------------ MODULE WorkQueue ------------------------------
(* What 7/threadpool.h promises to the program that uses it: a bounded FIFO *)
(* of requests, each of which is taken once, by one worker, in the order of *)
(* the calls of append that accepted them.  Locks, semaphores and threads   *)
(* do not occur here; ThreadPool implements this module, and WebServer uses *)
(* its actions for the pool.                                                *)
EXTENDS Naturals, Sequences

CONSTANTS Workers,    \* the threads of the pool
          Items,      \* what a caller may append
          Idle,       \* value of running[w] when w holds nothing; not an item
          Capacity    \* the most items the queue can hold, at least one

VARIABLES queue,      \* accepted and not yet taken, oldest first
          running,    \* what each worker took and has not finished
          open        \* FALSE once the pool is being destroyed

queueVars == <<queue, running, open>>

QueueTypeOK == /\ queue \in Seq(Items)
               /\ running \in [Workers -> Items \cup {Idle}]
               /\ open \in BOOLEAN

QueueInit == /\ queue = <<>>
             /\ running = [w \in Workers |-> Idle]
             /\ open = TRUE

\* append returned true
Submit(r) == /\ open
             /\ Len(queue) < Capacity
             /\ queue' = Append(queue, r)
             /\ UNCHANGED running /\ open' = open

\* a worker removes the oldest item; from here on it is that worker's alone
Take(w) == /\ queue # <<>>
           /\ running[w] = Idle
           /\ queue' = Tail(queue)
           /\ running' = [running EXCEPT ![w] = Head(queue)]
           /\ open' = open

Finish(w) == /\ running[w] # Idle
             /\ running' = [running EXCEPT ![w] = Idle]
             /\ UNCHANGED queue /\ open' = open

Close == /\ open
         /\ open' = FALSE
         /\ UNCHANGED <<queue, running>>

QueueNext == \/ \E r \in Items : Submit(r)
             \/ \E w \in Workers : Take(w) \/ Finish(w)
             \/ Close

\* While the pool is open a waiting item and an idle worker do not stay
\* apart for ever, and a worker finishes what it took.  Nothing is promised
\* of the items left when the pool is destroyed.
QueueFairness == /\ WF_queueVars(\E w \in Workers : open /\ Take(w))
                 /\ \A w \in Workers : WF_queueVars(open /\ Finish(w))

QueueSpec == QueueInit /\ [][QueueNext]_queueVars /\ QueueFairness
=============================================================================
