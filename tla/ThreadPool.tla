------------------------------ MODULE ThreadPool ------------------------------
(* 7/threadpool.h over 7/locker.h (6/ holds the same two files): the queue   *)
(* of request pointers, the mutex that guards it, the semaphore that counts  *)
(* it, the threads that call append and the detached worker threads.  One    *)
(* action per access to shared state.                                        *)
EXTENDS Integers, Sequences, FiniteSets

CONSTANTS Callers,      \* threads that call append()
          Workers,      \* the m_thread_number threads running run()
          Requests,     \* T objects a pointer may point to
          Null,         \* the null pointer, which append() accepts too
          Nobody,       \* owner of m_queuelocker when it is free
          MaxRequests   \* m_max_requests

Threads == Callers \cup Workers
Pointers == Requests \cup {Null}

ASSUME ThreadsAssumption ==
  /\ IsFiniteSet(Callers) /\ IsFiniteSet(Workers)
  /\ Callers \cap Workers = {}
  /\ Nobody \notin Threads
ASSUME NullAssumption == Null \notin Requests
ASSUME NobodyAssumption == Nobody \notin Pointers
\* the constructor throws unless both arguments are positive
ASSUME ArgumentsAssumption == MaxRequests \in Nat \ {0} /\ Workers # {}

VARIABLES ctor,        \* progress of the constructor: "creating", "built", "failed"
          workqueue,   \* m_workqueue
          mutex,       \* owner of m_queuelocker
          queuestat,   \* value of the semaphore m_queuestat
          stop,        \* m_stop
          pc,          \* where each thread is
          request,     \* the local variable request of append() and of run(),
                       \* Null while it is not in scope
          members      \* m_queuelocker, m_queuestat and m_workqueue: "alive",
                       \* "gone", or "misused" once a thread has used a gone one

vars == <<ctor, workqueue, mutex, queuestat, stop, pc, request, members>>

CallerPc == {"idle", "locked", "pushed", "refused", "post"}
WorkerPc == {"unborn", "loop", "wait", "woken", "locked", "popped", "empty",
             "process", "left"}

Init == /\ ctor = "creating"
        /\ workqueue = <<>>
        /\ mutex = Nobody
        /\ queuestat = 0
        /\ stop = FALSE
        /\ pc = [t \in Threads |-> IF t \in Callers THEN "idle" ELSE "unborn"]
        /\ request = [t \in Threads |-> Null]
        /\ members = "alive"

At(t, l) == pc[t] = l
Goto(t, l) == pc' = [pc EXCEPT ![t] = l]

(* ------------------------------- locker.h -------------------------------- *)

LockNoWait(t) == mutex' = t
Lock(t) == mutex = Nobody /\ mutex' = t

Unlock(t) == mutex = t /\ mutex' = Nobody

SemPost == queuestat' = queuestat + 1

SemWait == queuestat > 0 /\ queuestat' = queuestat - 1

(* ------------------------ constructor, destructor ------------------------ *)

\* pthread_create and pthread_detach succeeded for one more thread.
Create(w) ==
  /\ ctor = "creating"
  /\ At(w, "unborn") /\ Goto(w, "loop")
  /\ ctor' = IF \A v \in Workers \ {w} : ~At(v, "unborn") THEN "built" ELSE ctor
  /\ UNCHANGED <<workqueue, mutex, queuestat, stop, request, members>>

\* pthread_create or pthread_detach failed: the constructor throws, and the
\* threads that it has already started are not told.
CreateFails ==
  /\ ctor = "creating"
  /\ ctor' = "failed"
  /\ UNCHANGED <<workqueue, mutex, queuestat, stop, pc, request, members>>

\* The destructor sets the flag and neither posts nor joins.  It runs when no
\* call of append is in progress.
Destroy ==
  /\ ctor = "built" /\ ~stop
  /\ \A c \in Callers : At(c, "idle")
  /\ stop' = TRUE
  /\ UNCHANGED <<ctor, workqueue, mutex, queuestat, pc, request, members>>

\* After the body of the destructor, and when the constructor throws, the
\* members are destroyed in turn, whatever the detached workers are doing.
EndMembers ==
  /\ stop \/ ctor = "failed"
  /\ members = "alive" /\ members' = "gone"
  /\ UNCHANGED <<ctor, workqueue, mutex, queuestat, stop, pc, request>>

\* A worker outside process() waits for, locks or reads a member next.  When
\* the members are gone that is undefined, and the model ends there.
Misuse(w) ==
  /\ members = "gone" /\ members' = "misused"
  /\ pc[w] \in {"loop", "wait", "woken", "locked", "popped", "empty"}
  /\ UNCHANGED <<ctor, workqueue, mutex, queuestat, stop, pc, request>>

(* -------------------------------- append --------------------------------- *)

\* The call, up to the moment it owns the lock.
AppendLock(c, r) ==
  /\ ctor = "built" /\ ~stop
  /\ At(c, "idle") /\ Goto(c, "locked")
  /\ Lock(c)
  /\ request' = [request EXCEPT ![c] = r]
  /\ UNCHANGED <<ctor, workqueue, queuestat, stop, members>>

\* append compares with >, so the queue may hold MaxRequests + 1 pointers.
Full == Len(workqueue) > MaxRequests

Refuse(c) ==
  /\ At(c, "locked") /\ Goto(c, "refused")
  /\ Full
  /\ UNCHANGED <<ctor, workqueue, mutex, queuestat, stop, request, members>>

PushFront(c) ==
  /\ At(c, "locked") /\ Goto(c, "pushed")
  /\ ~Full
  /\ workqueue' = <<request[c]>> \o workqueue
  /\ UNCHANGED <<ctor, mutex, queuestat, stop, request, members>>
Push(c) ==
  /\ At(c, "locked") /\ Goto(c, "pushed")
  /\ ~Full
  /\ workqueue' = Append(workqueue, request[c])
  /\ UNCHANGED <<ctor, mutex, queuestat, stop, request, members>>

\* append unlocks and either returns false or goes on to post
UnlockRefused(c) ==
  /\ At(c, "refused") /\ Goto(c, "idle")
  /\ Unlock(c)
  /\ request' = [request EXCEPT ![c] = Null]
  /\ UNCHANGED <<ctor, workqueue, queuestat, stop, members>>

UnlockPushed(c) ==
  /\ At(c, "pushed") /\ Goto(c, "post")
  /\ Unlock(c)
  /\ UNCHANGED <<ctor, workqueue, queuestat, stop, request, members>>

Post(c) ==
  /\ At(c, "post") /\ Goto(c, "idle")
  /\ SemPost
  /\ request' = [request EXCEPT ![c] = Null]
  /\ UNCHANGED <<ctor, workqueue, mutex, stop, members>>

(* ---------------------------------- run ---------------------------------- *)

\* while (!m_stop)
Loop(w) ==
  /\ members = "alive"
  /\ At(w, "loop")
  /\ Goto(w, IF stop THEN "left" ELSE "wait")
  /\ UNCHANGED <<ctor, workqueue, mutex, queuestat, stop, request, members>>

Wait(w) ==
  /\ members = "alive"
  /\ At(w, "wait") /\ Goto(w, "woken")
  /\ SemWait
  /\ UNCHANGED <<ctor, workqueue, mutex, stop, request, members>>

LockWorker(w) ==
  /\ members = "alive"
  /\ At(w, "woken") /\ Goto(w, "locked")
  /\ Lock(w)
  /\ UNCHANGED <<ctor, workqueue, queuestat, stop, request, members>>

\* front and pop_front, or the early continue on an empty queue
PeekOnly(w) ==
  /\ members = "alive"
  /\ At(w, "locked")
  /\ IF workqueue = <<>>
     THEN Goto(w, "empty") /\ UNCHANGED <<workqueue, request>>
     ELSE /\ Goto(w, "popped")
          /\ request' = [request EXCEPT ![w] = Head(workqueue)]
          /\ UNCHANGED workqueue
  /\ UNCHANGED <<ctor, mutex, queuestat, stop, members>>
Pop(w) ==
  /\ members = "alive"
  /\ At(w, "locked")
  /\ IF workqueue = <<>>
     THEN Goto(w, "empty") /\ UNCHANGED <<workqueue, request>>
     ELSE /\ Goto(w, "popped")
          /\ request' = [request EXCEPT ![w] = Head(workqueue)]
          /\ workqueue' = Tail(workqueue)
  /\ UNCHANGED <<ctor, mutex, queuestat, stop, members>>

\* A null pointer is popped and ignored.
UnlockWorker(w) ==
  /\ members = "alive"
  /\ At(w, "popped") \/ At(w, "empty")
  /\ Goto(w, IF At(w, "popped") /\ request[w] # Null THEN "process" ELSE "loop")
  /\ Unlock(w)
  /\ UNCHANGED <<ctor, workqueue, queuestat, stop, request, members>>

Process(w) ==
  /\ At(w, "process") /\ Goto(w, "loop")
  /\ request' = [request EXCEPT ![w] = Null]
  /\ UNCHANGED <<ctor, workqueue, mutex, queuestat, stop, members>>

(* ------------------------------------------------------------------------- *)

AppendStep(c) ==
  Refuse(c) \/ Push(c) \/ UnlockRefused(c) \/ UnlockPushed(c) \/ Post(c)
RunStep(w) == Loop(w) \/ Wait(w) \/ Pop(w) \/ UnlockWorker(w) \/ Process(w)

Next == \/ CreateFails
        \/ Destroy
        \/ EndMembers
        \/ \E c \in Callers : AppendStep(c) \/ \E r \in Pointers : AppendLock(c, r)
        \/ \E w \in Workers : Create(w) \/ LockWorker(w) \/ RunStep(w) \/ Misuse(w)

\* Threads are scheduled: a thread that can go on does.  The mutex is not
\* fair to a given thread, only to the workers as a group: callers cannot
\* keep the lock from all of them for ever.  Nobody has to call append,
\* the constructor may fail and the pool need not be destroyed.
Fairness == /\ \A c \in Callers : WF_vars(AppendStep(c))
            /\ \A w \in Workers : WF_vars(RunStep(w))
            /\ SF_vars(\E w \in Workers : LockWorker(w))

Spec == Init /\ [][Next]_vars /\ Fairness

(* ------------------------------ properties ------------------------------- *)

\* Every variable has its type, and a thread is at a place of its own code.
TypeOK ==
  /\ ctor \in {"creating", "built", "failed"}
  /\ workqueue \in Seq(Pointers)
  /\ mutex \in Threads \cup {Nobody}
  /\ queuestat \in Nat
  /\ stop \in BOOLEAN
  /\ pc \in [Threads -> CallerPc \cup WorkerPc]
  /\ \A c \in Callers : pc[c] \in CallerPc
  /\ \A w \in Workers : pc[w] \in WorkerPc
  /\ request \in [Threads -> Pointers]
  /\ members \in {"alive", "gone", "misused"}

InCriticalSection(t) == pc[t] \in {"locked", "pushed", "refused", "popped", "empty"}

\* Lines 62-68 and 84-91 of threadpool.h exclude one another: a thread is
\* between lock and unlock exactly when it owns the mutex.
MutualExclusion == \A t \in Threads : InCriticalSection(t) <=> mutex = t

Posting == {c \in Callers : pc[c] \in {"pushed", "post"}}
Woken == {w \in Workers : pc[w] \in {"woken", "locked"}}

\* Every queued pointer is accounted for: it has a permit in the semaphore,
\* or its caller has pushed and not yet posted, or a worker has been woken
\* for it and has not popped.  No wakeup is lost and none is spurious.
WakeupBalance == Len(workqueue) = queuestat + Cardinality(Posting) + Cardinality(Woken)

\* A woken worker never finds the queue empty: the branch at 85-88 of
\* threadpool.h is dead.
NeverWokenForNothing == \A w \in Workers : pc[w] # "empty"

\* The queue outgrows m_max_requests by at most one.
QueueBound == Len(workqueue) <= MaxRequests + 1

\* A worker holds a pointer from the pop to the end of process().
Holding(w) == pc[w] \in {"popped", "process"}

Held == [w \in Workers |-> IF Holding(w) THEN request[w] ELSE Nobody]

\* No call of append is in progress once the destructor has run.
QuietAfterStop == stop => \A c \in Callers : pc[c] = "idle"

\* What WorkQueue speaks of, in this pool
Contract == INSTANCE WorkQueue
              WITH Items <- Pointers, Idle <- Nobody, Capacity <- MaxRequests + 1,
                   queue <- workqueue,
                   running <- Held,
                   open <- ~stop

\* threadpool.h:60-98: the pool is a WorkQueue, the contract WebServer relies on.  A
\* pointer that append accepted is taken once, in order, by one worker, and while the
\* pool lives workers keep emptying the queue.
ImplementsWorkQueue == Contract!QueueSpec
=============================================================================
