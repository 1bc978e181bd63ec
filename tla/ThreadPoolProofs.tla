--------------------------- MODULE ThreadPoolProofs ---------------------------
(* Proofs about ThreadPool for any number of threads and any queue bound.    *)
EXTENDS ThreadPool, FiniteSetTheorems, SequenceTheorems, TLAPS

(* A set that loses or gains one element, as Posting and Woken do.           *)
LEMMA CardinalitySteps ==
  ASSUME NEW S, IsFiniteSet(S), NEW x
  PROVE  /\ Cardinality(S) \in Nat
         /\ x \in S => Cardinality(S) > 0 /\ Cardinality(S \ {x}) = Cardinality(S) - 1
         /\ x \notin S => Cardinality(S \cup {x}) = Cardinality(S) + 1
<1>1. Cardinality(S) \in Nat
  BY FS_CardinalityType
<1>2. x \in S => Cardinality(S) # 0
  BY FS_EmptySet
<1>3. x \in S => Cardinality(S \ {x}) = Cardinality(S) - 1
  BY FS_RemoveElement
<1>4. x \notin S => Cardinality(S \cup {x}) = Cardinality(S) + 1
  BY FS_AddElement
<1> QED
  BY <1>1, <1>2, <1>3, <1>4

(* Every variable keeps its type, and a caller never runs worker code.       *)
LEMMA TypeStep == TypeOK /\ [Next]_vars => TypeOK'
<1> SUFFICES ASSUME TypeOK, [Next]_vars PROVE TypeOK'
  OBVIOUS
<1> USE DEF TypeOK, Threads, Pointers, CallerPc, WorkerPc, At, Goto
<1>1. CASE CreateFails
  BY <1>1 DEF CreateFails
<1>2. CASE Destroy
  BY <1>2 DEF Destroy
<1>3. ASSUME NEW c \in Callers, NEW r \in Pointers, AppendLock(c, r) PROVE TypeOK'
  BY <1>3, ThreadsAssumption DEF AppendLock, Lock
<1>4. ASSUME NEW c \in Callers, AppendStep(c) PROVE TypeOK'
  <2>1. CASE Refuse(c)
    BY <2>1, ThreadsAssumption DEF Refuse
  <2>2. CASE Push(c)
    <3>1. workqueue' \in Seq(Pointers)
      BY <2>2, AppendProperties DEF Push
    <3> QED
      BY <3>1, <2>2, ThreadsAssumption DEF Push
  <2>3. CASE UnlockRefused(c)
    BY <2>3, ThreadsAssumption DEF UnlockRefused, Unlock
  <2>4. CASE UnlockPushed(c)
    BY <2>4, ThreadsAssumption DEF UnlockPushed, Unlock
  <2>5. CASE Post(c)
    BY <2>5, ThreadsAssumption DEF Post, SemPost
  <2> QED
    BY <1>4, <2>1, <2>2, <2>3, <2>4, <2>5 DEF AppendStep
<1>5. ASSUME NEW w \in Workers, Create(w) PROVE TypeOK'
  BY <1>5, ThreadsAssumption DEF Create
<1>6. ASSUME NEW w \in Workers, LockWorker(w) PROVE TypeOK'
  BY <1>6, ThreadsAssumption DEF LockWorker, Lock
<1>7. ASSUME NEW w \in Workers, RunStep(w) PROVE TypeOK'
  <2>1. CASE Loop(w)
    BY <2>1, ThreadsAssumption DEF Loop
  <2>2. CASE Wait(w)
    BY <2>2, ThreadsAssumption DEF Wait, SemWait
  <2>3. CASE Pop(w)
    <3>1. CASE workqueue = <<>>
      BY <2>3, <3>1, ThreadsAssumption DEF Pop
    <3>2. CASE workqueue # <<>>
      <4>1. Head(workqueue) \in Pointers /\ Tail(workqueue) \in Seq(Pointers)
        BY <3>2, HeadTailProperties
      <4> QED
        BY <2>3, <3>2, <4>1, ThreadsAssumption DEF Pop
    <3> QED
      BY <3>1, <3>2
  <2>4. CASE UnlockWorker(w)
    BY <2>4, ThreadsAssumption DEF UnlockWorker, Unlock
  <2>5. CASE Process(w)
    BY <2>5, ThreadsAssumption DEF Process
  <2> QED
    BY <1>7, <2>1, <2>2, <2>3, <2>4, <2>5 DEF RunStep
<1>8. CASE UNCHANGED vars
  BY <1>8 DEF vars
<1>9. ASSUME EndMembers \/ \E w \in Workers : Misuse(w) PROVE TypeOK'
  BY <1>9 DEF EndMembers, Misuse
<1> QED
  BY <1>1, <1>2, <1>3, <1>4, <1>5, <1>6, <1>7, <1>8, <1>9 DEF Next

(* The constructor leaves every variable with its type.                       *)
LEMMA InitType == Init => TypeOK
<1> SUFFICES ASSUME Init PROVE TypeOK
  OBVIOUS
<1>1. workqueue \in Seq(Pointers)
  BY EmptySeq DEF Init
<1>2. pc \in [Threads -> CallerPc \cup WorkerPc]
  BY DEF Init, CallerPc, WorkerPc
<1>3. \A c \in Callers : pc[c] \in CallerPc
  BY DEF Init, CallerPc, Threads
<1>4. \A w \in Workers : pc[w] \in WorkerPc
  BY ThreadsAssumption DEF Init, WorkerPc, Threads
<1>5. request \in [Threads -> Pointers]
  BY DEF Init, Pointers
<1> QED
  BY <1>1, <1>2, <1>3, <1>4, <1>5 DEF Init, TypeOK

(* TypeOK holds in every reachable state.                                    *)
THEOREM TypeCorrect == Spec => []TypeOK
<1>1. Init => TypeOK
  BY InitType
<1> QED
  BY <1>1, TypeStep, PTL DEF Spec

(* Who owns the mutex is in a critical section, and the other way round.     *)
LEMMA MutexStep == TypeOK /\ MutualExclusion /\ [Next]_vars => MutualExclusion'
<1> SUFFICES ASSUME TypeOK, MutualExclusion, [Next]_vars PROVE MutualExclusion'
  OBVIOUS
<1> USE ThreadsAssumption
    DEF TypeOK, MutualExclusion, InCriticalSection, Threads, CallerPc, WorkerPc, At, Goto
<1>1. CASE CreateFails
  BY <1>1 DEF CreateFails
<1>2. CASE Destroy
  BY <1>2 DEF Destroy
<1>3. ASSUME NEW c \in Callers, NEW r \in Pointers, AppendLock(c, r) PROVE MutualExclusion'
  BY <1>3 DEF AppendLock, Lock
<1>4. ASSUME NEW c \in Callers, AppendStep(c) PROVE MutualExclusion'
  BY <1>4 DEF AppendStep, Refuse, Push, UnlockRefused, UnlockPushed, Post, Unlock
<1>5. ASSUME NEW w \in Workers, Create(w) PROVE MutualExclusion'
  BY <1>5 DEF Create
<1>6. ASSUME NEW w \in Workers, LockWorker(w) PROVE MutualExclusion'
  BY <1>6 DEF LockWorker, Lock
<1>7. ASSUME NEW w \in Workers, RunStep(w) PROVE MutualExclusion'
  BY <1>7 DEF RunStep, Loop, Wait, Pop, UnlockWorker, Process, Unlock
<1>8. CASE UNCHANGED vars
  BY <1>8 DEF vars
<1>9. ASSUME EndMembers \/ \E w \in Workers : Misuse(w) PROVE MutualExclusion'
  BY <1>9 DEF EndMembers, Misuse
<1> QED
  BY <1>1, <1>2, <1>3, <1>4, <1>5, <1>6, <1>7, <1>8, <1>9 DEF Next

(* The two critical sections of the pool exclude one another.                *)
THEOREM MutexCorrect == Spec => []MutualExclusion
<1>1. Init => MutualExclusion
  BY ThreadsAssumption DEF Init, MutualExclusion, InCriticalSection, Threads
<1> QED
  BY <1>1, InitType, TypeStep, MutexStep, PTL DEF Spec

(* The two sets that the balance counts are finite.                          *)
LEMMA CountedSets ==
  /\ IsFiniteSet(Posting) /\ Cardinality(Posting) \in Nat
  /\ IsFiniteSet(Woken) /\ Cardinality(Woken) \in Nat
<1>1. IsFiniteSet(Posting) /\ IsFiniteSet(Woken)
  BY ThreadsAssumption, FS_Subset DEF Posting, Woken
<1> QED
  BY <1>1, FS_CardinalityType

(* A worker that was woken finds a pointer to pop.                           *)
LEMMA WokenFindsPointer ==
  ASSUME TypeOK, WakeupBalance, NEW w \in Woken
  PROVE  workqueue # <<>>
<1>1. Cardinality(Woken) > 0
  BY CountedSets, CardinalitySteps
<1>2. Len(workqueue) > 0
  BY <1>1, CountedSets DEF WakeupBalance, TypeOK
<1> QED
  BY <1>2

(* A step that moves no pointer, permit or thread past a counted place.      *)
LEMMA BalanceKept ==
  ASSUME WakeupBalance, Len(workqueue') = Len(workqueue), queuestat' = queuestat,
         Posting' = Posting, Woken' = Woken
  PROVE  WakeupBalance'
  BY DEF WakeupBalance

(* The balance is inductive: one case per action, one set moved in each.     *)
LEMMA BalanceStep == TypeOK /\ WakeupBalance /\ [Next]_vars => WakeupBalance'
<1> SUFFICES ASSUME TypeOK, WakeupBalance, [Next]_vars PROVE WakeupBalance'
  OBVIOUS
<1> USE ThreadsAssumption DEF At, Goto
<1>0. pc \in [Threads -> CallerPc \cup WorkerPc] /\ Threads = Callers \cup Workers
  BY DEF TypeOK, Threads
<1>1. CASE CreateFails
  BY <1>1, BalanceKept DEF CreateFails, Posting, Woken
<1>2. CASE Destroy
  BY <1>2, BalanceKept DEF Destroy, Posting, Woken
<1>3. ASSUME NEW c \in Callers, NEW r \in Pointers, AppendLock(c, r) PROVE WakeupBalance'
  <2>1. Posting' = Posting /\ Woken' = Woken
    BY <1>0, <1>3 DEF AppendLock, Posting, Woken
  <2> QED
    BY <1>3, <2>1, BalanceKept DEF AppendLock
<1>4. ASSUME NEW c \in Callers, AppendStep(c) PROVE WakeupBalance'
  <2>1. Woken' = Woken
    BY <1>0, <1>4 DEF AppendStep, Refuse, Push, UnlockRefused, UnlockPushed, Post, Woken
  <2>2. CASE Refuse(c) \/ UnlockRefused(c) \/ UnlockPushed(c)
    <3>1. Posting' = Posting
      BY <1>0, <2>2 DEF Refuse, UnlockRefused, UnlockPushed, Posting
    <3> QED
      BY <2>1, <2>2, <3>1, BalanceKept DEF Refuse, UnlockRefused, UnlockPushed
  <2>3. CASE Push(c)
    <3>1. c \notin Posting /\ Posting' = Posting \cup {c}
      BY <1>0, <2>3 DEF Push, Posting
    <3>2. Cardinality(Posting') = Cardinality(Posting) + 1
      BY <3>1, CountedSets, CardinalitySteps
    <3>3. Len(workqueue') = Len(workqueue) + 1
      <4>1. request[c] \in Pointers
        BY DEF TypeOK, Threads
      <4> QED
        BY <2>3, <4>1, AppendProperties DEF Push, TypeOK
    <3> QED
      BY <2>1, <2>3, <3>2, <3>3, CountedSets DEF Push, WakeupBalance, TypeOK
  <2>4. CASE Post(c)
    <3>1. c \in Posting /\ Posting' = Posting \ {c}
      BY <1>0, <2>4 DEF Post, Posting
    <3>2. Cardinality(Posting') = Cardinality(Posting) - 1
      BY <3>1, CountedSets, CardinalitySteps
    <3> QED
      BY <2>1, <2>4, <3>2, CountedSets DEF Post, SemPost, WakeupBalance, TypeOK
  <2> QED
    BY <1>4, <2>2, <2>3, <2>4 DEF AppendStep
<1>5. ASSUME NEW w \in Workers, Create(w) PROVE WakeupBalance'
  <2>1. Posting' = Posting /\ Woken' = Woken
    BY <1>0, <1>5 DEF Create, Posting, Woken
  <2> QED
    BY <1>5, <2>1, BalanceKept DEF Create
<1>6. ASSUME NEW w \in Workers, LockWorker(w) PROVE WakeupBalance'
  <2>1. Posting' = Posting /\ Woken' = Woken
    BY <1>0, <1>6 DEF LockWorker, Posting, Woken
  <2> QED
    BY <1>6, <2>1, BalanceKept DEF LockWorker
<1>7. ASSUME NEW w \in Workers, RunStep(w) PROVE WakeupBalance'
  <2>1. Posting' = Posting
    BY <1>0, <1>7 DEF RunStep, Loop, Wait, Pop, UnlockWorker, Process, Posting
  <2>2. CASE Loop(w) \/ UnlockWorker(w) \/ Process(w)
    <3>1. Woken' = Woken
      BY <1>0, <2>2 DEF Loop, UnlockWorker, Process, Woken
    <3> QED
      BY <2>1, <2>2, <3>1, BalanceKept DEF Loop, UnlockWorker, Process
  <2>3. CASE Wait(w)
    <3>1. w \notin Woken /\ Woken' = Woken \cup {w}
      BY <1>0, <2>3 DEF Wait, Woken
    <3>2. Cardinality(Woken') = Cardinality(Woken) + 1
      BY <3>1, CountedSets, CardinalitySteps
    <3> QED
      BY <2>1, <2>3, <3>2, CountedSets DEF Wait, SemWait, WakeupBalance, TypeOK
  <2>4. CASE Pop(w)
    <3>1. w \in Woken
      BY <2>4 DEF Pop, Woken
    <3>2. workqueue # <<>>
      BY <3>1, WokenFindsPointer
    <3>3. Woken' = Woken \ {w}
      BY <1>0, <2>4, <3>2 DEF Pop, Woken
    <3>4. Cardinality(Woken') = Cardinality(Woken) - 1
      BY <3>1, <3>3, CountedSets, CardinalitySteps
    <3>5. Len(workqueue') = Len(workqueue) - 1
      BY <2>4, <3>2, HeadTailProperties DEF Pop, TypeOK
    <3> QED
      BY <2>1, <2>4, <3>4, <3>5, CountedSets DEF Pop, WakeupBalance, TypeOK
  <2> QED
    BY <1>7, <2>2, <2>3, <2>4 DEF RunStep
<1>8. CASE UNCHANGED vars
  BY <1>8, BalanceKept DEF vars, Posting, Woken
<1>9. ASSUME EndMembers \/ \E w \in Workers : Misuse(w) PROVE WakeupBalance'
  BY <1>9, BalanceKept DEF EndMembers, Misuse, Posting, Woken
<1> QED
  BY <1>1, <1>2, <1>3, <1>4, <1>5, <1>6, <1>7, <1>8, <1>9 DEF Next

(* Before the first append all three terms are zero.                         *)
LEMMA InitBalance == Init => WakeupBalance
<1> SUFFICES ASSUME Init PROVE WakeupBalance
  OBVIOUS
<1>1. Posting = {} /\ Woken = {}
  BY ThreadsAssumption DEF Init, Posting, Woken, Threads
<1>2. Cardinality(Posting) = 0 /\ Cardinality(Woken) = 0
  BY <1>1, FS_EmptySet
<1> QED
  BY <1>2 DEF Init, WakeupBalance

(* No wakeup is lost and none is spurious, for any number of threads.        *)
THEOREM WakeupsCorrect == Spec => []WakeupBalance
  BY InitType, TypeStep, InitBalance, BalanceStep, PTL DEF Spec

(* The early continue of run() on an empty queue is never taken.             *)
THEOREM EmptyBranchDead == Spec => []NeverWokenForNothing
<1>1. Init => NeverWokenForNothing
  BY ThreadsAssumption DEF Init, NeverWokenForNothing, Threads
<1>2. TypeOK /\ WakeupBalance /\ NeverWokenForNothing /\ [Next]_vars
        => NeverWokenForNothing'
  <2> SUFFICES ASSUME TypeOK, WakeupBalance, NeverWokenForNothing, [Next]_vars,
                      NEW v \in Workers
               PROVE  pc'[v] # "empty"
    BY DEF NeverWokenForNothing
  <2>1. \A w \in Workers : Pop(w) => pc' = [pc EXCEPT ![w] = "popped"]
    <3> SUFFICES ASSUME NEW w \in Workers, Pop(w) PROVE pc' = [pc EXCEPT ![w] = "popped"]
      OBVIOUS
    <3>1. w \in Woken
      BY DEF Pop, Woken, At
    <3> QED
      BY <3>1, WokenFindsPointer DEF Pop, Goto
  <2> QED
    BY <2>1, ThreadsAssumption
    DEF NeverWokenForNothing, TypeOK, Threads, Next, vars, CreateFails, Destroy,
        AppendLock, AppendStep, Refuse, Push, UnlockRefused, UnlockPushed, Post, Create,
        LockWorker, RunStep, Loop, Wait, UnlockWorker, Process, EndMembers, Misuse, At,
        Goto
<1> QED
  BY <1>1, <1>2, InitType, TypeStep, InitBalance, BalanceStep, PTL DEF Spec

(* The queue exceeds m_max_requests by at most one entry.                    *)
THEOREM QueueBounded == Spec => []QueueBound
<1>1. Init => QueueBound
  BY ArgumentsAssumption, EmptySeq DEF Init, QueueBound
<1>2. TypeOK /\ QueueBound /\ [Next]_vars => QueueBound'
  <2> SUFFICES ASSUME TypeOK, QueueBound, [Next]_vars PROVE QueueBound'
    OBVIOUS
  <2>1. ASSUME NEW c \in Callers, Push(c) PROVE QueueBound'
    <3>1. Len(workqueue') = Len(workqueue) + 1
      <4>1. request[c] \in Pointers
        BY DEF TypeOK, Threads
      <4> QED
        BY <2>1, <4>1, AppendProperties DEF Push, TypeOK
    <3> QED
      BY <2>1, <3>1, ArgumentsAssumption DEF Push, Full, QueueBound, TypeOK
  <2>2. ASSUME NEW w \in Workers, Pop(w) PROVE QueueBound'
    <3>1. CASE workqueue = <<>>
      BY <2>2, <3>1 DEF Pop, QueueBound
    <3>2. CASE workqueue # <<>>
      <4>1. Len(workqueue') = Len(workqueue) - 1 /\ Len(workqueue) \in Nat
        BY <2>2, <3>2, HeadTailProperties DEF Pop, TypeOK
      <4> QED
        BY <4>1, ArgumentsAssumption DEF QueueBound
    <3> QED
      BY <3>1, <3>2
  <2>3. CASE UNCHANGED workqueue
    BY <2>3 DEF QueueBound
  <2> QED
    BY <2>1, <2>2, <2>3
    DEF Next, vars, CreateFails, Destroy, AppendLock, AppendStep, Refuse, UnlockRefused,
        UnlockPushed, Post, Create, LockWorker, RunStep, Loop, Wait, UnlockWorker, Process,
        EndMembers, Misuse
<1> QED
  BY <1>1, <1>2, InitType, TypeStep, PTL DEF Spec

(* Calls of append and the destructor do not overlap.                        *)
LEMMA QuietStep == TypeOK /\ QuietAfterStop /\ [Next]_vars => QuietAfterStop'
  BY ThreadsAssumption
  DEF QuietAfterStop, TypeOK, Threads, Next, vars, CreateFails, Destroy, AppendLock,
      AppendStep, Refuse, Push, UnlockRefused, UnlockPushed, Post, Create, LockWorker,
      RunStep, Loop, Wait, Pop, UnlockWorker, Process, EndMembers, Misuse, At, Goto

(* Every step of the pool is a step of the abstract queue or leaves it alone:*)
(* push is Submit, pop is Take, the end of process() or the dropping of a    *)
(* null pointer is Finish, the destructor is Close.                          *)
LEMMA RefinementStep ==
  TypeOK /\ WakeupBalance /\ QuietAfterStop /\ [Next]_vars
    => [Contract!QueueNext]_(Contract!queueVars)
<1> SUFFICES ASSUME TypeOK, WakeupBalance, QuietAfterStop, [Next]_vars
             PROVE  [Contract!QueueNext]_(Contract!queueVars)
  OBVIOUS
<1> USE ThreadsAssumption, NobodyAssumption DEF At, Goto, Holding
<1>0. /\ pc \in [Threads -> CallerPc \cup WorkerPc] /\ request \in [Threads -> Pointers]
      /\ Threads = Callers \cup Workers
  BY DEF TypeOK, Threads
<1>1. ASSUME Held' = Held, workqueue' = workqueue, stop' = stop
      PROVE  UNCHANGED Contract!queueVars
  BY <1>1 DEF Contract!queueVars
<1>2. CASE CreateFails
  BY <1>1, <1>2 DEF CreateFails, Held
<1>3. CASE Destroy
  <2>1. Contract!Close
    BY <1>3 DEF Destroy, Held, Contract!Close
  <2> QED
    BY <2>1 DEF Contract!QueueNext
<1>4. ASSUME NEW c \in Callers, NEW r \in Pointers, AppendLock(c, r)
      PROVE  UNCHANGED Contract!queueVars
  <2>1. Held' = Held
    BY <1>0, <1>4 DEF AppendLock, Held
  <2> QED
    BY <1>1, <1>4, <2>1 DEF AppendLock
<1>5. ASSUME NEW c \in Callers, AppendStep(c)
      PROVE  [Contract!QueueNext]_(Contract!queueVars)
  <2>1. Held' = Held
    BY <1>0, <1>5 DEF AppendStep, Refuse, Push, UnlockRefused, UnlockPushed, Post, Held
  <2>2. CASE Push(c)
    <3>1. Len(workqueue) < MaxRequests + 1
      BY <2>2, ArgumentsAssumption DEF Push, Full, TypeOK
    <3>2. request[c] \in Pointers
      BY <1>0
    <3>3. ~stop
      BY <2>2 DEF Push, QuietAfterStop
    <3>4. Contract!Submit(request[c])
      BY <2>1, <2>2, <3>1, <3>3 DEF Push, Contract!Submit
    <3> QED
      BY <3>2, <3>4 DEF Contract!QueueNext
  <2>3. CASE ~Push(c)
    BY <1>1, <1>5, <2>1, <2>3 DEF AppendStep, Refuse, UnlockRefused, UnlockPushed, Post
  <2> QED
    BY <2>2, <2>3
<1>6. ASSUME NEW w \in Workers, Create(w) \/ LockWorker(w) \/ Loop(w) \/ Wait(w)
      PROVE  UNCHANGED Contract!queueVars
  <2>1. Held' = Held
    BY <1>0, <1>6 DEF Create, LockWorker, Loop, Wait, Held
  <2> QED
    BY <1>1, <1>6, <2>1 DEF Create, LockWorker, Loop, Wait
<1>7. ASSUME NEW w \in Workers, Pop(w) PROVE Contract!QueueNext
  <2>1. workqueue # <<>>
    <3>1. w \in Woken
      BY <1>7 DEF Pop, Woken
    <3> QED
      BY <3>1, WokenFindsPointer
  <2>2. Held[w] = Nobody
    BY <1>7 DEF Pop, Held
  <2>3. Held' = [Held EXCEPT ![w] = Head(workqueue)]
    BY <1>0, <1>7, <2>1 DEF Pop, Held
  <2>4. Contract!Take(w)
    BY <1>7, <2>1, <2>2, <2>3 DEF Pop, Contract!Take
  <2> QED
    BY <2>4 DEF Contract!QueueNext
<1>8. ASSUME NEW w \in Workers, UnlockWorker(w) \/ Process(w)
      PROVE  [Contract!QueueNext]_(Contract!queueVars)
  <2>1. CASE Held' = Held
    BY <1>1, <1>8, <2>1 DEF UnlockWorker, Process
  <2>2. CASE Held' # Held
    <3>1. /\ Holding(w) /\ Held[w] # Nobody
          /\ Held' = [Held EXCEPT ![w] = Nobody]
      <4>1. CASE UnlockWorker(w)
        BY <1>0, <2>2, <4>1 DEF UnlockWorker, Held
      <4>2. CASE Process(w)
        BY <1>0, <2>2, <4>2 DEF Process, Held
      <4> QED
        BY <1>8, <4>1, <4>2
    <3>2. Contract!Finish(w)
      BY <1>8, <3>1 DEF UnlockWorker, Process, Contract!Finish
    <3> QED
      BY <3>2 DEF Contract!QueueNext
  <2> QED
    BY <2>1, <2>2
<1>9. CASE UNCHANGED vars
  BY <1>1, <1>9 DEF vars, Held
<1>10. ASSUME EndMembers \/ \E w \in Workers : Misuse(w)
       PROVE  UNCHANGED Contract!queueVars
  BY <1>1, <1>10 DEF EndMembers, Misuse, Held
<1> QED
  BY <1>2, <1>3, <1>4, <1>5, <1>6, <1>7, <1>8, <1>9, <1>10 DEF Next, RunStep

(* The safety part of ImplementsWorkQueue, for any threads and any bound: a  *)
(* pointer that append accepted is handed to one worker, once, in order.     *)
THEOREM PoolIsWorkQueue ==
  Spec => Contract!QueueInit /\ [][Contract!QueueNext]_(Contract!queueVars)
<1>1. Init => Contract!QueueInit
  BY ThreadsAssumption DEF Init, Contract!QueueInit, Held, Holding, Threads
<1>2. Init => QuietAfterStop
  BY DEF Init, QuietAfterStop
<1> QED
  BY <1>1, <1>2, InitType, TypeStep, InitBalance, BalanceStep, QuietStep, RefinementStep,
     PTL DEF Spec
=============================================================================
