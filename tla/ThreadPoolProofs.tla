-------------------------- MODULE ThreadPoolProofs --------------------------
(***************************************************************************)
(* Proofs about the pool of HW4/my_pool.c for every number of threads,     *)
(* every number of tasks and every number of spurious wakeups.             *)
(* IInv of ThreadPool is inductive: InitInv and NextInv below, the latter  *)
(* put together from one lemma for each of its parts.                      *)
(***************************************************************************)
EXTENDS ThreadPool, SequenceTheorems, TLAPS

USE PoolAssumption DEF Workers, Tasks, Main, Nobody, NoTask, LinkLast

-----------------------------------------------------------------------------
(* The initial state.                                                      *)
LEMMA InitInv == Init => IInv
  <1> SUFFICES ASSUME Init PROVE IInv
    OBVIOUS
  <1>1. /\ task_queue = << >> /\ Len(task_queue) = 0
        /\ \A w \in Workers : wpc[w] = "unborn" /\ task[w] = NoTask
        /\ \A t \in Tasks : runs[t] = 0
    BY EmptySeq DEF Init
  <1>2. TypeOK
    <2>1. task_queue \in Seq(Tasks)
      BY EmptySeq DEF Init
    <2>2. /\ wpc = [w \in Workers |-> "unborn"]
          /\ task = [w \in Workers |-> NoTask]
          /\ runs = [t \in Tasks |-> 0]
      BY DEF Init
    <2> QED
      BY <2>1, <2>2 DEF Init, TypeOK
  <1>3. ControlInv
    BY <1>1 DEF Init, ControlInv, LockInv, StopInv, LoopInv, FreedAfterExit
  <1>4. QueueInv
    BY <1>1 DEF Init, QueueInv, Started, QueueInOrder, ClientInv, HandInv
  <1>5. EachTaskOnce
    BY <1>1 DEF Init, EachTaskOnce, Started, InHand
  <1>6. WakeupInv
    BY <1>1 DEF Init, WakeupInv, WorkConserving, WaiterIsOwedSignal
  <1> QED BY <1>2, <1>3, <1>4, <1>5, <1>6 DEF IInv

-----------------------------------------------------------------------------
(* Sequences: what Append and Tail do to the queue.                        *)
LEMMA QueueAppend ==
  ASSUME NEW S, NEW q \in Seq(S), NEW e \in S
  PROVE  /\ Append(q, e) \in Seq(S) /\ Append(q, e) # << >>
         /\ Len(Append(q, e)) = Len(q) + 1
         /\ \A k \in 1..Len(q) : Append(q, e)[k] = q[k]
         /\ Append(q, e)[Len(q) + 1] = e
  BY AppendProperties

LEMMA QueueTail ==
  ASSUME NEW S, NEW q \in Seq(S), q # << >>
  PROVE  /\ Head(q) \in S /\ Head(q) = q[1]
         /\ Tail(q) \in Seq(S) /\ Len(q) \in Nat \ {0}
         /\ Len(Tail(q)) = Len(q) - 1
         /\ \A k \in 1..Len(q) - 1 : Tail(q)[k] = q[k + 1]
  BY HeadTailProperties, EmptySeq

-----------------------------------------------------------------------------
(* Type correctness.                                                       *)
LEMMA TypeNext == IInv /\ [Next]_vars => TypeOK'
  <1> SUFFICES ASSUME IInv, [Next]_vars PROVE TypeOK'
    OBVIOUS
  <1>0. TypeOK /\ ClientInv /\ HandInv /\ Started \in 0..NTasks
    <2>1. TypeOK /\ ClientInv /\ HandInv /\ Started >= 0
      BY DEF IInv, QueueInv
    <2>2. Len(task_queue) \in Nat
      BY <2>1 DEF TypeOK
    <2> QED BY <2>1, <2>2 DEF TypeOK, Started
  <1>1. CASE CreateWorker
    BY <1>0, <1>1 DEF CreateWorker, TypeOK
  <1>2. CASE Call
    BY <1>0, <1>2 DEF Call, TypeOK
  <1>3. CASE MainLock
    BY <1>0, <1>3 DEF MainLock, Acquire, TypeOK
  <1>4. CASE Enqueue
    <2>1. added + 1 \in Tasks
      BY <1>0, <1>4 DEF Enqueue, TypeOK, ClientInv
    <2>2. Append(task_queue, added + 1) \in Seq(Tasks)
      BY <1>0, <2>1, QueueAppend DEF TypeOK
    <2> QED
      BY <1>0, <1>4, <2>1, <2>2 DEF Enqueue, Release, WakeWorkers, TypeOK
  <1>5. CASE WaitTest
    BY <1>0, <1>5 DEF WaitTest, Release, TypeOK
  <1>6. CASE SetStop
    BY <1>0, <1>6 DEF SetStop, Release, WakeWorkers, TypeOK
  <1>7. CASE JoinWorker
    BY <1>0, <1>7 DEF JoinWorker, TypeOK
  <1>8. CASE FreePool
    BY <1>0, <1>8 DEF FreePool, TypeOK
  <1>9. CASE SpuriousWakeup
    <2>1. spurious' \in 0..MaxSpurious
      BY <1>0, <1>9 DEF SpuriousWakeup, TypeOK
    <2>2. CASE mpc = "asleep" /\ mpc' = "woken" /\ UNCHANGED wpc
      BY <1>0, <1>9, <2>1, <2>2 DEF SpuriousWakeup, TypeOK
    <2>3. ASSUME NEW w \in Workers, wpc[w] = "asleep",
                 wpc' = [wpc EXCEPT ![w] = "woken"], UNCHANGED mpc
          PROVE  TypeOK'
      BY <1>0, <1>9, <2>1, <2>3 DEF SpuriousWakeup, TypeOK
    <2> QED BY <1>9, <2>2, <2>3 DEF SpuriousWakeup
  <1>10. ASSUME NEW w \in Workers, WorkerLock(w) PROVE TypeOK'
    BY <1>0, <1>10 DEF WorkerLock, Acquire, TypeOK
  <1>11. ASSUME NEW w \in Workers, WorkerTest(w) PROVE TypeOK'
    <2>1. task_queue # << >> => Head(task_queue) \in Tasks
      BY <1>0, QueueTail DEF TypeOK
    <2> QED
      BY <1>0, <1>11, <2>1 DEF WorkerTest, Release, TypeOK
  <1>12. ASSUME NEW w \in Workers, WorkerPop(w) PROVE TypeOK'
    <2>1. Tail(task_queue) \in Seq(Tasks)
      BY <1>0, <1>12, QueueTail DEF WorkerPop, HandInv, TypeOK
    <2> QED
      BY <1>0, <1>12, <2>1 DEF WorkerPop, Release, TypeOK
  <1>13. ASSUME NEW w \in Workers, WorkerRun(w) PROVE TypeOK'
    <2>1. task[w] \in Tasks
      BY <1>0, <1>13 DEF WorkerRun, HandInv
    <2> QED BY <1>0, <1>13, <2>1 DEF WorkerRun, TypeOK
  <1>14. ASSUME NEW w \in Workers, WorkerCheck(w) PROVE TypeOK'
    BY <1>0, <1>14 DEF WorkerCheck, Release, WakeMain, TypeOK
  <1>15. CASE UNCHANGED vars
    BY <1>0, <1>15 DEF vars, TypeOK
  <1> QED
    BY <1>1, <1>2, <1>3, <1>4, <1>5, <1>6, <1>7, <1>8, <1>9, <1>10, <1>11,
       <1>12, <1>13, <1>14, <1>15 DEF Next, MainStep, WorkerStep
-----------------------------------------------------------------------------
(* Mutual exclusion.                                                       *)
LEMMA LockNext == IInv /\ [Next]_vars => LockInv'
  <1> SUFFICES ASSUME IInv, [Next]_vars PROVE LockInv'
    OBVIOUS
  <1>0. TypeOK /\ LockInv /\ LoopInv
    BY DEF IInv, ControlInv
  <1>1. CASE CreateWorker
    <2>1. wpc[i] = "unborn"
      BY <1>0, <1>1 DEF CreateWorker, LoopInv, TypeOK
    <2>2. /\ mpc = "create" /\ mpc' \in {"create", "ready"}
          /\ queue_lock' = queue_lock
      BY <1>0, <1>1 DEF CreateWorker
    <2>3. \A w \in Workers : wpc'[w] = IF w = i THEN "lock" ELSE wpc[w]
      BY <1>0, <1>1 DEF CreateWorker, TypeOK
    <2> QED BY <1>0, <1>1, <2>1, <2>2, <2>3 DEF LockInv, TypeOK
  <1>2. CASE Call
    BY <1>0, <1>2 DEF Call, TypeOK, LockInv
  <1>3. CASE MainLock
    BY <1>0, <1>3 DEF MainLock, Acquire, TypeOK, LockInv
  <1>4. CASE Enqueue
    BY <1>0, <1>4 DEF Enqueue, Release, WakeWorkers, TypeOK, LockInv
  <1>5. CASE WaitTest
    BY <1>0, <1>5 DEF WaitTest, Release, TypeOK, LockInv
  <1>6. CASE SetStop
    BY <1>0, <1>6 DEF SetStop, Release, WakeWorkers, TypeOK, LockInv
  <1>7. CASE JoinWorker
    BY <1>0, <1>7 DEF JoinWorker, TypeOK, LockInv
  <1>8. CASE FreePool
    BY <1>0, <1>8 DEF FreePool, TypeOK, LockInv
  <1>9. CASE SpuriousWakeup
    BY <1>0, <1>9 DEF SpuriousWakeup, TypeOK, LockInv
  <1>10. ASSUME NEW w \in Workers, WorkerLock(w) PROVE LockInv'
    BY <1>0, <1>10 DEF WorkerLock, Acquire, TypeOK, LockInv
  <1>11. ASSUME NEW w \in Workers, WorkerTest(w) PROVE LockInv'
    <2>1. \A v \in Workers : v # w => wpc'[v] = wpc[v]
      BY <1>0, <1>11 DEF WorkerTest, TypeOK
    <2>2. \/ wpc'[w] \in {"asleep", "exited"} /\ queue_lock' = Nobody
          \/ wpc'[w] = "pop" /\ queue_lock' = queue_lock
      BY <1>0, <1>11 DEF WorkerTest, Release, TypeOK
    <2>3. queue_lock = w /\ mpc' = mpc
      BY <1>0, <1>11 DEF WorkerTest, LockInv
    <2> QED BY <1>0, <2>1, <2>2, <2>3 DEF LockInv, TypeOK
  <1>12. ASSUME NEW w \in Workers, WorkerPop(w) PROVE LockInv'
    BY <1>0, <1>12 DEF WorkerPop, Release, TypeOK, LockInv
  <1>13. ASSUME NEW w \in Workers, WorkerRun(w) PROVE LockInv'
    BY <1>0, <1>13 DEF WorkerRun, TypeOK, LockInv
  <1>14. ASSUME NEW w \in Workers, WorkerCheck(w) PROVE LockInv'
    BY <1>0, <1>14 DEF WorkerCheck, Release, WakeMain, TypeOK, LockInv
  <1>15. CASE UNCHANGED vars
    BY <1>0, <1>15 DEF vars, TypeOK, LockInv
  <1> QED
    BY <1>1, <1>2, <1>3, <1>4, <1>5, <1>6, <1>7, <1>8, <1>9, <1>10, <1>11,
       <1>12, <1>13, <1>14, <1>15 DEF Next, MainStep, WorkerStep

-----------------------------------------------------------------------------
(* The order to stop.                                                      *)
LEMMA StopNext == IInv /\ [Next]_vars => StopInv'
  <1> SUFFICES ASSUME IInv, [Next]_vars PROVE StopInv'
    OBVIOUS
  <1>0. TypeOK /\ StopInv /\ LoopInv
    BY DEF IInv, ControlInv
  <1>1. CASE CreateWorker
    BY <1>0, <1>1 DEF CreateWorker, TypeOK, StopInv
  <1>2. CASE Call
    BY <1>0, <1>2 DEF Call, TypeOK, StopInv
  <1>3. CASE MainLock
    BY <1>0, <1>3 DEF MainLock, Acquire, TypeOK, StopInv
  <1>4. CASE Enqueue
    BY <1>0, <1>4 DEF Enqueue, Release, WakeWorkers, TypeOK, StopInv
  <1>5. CASE WaitTest
    BY <1>0, <1>5 DEF WaitTest, Release, TypeOK, StopInv
  <1>6. CASE SetStop
    BY <1>0, <1>6 DEF SetStop, Release, WakeWorkers, TypeOK, StopInv
  <1>7. CASE JoinWorker
    BY <1>0, <1>7 DEF JoinWorker, TypeOK, StopInv
  <1>8. CASE FreePool
    BY <1>0, <1>8 DEF FreePool, TypeOK, StopInv
  <1>9. CASE SpuriousWakeup
    BY <1>0, <1>9 DEF SpuriousWakeup, TypeOK, StopInv
  <1>10. ASSUME NEW w \in Workers, WorkerLock(w) PROVE StopInv'
    BY <1>0, <1>10 DEF WorkerLock, Acquire, TypeOK, StopInv
  <1>11. ASSUME NEW w \in Workers, WorkerTest(w) PROVE StopInv'
    BY <1>0, <1>11 DEF WorkerTest, Release, TypeOK, StopInv
  <1>12. ASSUME NEW w \in Workers, WorkerPop(w) PROVE StopInv'
    BY <1>0, <1>12 DEF WorkerPop, Release, TypeOK, StopInv
  <1>13. ASSUME NEW w \in Workers, WorkerRun(w) PROVE StopInv'
    BY <1>0, <1>13 DEF WorkerRun, TypeOK, StopInv
  <1>14. ASSUME NEW w \in Workers, WorkerCheck(w) PROVE StopInv'
    BY <1>0, <1>14 DEF WorkerCheck, Release, WakeMain, TypeOK, StopInv
  <1>15. CASE UNCHANGED vars
    BY <1>0, <1>15 DEF vars, TypeOK, StopInv
  <1> QED
    BY <1>1, <1>2, <1>3, <1>4, <1>5, <1>6, <1>7, <1>8, <1>9, <1>10, <1>11,
       <1>12, <1>13, <1>14, <1>15 DEF Next, MainStep, WorkerStep

-----------------------------------------------------------------------------
(* The loops that create and join the threads.                             *)
LEMMA LoopNext == IInv /\ [Next]_vars => LoopInv'
  <1> SUFFICES ASSUME IInv, [Next]_vars PROVE LoopInv'
    OBVIOUS
  <1>0. TypeOK /\ LoopInv
    BY DEF IInv, ControlInv
  <1>1. CASE CreateWorker
    BY <1>0, <1>1 DEF CreateWorker, TypeOK, LoopInv, FreedAfterExit
  <1>2. CASE Call
    BY <1>0, <1>2 DEF Call, TypeOK, LoopInv, FreedAfterExit
  <1>3. CASE MainLock
    BY <1>0, <1>3 DEF MainLock, Acquire, TypeOK, LoopInv, FreedAfterExit
  <1>4. CASE Enqueue
    BY <1>0, <1>4 DEF Enqueue, Release, WakeWorkers, TypeOK, LoopInv, FreedAfterExit
  <1>5. CASE WaitTest
    BY <1>0, <1>5 DEF WaitTest, Release, TypeOK, LoopInv, FreedAfterExit
  <1>6. CASE SetStop
    BY <1>0, <1>6 DEF SetStop, Release, WakeWorkers, TypeOK, LoopInv, FreedAfterExit
  <1>7. CASE JoinWorker
    BY <1>0, <1>7 DEF JoinWorker, TypeOK, LoopInv, FreedAfterExit
  <1>8. CASE FreePool
    BY <1>0, <1>8 DEF FreePool, TypeOK, LoopInv, FreedAfterExit
  <1>9. CASE SpuriousWakeup
    BY <1>0, <1>9 DEF SpuriousWakeup, TypeOK, LoopInv, FreedAfterExit
  <1>10. ASSUME NEW w \in Workers, WorkerLock(w) PROVE LoopInv'
    BY <1>0, <1>10 DEF WorkerLock, Acquire, TypeOK, LoopInv, FreedAfterExit
  <1>11. ASSUME NEW w \in Workers, WorkerTest(w) PROVE LoopInv'
    BY <1>0, <1>11 DEF WorkerTest, Release, TypeOK, LoopInv, FreedAfterExit
  <1>12. ASSUME NEW w \in Workers, WorkerPop(w) PROVE LoopInv'
    BY <1>0, <1>12 DEF WorkerPop, Release, TypeOK, LoopInv, FreedAfterExit
  <1>13. ASSUME NEW w \in Workers, WorkerRun(w) PROVE LoopInv'
    BY <1>0, <1>13 DEF WorkerRun, TypeOK, LoopInv, FreedAfterExit
  <1>14. ASSUME NEW w \in Workers, WorkerCheck(w) PROVE LoopInv'
    BY <1>0, <1>14 DEF WorkerCheck, Release, WakeMain, TypeOK, LoopInv, FreedAfterExit
  <1>15. CASE UNCHANGED vars
    BY <1>0, <1>15 DEF vars, TypeOK, LoopInv, FreedAfterExit
  <1> QED
    BY <1>1, <1>2, <1>3, <1>4, <1>5, <1>6, <1>7, <1>8, <1>9, <1>10, <1>11,
       <1>12, <1>13, <1>14, <1>15 DEF Next, MainStep, WorkerStep

-----------------------------------------------------------------------------
(* The queue: only tpool_add appends to it, only a worker's pop shortens   *)
(* it, and neither changes the order of what stays.                        *)
LEMMA QueueSteps ==
  IInv /\ [Next]_vars =>
    \/ UNCHANGED <<task_queue, added>>
    \/ Enqueue
    \/ \E w \in Workers : WorkerPop(w)
  BY DEF Next, MainStep, WorkerStep, CreateWorker, Call, MainLock, WaitTest,
         SetStop, JoinWorker, FreePool, SpuriousWakeup, WorkerLock, WorkerTest,
         WorkerRun, WorkerCheck, vars

LEMMA EnqueueStarted ==
  ASSUME IInv, Enqueue
  PROVE  /\ Started' = Started /\ Len(task_queue') = Len(task_queue) + 1
         /\ Len(task_queue) \in Nat /\ task_queue' # << >>
         /\ \A k \in 1..Len(task_queue) : task_queue'[k] = task_queue[k]
         /\ task_queue'[Len(task_queue) + 1] = added + 1
         /\ Head(task_queue') = task_queue'[1]
  <1>1. TypeOK /\ ClientInv
    BY DEF IInv, QueueInv
  <1>2. added + 1 \in Tasks /\ task_queue' = Append(task_queue, added + 1)
        /\ added' = added + 1
    BY <1>1 DEF Enqueue, TypeOK, ClientInv
  <1>3. /\ Len(task_queue') = Len(task_queue) + 1 /\ Len(task_queue) \in Nat
        /\ task_queue' # << >> /\ task_queue' \in Seq(Tasks)
        /\ \A k \in 1..Len(task_queue) : task_queue'[k] = task_queue[k]
        /\ task_queue'[Len(task_queue) + 1] = added + 1
    <2> DEFINE q == Append(task_queue, added + 1)
    <2>1. task_queue \in Seq(Tasks) /\ added + 1 \in Tasks
      BY <1>1, <1>2 DEF TypeOK
    <2>2. /\ q \in Seq(Tasks) /\ q # << >>
          /\ Len(q) = Len(task_queue) + 1
          /\ \A k \in 1..Len(task_queue) : q[k] = task_queue[k]
          /\ q[Len(task_queue) + 1] = added + 1
      BY <2>1, QueueAppend
    <2>3. Len(task_queue) \in Nat
      BY <2>1
    <2> QED BY <2>2, <2>3, <1>2
  <1>4. Head(task_queue') = task_queue'[1]
    BY <1>3, QueueTail
  <1>5. Started' = Started
    BY <1>1, <1>2, <1>3 DEF Started, TypeOK
  <1> QED BY <1>3, <1>4, <1>5

LEMMA PopStarted ==
  ASSUME IInv, NEW w \in Workers, WorkerPop(w)
  PROVE  /\ Started' = Started + 1 /\ Started \in Nat
         /\ Len(task_queue') = Len(task_queue) - 1
         /\ Len(task_queue) \in Nat \ {0}
         /\ \A k \in 1..Len(task_queue') : task_queue'[k] = task_queue[k + 1]
         /\ task[w] = Started + 1
  <1>1. TypeOK /\ HandInv /\ QueueInOrder /\ Started >= 0
    BY DEF IInv, QueueInv
  <1>2. /\ task_queue # << >> /\ task[w] = Head(task_queue)
        /\ task_queue' = Tail(task_queue) /\ added' = added
    BY <1>1 DEF WorkerPop, HandInv
  <1>3. /\ Len(task_queue') = Len(task_queue) - 1
        /\ Len(task_queue) \in Nat \ {0}
        /\ \A k \in 1..Len(task_queue') : task_queue'[k] = task_queue[k + 1]
        /\ task[w] = task_queue[1]
    BY <1>1, <1>2, QueueTail DEF TypeOK
  <1>4. Started' = Started + 1 /\ Started \in Nat
    BY <1>1, <1>2, <1>3 DEF Started, TypeOK
  <1>5. task[w] = Started + 1
    BY <1>1, <1>3 DEF QueueInOrder
  <1> QED BY <1>3, <1>4, <1>5

LEMMA OrderNext == IInv /\ [Next]_vars => Started' >= 0 /\ QueueInOrder'
  <1> SUFFICES ASSUME IInv, [Next]_vars PROVE Started' >= 0 /\ QueueInOrder'
    OBVIOUS
  <1>0. TypeOK /\ QueueInOrder /\ Started >= 0
    BY DEF IInv, QueueInv
  <1>1. CASE UNCHANGED <<task_queue, added>>
    BY <1>0, <1>1 DEF Started, QueueInOrder
  <1>2. CASE Enqueue
    <2>1. Started + Len(task_queue) = added /\ Started \in Int
      BY <1>0 DEF Started, TypeOK
    <2>2. ASSUME NEW k \in 1..Len(task_queue') PROVE task_queue'[k] = Started' + k
      <3>1. k \in 1..Len(task_queue) \/ k = Len(task_queue) + 1
        BY <1>0, <1>2, EnqueueStarted
      <3>2. CASE k \in 1..Len(task_queue)
        BY <1>0, <1>2, <3>2, EnqueueStarted DEF QueueInOrder
      <3>3. CASE k = Len(task_queue) + 1
        BY <1>0, <1>2, <2>1, <3>3, EnqueueStarted
      <3> QED BY <3>1, <3>2, <3>3
    <2> QED BY <1>0, <1>2, <2>2, EnqueueStarted DEF QueueInOrder
  <1>3. ASSUME NEW w \in Workers, WorkerPop(w)
        PROVE  Started' >= 0 /\ QueueInOrder'
    <2>1. ASSUME NEW k \in 1..Len(task_queue') PROVE task_queue'[k] = Started' + k
      <3>1. k + 1 \in 1..Len(task_queue) /\ task_queue'[k] = task_queue[k + 1]
        BY <1>3, PopStarted
      <3>2. task_queue[k + 1] = Started + (k + 1)
        BY <1>0, <3>1 DEF QueueInOrder
      <3> QED BY <1>3, <3>1, <3>2, PopStarted
    <2> QED BY <1>3, <2>1, PopStarted DEF QueueInOrder
  <1> QED BY <1>1, <1>2, <1>3, QueueSteps

-----------------------------------------------------------------------------
(* Started never falls, and changes only in a pop.                         *)
LEMMA StartedSteps ==
  IInv /\ [Next]_vars =>
    /\ Started \in 0..NTasks /\ Started' \in 0..NTasks
    /\ Started' >= Started
    /\ Started' = Started \/ \E w \in Workers : WorkerPop(w)
  <1> SUFFICES ASSUME IInv, [Next]_vars
               PROVE  /\ Started \in 0..NTasks /\ Started' \in 0..NTasks
                      /\ Started' >= Started
                      /\ Started' = Started \/ \E w \in Workers : WorkerPop(w)
    OBVIOUS
  <1>1. TypeOK /\ Started >= 0 /\ TypeOK' /\ Started' >= 0
    BY TypeNext, OrderNext DEF IInv, QueueInv
  <1>2. Started \in 0..NTasks /\ Started' \in 0..NTasks
    <2>1. Len(task_queue) \in Nat /\ Len(task_queue') \in Nat
      BY <1>1 DEF TypeOK
    <2> QED BY <1>1, <2>1 DEF TypeOK, Started
  <1>3. CASE UNCHANGED <<task_queue, added>>
    BY <1>2, <1>3 DEF Started
  <1>4. CASE Enqueue
    BY <1>2, <1>4, EnqueueStarted
  <1>5. ASSUME NEW w \in Workers, WorkerPop(w)
        PROVE  Started' >= Started /\ \E v \in Workers : WorkerPop(v)
    BY <1>2, <1>5, PopStarted
  <1> QED BY <1>2, <1>3, <1>4, <1>5, QueueSteps

(* The client, and what it knows when tpool_wait returns.                  *)
LEMMA ClientNext == IInv /\ [Next]_vars => ClientInv'
  <1> SUFFICES ASSUME IInv, [Next]_vars PROVE ClientInv'
    OBVIOUS
  <1>0. /\ TypeOK /\ ClientInv
        /\ Started \in Int /\ Started' \in Int /\ Started' >= Started
    BY StartedSteps DEF IInv, QueueInv
  <1>1. CASE WaitTest
    <2>1. task_queue = << >> => Started' = added
      BY <1>0, <1>1 DEF WaitTest, Started, TypeOK
    <2> QED BY <1>0, <1>1, <2>1 DEF WaitTest, ClientInv, TypeOK
  <1>2. ASSUME UNCHANGED <<added, waited>>,
               mpc' \in {"add", "enqueue"} =>
                 mpc \in {"add", "enqueue"} \/ added < NTasks
        PROVE  ClientInv'
    BY <1>0, <1>2 DEF ClientInv, TypeOK
  <1>3. CASE Enqueue
    BY <1>0, <1>3 DEF Enqueue, ClientInv, TypeOK
  <1>4. CASE CreateWorker \/ Call \/ MainLock \/ SetStop \/ JoinWorker \/ FreePool
    BY <1>2, <1>4 DEF CreateWorker, Call, MainLock, SetStop, JoinWorker, FreePool
  <1>5. CASE SpuriousWakeup \/ UNCHANGED vars
    BY <1>2, <1>5 DEF SpuriousWakeup, vars
  <1>6. ASSUME NEW w \in Workers, WorkerStep(w) PROVE ClientInv'
    BY <1>2, <1>6 DEF WorkerStep, WorkerLock, WorkerTest, WorkerPop, WorkerRun,
                      WorkerCheck, WakeMain
  <1> QED BY <1>1, <1>3, <1>4, <1>5, <1>6 DEF Next, MainStep

(* What a worker has in hand: the queue and stop do not change between its *)
(* test and its pop, because it holds the mutex.                           *)
LEMMA HandNext == IInv /\ [Next]_vars => HandInv'
  <1> SUFFICES ASSUME IInv, [Next]_vars PROVE HandInv'
    OBVIOUS
  <1>0. /\ TypeOK /\ LockInv /\ HandInv
        /\ Started \in 0..NTasks /\ Started' \in 0..NTasks /\ Started' >= Started
    BY StartedSteps DEF IInv, ControlInv, QueueInv
  <1>1. ASSUME \A w \in Workers : wpc'[w] \in {"pop", "run"} =>
                                    wpc'[w] = wpc[w] /\ task'[w] = task[w],
               \A w \in Workers : wpc[w] = "pop" =>
                                    UNCHANGED <<task_queue, stop>>
        PROVE  HandInv'
    BY <1>0, <1>1 DEF HandInv
  <1>2. CASE CreateWorker \/ Call \/ MainLock \/ WaitTest \/ JoinWorker \/ FreePool
    BY <1>0, <1>1, <1>2 DEF CreateWorker, Call, MainLock, WaitTest, JoinWorker,
                            FreePool, TypeOK
  <1>3. CASE Enqueue
    BY <1>0, <1>1, <1>3 DEF Enqueue, WakeWorkers, LockInv, TypeOK
  <1>4. CASE SetStop
    BY <1>0, <1>1, <1>4 DEF SetStop, WakeWorkers, LockInv, TypeOK
  <1>5. CASE SpuriousWakeup \/ UNCHANGED vars
    BY <1>0, <1>1, <1>5 DEF SpuriousWakeup, vars, TypeOK
  <1>6. ASSUME NEW w \in Workers, WorkerLock(w) \/ WorkerRun(w) \/ WorkerCheck(w)
        PROVE  HandInv'
    BY <1>0, <1>1, <1>6 DEF WorkerLock, WorkerRun, WorkerCheck, TypeOK
  <1>7. ASSUME NEW w \in Workers, WorkerTest(w) PROVE HandInv'
    <2>1. \A v \in Workers : v # w => wpc'[v] = wpc[v] /\ task'[v] = task[v]
      BY <1>0, <1>7 DEF WorkerTest, TypeOK
    <2>2. wpc'[w] = "pop" => /\ task_queue # << >> /\ stop = 0
                             /\ task'[w] = Head(task_queue)
      BY <1>0, <1>7 DEF WorkerTest, TypeOK
    <2>3. wpc'[w] # "run" /\ UNCHANGED <<task_queue, stop>>
      BY <1>0, <1>7 DEF WorkerTest, TypeOK
    <2> QED BY <1>0, <2>1, <2>2, <2>3 DEF HandInv
  <1>8. ASSUME NEW w \in Workers, WorkerPop(w) PROVE HandInv'
    <2>1. task[w] \in 1..Started'
      BY <1>8, PopStarted
    <2>2. \A v \in Workers : v # w => wpc[v] # "pop" /\ wpc'[v] = wpc[v]
      BY <1>0, <1>8 DEF WorkerPop, LockInv, TypeOK
    <2>3. wpc'[w] = "run" /\ task' = task
      BY <1>0, <1>8 DEF WorkerPop, TypeOK
    <2> QED BY <1>0, <2>1, <2>2, <2>3 DEF HandInv
  <1> QED BY <1>2, <1>3, <1>4, <1>5, <1>6, <1>7, <1>8
          DEF Next, MainStep, WorkerStep

-----------------------------------------------------------------------------
(* Each task taken is run once: a pop puts the next task into the hands of *)
(* one worker, a run takes it out of them.                                 *)
LEMMA OnceNext == IInv /\ [Next]_vars => EachTaskOnce'
  <1> SUFFICES ASSUME IInv, [Next]_vars PROVE EachTaskOnce'
    OBVIOUS
  <1>0. /\ TypeOK /\ HandInv /\ EachTaskOnce
        /\ Started \in 0..NTasks /\ Started' \in 0..NTasks
        /\ Started' = Started \/ \E w \in Workers : WorkerPop(w)
    BY StartedSteps DEF IInv, QueueInv
  <1>1. ASSUME Started' = Started, runs' = runs,
               \A w \in Workers : wpc[w] = "run" <=> wpc'[w] = "run",
               \A w \in Workers : wpc[w] = "run" => task'[w] = task[w]
        PROVE  EachTaskOnce'
    BY <1>0, <1>1 DEF EachTaskOnce, InHand
  <1>2. ASSUME NEW w \in Workers, WorkerPop(w) PROVE EachTaskOnce'
    <2> DEFINE n == Started + 1
    <2>1. /\ Started' = n /\ task[w] = n /\ n \in Tasks
      BY <1>0, <1>2, PopStarted
    <2>2. /\ runs' = runs /\ task' = task /\ wpc[w] # "run" /\ wpc'[w] = "run"
          /\ \A v \in Workers : v # w => wpc'[v] = wpc[v]
      BY <1>0, <1>2 DEF WorkerPop, TypeOK
    <2>3. \A v \in Workers : wpc[v] = "run" => task[v] # n
      BY <1>0 DEF HandInv
    <2>4. \A t \in Tasks : InHand(t)' <=> InHand(t) \/ t = n
      BY <2>1, <2>2 DEF InHand
    <2>5. \A t \in Tasks : runs'[t] = IF t <= Started' /\ ~InHand(t)' THEN 1 ELSE 0
      <3> TAKE t \in Tasks
      <3>1. CASE t = n
        <4>1. runs[t] = 0
          BY <1>0, <3>1 DEF EachTaskOnce
        <4> QED BY <2>2, <2>4, <3>1, <4>1
      <3>2. CASE t # n
        <4>1. t <= Started <=> t <= Started'
          BY <1>0, <2>1, <3>2
        <4> QED BY <1>0, <2>2, <2>4, <3>2, <4>1 DEF EachTaskOnce
      <3> QED BY <3>1, <3>2
    <2>6. ASSUME NEW u \in Workers, NEW v \in Workers, wpc'[u] = "run",
                 wpc'[v] = "run", task'[u] = task'[v]
          PROVE  u = v
      BY <1>0, <2>1, <2>2, <2>3, <2>6 DEF EachTaskOnce
    <2> QED BY <2>5, <2>6 DEF EachTaskOnce
  <1>3. ASSUME NEW w \in Workers, WorkerRun(w) PROVE EachTaskOnce'
    <2> DEFINE n == task[w]
    <2>1. n \in 1..Started /\ n \in Tasks /\ wpc[w] = "run" /\ wpc'[w] = "relock"
      BY <1>0, <1>3 DEF WorkerRun, HandInv, TypeOK
    <2>2. \A v \in Workers : v # w => wpc'[v] = wpc[v] /\ task'[v] = task[v]
      BY <1>0, <1>3 DEF WorkerRun, TypeOK
    <2>3. \A t \in Tasks : runs'[t] = IF t = n THEN runs[t] + 1 ELSE runs[t]
      BY <1>0, <1>3 DEF WorkerRun, TypeOK
    <2>4. Started' = Started
      BY <1>3 DEF WorkerRun, Started
    <2>5. \A t \in Tasks : InHand(t)' <=> InHand(t) /\ t # n
      BY <1>0, <2>1, <2>2 DEF InHand, EachTaskOnce
    <2>6. runs[n] = 0
      BY <1>0, <2>1 DEF EachTaskOnce, InHand
    <2>7. \A t \in Tasks : runs'[t] = IF t <= Started' /\ ~InHand(t)' THEN 1 ELSE 0
      <3> TAKE t \in Tasks
      <3>1. CASE t = n
        BY <1>0, <2>1, <2>3, <2>4, <2>5, <2>6, <3>1
      <3>2. CASE t # n
        BY <1>0, <2>3, <2>4, <2>5, <3>2 DEF EachTaskOnce
      <3> QED BY <3>1, <3>2
    <2> QED BY <1>0, <2>1, <2>2, <2>7 DEF EachTaskOnce
  <1>4. CASE Call \/ MainLock \/ WaitTest \/ JoinWorker \/ FreePool
    BY <1>0, <1>1, <1>4 DEF Call, MainLock, WaitTest, JoinWorker, FreePool,
       TypeOK, Started
  <1>7. CASE Enqueue \/ SetStop
    <2>1. Started' = Started
      BY <1>7, EnqueueStarted DEF SetStop, Started
    <2> QED BY <1>0, <1>1, <1>7, <2>1 DEF Enqueue, SetStop, WakeWorkers, TypeOK
  <1>8. CASE CreateWorker
    <2>1. wpc[i] = "unborn"
      BY <1>8 DEF IInv, ControlInv, TypeOK, LoopInv, CreateWorker
    <2> QED BY <1>0, <1>1, <1>8, <2>1 DEF CreateWorker, TypeOK, Started
  <1>5. CASE SpuriousWakeup \/ UNCHANGED vars
    BY <1>0, <1>1, <1>5 DEF SpuriousWakeup, vars, TypeOK, Started
  <1>6. ASSUME NEW w \in Workers, WorkerLock(w) \/ WorkerTest(w) \/ WorkerCheck(w)
        PROVE  EachTaskOnce'
    BY <1>0, <1>1, <1>6 DEF WorkerLock, WorkerTest, WorkerCheck, TypeOK, Started
  <1> QED BY <1>2, <1>3, <1>4, <1>5, <1>6, <1>7, <1>8
          DEF Next, MainStep, WorkerStep

-----------------------------------------------------------------------------
(* No lost wakeups.                                                        *)
LEMMA ConservingNext == IInv /\ [Next]_vars => WorkConserving'
  <1> SUFFICES ASSUME IInv, [Next]_vars PROVE WorkConserving'
    OBVIOUS
  <1>0. TypeOK /\ WorkConserving /\ HandInv
    BY DEF IInv, QueueInv, WakeupInv
  <1>1. ASSUME task_queue' # << >> \/ stop' = 1 =>
                 \/ task_queue # << >> \/ stop = 1
                 \/ \A w \in Workers : wpc'[w] # "asleep",
               \A w \in Workers : wpc'[w] = "asleep" => wpc[w] = "asleep"
        PROVE  WorkConserving'
    BY <1>1, <1>0 DEF WorkConserving
  <1>2. CASE Enqueue \/ SetStop
    BY <1>0, <1>1, <1>2 DEF Enqueue, SetStop, WakeWorkers, TypeOK
  <1>3. CASE CreateWorker \/ Call \/ MainLock \/ WaitTest \/ JoinWorker \/ FreePool
    BY <1>0, <1>1, <1>3 DEF CreateWorker, Call, MainLock, WaitTest, JoinWorker,
                            FreePool, TypeOK
  <1>4. CASE SpuriousWakeup \/ UNCHANGED vars
    BY <1>0, <1>1, <1>4 DEF SpuriousWakeup, vars, TypeOK
  <1>5. ASSUME NEW w \in Workers, WorkerLock(w) \/ WorkerRun(w) \/ WorkerCheck(w)
        PROVE  WorkConserving'
    BY <1>0, <1>1, <1>5 DEF WorkerLock, WorkerRun, WorkerCheck, TypeOK
  <1>6. ASSUME NEW w \in Workers, WorkerPop(w) PROVE WorkConserving'
    <2>1. task_queue # << >>
      BY <1>0, <1>6 DEF WorkerPop, HandInv
    <2> QED BY <1>0, <1>1, <1>6, <2>1 DEF WorkerPop, TypeOK
  <1>7. ASSUME NEW w \in Workers, WorkerTest(w) PROVE WorkConserving'
    <2>1. \A v \in Workers : v # w => wpc'[v] = wpc[v]
      BY <1>0, <1>7 DEF WorkerTest, TypeOK
    <2>2. wpc'[w] = "asleep" => task_queue = << >> /\ stop = 0
      BY <1>0, <1>7 DEF WorkerTest, TypeOK
    <2>3. UNCHANGED <<task_queue, stop>>
      BY <1>7 DEF WorkerTest
    <2> QED BY <1>0, <2>1, <2>2, <2>3 DEF WorkConserving
  <1> QED BY <1>2, <1>3, <1>4, <1>5, <1>6, <1>7 DEF Next, MainStep, WorkerStep

LEMMA OwedNext == IInv /\ [Next]_vars => WaiterIsOwedSignal'
  <1> SUFFICES ASSUME IInv, [Next]_vars, mpc' = "asleep"
               PROVE  \/ task_queue' # << >>
                      \/ \E w \in Workers : wpc'[w] \in {"run", "relock", "check"}
    BY DEF WaiterIsOwedSignal
  <1>0. TypeOK /\ WaiterIsOwedSignal
    BY DEF IInv, WakeupInv
  <1>1. ASSUME mpc = "asleep", task_queue' = task_queue,
               \A w \in Workers : wpc[w] \in {"run", "relock", "check"} =>
                                    wpc'[w] \in {"run", "relock", "check"}
        PROVE  \/ task_queue' # << >>
               \/ \E w \in Workers : wpc'[w] \in {"run", "relock", "check"}
    BY <1>0, <1>1 DEF WaiterIsOwedSignal
  <1>2. CASE CreateWorker \/ Call \/ MainLock \/ Enqueue \/ SetStop
             \/ JoinWorker \/ FreePool
    BY <1>0, <1>2 DEF CreateWorker, Call, MainLock, Enqueue, SetStop,
                      JoinWorker, FreePool, TypeOK
  <1>3. CASE WaitTest
    BY <1>3 DEF WaitTest
  <1>4. CASE SpuriousWakeup \/ UNCHANGED vars
    BY <1>0, <1>1, <1>4 DEF SpuriousWakeup, vars, TypeOK
  <1>5. ASSUME NEW w \in Workers, WorkerPop(w)
        PROVE  wpc'[w] = "run"
    BY <1>0, <1>5 DEF WorkerPop, TypeOK
  <1>6. ASSUME NEW w \in Workers, WorkerCheck(w)
        PROVE  task_queue' # << >>
    BY <1>0, <1>6 DEF WorkerCheck, WakeMain
  <1>7. ASSUME NEW w \in Workers, WorkerLock(w) \/ WorkerTest(w) \/ WorkerRun(w)
        PROVE  \/ task_queue' # << >>
               \/ \E v \in Workers : wpc'[v] \in {"run", "relock", "check"}
    BY <1>0, <1>1, <1>7 DEF WorkerLock, WorkerTest, WorkerRun, TypeOK
  <1> QED BY <1>2, <1>3, <1>4, <1>5, <1>6, <1>7 DEF Next, MainStep, WorkerStep

-----------------------------------------------------------------------------
LEMMA NextInv == IInv /\ [Next]_vars => IInv'
  <1> SUFFICES ASSUME IInv, [Next]_vars PROVE IInv'
    OBVIOUS
  <1>1. TypeOK'
    BY TypeNext
  <1>2. ControlInv'
    BY LockNext, StopNext, LoopNext DEF ControlInv
  <1>3. QueueInv'
    BY OrderNext, ClientNext, HandNext DEF QueueInv
  <1>4. EachTaskOnce' /\ WakeupInv'
    BY OnceNext, ConservingNext, OwedNext DEF WakeupInv
  <1> QED BY <1>1, <1>2, <1>3, <1>4 DEF IInv

(* Every reachable state of the pool satisfies the inductive invariant.    *)
THEOREM PoolInductive == Spec => []IInv
  BY InitInv, NextInv, PTL DEF Spec

-----------------------------------------------------------------------------
(* Every variable of the pool keeps the range of its C object.             *)
THEOREM PoolTypeOK == Spec => []TypeOK
  <1>1. IInv => TypeOK
    BY DEF IInv
  <1> QED BY <1>1, PoolInductive, PTL

(* The linked list keeps submission order: no task is lost, duplicated or  *)
(* overtaken by the interleaving of tpool_add and tpool_worker.            *)
THEOREM PoolQueueInOrder == Spec => []QueueInOrder
  <1>1. IInv => QueueInOrder
    BY DEF IInv, QueueInv
  <1> QED BY <1>1, PoolInductive, PTL

(* Each task taken off the list is run exactly once, by one worker.        *)
THEOREM PoolEachTaskOnce == Spec => []EachTaskOnce
  <1>1. IInv => EachTaskOnce
    BY DEF IInv
  <1> QED BY <1>1, PoolInductive, PTL

(* A broadcast on the empty list only is enough: no worker sleeps while    *)
(* there is a task to run or the order to stop.                            *)
THEOREM PoolWorkConserving == Spec => []WorkConserving
  <1>1. IInv => WorkConserving
    BY DEF IInv, WakeupInv
  <1> QED BY <1>1, PoolInductive, PTL

(* A client asleep in tpool_wait is owed a signal on queue_empty.          *)
THEOREM PoolWaiterIsOwedSignal == Spec => []WaiterIsOwedSignal
  <1>1. IInv => WaiterIsOwedSignal
    BY DEF IInv, WakeupInv
  <1> QED BY <1>1, PoolInductive, PTL

(* tpool_destroy frees the pool after the last worker has left it.         *)
THEOREM PoolFreedAfterExit == Spec => []FreedAfterExit
  <1>1. IInv => FreedAfterExit
    BY DEF IInv, ControlInv, LoopInv
  <1> QED BY <1>1, PoolInductive, PTL

(* Tasks added before a tpool_wait returned have run when tpool_destroy    *)
(* returns.                                                                *)
THEOREM PoolWaitedForMeansRun == Spec => []WaitedForMeansRun
  <1>1. ASSUME IInv, mpc = "gone", NEW t \in 1..waited PROVE runs[t] = 1
    <2>1. /\ TypeOK /\ FreedAfterExit /\ EachTaskOnce
          /\ waited <= Started /\ Started \in Int
      BY <1>1 DEF IInv, ControlInv, LoopInv, QueueInv, ClientInv, TypeOK, Started
    <2>2. t \in Tasks /\ t <= Started
      BY <2>1 DEF TypeOK
    <2>3. ~InHand(t)
      BY <1>1, <2>1 DEF FreedAfterExit, InHand
    <2> QED BY <2>1, <2>2, <2>3 DEF EachTaskOnce
  <1>2. IInv => WaitedForMeansRun
    BY <1>1 DEF WaitedForMeansRun
  <1> QED BY <1>2, PoolInductive, PTL

-----------------------------------------------------------------------------
(* Refinement: how the running and the finished tasks change.              *)
LEMMA MappingSame ==
  ASSUME TypeOK, runs' = runs,
         \A w \in Workers : wpc[w] = "run" <=> wpc'[w] = "run",
         \A w \in Workers : wpc[w] = "run" => task'[w] = task[w]
  PROVE  Running' = Running /\ Finished' = Finished
  BY DEF Running, Finished, InHand

LEMMA MappingPop ==
  ASSUME IInv, NEW w \in Workers, WorkerPop(w)
  PROVE  Running' = Running \union {Head(task_queue)} /\ Finished' = Finished
  <1>1. TypeOK /\ HandInv
    BY DEF IInv, QueueInv
  <1>2. /\ task[w] = Head(task_queue) /\ Head(task_queue) \in Tasks
        /\ task' = task /\ wpc[w] # "run" /\ wpc'[w] = "run" /\ runs' = runs
        /\ \A v \in Workers : v # w => wpc'[v] = wpc[v]
    BY <1>1, QueueTail DEF WorkerPop, HandInv, TypeOK
  <1>3. \A t \in Tasks : InHand(t)' <=> InHand(t) \/ t = Head(task_queue)
    BY <1>2 DEF InHand
  <1> QED BY <1>2, <1>3 DEF Running, Finished

LEMMA MappingRun ==
  ASSUME IInv, NEW w \in Workers, WorkerRun(w)
  PROVE  /\ task[w] \in Running /\ Running' = Running \ {task[w]}
         /\ Finished' = Finished \union {task[w]}
  <1>1. TypeOK /\ HandInv /\ EachTaskOnce
    BY DEF IInv, QueueInv
  <1>0. task[w] \in Tasks
    BY <1>1 DEF WorkerRun, TypeOK, HandInv, IInv, QueueInv, Started
  <1>2. /\ task[w] \in Tasks /\ wpc[w] = "run" /\ wpc'[w] # "run"
        /\ \A v \in Workers : v # w => wpc'[v] = wpc[v] /\ task'[v] = task[v]
        /\ \A t \in Tasks : runs'[t] = IF t = task[w] THEN runs[t] + 1 ELSE runs[t]
    BY <1>0, <1>1 DEF WorkerRun, TypeOK
  <1>3. \A t \in Tasks : InHand(t)' <=> InHand(t) /\ t # task[w]
    BY <1>1, <1>2 DEF InHand, EachTaskOnce
  <1>4. InHand(task[w])
    BY <1>2 DEF InHand
  <1>5. \A t \in Tasks : runs[t] \in Nat
    BY <1>1 DEF TypeOK
  <1> QED BY <1>2, <1>3, <1>4, <1>5 DEF Running, Finished

(* Every step of the pool is a step of the executor or leaves it alone.    *)
LEMMA ExecutorStep == IInv /\ [Next]_vars => [Executor!Next]_(Executor!vars)
  <1> SUFFICES ASSUME IInv, [Next]_vars
               PROVE  Executor!Next \/ UNCHANGED Executor!vars
    OBVIOUS
  <1> USE DEF Executor!Next, Executor!vars
  <1>0. TypeOK /\ ClientInv /\ HandInv /\ StopInv /\ LoopInv /\ FreedAfterExit
    BY DEF IInv, ControlInv, QueueInv, LoopInv
  <1>1. CASE CreateWorker
    <2>1. wpc[i] = "unborn"
      BY <1>0, <1>1 DEF LoopInv, CreateWorker, TypeOK
    <2>2. Running' = Running /\ Finished' = Finished
      BY <1>0, <1>1, <2>1, MappingSame DEF CreateWorker, TypeOK
    <2> QED BY <1>1, <2>2 DEF CreateWorker, Client, Phase
  <1>2. CASE Call
    <2>1. Running' = Running /\ Finished' = Finished
      BY <1>0, <1>2, MappingSame DEF Call, TypeOK
    <2>2. stop = 0
      BY <1>0, <1>2 DEF Call, StopInv, TypeOK
    <2>3. CASE mpc' = "wait"
      BY <1>2, <2>1, <2>2, <2>3 DEF Call, Client, Phase, Executor!CallWait
    <2>4. CASE mpc' # "wait"
      BY <1>2, <2>1, <2>2, <2>4 DEF Call, Client, Phase
    <2> QED BY <2>3, <2>4
  <1>3. CASE MainLock
    <2>1. Running' = Running /\ Finished' = Finished
      BY <1>0, <1>3, MappingSame DEF MainLock, TypeOK
    <2> QED BY <1>3, <2>1 DEF MainLock, Client, Phase
  <1>4. CASE Enqueue
    <2>1. Running' = Running /\ Finished' = Finished
      BY <1>0, <1>4, MappingSame DEF Enqueue, WakeWorkers, TypeOK
    <2>2. stop = 0 /\ added < NTasks
      BY <1>0, <1>4 DEF Enqueue, StopInv, ClientInv, TypeOK
    <2> QED BY <1>4, <2>1, <2>2 DEF Enqueue, Client, Phase, Executor!Submit
  <1>5. CASE WaitTest
    <2>1. Running' = Running /\ Finished' = Finished
      BY <1>0, <1>5, MappingSame DEF WaitTest, TypeOK
    <2> QED BY <1>5, <2>1 DEF WaitTest, Client, Phase, Executor!WaitReturns
  <1>6. CASE SetStop
    <2>1. Running' = Running /\ Finished' = Finished
      BY <1>0, <1>6, MappingSame DEF SetStop, WakeWorkers, TypeOK
    <2>2. stop = 0
      BY <1>0, <1>6 DEF SetStop, StopInv, TypeOK
    <2> QED BY <1>6, <2>1, <2>2 DEF SetStop, Client, Phase, Executor!Close
  <1>7. CASE JoinWorker
    <2>1. Running' = Running /\ Finished' = Finished
      BY <1>0, <1>7, MappingSame DEF JoinWorker, TypeOK
    <2> QED BY <1>7, <2>1 DEF JoinWorker, Client, Phase
  <1>8. CASE FreePool
    <2>1. Running' = Running /\ Finished' = Finished
      BY <1>0, <1>8, MappingSame DEF FreePool, TypeOK
    <2>2. Running = {} /\ stop = 1
      BY <1>0, <1>8 DEF FreePool, FreedAfterExit, StopInv, Running, InHand
    <2> QED BY <1>8, <2>1, <2>2 DEF FreePool, Client, Phase, Executor!Closed
  <1>9. CASE SpuriousWakeup
    <2>1. Running' = Running /\ Finished' = Finished
      BY <1>0, <1>9, MappingSame DEF SpuriousWakeup, TypeOK
    <2> QED BY <1>9, <2>1 DEF SpuriousWakeup, Client, Phase
  <1>10. ASSUME NEW w \in Workers, WorkerLock(w) \/ WorkerTest(w)
         PROVE  UNCHANGED Executor!vars
    <2>1. Running' = Running /\ Finished' = Finished
      BY <1>0, <1>10, MappingSame DEF WorkerLock, WorkerTest, TypeOK
    <2> QED BY <1>10, <2>1 DEF WorkerLock, WorkerTest, Client, Phase
  <1>11. ASSUME NEW w \in Workers, WorkerPop(w) PROVE Executor!Start
    <2>1. stop = 0 /\ task_queue # << >>
      BY <1>0, <1>11 DEF WorkerPop, HandInv
    <2> QED BY <1>11, <2>1, MappingPop DEF WorkerPop, Client, Phase, Executor!Start
  <1>12. ASSUME NEW w \in Workers, WorkerRun(w)
         PROVE  task[w] \in 1..NTasks /\ Executor!Finish(task[w])
    <2>1. task[w] \in 1..NTasks
      BY <1>12, MappingRun DEF Running
    <2> QED BY <1>12, <2>1, MappingRun DEF WorkerRun, Client, Phase, Executor!Finish
  <1>13. ASSUME NEW w \in Workers, WorkerCheck(w)
         PROVE  UNCHANGED Executor!vars
    <2>1. Running' = Running /\ Finished' = Finished
      BY <1>0, <1>13, MappingSame DEF WorkerCheck, TypeOK
    <2> QED BY <1>13, <2>1 DEF WorkerCheck, WakeMain, Client, Phase
  <1>14. CASE UNCHANGED vars
    <2>1. Running' = Running /\ Finished' = Finished
      BY <1>0, <1>14, MappingSame DEF vars, TypeOK
    <2> QED BY <1>14, <2>1 DEF vars, Client, Phase
  <1> QED
    BY <1>1, <1>2, <1>3, <1>4, <1>5, <1>6, <1>7, <1>8, <1>9, <1>10, <1>11,
       <1>12, <1>13, <1>14 DEF Next, MainStep, WorkerStep

LEMMA ExecutorInit == Init => Executor!Init
  BY DEF Init, Executor!Init, Client, Phase, Running, Finished, InHand

(* The pool of my_pool.c implements the executor a client relies on: tasks *)
(* start in order of submission and once, a wait returns at an instant     *)
(* when none is pending, none starts after stop is set, and the pool is    *)
(* closed only when no task is running.                                    *)
THEOREM PoolImplementsExecutor == Spec => ImplementsExecutor
  <1>1. Spec => Executor!Spec
    BY ExecutorInit, ExecutorStep, PoolInductive, PTL DEF Spec, Executor!Spec
  <1> QED BY <1>1 DEF ImplementsExecutor
=============================================================================
