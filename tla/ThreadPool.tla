----------------------------- MODULE ThreadPool -----------------------------
(***************************************************************************)
(* The pthread pool of HW4/my_pool.c with the single-threaded client of    *)
(* HW4/testcases/*/main.c.  One action per stretch of code between two     *)
(* points where another thread can intervene; the mutex queue_lock is held *)
(* across several of them.  Tasks are numbered in the order the client     *)
(* submits them (main.c: tpool_add(pool, f, &arg[i]) for i = 0, 1, ...).   *)
(***************************************************************************)
EXTENDS Integers, Sequences

CONSTANTS
  NThreads,              \* pool->n_threads
  NTasks,                \* how many tasks the client may submit
  MaxSpurious            \* bound on spurious wakeups of pthread_cond_wait

ASSUME PoolAssumption ==
  /\ NThreads \in Nat \ {0}
  /\ NTasks \in Nat
  /\ MaxSpurious \in Nat

Workers == 1..NThreads
Tasks   == 1..NTasks
Main    == 0             \* the client's thread, as owner of the mutex
Nobody  == -1            \* the mutex is free
NoTask  == 0

VARIABLES
  task_queue,            \* pool->task_queue, as the sequence of its nodes
  queue_lock,            \* owner of pool->queue_lock
  stop,                  \* pool->stop
  wpc,                   \* where each worker is in tpool_worker
  task,                  \* each worker's local variable task
  mpc,                   \* where the client is: "ready", or inside a call
  i,                     \* index of the loops of tpool_init, tpool_destroy
  added,                 \* tasks added so far
  runs,                  \* how often each task's function has been run
  waited,                \* value of added when tpool_wait last returned
  spurious               \* spurious wakeups so far

vars == <<task_queue, queue_lock, stop, wpc, task, mpc, i, added, runs,
          waited, spurious>>

(* The state in which tpool_init has set up the pool and not yet created   *)
(* any thread.                                                             *)
Init ==
  /\ task_queue = << >> /\ queue_lock = Nobody /\ stop = 0
  /\ wpc = [w \in Workers |-> "unborn"]
  /\ task = [w \in Workers |-> NoTask]
  /\ mpc = "create" /\ i = 1
  /\ added = 0 /\ runs = [t \in Tasks |-> 0]
  /\ waited = 0 /\ spurious = 0

-----------------------------------------------------------------------------
(* The synchronisation primitives.                                         *)

Acquire(t) == queue_lock = Nobody /\ queue_lock' = t
Release    == queue_lock' = Nobody

(* pthread_cond_broadcast(&queue_not_empty) and                            *)
(* pthread_cond_signal(&queue_empty): who sleeps goes on to take the lock. *)
WakeNobody    == wpc
WakeOneWorker ==
  IF \A w \in Workers : wpc[w] # "asleep" THEN wpc
  ELSE [wpc EXCEPT ![CHOOSE w \in Workers : wpc[w] = "asleep"] = "woken"]
WakeWorkers ==
  [w \in Workers |-> IF wpc[w] = "asleep" THEN "woken" ELSE wpc[w]]
LetMainSleep == mpc
WakeMain == IF mpc = "asleep" THEN "woken" ELSE mpc

-----------------------------------------------------------------------------
(* The client's thread.                                                    *)

CreateWorker ==
  /\ mpc = "create"
  /\ wpc' = [wpc EXCEPT ![i] = "lock"]
  /\ IF i < NThreads THEN i' = i + 1 /\ mpc' = mpc
                     ELSE i' = 1 /\ mpc' = "ready"
  /\ UNCHANGED <<task_queue, queue_lock, stop, task, added, runs, waited,
                 spurious>>

(* The client enters tpool_add, tpool_wait or tpool_destroy.               *)
Call ==
  /\ mpc = "ready"
  /\ \/ added < NTasks /\ mpc' = "add"
     \/ mpc' \in {"wait", "destroy"}
  /\ UNCHANGED <<task_queue, queue_lock, stop, wpc, task, i, added, runs,
                 waited, spurious>>

MainLock ==
  /\ Acquire(Main)
  /\ \/ mpc = "add" /\ mpc' = "enqueue"
     \/ mpc \in {"wait", "woken"} /\ mpc' = "test"
     \/ mpc = "destroy" /\ mpc' = "stop"
  /\ UNCHANGED <<task_queue, stop, wpc, task, i, added, runs, waited,
                 spurious>>

(* The new node goes behind the last one.                                  *)
LinkFirst(q, t) == <<t>> \o q
LinkLast(q, t)  == Append(q, t)

Enqueue ==
  /\ mpc = "enqueue" /\ mpc' = "ready"
  /\ added' = added + 1
  /\ task_queue' = LinkLast(task_queue, added + 1)
  /\ wpc' = IF task_queue = << >> THEN WakeWorkers ELSE wpc
  /\ Release
  /\ UNCHANGED <<stop, task, i, runs, waited, spurious>>

WaitTest ==
  /\ mpc = "test"
  /\ \/ task_queue # << >> /\ mpc' = "asleep" /\ UNCHANGED waited
     \/ task_queue = << >> /\ mpc' = "ready" /\ waited' = added
  /\ Release
  /\ UNCHANGED <<task_queue, stop, wpc, task, i, added, runs, spurious>>

SetStop ==
  /\ mpc = "stop" /\ mpc' = "join"
  /\ stop' = 1 /\ wpc' = WakeWorkers
  /\ Release
  /\ UNCHANGED <<task_queue, task, i, added, runs, waited, spurious>>

JoinPastEnd ==
  /\ mpc = "join" /\ wpc[i] = "exited"
  /\ IF i <= NThreads THEN i' = i + 1 /\ mpc' = mpc
                      ELSE i' = i /\ mpc' = "free"
  /\ UNCHANGED <<task_queue, queue_lock, stop, wpc, task, added, runs,
                 waited, spurious>>

JoinNobody ==
  /\ mpc = "join" /\ mpc' = "free"
  /\ UNCHANGED <<task_queue, queue_lock, stop, wpc, task, i, added, runs,
                 waited, spurious>>

JoinWorker ==
  /\ mpc = "join" /\ wpc[i] = "exited"
  /\ IF i < NThreads THEN i' = i + 1 /\ mpc' = mpc
                     ELSE i' = i /\ mpc' = "free"
  /\ UNCHANGED <<task_queue, queue_lock, stop, wpc, task, added, runs,
                 waited, spurious>>

(* The pool's memory is released; the destruction of its mutex and         *)
(* condition variables, which follows, reads that memory again.            *)
FreePool ==
  /\ mpc = "free" /\ mpc' = "gone"
  /\ UNCHANGED <<task_queue, queue_lock, stop, wpc, task, i, added, runs,
                 waited, spurious>>

-----------------------------------------------------------------------------
(* A worker.                                                               *)

WorkerLock(w) ==
  /\ Acquire(w)
  /\ \/ wpc[w] \in {"lock", "woken"} /\ wpc' = [wpc EXCEPT ![w] = "test"]
     \/ wpc[w] = "relock" /\ wpc' = [wpc EXCEPT ![w] = "check"]
  /\ UNCHANGED <<task_queue, stop, task, mpc, i, added, runs, waited,
                 spurious>>

WorkerTest(w) ==
  /\ wpc[w] = "test"
  /\ \/ /\ task_queue = << >> /\ stop = 0
        /\ wpc' = [wpc EXCEPT ![w] = "asleep"] /\ Release
        /\ UNCHANGED task
     \/ /\ stop = 1
        /\ wpc' = [wpc EXCEPT ![w] = "exited"] /\ Release
        /\ UNCHANGED task
     \/ /\ task_queue # << >> /\ stop = 0
        /\ task' = [task EXCEPT ![w] = Head(task_queue)]
        /\ wpc' = [wpc EXCEPT ![w] = "pop"] /\ UNCHANGED queue_lock
  /\ UNCHANGED <<task_queue, stop, mpc, i, added, runs, waited, spurious>>

WorkerPeek(w) ==
  /\ wpc[w] = "pop" /\ wpc' = [wpc EXCEPT ![w] = "run"]
  /\ Release
  /\ UNCHANGED <<task_queue, stop, task, mpc, i, added, runs, waited, spurious>>

WorkerPop(w) ==
  /\ wpc[w] = "pop" /\ wpc' = [wpc EXCEPT ![w] = "run"]
  /\ task_queue' = Tail(task_queue)
  /\ Release
  /\ UNCHANGED <<stop, task, mpc, i, added, runs, waited, spurious>>

(* task->func(task->arg) returns and the node is freed.                    *)
WorkerRun(w) ==
  /\ wpc[w] = "run" /\ wpc' = [wpc EXCEPT ![w] = "relock"]
  /\ runs' = [runs EXCEPT ![task[w]] = @ + 1]
  /\ task' = [task EXCEPT ![w] = NoTask]
  /\ UNCHANGED <<task_queue, queue_lock, stop, mpc, i, added, waited,
                 spurious>>

WorkerCheck(w) ==
  /\ wpc[w] = "check" /\ wpc' = [wpc EXCEPT ![w] = "lock"]
  /\ mpc' = IF task_queue = << >> THEN WakeMain ELSE mpc
  /\ Release
  /\ UNCHANGED <<task_queue, stop, task, i, added, runs, waited, spurious>>

(* pthread_cond_wait may return although nobody signalled.                 *)
SpuriousWakeup ==
  /\ spurious < MaxSpurious /\ spurious' = spurious + 1
  /\ \/ /\ mpc = "asleep" /\ mpc' = "woken" /\ UNCHANGED wpc
     \/ /\ \E w \in Workers :
             wpc[w] = "asleep" /\ wpc' = [wpc EXCEPT ![w] = "woken"]
        /\ UNCHANGED mpc
  /\ UNCHANGED <<task_queue, queue_lock, stop, task, i, added, runs, waited>>

-----------------------------------------------------------------------------
MainStep ==
  \/ CreateWorker \/ MainLock \/ Enqueue \/ WaitTest
  \/ SetStop \/ JoinWorker \/ FreePool

WorkerStep(w) ==
  WorkerLock(w) \/ WorkerTest(w) \/ WorkerPop(w) \/ WorkerRun(w) \/ WorkerCheck(w)

Next ==
  MainStep \/ Call \/ SpuriousWakeup \/ \E w \in Workers : WorkerStep(w)

Spec == Init /\ [][Next]_vars

(* Every thread that can take a step eventually takes one; the client need *)
(* not call anything, and spurious wakeups need not happen.                *)
FairSpec ==
  Spec /\ WF_vars(MainStep) /\ \A w \in Workers : WF_vars(WorkerStep(w))
-----------------------------------------------------------------------------
(* Properties.                                                             *)

(* Every variable keeps the range of the C object it stands for.           *)
TypeOK ==
  /\ task_queue \in Seq(Tasks)
  /\ queue_lock \in Workers \union {Main, Nobody}
  /\ stop \in {0, 1}
  /\ wpc \in [Workers -> {"unborn", "lock", "test", "asleep", "woken", "pop",
                          "run", "relock", "check", "exited"}]
  /\ task \in [Workers -> Tasks \union {NoTask}]
  /\ mpc \in {"create", "ready", "add", "enqueue", "wait", "test", "asleep",
              "woken", "destroy", "stop", "join", "free", "gone"}
  /\ i \in Workers
  /\ added \in 0..NTasks
  /\ runs \in [Tasks -> Nat]
  /\ waited \in 0..NTasks
  /\ spurious \in 0..MaxSpurious

(* Tasks taken off the queue so far.                                       *)
Started == added - Len(task_queue)

(* A worker has taken task t off the queue and is running it.              *)
InHand(t) == \E w \in Workers : wpc[w] = "run" /\ task[w] = t

(* The list links exactly the tasks not yet taken, oldest first: none is   *)
(* lost, duplicated or overtaken, whatever add and pop are interleaved     *)
(* (walk to the tail in tpool_add, task_queue = task->next in the worker). *)
QueueInOrder ==
  \A k \in 1..Len(task_queue) : task_queue[k] = Started + k

(* Each task taken off the queue is in the hands of exactly one worker     *)
(* until it has run, and then it has run exactly once.                     *)
EachTaskOnce ==
  /\ \A t \in Tasks : runs[t] = IF t <= Started /\ ~InHand(t) THEN 1 ELSE 0
  /\ \A v, w \in Workers :
       wpc[v] = "run" /\ wpc[w] = "run" /\ task[v] = task[w] => v = w

(* No lost wakeup for workers, although tpool_add broadcasts only when it  *)
(* finds the queue empty: while there is work, or the order to stop, no    *)
(* worker sleeps on queue_not_empty.                                       *)
WorkConserving ==
  task_queue # << >> \/ stop = 1 => \A w \in Workers : wpc[w] # "asleep"

(* No lost wakeup for tpool_wait: while it sleeps on queue_empty, tasks    *)
(* are queued or some worker has yet to come to the test that signals it.  *)
WaiterIsOwedSignal ==
  mpc = "asleep" =>
    \/ task_queue # << >>
    \/ \E w \in Workers : wpc[w] \in {"run", "relock", "check"}

(* When tpool_destroy returns, every task added before the last return of  *)
(* tpool_wait has run, so that a client that waits before it destroys, as  *)
(* both main.c do, may free the arguments of all its tasks, although       *)
(* tpool_wait itself returns while tasks are still running.                *)
WaitedForMeansRun ==
  mpc = "gone" => \A t \in 1..waited : runs[t] = 1

(* tpool_destroy frees the pool only when no worker can use it any more.   *)
FreedAfterExit ==
  mpc \in {"free", "gone"} => \A w \in Workers : wpc[w] = "exited"

(* Every task added is run, unless the pool is told to stop first.         *)
TasksRun ==
  \A t \in Tasks : (added >= t) ~> (runs[t] = 1 \/ stop = 1)

(* tpool_wait returns.                                                     *)
WaitReturns == (mpc = "wait") ~> (mpc = "ready")

(* tpool_destroy returns, also when tasks are queued or running.           *)
DestroyReturns == (mpc = "destroy") ~> (mpc = "gone")

-----------------------------------------------------------------------------
(* The inductive invariant.                                                *)

(* Exactly the owner of the mutex is inside a critical section.            *)
LockInv ==
  /\ \A w \in Workers :
       queue_lock = w <=> wpc[w] \in {"test", "pop", "check"}
  /\ queue_lock = Main <=> mpc \in {"enqueue", "test", "stop"}

(* stop is set by tpool_destroy and stays set; only then do workers exit.  *)
StopInv ==
  /\ stop = 1 <=> mpc \in {"join", "free", "gone"}
  /\ \A w \in Workers : wpc[w] = "exited" => stop = 1

(* How far the loops of tpool_init and tpool_destroy have come.            *)
LoopInv ==
  /\ \A w \in Workers : wpc[w] = "unborn" <=> mpc = "create" /\ w >= i
  /\ mpc \in {"create", "join", "free", "gone"} \/ i = 1
  /\ mpc = "join" => \A w \in 1..i-1 : wpc[w] = "exited"
  /\ FreedAfterExit

(* The client adds only tasks it has, and a wait returned only when all    *)
(* tasks added before were started.                                        *)
ClientInv ==
  /\ mpc \in {"add", "enqueue"} => added < NTasks
  /\ waited <= Started

(* What a worker between its two critical sections has in hand.            *)
HandInv ==
  \A w \in Workers :
    /\ wpc[w] = "pop" => /\ task_queue # << >> /\ stop = 0
                         /\ task[w] = Head(task_queue)
    /\ wpc[w] = "run" => task[w] \in 1..Started

ControlInv == LockInv /\ StopInv /\ LoopInv
QueueInv   == Started >= 0 /\ QueueInOrder /\ ClientInv /\ HandInv
WakeupInv  == WorkConserving /\ WaiterIsOwedSignal
IInv       == TypeOK /\ ControlInv /\ QueueInv /\ EachTaskOnce /\ WakeupInv

-----------------------------------------------------------------------------
(* The pool implements the executor: a task is started when it leaves the  *)
(* list, the pool is closing once stop is set and closed once it is freed. *)
Running  == {t \in Tasks : InHand(t)}
Finished == {t \in Tasks : runs[t] > 0}
Client   == IF mpc \in {"wait", "test", "asleep", "woken"} THEN "waiting"
            ELSE "free"
Phase    == IF stop = 0 THEN "open"
            ELSE IF mpc = "gone" THEN "closed" ELSE "closing"

Executor == INSTANCE TaskExecutor WITH
  submitted <- added, pending <- task_queue, running <- Running,
  finished <- Finished, client <- Client, phase <- Phase

(* Tasks start in the order of submission and at most once, a wait returns *)
(* only when nothing waits to be started, nothing starts after stop, and   *)
(* the pool is gone only when no task is running.                          *)
ImplementsExecutor == Executor!Spec
=============================================================================
