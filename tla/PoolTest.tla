------------------------------ MODULE PoolTest ------------------------------
(***************************************************************************)
(* The pool with the client of HW4/testcases/sample/main.c, to which that  *)
(* of testcases/bench/main.c is the same: it adds all its tasks, waits     *)
(* once, destroys the pool and frees the arguments of the tasks.           *)
(***************************************************************************)
EXTENDS ThreadPool

CallDestroyAtOnce ==
  /\ mpc = "ready"
  /\ mpc' = IF added < NTasks THEN "add" ELSE "destroy"
  /\ UNCHANGED <<task_queue, queue_lock, stop, wpc, task, i, added, runs,
                 waited, spurious>>

(* What main does next when a call has returned.                           *)
TestCall ==
  /\ mpc = "ready"
  /\ mpc' = IF added < NTasks THEN "add"
            ELSE IF waited < NTasks THEN "wait" ELSE "destroy"
  /\ UNCHANGED <<task_queue, queue_lock, stop, wpc, task, i, added, runs,
                 waited, spurious>>

TestNext ==
  MainStep \/ TestCall \/ SpuriousWakeup \/ \E w \in Workers : WorkerStep(w)

(* No thread, the client's included, stops where it can take a step.       *)
TestSpec ==
  /\ Init /\ [][TestNext]_vars
  /\ WF_vars(MainStep \/ TestCall) /\ \A w \in Workers : WF_vars(WorkerStep(w))

(* The test program ends, and by then each of its tasks has run exactly    *)
(* once: tpool_wait alone does not promise it, because it returns while    *)
(* tasks run, but tpool_destroy joins the threads that run them.           *)
TestSucceeds == <>[](mpc = "gone" /\ \A t \in Tasks : runs[t] = 1)
=============================================================================
