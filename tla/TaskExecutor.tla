---------------------------- MODULE TaskExecutor ----------------------------
(***************************************************************************)
(* What a thread pool promises its client, with no threads, no mutex and   *)
(* no condition variables: tasks are started in the order of submission,   *)
(* each at most once; a wait returns only at an instant when no task is    *)
(* waiting to be started; after the pool is told to close no further task  *)
(* starts, and it is closed only when every started task has finished.     *)
(* ThreadPool (HW4/my_pool.c) is shown to implement this specification.    *)
(***************************************************************************)
EXTENDS Integers, Sequences

CONSTANT NTasks          \* how many tasks the client may submit: 1, 2, ...

VARIABLES
  submitted,             \* number of tasks submitted so far
  pending,               \* submitted and not started, oldest first
  running,               \* started and not finished
  finished,
  client,                \* "free", or "waiting" inside a wait
  phase                  \* "open", "closing" or "closed"

vars == <<submitted, pending, running, finished, client, phase>>

Init ==
  /\ submitted = 0 /\ pending = << >>
  /\ running = {} /\ finished = {}
  /\ client = "free" /\ phase = "open"

Submit ==
  /\ phase = "open" /\ client = "free" /\ submitted < NTasks
  /\ submitted' = submitted + 1
  /\ pending' = Append(pending, submitted + 1)
  /\ UNCHANGED <<running, finished, client, phase>>

Start ==
  /\ phase = "open" /\ pending # << >>
  /\ running' = running \union {Head(pending)}
  /\ pending' = Tail(pending)
  /\ UNCHANGED <<submitted, finished, client, phase>>

Finish(t) ==
  /\ t \in running
  /\ running' = running \ {t}
  /\ finished' = finished \union {t}
  /\ UNCHANGED <<submitted, pending, client, phase>>

CallWait ==
  /\ phase = "open" /\ client = "free" /\ client' = "waiting"
  /\ UNCHANGED <<submitted, pending, running, finished, phase>>

WaitReturns ==
  /\ client = "waiting" /\ pending = << >> /\ client' = "free"
  /\ UNCHANGED <<submitted, pending, running, finished, phase>>

Close ==
  /\ phase = "open" /\ client = "free" /\ phase' = "closing"
  /\ UNCHANGED <<submitted, pending, running, finished, client>>

Closed ==
  /\ phase = "closing" /\ running = {} /\ phase' = "closed"
  /\ UNCHANGED <<submitted, pending, running, finished, client>>

Next ==
  \/ Submit \/ Start \/ CallWait \/ WaitReturns \/ Close \/ Closed
  \/ \E t \in 1..NTasks : Finish(t)

Spec == Init /\ [][Next]_vars
=============================================================================
