---------------------------- MODULE UserThreads ----------------------------
(***************************************************************************)
(* The user-level threads of HW3: main.c, threadtools.h, threads.c and     *)
(* scheduler.c.  There is one CPU.  It executes the code of the thread     *)
(* RUNNING, of scheduler(), or of sighandler(), and a signal that is       *)
(* pending and not blocked diverts it to the handler between any two       *)
(* steps.  setjmp does not save the signal mask and siglongjmp does not    *)
(* restore it, so the mask in force when a handler jumps to the scheduler  *)
(* is the one it was entered with.                                         *)
(*                                                                         *)
(* A thread is identified by its id: 0 runs fibonacci, 1 factorial, 2 and  *)
(* 3 bank_operation.                                                       *)
(***************************************************************************)
EXTENDS Integers, FiniteSets

CONSTANTS
  timeslice, fib_arg, fact_arg, bank1_arg, bank2_arg,    \* the command line
  SignalSets,            \* which signals may come: SIGTSTP if the user sends
                         \* it, SIGALRM if a time slice is shorter than the run
  MaxTstp                \* bound on the SIGTSTPs the user sends

THREAD_MAX == 16
Slots   == 0..THREAD_MAX - 1
TSTP    == "SIGTSTP"
ALRM    == "SIGALRM"
base_mask == {TSTP, ALRM}

arg == [t \in 0..3 |-> CASE t = 0 -> fib_arg   [] t = 1 -> fact_arg
                         [] t = 2 -> bank1_arg [] t = 3 -> bank2_arg]

(* The threads init_threads creates.                                       *)
Created == {t \in 0..1 : arg[t] > 0} \union {t \in 2..3 : arg[t] # 0}
Bankers == Created \ 0..1
NULL    == -2
Unowned == -1            \* bank.lock_owner when nobody has the lock

ASSUME ThreadsAssumption ==
  /\ {timeslice, MaxTstp} \subseteq Nat
  /\ SignalSets \subseteq SUBSET base_mask
  /\ {fib_arg, fact_arg, bank1_arg, bank2_arg} \subseteq Int
  /\ Created # {}        \* else scheduler() dereferences a null RUNNING

VARIABLES
  ready_queue, rq_size, rq_current,
  waiting_queue, wq_size,
  balance, lock_owner,   \* struct Bank bank
  env,                   \* environment of each tcb: where it would resume
  i, x, y,               \* the variables kept in each tcb
  freed,                 \* the threads whose tcb has been freed
  pc, rtv, tmp,          \* the CPU; the locals rtv and tmp of scheduler()
  blocked, pending,      \* signals blocked, signals pending
  armed,                 \* the alarm clock is running
  tstp,                  \* SIGTSTPs sent so far
  kinds                  \* the signals that may come

queues  == <<ready_queue, rq_size, rq_current, waiting_queue, wq_size>>
bank    == <<balance, lock_owner>>
tcbs    == <<env, i, x, y, freed>>
signals == <<pending, armed, tstp, kinds>>
vars    == <<queues, bank, tcbs, pc, rtv, tmp, blocked, signals>>

RUNNING == ready_queue[rq_current]

(* The state start_threading finds: thread_setup has put every thread on   *)
(* the ready queue in the order of creation.                               *)
Init ==
  /\ ready_queue = [k \in Slots |->
       IF k < Cardinality(Created)
         THEN CHOOSE t \in Created : Cardinality({u \in Created : u < t}) = k
         ELSE NULL]
  /\ rq_size = Cardinality(Created) /\ rq_current = 0
  /\ waiting_queue = [k \in Slots |-> NULL] /\ wq_size = 0
  /\ balance = 500 /\ lock_owner = Unowned
  /\ env = [t \in Created |-> "setup"]
  /\ i = [t \in Created |-> 0] /\ x = i /\ y = i /\ freed = {}
  /\ pc = "start" /\ rtv = 0 /\ tmp = NULL
  /\ blocked = base_mask /\ pending = {} /\ armed = FALSE /\ tstp = 0
  /\ kinds \in SignalSets

-----------------------------------------------------------------------------
(* Signals.                                                                *)

SendTstp ==
  /\ TSTP \in kinds /\ tstp < MaxTstp /\ tstp' = tstp + 1
  /\ pending' = pending \union {TSTP}
  /\ UNCHANGED <<queues, bank, tcbs, pc, rtv, tmp, blocked, armed, kinds>>

AlarmExpires ==
  /\ ALRM \in kinds /\ armed /\ armed' = FALSE
  /\ pending' = pending \union {ALRM}
  /\ UNCHANGED <<queues, bank, tcbs, pc, rtv, tmp, blocked, tstp, kinds>>

(* The kernel enters sighandler with the signal itself blocked as well;    *)
(* the other one may still interrupt the handler.                          *)
Deliver(sig) ==
  /\ sig \in pending \ blocked /\ pc # "undefined"
  /\ pending' = pending \ {sig} /\ blocked' = blocked \union {sig}
  /\ pc' = IF sig = ALRM THEN "reset_alarm" ELSE "siglongjmp"
  /\ UNCHANGED <<queues, bank, tcbs, rtv, tmp, armed, tstp, kinds>>

(* The CPU executes an instruction of the program only when there is no    *)
(* signal to deliver first.                                                *)
At(label) == pc = label /\ pending \subseteq blocked

SetAlarm == armed' = (timeslice > 0)

(* Variant: the handler only prints.                                       *)
LetAlarmEnd ==
  /\ At("reset_alarm") /\ pc' = "siglongjmp"
  /\ UNCHANGED <<queues, bank, tcbs, rtv, tmp, blocked, signals>>

ResetAlarm ==
  /\ At("reset_alarm") /\ pc' = "siglongjmp" /\ SetAlarm
  /\ UNCHANGED <<queues, bank, tcbs, rtv, tmp, blocked, pending, tstp, kinds>>

Longjmp(value) == pc' = "scheduler" /\ rtv' = value

HandlerJumps ==
  /\ At("siglongjmp") /\ Longjmp(1)
  /\ UNCHANGED <<queues, bank, tcbs, tmp, blocked, signals>>

-----------------------------------------------------------------------------
(* The scheduler.                                                          *)

(* Where longjmp(RUNNING->environment, 1) continues; resuming a thread     *)
(* whose tcb has been freed is undefined behaviour, and the model stops.   *)
Resumed ==
  IF RUNNING \notin Created \ freed THEN "undefined"
  ELSE CASE env[RUNNING] = "setup" ->
              IF RUNNING \in Bankers THEN "lock" ELSE "first"
         [] env[RUNNING] = "locked" -> "acquired"
         [] OTHER -> "remask"

(* start_threading, and step 1 of the scheduler.                           *)
StartThreading ==
  /\ At("start") /\ SetAlarm
  /\ rq_current = 0 /\ pc' = Resumed
  /\ UNCHANGED <<queues, bank, tcbs, rtv, tmp, blocked, pending, tstp, kinds>>

(* Step 2, which no signal interrupts when it does something: see          *)
(* HandOverMasked.  A pass to the branch of rtv in steps 3 and 4 follows.  *)
HandOverToSecond == lock_owner = Unowned /\ wq_size > 1
HandOverToNobody == lock_owner = Unowned
HandOverNow == lock_owner = Unowned /\ wq_size > 0

HandOver ==
  /\ At("scheduler")
  /\ IF HandOverNow
       THEN /\ ready_queue' = [ready_queue EXCEPT ![rq_size] = waiting_queue[0]]
            /\ rq_size' = rq_size + 1
            /\ lock_owner' = waiting_queue[0]
            /\ waiting_queue' = [k \in Slots |->
                 IF k < wq_size - 1 THEN waiting_queue[k + 1]
                 ELSE waiting_queue[k]]
            /\ wq_size' = wq_size - 1
       ELSE UNCHANGED <<ready_queue, rq_size, lock_owner, waiting_queue,
                        wq_size>>
  /\ pc' = CASE rtv = 1 -> "advance" [] rtv = 2 -> "wait" [] rtv = 3 -> "exit"
  /\ UNCHANGED <<rq_current, balance, tcbs, rtv, tmp, blocked, signals>>

(* Step 3, an assignment at a time.  The thread leaves its slot of the     *)
(* ready queue to the last thread of the queue.                            *)
LeaveHole ==
  /\ rq_current' = IF rq_current < rq_size - 1 THEN rq_current ELSE 0
  /\ UNCHANGED ready_queue

LeaveSlot ==
  IF rq_current < rq_size - 1
    THEN /\ ready_queue' =
              [ready_queue EXCEPT ![rq_current] = ready_queue[rq_size - 1]]
         /\ UNCHANGED rq_current
    ELSE rq_current' = 0 /\ UNCHANGED ready_queue

Wait ==
  \/ /\ At("wait") /\ pc' = "wait_grow"
     /\ waiting_queue' = [waiting_queue EXCEPT ![wq_size] = RUNNING]
     /\ UNCHANGED <<ready_queue, rq_size, rq_current, wq_size>>
  \/ /\ At("wait_grow") /\ pc' = "wait_slot" /\ wq_size' = wq_size + 1
     /\ UNCHANGED <<ready_queue, rq_size, rq_current, waiting_queue>>
  \/ /\ At("wait_slot") /\ pc' = "wait_shrink" /\ LeaveSlot
     /\ UNCHANGED <<rq_size, waiting_queue, wq_size>>
  \/ /\ At("wait_shrink") /\ pc' = "resume" /\ rq_size' = rq_size - 1
     /\ UNCHANGED <<ready_queue, rq_current, waiting_queue, wq_size>>

WaitStep == Wait /\ UNCHANGED <<bank, tcbs, rtv, tmp, blocked, signals>>

Exit ==
  \/ /\ At("exit") /\ pc' = "exit_shrink" /\ tmp' = RUNNING /\ LeaveSlot
     /\ UNCHANGED <<rq_size, freed>>
  \/ /\ At("exit_shrink") /\ pc' = "free" /\ rq_size' = rq_size - 1
     /\ UNCHANGED <<ready_queue, rq_current, tmp, freed>>
  \/ /\ At("free") /\ pc' = "resume" /\ freed' = freed \union {tmp}
     /\ UNCHANGED <<ready_queue, rq_current, rq_size, tmp>>

ExitStep ==
  Exit /\ UNCHANGED <<waiting_queue, wq_size, bank, env, i, x, y, rtv, blocked,
                      signals>>

(* Step 4: round robin after a signal, then the jump into the thread.      *)
Advance ==
  \/ At("advance") /\ pc' = "wrap" /\ rq_current' = rq_current + 1
  \/ /\ At("wrap") /\ pc' = "resume"
     /\ rq_current' = IF rq_current >= rq_size THEN 0 ELSE rq_current

AdvanceStep ==
  Advance /\ UNCHANGED <<ready_queue, rq_size, waiting_queue, wq_size, bank,
                         tcbs, rtv, tmp, blocked, signals>>

Resume ==
  /\ At("resume") /\ pc' = Resumed
  /\ UNCHANGED <<queues, bank, tcbs, rtv, tmp, blocked, signals>>

-----------------------------------------------------------------------------
(* The threads.                                                            *)

Leave(label) == env' = [env EXCEPT ![RUNNING] = label]

(* thread_yield, entered with setjmp: the window in which a signal takes   *)
(* effect, and the mask that closes it, also when the thread is resumed.   *)
Yield(label) == Leave(label) /\ pc' = "unblock_tstp"

UnblockForGood ==
  \/ At("unblock_tstp") /\ pc' = "unblock_alrm" /\ blocked' = blocked \ {TSTP}
  \/ At("unblock_alrm") /\ pc' = "remask" /\ blocked' = blocked \ {ALRM}
  \/ At("remask") /\ pc' = env[RUNNING] /\ UNCHANGED blocked

Unblock ==
  \/ At("unblock_tstp") /\ pc' = "unblock_alrm" /\ blocked' = blocked \ {TSTP}
  \/ At("unblock_alrm") /\ pc' = "remask" /\ blocked' = blocked \ {ALRM}
  \/ At("remask") /\ pc' = env[RUNNING] /\ blocked' = base_mask

UnblockStep == Unblock /\ UNCHANGED <<queues, bank, tcbs, rtv, tmp, signals>>

(* The variables of the loops of fibonacci and factorial when the body has *)
(* run for RUNNING->i = n.                                                 *)
FibWithoutTmp(n) ==
  [x |-> IF n <= 2 THEN 1 ELSE x[0] + y[0],
   y |-> IF n <= 2 THEN 1 ELSE x[0] + y[0]]
FibBody(n) ==
  [x |-> IF n <= 2 THEN 1 ELSE y[0], y |-> IF n <= 2 THEN 1 ELSE x[0] + y[0]]
FactBody(n) ==
  [x |-> IF n = 1 THEN 1 ELSE x[1] * n, y |-> y[1]]

Body(n) ==
  LET new == IF RUNNING = 0 THEN FibBody(n) ELSE FactBody(n) IN
  /\ i' = [i EXCEPT ![RUNNING] = n]
  /\ x' = [x EXCEPT ![RUNNING] = new.x]
  /\ y' = [y EXCEPT ![RUNNING] = new.y]
  /\ pc' = "printed"

Loop ==
  /\ \/ At("first") /\ Body(1)
     \/ At("next") /\ Body(i[RUNNING] + 1)
  /\ UNCHANGED <<queues, bank, env, freed, rtv, tmp, blocked, signals>>

LoopEnds ==
  /\ At("printed")
  /\ IF i[RUNNING] = arg[RUNNING] THEN Longjmp(3) /\ UNCHANGED env
                                  ELSE Yield("next") /\ UNCHANGED rtv
  /\ UNCHANGED <<queues, bank, i, x, y, freed, tmp, blocked, signals>>

(* lock(): the thread resumes behind it when the scheduler has made it the *)
(* owner.                                                                  *)
LockAnyway ==
  /\ At("lock") /\ lock_owner' = RUNNING /\ pc' = "acquired"
  /\ UNCHANGED <<queues, balance, tcbs, rtv, tmp, blocked, signals>>

Lock ==
  /\ At("lock")
  /\ IF lock_owner = Unowned
       THEN lock_owner' = RUNNING /\ pc' = "acquired" /\ UNCHANGED env
       ELSE Leave("locked") /\ pc' = "must_wait" /\ UNCHANGED lock_owner
  /\ UNCHANGED <<queues, balance, i, x, y, freed, rtv, tmp, blocked, signals>>

MustWait ==
  /\ At("must_wait") /\ Longjmp(2)
  /\ UNCHANGED <<queues, bank, tcbs, tmp, blocked, signals>>

Acquired ==
  /\ At("acquired") /\ Yield("operate")
  /\ UNCHANGED <<queues, bank, i, x, y, freed, rtv, tmp, blocked, signals>>

Overdrawn   == balance + arg[RUNNING]
NewBalance  == IF arg[RUNNING] > 0 \/ balance >= -arg[RUNNING]
                 THEN balance + arg[RUNNING] ELSE balance

Operate ==
  /\ At("operate") /\ Yield("unlock") /\ balance' = NewBalance
  /\ UNCHANGED <<queues, lock_owner, i, x, y, freed, rtv, tmp, blocked, signals>>

StillOwned  == lock_owner
OwnerAfter  == IF lock_owner = RUNNING THEN Unowned ELSE lock_owner

Unlock ==
  /\ At("unlock") /\ Longjmp(3) /\ lock_owner' = OwnerAfter
  /\ UNCHANGED <<queues, balance, tcbs, tmp, blocked, signals>>

-----------------------------------------------------------------------------
Cpu ==
  \/ \E sig \in base_mask : Deliver(sig)
  \/ ResetAlarm \/ HandlerJumps \/ StartThreading \/ HandOver \/ WaitStep
  \/ ExitStep \/ AdvanceStep \/ Resume \/ UnblockStep \/ Loop \/ LoopEnds
  \/ Lock \/ MustWait \/ Acquired \/ Operate \/ Unlock

Next == Cpu \/ SendTstp \/ AlarmExpires

Spec == Init /\ [][Next]_vars

(* The CPU does not stop; signals need not come.                           *)
FairSpec == Spec /\ WF_vars(Cpu)

-----------------------------------------------------------------------------
(* Properties.                                                             *)

Labels == {"start", "reset_alarm", "siglongjmp", "scheduler", "advance", "wrap",
           "wait", "wait_grow", "wait_slot", "wait_shrink", "exit",
           "exit_shrink", "free", "resume", "undefined", "unblock_tstp", "unblock_alrm", "remask",
           "first", "next", "printed", "lock", "must_wait", "acquired",
           "operate", "unlock"}

(* The sizes and indices stay inside the arrays, whatever signals do.      *)
TypeOK ==
  /\ ready_queue \in [Slots -> Created \union {NULL}]
  /\ waiting_queue \in [Slots -> Created \union {NULL}]
  /\ {rq_size, rq_current, wq_size} \subseteq Slots
  /\ balance \in Int /\ lock_owner \in Bankers \union {Unowned}
  /\ env \in [Created -> {"setup", "locked", "next", "operate", "unlock"}]
  /\ {i, x, y} \subseteq [Created -> Nat]
  /\ freed \subseteq Created
  /\ pc \in Labels /\ rtv \in 0..3 /\ tmp \in Created \union {NULL}
  /\ blocked \subseteq base_mask /\ pending \subseteq base_mask
  /\ armed \in BOOLEAN /\ tstp \in 0..MaxTstp /\ kinds \in SignalSets

(* What the mask is meant to ensure is stated for runs in which only one   *)
(* of the two signals comes: SchedulerMasked says what happens otherwise.  *)
OneKind == Cardinality(kinds) = 1

Ready   == {ready_queue[k] : k \in 0..rq_size - 1}
Waiting == {waiting_queue[k] : k \in 0..wq_size - 1}
MovingThread ==
  pc \in {"wait_grow", "wait_slot", "wait_shrink", "exit_shrink", "free"}

(* Outside step 3 of the scheduler each thread that has not exited is in   *)
(* exactly one queue, once: the swap with the last slot, and rq_current    *)
(* reset to 0 when it is the last, lose and duplicate nobody.              *)
QueuesPartition ==
  OneKind /\ ~MovingThread =>
    /\ Cardinality(Ready) = rq_size /\ Cardinality(Waiting) = wq_size
    /\ Ready \intersect Waiting = {}
    /\ Ready \union Waiting = Created \ freed

(* Whoever waits waits for a thread that can still release the lock: its   *)
(* owner is ready to run, or the lock is about to be handed over.          *)
WaitersHaveOwner ==
  OneKind /\ ~MovingThread /\ wq_size > 0 =>
    \/ lock_owner \in Ready
    \/ lock_owner = Unowned /\ pc = "scheduler"

(* A thread that prints that it acquired the lock, or goes on to work on   *)
(* the balance or to unlock, owns the lock.                                *)
AcquiredTheLock ==
  OneKind /\ pc \in {"acquired", "operate", "unlock"} => lock_owner = RUNNING

(* The queues change hands in step 2 only with both signals blocked, so    *)
(* that no signal finds them half changed.                                 *)
HandOverMasked == At("scheduler") /\ HandOverNow => blocked = base_mask

(* What fibonacci and factorial print is right, however often they are     *)
(* interrupted, restarted or interleaved: x and y survive in the tcb.      *)
Fib[n \in Nat] == IF n <= 2 THEN 1 ELSE Fib[n - 1] + Fib[n - 2]
Factorial[n \in Nat] == IF n = 0 THEN 1 ELSE n * Factorial[n - 1]

PrintsRight ==
  pc = "printed" => IF RUNNING = 0 THEN y[0] = Fib[i[0]]
                                   ELSE x[1] = Factorial[i[1]]

(* The program comes to its undefined end only after every thread has      *)
(* exited, and then nobody owns the lock or waits for it.                  *)
EndsInOrder ==
  OneKind /\ pc = "undefined" =>
    freed = Created /\ lock_owner = Unowned /\ wq_size = 0

(* Each bank operation is performed once, on the balance the ones before   *)
(* it left: some order of those performed explains the balance.            *)
After(b, t) == IF arg[t] > 0 \/ b >= -arg[t] THEN b + arg[t] ELSE b
Performed   == {t \in Bankers : env[t] = "unlock"}

BalanceExplained ==
  balance \in CASE Performed = {}  -> {500}
                [] Performed = {2} -> {After(500, 2)}
                [] Performed = {3} -> {After(500, 3)}
                [] OTHER -> {After(After(500, 2), 3), After(After(500, 3), 2)}

(* Every thread that was created runs to its thread_exit; one that went to *)
(* the waiting queue must have been given the lock to come there.          *)
EveryThreadExits == OneKind ~> (freed = Created)

(* "Prior to calling this function, both SIGTSTP and SIGALRM should be     *)
(* blocked" (scheduler.c:28), also when a signal handler calls it.         *)
SchedulerMasked == pc = "scheduler" => blocked = base_mask

(* "If SIGALRM is received, reset the alarm here" (scheduler.c:9): once    *)
(* the handlers are done the next time slice is running or over.  A        *)
(* SIGTSTP that interrupts the handler of SIGALRM before alarm() would go  *)
(* to the scheduler with no alarm set.                                     *)
AlarmGoesOn ==
  OneKind /\ timeslice > 0 /\ At("scheduler") => armed \/ ALRM \in pending

(* The scheduler is to return when no thread is left (scheduler.c:87), not *)
(* to resume one that has exited.                                          *)
ExitedNeverResumed == pc # "undefined"
=============================================================================
