------------------------- MODULE UserThreadsTaskProofs -------------------------
(***************************************************************************)
(* Proofs about what the threads of HW3 do with their own variables, with  *)
(* the balance and with the lock, whatever signals come.  When both kinds  *)
(* come, the mask a handler leaves behind lets the other one through, so   *)
(* that a signal can interrupt the scheduler and a thread that starts;     *)
(* little is then known about the queues.  What is known, and enough here, *)
(* is that scheduler.c resumes only a thread that has not exited and that  *)
(* thread_yield blocks both signals before it goes on.                     *)
(***************************************************************************)
EXTENDS UserThreadsProofs, Recursion

-----------------------------------------------------------------------------
(* The inductive invariant, part by part.                                  *)

(* The variables in which threads work.                                    *)
TaskType ==
  /\ env \in [Created -> {"setup", "locked", "next", "operate", "unlock"}]
  /\ i \in [Created -> Nat] /\ x \in [Created -> Nat] /\ y \in [Created -> Nat]
  /\ balance \in Int
  /\ blocked \subseteq base_mask /\ pending \subseteq base_mask

(* The labels of the code of threads.c and of the macros it uses.          *)
TaskCode ==
  {"unblock_tstp", "unblock_alrm", "remask", "first", "next", "printed", "lock",
   "must_wait", "acquired", "operate", "unlock"}

(* RUNNING was refused the lock and is not yet counted in wq_size.         *)
Asking ==
  \/ pc \in {"must_wait", "wait", "wait_grow"}
  \/ pc = "scheduler" /\ rtv = 2

(* What the code that runs says of RUNNING: after thread_yield no signal   *)
(* is let in until the next one.                                           *)
TaskCodeInv ==
  /\ pc = "scheduler" => rtv \in 1..3
  /\ pc \in TaskCode => RUNNING \in Created
  /\ pc \in {"first", "printed"} => RUNNING \notin Bankers
  /\ pc \in {"unblock_tstp", "unblock_alrm", "remask"} =>
       env[RUNNING] \in {"next", "operate", "unlock"}
  /\ pc \in {"next", "operate", "unlock"} => env[RUNNING] = pc /\ blocked = base_mask
  /\ pc = "lock" => RUNNING \in Bankers /\ env[RUNNING] = "setup"
  /\ pc = "acquired" => RUNNING \in Bankers /\ env[RUNNING] \in {"setup", "locked"}
  /\ Asking => RUNNING \in Bankers /\ lock_owner # Unowned

(* The bank threads that have called lock() once: none does so again.      *)
Came == {t \in Bankers : env[t] # "setup"}

(* The waiting queue holds at most those; and it is empty when nobody has  *)
(* the lock, but for the moment between unlock() and step 2.               *)
WaitInv ==
  /\ waiting_queue \in [Slots -> Created \union {NULL}]
  /\ wq_size \in Nat
  /\ wq_size + (IF Asking THEN 1 ELSE 0) <= Cardinality(Came)
  /\ lock_owner = Unowned /\ wq_size > 0 =>
       pc = "scheduler" /\ rtv = 3 /\ blocked = base_mask

(* The variables of the loops hold what they should after i rounds.        *)
PrintInv ==
  /\ pc = "printed" => i[RUNNING] > 0
  /\ 0 \in Created /\ i[0] > 0 =>
       y[0] = Fib[i[0]] /\ (i[0] > 1 => x[0] = Fib[i[0] - 1])
  /\ 1 \in Created /\ i[1] > 0 => x[1] = Factorial[i[1]]

TaskInv == TaskType /\ TaskCodeInv /\ EnvInv /\ WaitInv /\ BalanceExplained /\ PrintInv

-----------------------------------------------------------------------------
(* The two functions that are defined by recursion.                        *)

(* Fibonacci numbers, as the recursive definition has them.                *)
LEMMA FibDef ==
  \A n \in Nat : Fib[n] = IF n <= 2 THEN 1 ELSE Fib[n - 1] + Fib[n - 2]
<1> DEFINE H == [a \in Nat \X Nat \X Nat |-> a[2] + a[3]]
<1>1. H \in [Nat \X Nat \X Nat -> Nat]
  OBVIOUS
<1>2. \A n, p, q \in Nat : H[<<n, p, q>>] = p + q
  OBVIOUS
<1> HIDE DEF H
<1>3. 2 \in Nat /\ 2 \in 1..2 + 1
  OBVIOUS
<1>4. PICK F \in [Nat -> Nat] :
        \A n \in Nat : F[n] = IF n <= 2 THEN 1 ELSE H[<<n, F[n - 1], F[n - 2]>>]
  BY <1>1, <1>3, RecursionExists
<1>5. ASSUME NEW n \in Nat
      PROVE  F[n] = IF n <= 2 THEN 1 ELSE F[n - 1] + F[n - 2]
  <2>1. CASE n <= 2
    BY <1>4, <2>1
  <2>2. CASE ~(n <= 2)
    <3>1. n - 1 \in Nat /\ n - 2 \in Nat
      BY <2>2
    <3>2. F[n] = H[<<n, F[n - 1], F[n - 2]>>] /\ F[n - 1] \in Nat /\ F[n - 2] \in Nat
      BY <1>4, <2>2, <3>1
    <3> QED BY <1>2, <2>2, <3>2
  <2> QED BY <2>1, <2>2
<1>6. F = [n \in Nat |-> IF n <= 2 THEN 1 ELSE F[n - 1] + F[n - 2]]
  BY <1>5
<1>7. Fib = [n \in Nat |-> IF n <= 2 THEN 1 ELSE Fib[n - 1] + Fib[n - 2]]
  BY <1>6 DEF Fib
<1> QED BY <1>7

(* Factorials, as the recursive definition has them.                       *)
LEMMA FactorialIs ==
  \A n \in Nat : Factorial[n] = IF n = 0 THEN 1 ELSE n * Factorial[n - 1]
<1> DEFINE H == [a \in Nat \X Nat \X Nat |-> a[1] * a[2]]
<1>1. \A n, p, q \in Nat : H[<<n, p, q>>] = n * p
  OBVIOUS
<1>2. H \in [Nat \X Nat \X Nat -> Nat]
  BY NatProduct
<1> HIDE DEF H
<1>3. 0 \in Nat /\ 1 \in 1..0 + 1
  OBVIOUS
<1>4. PICK F \in [Nat -> Nat] :
        \A n \in Nat : F[n] = IF n <= 0 THEN 1 ELSE H[<<n, F[n - 1], F[n - 1]>>]
  BY <1>2, <1>3, RecursionExists
<1>5. ASSUME NEW n \in Nat
      PROVE  F[n] = IF n = 0 THEN 1 ELSE n * F[n - 1]
  <2>1. CASE n = 0
    <3>1. n <= 0
      BY <2>1
    <3>2. F[n] = 1
      BY <1>4, <3>1
    <3> QED BY <2>1, <3>2
  <2>2. CASE n # 0
    <3>1. n - 1 \in Nat /\ ~(n <= 0)
      BY <2>2
    <3>2. F[n] = H[<<n, F[n - 1], F[n - 1]>>] /\ F[n - 1] \in Nat
      BY <1>4, <3>1
    <3> QED BY <1>1, <2>2, <3>2
  <2> QED BY <2>1, <2>2
<1>6. F = [n \in Nat |-> IF n = 0 THEN 1 ELSE n * F[n - 1]]
  <2>1. \A n \in Nat : F[n] = IF n = 0 THEN 1 ELSE n * F[n - 1]
    BY <1>5
  <2> QED BY <2>1, Zenon
<1>7. Factorial = [n \in Nat |-> IF n = 0 THEN 1 ELSE n * Factorial[n - 1]]
  BY <1>6, Zenon DEF Factorial
<1> QED BY <1>7, Zenon

-----------------------------------------------------------------------------
(* Each part of the invariant is preserved by each action.                 *)

(* Where a jump to a thread comes out, and what is known of it there.      *)
LEMMA ResumedTask ==
  ASSUME TaskType
  PROVE  \/ Resumed = "undefined"
         \/ /\ RUNNING \in Created
            /\ \/ Resumed = "first" /\ RUNNING \notin Bankers
               \/ Resumed = "lock" /\ RUNNING \in Bankers /\ env[RUNNING] = "setup"
               \/ Resumed = "acquired" /\ env[RUNNING] = "locked"
               \/ Resumed = "remask" /\ env[RUNNING] \in {"next", "operate", "unlock"}
<1>1. CASE RUNNING \notin Created \ freed
  BY <1>1 DEF Resumed
<1>2. CASE RUNNING \in Created \ freed
  <2>1. env[RUNNING] \in {"setup", "locked", "next", "operate", "unlock"}
    BY <1>2 DEF TaskType
  <2> QED BY <1>2, <2>1 DEF Resumed
<1> QED BY <1>1, <1>2

(* The variables of the threads.                                           *)
LEMMA TaskTypeNext ==
  ASSUME TaskInv, Next
  PROVE  TaskType'
<1>t. TaskType /\ TaskCodeInv
  BY DEF TaskInv
<1> USE DEF signals, base_mask
<1>1. blocked' \subseteq base_mask /\ pending' \subseteq base_mask
  <2>1. CASE (\E sig \in base_mask : Deliver(sig)) \/ UnblockStep \/ SendTstp \/ AlarmExpires
    BY <1>t, <2>1 DEF Deliver, UnblockStep, Unblock, SendTstp, AlarmExpires, TaskType
  <2>2. CASE ResetAlarm \/ HandlerJumps \/ StartThreading \/ HandOver \/ WaitStep \/ ExitStep
             \/ AdvanceStep \/ Resume
    BY <1>t, <2>2 DEF ResetAlarm, HandlerJumps, StartThreading, HandOver, WaitStep, ExitStep,
       AdvanceStep, Resume, TaskType
  <2>3. CASE Loop \/ LoopEnds \/ Lock \/ MustWait \/ Acquired \/ Operate \/ Unlock
    BY <1>t, <2>3 DEF Loop, LoopEnds, Lock, MustWait, Acquired, Operate, Unlock, TaskType
  <2> QED BY <2>1, <2>2, <2>3 DEF Next, Cpu
<1>2. balance' \in Int
  <2>1. CASE Operate
    <3>1. arg[RUNNING] \in Int
      BY <1>t, <2>1, CreatedFacts DEF Operate, At, TaskCodeInv, TaskCode
    <3> QED BY <1>t, <2>1, <3>1 DEF Operate, NewBalance, TaskType
  <2>2. CASE HandOver \/ Lock \/ Unlock \/ UNCHANGED <<balance, lock_owner>>
    BY <1>t, <2>2 DEF HandOver, Lock, Unlock, TaskType
  <2> QED BY <2>1, <2>2, WhoChanges
<1>3. env' \in [Created -> {"setup", "locked", "next", "operate", "unlock"}]
  <2>1. CASE ExitStep \/ Loop
    BY <1>t, <2>1 DEF ExitStep, Loop, TaskType
  <2>2. CASE LoopEnds \/ Lock \/ Acquired \/ Operate
    BY <1>t, <2>2 DEF LoopEnds, Lock, Acquired, Operate, Yield, Leave, TaskType
  <2>3. CASE UNCHANGED <<env, i, x, y, freed>>
    BY <1>t, <2>3 DEF TaskType
  <2> QED BY <2>1, <2>2, <2>3, WhoChanges
<1>4. i' \in [Created -> Nat] /\ x' \in [Created -> Nat] /\ y' \in [Created -> Nat]
  <2>1. CASE Loop
    <3>1. RUNNING \in Created \ Bankers
      BY <1>t, <2>1, CreatedFacts DEF Loop, At, TaskInv, TaskCodeInv, TaskCode, EnvInv
    <3>2. PICK n \in Nat : Body(n)
      BY <1>t, <2>1, <3>1 DEF Loop, TaskType
    <3>3. CASE RUNNING = 0
      <4>1. FibBody(n).x \in Nat /\ FibBody(n).y \in Nat
        BY <1>t, <3>1, <3>3 DEF FibBody, TaskType
      <4> QED BY <1>t, <3>2, <3>3, <4>1 DEF Body, TaskType
    <3>4. CASE RUNNING = 1
      <4>1. FactBody(n).x \in Nat /\ FactBody(n).y \in Nat
        BY <1>t, <3>1, <3>4, NatProduct DEF FactBody, TaskType
      <4>2. /\ i' = [i EXCEPT ![RUNNING] = n] /\ x' = [x EXCEPT ![RUNNING] = FactBody(n).x]
            /\ y' = [y EXCEPT ![RUNNING] = FactBody(n).y]
        BY <3>2, <3>4 DEF Body
      <4> QED BY <1>t, <4>1, <4>2 DEF TaskType
    <3> QED BY <3>1, <3>3, <3>4, CreatedFacts
  <2>2. CASE ExitStep \/ LoopEnds \/ Lock \/ Acquired \/ Operate
    BY <1>t, <2>2 DEF ExitStep, LoopEnds, Lock, Acquired, Operate, TaskType
  <2>3. CASE UNCHANGED <<env, i, x, y, freed>>
    BY <1>t, <2>3 DEF TaskType
  <2> QED BY <2>1, <2>2, <2>3, WhoChanges
<1> QED BY <1>1, <1>2, <1>3, <1>4 DEF TaskType

(* A thread is resumed only at a place of its own function.                *)
LEMMA TaskEnvNext ==
  ASSUME TaskInv, Next
  PROVE  EnvInv'
<1> USE DEF EnvInv, At
<1>t. EnvInv /\ TaskType /\ TaskCodeInv
  BY DEF TaskInv
<1>1. CASE ExitStep \/ Loop
  BY <1>t, <1>1 DEF ExitStep, Loop
<1>2. CASE LoopEnds
  <2>1. RUNNING \notin Bankers
    BY <1>t, <1>2 DEF LoopEnds, TaskCodeInv
  <2> QED BY <1>t, <1>2, <2>1 DEF LoopEnds, Yield, Leave, TaskType
<1>3. CASE Lock \/ Acquired
  <2>1. RUNNING \in Bankers
    BY <1>t, <1>3 DEF Lock, Acquired, TaskCodeInv
  <2> QED BY <1>t, <1>3, <2>1 DEF Lock, Acquired, Yield, Leave, TaskType
<1>4. CASE Operate
  <2>1. env[RUNNING] = "operate" /\ RUNNING \in Created
    BY <1>t, <1>4 DEF Operate, TaskCodeInv, TaskCode
  <2>2. RUNNING \in Bankers
    BY <1>t, <2>1
  <2> QED BY <1>t, <1>4, <2>2 DEF Operate, Yield, Leave, TaskType
<1>5. CASE UNCHANGED <<env, i, x, y, freed>>
  BY <1>t, <1>5
<1> QED BY <1>1, <1>2, <1>3, <1>4, <1>5, WhoChanges

(* What the code that runs says of RUNNING.                                *)
LEMMA TaskCodeNext ==
  ASSUME TaskInv, Next
  PROVE  TaskCodeInv'
<1> USE DEF queues, tcbs, bank, signals, TaskCodeInv, TaskCode, Asking, At
<1>t. TaskType /\ TaskCodeInv /\ EnvInv
  BY DEF TaskInv
<1>1. CASE \E sig \in base_mask : Deliver(sig)
  BY <1>1 DEF Deliver
<1>2. CASE ResetAlarm \/ HandlerJumps
  BY <1>2 DEF ResetAlarm, HandlerJumps, Longjmp
<1>3. CASE StartThreading \/ Resume
  <2>1. pc' = Resumed /\ UNCHANGED <<ready_queue, rq_current, env>> /\ pc' # "scheduler"
    BY <1>3, <1>t, ResumedTask DEF StartThreading, Resume
  <2>2. RUNNING' = RUNNING
    BY <2>1 DEF RUNNING
  <2>3. RUNNING \in Created /\ env[RUNNING] = "locked" => RUNNING \in Bankers
    BY <1>t, CreatedFacts DEF EnvInv
  <2> QED BY <1>t, <2>1, <2>2, <2>3, ResumedTask
<1>4. CASE HandOver
  <2>1. pc = "scheduler" /\ rtv' = rtv /\ rtv \in 1..3
    BY <1>t, <1>4 DEF HandOver
  <2>2. pc' = CASE rtv = 1 -> "advance" [] rtv = 2 -> "wait" [] rtv = 3 -> "exit"
    BY <1>4 DEF HandOver
  <2>3. CASE rtv = 2
    <3>1. pc' = "wait" /\ lock_owner # Unowned /\ RUNNING \in Bankers
      BY <1>t, <2>1, <2>2, <2>3
    <3>2. UNCHANGED <<ready_queue, rq_current, lock_owner>>
      BY <1>4, <3>1 DEF HandOver, HandOverNow
    <3> QED BY <3>1, <3>2 DEF RUNNING
  <2>4. CASE rtv # 2
    <3>1. pc' \in {"advance", "exit"}
      BY <2>1, <2>2, <2>4
    <3> QED BY <3>1
  <2> QED BY <2>3, <2>4
<1>5. CASE WaitStep
  <2>1. CASE pc = "wait"
    BY <1>t, <1>5, <2>1 DEF WaitStep, Wait, RUNNING
  <2>2. CASE pc # "wait"
    <3>1. pc' \in {"wait_slot", "wait_shrink", "resume"}
      BY <1>5, <2>2 DEF WaitStep, Wait
    <3> QED BY <3>1
  <2> QED BY <2>1, <2>2
<1>6. CASE ExitStep \/ AdvanceStep
  <2>1. pc' \in {"exit_shrink", "free", "resume", "wrap"}
    BY <1>6 DEF ExitStep, Exit, AdvanceStep, Advance
  <2> QED BY <2>1
<1>7. CASE UnblockStep
  <2>1. UNCHANGED <<ready_queue, rq_current, env>> /\ RUNNING' = RUNNING
    BY <1>7 DEF UnblockStep, RUNNING
  <2>2. CASE pc = "remask"
    BY <1>t, <1>7, <2>1, <2>2 DEF UnblockStep, Unblock
  <2>3. CASE pc # "remask"
    BY <1>t, <1>7, <2>1, <2>3 DEF UnblockStep, Unblock
  <2> QED BY <2>2, <2>3
<1>8. CASE Loop
  <2>1. pc' = "printed" /\ RUNNING' = RUNNING
    BY <1>8 DEF Loop, Body, RUNNING
  <2>2. RUNNING \in Created /\ RUNNING \notin Bankers
    BY <1>t, <1>8 DEF Loop, EnvInv
  <2> QED BY <2>1, <2>2
<1>9. CASE LoopEnds
  <2>1. RUNNING \in Created /\ RUNNING' = RUNNING
    BY <1>t, <1>9 DEF LoopEnds, RUNNING
  <2> QED BY <1>t, <1>9, <2>1 DEF LoopEnds, Longjmp, Yield, Leave, TaskType
<1>10. CASE Lock
  <2>1. RUNNING \in Bankers /\ RUNNING \in Created /\ RUNNING' = RUNNING
    BY <1>t, <1>10 DEF Lock, RUNNING
  <2> QED BY <1>t, <1>10, <2>1 DEF Lock, Leave, TaskType
<1>11. CASE MustWait \/ Unlock
  <2>1. RUNNING' = RUNNING
    BY <1>11 DEF MustWait, Unlock, RUNNING
  <2> QED BY <1>t, <1>11, <2>1 DEF MustWait, Unlock, Longjmp
<1>12. CASE Acquired \/ Operate
  <2>1. RUNNING \in Created /\ RUNNING' = RUNNING
    BY <1>t, <1>12 DEF Acquired, Operate, RUNNING
  <2> QED BY <1>t, <1>12, <2>1 DEF Acquired, Operate, Yield, Leave, TaskType
<1>13. CASE SendTstp \/ AlarmExpires
  <2>1. UNCHANGED <<pc, rtv, blocked, env, lock_owner>> /\ RUNNING' = RUNNING
    BY <1>13 DEF SendTstp, AlarmExpires, RUNNING
  <2> QED BY <1>t, <2>1
<1> QED BY <1>1, <1>2, <1>3, <1>4, <1>5, <1>6, <1>7, <1>8, <1>9, <1>10, <1>11, <1>12, <1>13
        DEF Next, Cpu

(* The bank threads that came to lock() are at most two.                   *)
LEMMA CameFacts ==
  IsFiniteSet(Came) /\ Cardinality(Came) \in 0..2
<1>1. Came \subseteq {2, 3}
  BY CreatedFacts DEF Came
<1>2. {2, 3} = {2} \union {3} /\ 3 \notin {2}
  OBVIOUS
<1>3. IsFiniteSet({2, 3}) /\ Cardinality({2, 3}) = 2
  <2>1. IsFiniteSet({2}) /\ Cardinality({2}) = 1
    BY FS_Singleton
  <2>2. IsFiniteSet({2} \union {3}) /\ Cardinality({2} \union {3}) = Cardinality({2}) + 1
    BY <1>2, <2>1, FS_AddElement
  <2> QED BY <1>2, <2>1, <2>2
<1>4. IsFiniteSet(Came) /\ Cardinality(Came) <= 2
  <2> DEFINE T == {2, 3}
  <2>1. IsFiniteSet(T) /\ Cardinality(T) = 2 /\ Came \subseteq T
    BY <1>1, <1>3
  <2> HIDE DEF T
  <2>2. IsFiniteSet(Came) /\ Cardinality(Came) <= Cardinality(T)
    BY <2>1, FS_Subset
  <2> QED BY <2>1, <2>2
<1> QED BY <1>4, FS_CardinalityType

(* Nobody who has come to lock() is forgotten.                             *)
LEMMA CameNext ==
  ASSUME TaskInv, Next
  PROVE  Cardinality(Came) <= Cardinality(Came')
<1>t. TaskType /\ TaskCodeInv
  BY DEF TaskInv
<1>1. \A t \in Created : env[t] # "setup" => env'[t] # "setup"
  <2>1. CASE ExitStep \/ Loop
    BY <2>1 DEF ExitStep, Loop
  <2>2. CASE LoopEnds \/ Lock \/ Acquired \/ Operate
    BY <1>t, <2>2 DEF LoopEnds, Lock, Acquired, Operate, Yield, Leave, TaskType
  <2>3. CASE UNCHANGED <<env, i, x, y, freed>>
    BY <2>3
  <2> QED BY <2>1, <2>2, <2>3, WhoChanges
<1>2. Came \subseteq Came'
  BY <1>1, CreatedFacts DEF Came
<1>3. IsFiniteSet(Came)'
  BY CameFacts, PTL
<1> QED BY <1>2, <1>3, FS_Subset

(* The waiting queue is never full, and not left without an owner.         *)
LEMMA WaitNext ==
  ASSUME TaskInv, Next
  PROVE  WaitInv'
<1> USE DEF queues, tcbs, bank, signals, Asking, At
<1>t. TaskType /\ TaskCodeInv /\ WaitInv
  BY DEF TaskInv
<1>c. /\ Cardinality(Came) \in 0..2 /\ Cardinality(Came') \in Nat
      /\ Cardinality(Came) <= Cardinality(Came')
  <2>1. (Cardinality(Came) \in 0..2)'
    BY CameFacts, PTL
  <2> QED BY <2>1, CameFacts, CameNext
<1>w. /\ waiting_queue \in [Slots -> Created \union {NULL}]
      /\ wq_size \in 0..2
      /\ Asking => wq_size + 1 <= Cardinality(Came) /\ lock_owner # Unowned
      /\ ~Asking => wq_size <= Cardinality(Came)
      /\ lock_owner = Unowned /\ wq_size > 0 =>
           pc = "scheduler" /\ rtv = 3 /\ blocked = base_mask
  BY <1>t, <1>c DEF WaitInv, TaskCodeInv
<1>1. CASE \E sig \in base_mask : Deliver(sig)
  <2>1. ~(blocked = base_mask)
    BY <1>1 DEF Deliver
  <2>2. UNCHANGED <<waiting_queue, wq_size, lock_owner>> /\ pc' \in {"reset_alarm", "siglongjmp"}
    BY <1>1 DEF Deliver
  <2>3. ~Asking'
    BY <2>2
  <2> QED BY <1>c, <1>w, <2>1, <2>2, <2>3 DEF WaitInv
<1>2. CASE HandOver
  <2>1. pc = "scheduler" /\ pc' # "scheduler" /\ rtv \in 1..3
    BY <1>t, <1>2 DEF HandOver, TaskCodeInv
  <2>2. CASE HandOverNow
    <3>1. rtv = 3 /\ pc' = "exit"
      BY <1>w, <1>2, <2>2 DEF HandOver, HandOverNow
    <3>2. wq_size \in 1..2
      BY <1>w, <2>2 DEF HandOverNow
    <3>3. /\ waiting_queue' = [k \in Slots |->
               IF k < wq_size - 1 THEN waiting_queue[k + 1] ELSE waiting_queue[k]]
          /\ wq_size' = wq_size - 1 /\ lock_owner' = waiting_queue[0]
      BY <1>2, <2>2 DEF HandOver
    <3>4. waiting_queue' \in [Slots -> Created \union {NULL}]
      <4>1. ASSUME NEW k \in Slots, k < wq_size - 1
            PROVE  k + 1 \in Slots
        BY <3>2, <4>1 DEF Slots, THREAD_MAX
      <4> QED BY <1>w, <3>3, <4>1
    <3>5. lock_owner' # Unowned
      <4>1. 0 \in Slots
        BY DEF Slots, THREAD_MAX
      <4>2. waiting_queue[0] \in Created \union {NULL}
        BY <1>w, <4>1
      <4> QED BY <3>3, <4>2, CreatedFacts DEF NULL, Unowned
    <3>6. ~Asking' /\ ~Asking
      BY <2>1, <3>1
    <3> QED BY <1>c, <1>w, <3>2, <3>3, <3>4, <3>5, <3>6 DEF WaitInv
  <2>3. CASE ~HandOverNow
    <3>1. UNCHANGED <<waiting_queue, wq_size, lock_owner, rtv>>
      BY <1>2, <2>3 DEF HandOver
    <3>2. Asking' => Asking
      BY <1>2, <2>1, <3>1 DEF HandOver
    <3>3. ~(lock_owner = Unowned /\ wq_size > 0)
      BY <2>3 DEF HandOverNow
    <3> QED BY <1>c, <1>w, <3>1, <3>2, <3>3 DEF WaitInv
  <2> QED BY <2>2, <2>3
<1>3. CASE WaitStep
  <2>1. UNCHANGED lock_owner /\ pc # "scheduler" /\ pc' # "scheduler"
    BY <1>3 DEF WaitStep, Wait
  <2>2. CASE pc = "wait"
    <3>1. RUNNING \in Created
      BY <1>t, <2>2, CreatedFacts DEF TaskCodeInv
    <3>2. waiting_queue' \in [Slots -> Created \union {NULL}] /\ wq_size' = wq_size
      BY <1>w, <1>3, <2>2, <3>1 DEF WaitStep, Wait
    <3> QED BY <1>c, <1>w, <2>1, <2>2, <3>2 DEF WaitInv
  <2>3. CASE pc = "wait_grow"
    <3>1. wq_size' = wq_size + 1 /\ waiting_queue' = waiting_queue /\ ~Asking' /\ Asking
      BY <1>3, <2>3 DEF WaitStep, Wait
    <3> QED BY <1>c, <1>w, <2>1, <3>1 DEF WaitInv
  <2>4. CASE pc \notin {"wait", "wait_grow"}
    <3>1. wq_size' = wq_size /\ waiting_queue' = waiting_queue /\ ~Asking' /\ ~Asking
      BY <1>3, <2>4 DEF WaitStep, Wait
    <3> QED BY <1>c, <1>w, <2>1, <3>1 DEF WaitInv
  <2> QED BY <2>2, <2>3, <2>4
<1>4. CASE Lock
  <2>1. pc = "lock" /\ RUNNING \in Bankers /\ env[RUNNING] = "setup"
    BY <1>t, <1>4 DEF Lock, TaskCodeInv
  <2>2. UNCHANGED <<waiting_queue, wq_size>>
    BY <1>4 DEF Lock
  <2>3. CASE lock_owner = Unowned
    <3>1. lock_owner' = RUNNING /\ pc' = "acquired"
      BY <1>4, <2>3 DEF Lock
    <3>2. RUNNING # Unowned
      BY <2>1, CreatedFacts DEF Unowned
    <3> QED BY <1>c, <1>w, <2>1, <2>2, <3>1, <3>2 DEF WaitInv
  <2>4. CASE lock_owner # Unowned
    <3>1. env' = [env EXCEPT ![RUNNING] = "locked"] /\ pc' = "must_wait" /\ UNCHANGED lock_owner
      BY <1>4, <2>4 DEF Lock, Leave
    <3>2. Came' = Came \union {RUNNING} /\ RUNNING \notin Came
      <4>1. \A t \in Bankers : env'[t] = IF t = RUNNING THEN "locked" ELSE env[t]
        BY <1>t, <3>1, CreatedFacts DEF TaskType
      <4> QED BY <2>1, <4>1 DEF Came
    <3>3. Cardinality(Came') = Cardinality(Came) + 1
      BY <3>2, CameFacts, FS_AddElement
    <3>4. ~Asking
      BY <2>1
    <3> QED BY <1>c, <1>w, <2>2, <2>4, <3>1, <3>3, <3>4 DEF WaitInv
  <2> QED BY <2>3, <2>4
<1>5. CASE Unlock
  <2>1. pc = "unlock" /\ blocked = base_mask
    BY <1>t, <1>5 DEF Unlock, TaskCodeInv
  <2>2. UNCHANGED <<waiting_queue, wq_size, blocked>> /\ pc' = "scheduler" /\ rtv' = 3
    BY <1>5 DEF Unlock, Longjmp
  <2>3. ~Asking /\ ~Asking'
    BY <2>1, <2>2
  <2> QED BY <1>c, <1>w, <2>1, <2>2, <2>3 DEF WaitInv
<1>6. CASE MustWait
  <2>1. UNCHANGED <<waiting_queue, wq_size, lock_owner>> /\ pc = "must_wait" /\ rtv' = 2
    BY <1>6 DEF MustWait, Longjmp
  <2> QED BY <1>c, <1>w, <2>1 DEF WaitInv
<1>7. CASE SendTstp \/ AlarmExpires
  BY <1>c, <1>w, <1>7 DEF SendTstp, AlarmExpires, WaitInv
<1>8. CASE ResetAlarm \/ HandlerJumps \/ StartThreading \/ ExitStep \/ AdvanceStep \/ Resume
           \/ UnblockStep \/ Loop \/ LoopEnds \/ Acquired \/ Operate
  <2>1. UNCHANGED <<waiting_queue, wq_size, lock_owner>>
    BY <1>8 DEF ResetAlarm, HandlerJumps, StartThreading, ExitStep, Exit, AdvanceStep, Resume,
       UnblockStep, Loop, LoopEnds, Acquired, Operate
  <2>2. ~Asking' /\ ~(lock_owner = Unowned /\ wq_size > 0)
    <3>1. CASE ResetAlarm \/ HandlerJumps \/ ExitStep \/ AdvanceStep
      BY <1>w, <3>1 DEF ResetAlarm, HandlerJumps, ExitStep, Exit, AdvanceStep, Advance, Longjmp
    <3>2. CASE StartThreading \/ Resume
      BY <1>t, <1>w, <3>2, ResumedTask DEF StartThreading, Resume
    <3>3. CASE UnblockStep
      BY <1>t, <1>w, <3>3 DEF UnblockStep, Unblock, TaskCodeInv
    <3>4. CASE Loop \/ LoopEnds \/ Acquired \/ Operate
      BY <1>w, <3>4 DEF Loop, Body, LoopEnds, Acquired, Operate, Yield, Longjmp
    <3> QED BY <1>8, <3>1, <3>2, <3>3, <3>4
  <2> QED BY <1>c, <1>w, <2>1, <2>2 DEF WaitInv
<1> QED BY <1>1, <1>2, <1>3, <1>4, <1>5, <1>6, <1>7, <1>8 DEF Next, Cpu

-----------------------------------------------------------------------------
(* The balance.                                                            *)

(* Each operation adds its effect to those before it.                      *)
LEMMA BalanceNext ==
  ASSUME TaskInv, Next
  PROVE  BalanceExplained'
<1>t. TaskType /\ TaskCodeInv /\ EnvInv /\ BalanceExplained /\ Performed \subseteq {2, 3}
  BY CreatedFacts DEF TaskInv, Performed
<1>1. CASE Operate
  <2>1. RUNNING \in Created /\ env[RUNNING] = "operate"
    BY <1>t, <1>1 DEF Operate, At, TaskCodeInv, TaskCode
  <2>2. RUNNING \in Bankers /\ RUNNING \in {2, 3} /\ RUNNING \notin Performed
    BY <1>t, <2>1, CreatedFacts DEF EnvInv, Performed
  <2>3. env' = [env EXCEPT ![RUNNING] = "unlock"] /\ balance' = After(balance, RUNNING)
    BY <1>1 DEF Operate, Yield, Leave, NewBalance, After
  <2>4. \A t \in Bankers : env'[t] = IF t = RUNNING THEN "unlock" ELSE env[t]
    BY <1>t, <2>3, CreatedFacts DEF TaskType
  <2>5. Performed' = Performed \union {RUNNING}
    BY <2>2, <2>4 DEF Performed
  <2>6. CASE RUNNING = 2
    <3>1. Performed = {} \/ Performed = {3}
      BY <1>t, <2>2, <2>6
    <3>2. CASE Performed = {}
      <4>1. balance = 500 /\ Performed' = {2}
        BY <1>t, <2>5, <2>6, <3>2 DEF BalanceExplained
      <4> QED BY <2>3, <2>6, <4>1 DEF BalanceExplained
    <3>3. CASE Performed = {3}
      <4>1. balance = After(500, 3) /\ Performed' = {2, 3}
        BY <1>t, <2>5, <2>6, <3>3 DEF BalanceExplained
      <4>2. balance' = After(After(500, 3), 2)
        BY <2>3, <2>6, <4>1
      <4> QED BY <4>1, <4>2 DEF BalanceExplained
    <3> QED BY <3>1, <3>2, <3>3
  <2>7. CASE RUNNING = 3
    <3>1. Performed = {} \/ Performed = {2}
      BY <1>t, <2>2, <2>7
    <3>2. CASE Performed = {}
      <4>1. balance = 500 /\ Performed' = {3}
        BY <1>t, <2>5, <2>7, <3>2 DEF BalanceExplained
      <4> QED BY <2>3, <2>7, <4>1 DEF BalanceExplained
    <3>3. CASE Performed = {2}
      <4>1. balance = After(500, 2) /\ Performed' = {2, 3}
        BY <1>t, <2>5, <2>7, <3>3 DEF BalanceExplained
      <4>2. balance' = After(After(500, 2), 3)
        BY <2>3, <2>7, <4>1
      <4> QED BY <4>1, <4>2 DEF BalanceExplained
    <3> QED BY <3>1, <3>2, <3>3
  <2> QED BY <2>2, <2>6, <2>7
<1>2. CASE ~Operate
  <2>1. UNCHANGED balance
    <3>1. HandOver \/ Lock \/ Unlock \/ UNCHANGED <<balance, lock_owner>>
      BY <1>2, WhoChanges
    <3> QED BY <3>1 DEF HandOver, Lock, Unlock
  <2>2. \A t \in Bankers : env'[t] = "unlock" <=> env[t] = "unlock"
    <3>1. CASE LoopEnds
      <4>1. RUNNING \notin Bankers
        BY <1>t, <3>1 DEF LoopEnds, At, TaskCodeInv
      <4> QED BY <1>t, <3>1, <4>1, CreatedFacts DEF LoopEnds, Yield, Leave, TaskType
    <3>2. CASE Lock \/ Acquired
      <4>1. env[RUNNING] \in {"setup", "locked"}
        BY <1>t, <3>2 DEF Lock, Acquired, At, TaskCodeInv
      <4> QED BY <1>t, <3>2, <4>1, CreatedFacts DEF Lock, Acquired, Yield, Leave, TaskType
    <3>3. CASE ExitStep \/ Loop \/ UNCHANGED <<env, i, x, y, freed>>
      BY <3>3 DEF ExitStep, Loop
    <3> QED BY <1>2, <3>1, <3>2, <3>3, WhoChanges
  <2>3. Performed' = Performed
    BY <2>2 DEF Performed
  <2> QED BY <1>t, <2>1, <2>3 DEF BalanceExplained
<1> QED BY <1>1, <1>2

-----------------------------------------------------------------------------
(* What is printed.                                                        *)

(* A round of fibonacci.                                                   *)
LEMMA FibRound ==
  ASSUME TaskInv, RUNNING \in Created, RUNNING = 0, NEW n \in Nat, n > 0, Body(n),
         n = 1 \/ n = i[0] + 1
  PROVE  y'[0] = Fib[n] /\ (n > 1 => x'[0] = Fib[n - 1]) /\ i'[0] = n
<1>1. /\ i' = [i EXCEPT ![0] = n]
      /\ x' = [x EXCEPT ![0] = IF n <= 2 THEN 1 ELSE y[0]]
      /\ y' = [y EXCEPT ![0] = IF n <= 2 THEN 1 ELSE x[0] + y[0]]
  BY DEF Body, FibBody
<1>2. /\ i'[0] = n
      /\ x'[0] = IF n <= 2 THEN 1 ELSE y[0]
      /\ y'[0] = IF n <= 2 THEN 1 ELSE x[0] + y[0]
  BY <1>1 DEF TaskInv, TaskType
<1>3. CASE n <= 2
  <2>1. Fib[n] = 1 /\ (n > 1 => Fib[n - 1] = 1)
    <3>1. n > 1 => n - 1 \in Nat /\ n - 1 <= 2
      BY <1>3
    <3> QED BY <1>3, <3>1, FibDef
  <2> QED BY <1>2, <1>3, <2>1
<1>4. CASE ~(n <= 2)
  <2>1. i[0] = n - 1 /\ i[0] \in Nat /\ i[0] > 1 /\ n - 2 = i[0] - 1
    BY <1>4 DEF TaskInv, TaskType
  <2>2. y[0] = Fib[n - 1] /\ x[0] = Fib[n - 2]
    BY <2>1 DEF TaskInv, PrintInv
  <2>3. Fib[n] = Fib[n - 1] + Fib[n - 2]
    BY <1>4, FibDef
  <2>4. x[0] \in Nat /\ y[0] \in Nat
    BY DEF TaskInv, TaskType
  <2> QED BY <1>2, <1>4, <2>2, <2>3, <2>4
<1> QED BY <1>3, <1>4

(* A round of factorial.                                                   *)
LEMMA FactRound ==
  ASSUME TaskInv, RUNNING \in Created, RUNNING = 1, NEW n \in Nat, n > 0, Body(n),
         n = 1 \/ n = i[1] + 1
  PROVE  x'[1] = Factorial[n] /\ i'[1] = n
<1>1. /\ i' = [i EXCEPT ![1] = n]
      /\ x' = [x EXCEPT ![1] = IF n = 1 THEN 1 ELSE x[1] * n]
  BY DEF Body, FactBody
<1>2. i'[1] = n /\ x'[1] = IF n = 1 THEN 1 ELSE x[1] * n
  BY <1>1 DEF TaskInv, TaskType
<1>3. Factorial[n] = n * Factorial[n - 1] /\ Factorial[0] = 1
  BY FactorialIs
<1>4. CASE n = 1
  BY <1>2, <1>3, <1>4
<1>5. CASE n # 1
  <2>1. i[1] = n - 1 /\ i[1] > 0
    BY <1>5 DEF TaskInv, TaskType
  <2>2. x[1] = Factorial[n - 1] /\ x[1] \in Nat
    BY <2>1 DEF TaskInv, TaskType, PrintInv
  <2>3. x[1] * n = n * x[1]
    BY <2>2
  <2> QED BY <1>2, <1>3, <1>5, <2>2, <2>3
<1> QED BY <1>4, <1>5

(* The variables of the loops are right after every step.                  *)
LEMMA PrintNext ==
  ASSUME TaskInv, Next
  PROVE  PrintInv'
<1> USE DEF queues, tcbs, bank, signals, At
<1>t. TaskType /\ TaskCodeInv /\ EnvInv /\ PrintInv
  BY DEF TaskInv
<1>1. CASE Loop
  <2>1. RUNNING \in Created /\ RUNNING \in {0, 1} /\ RUNNING' = RUNNING
    BY <1>t, <1>1, CreatedFacts DEF Loop, TaskCodeInv, TaskCode, EnvInv, RUNNING
  <2>2. PICK n \in Nat : n > 0 /\ Body(n) /\ (n = 1 \/ n = i[RUNNING] + 1)
    BY <1>t, <1>1, <2>1 DEF Loop, TaskType
  <2>3. CASE RUNNING = 0
    <3>1. y'[0] = Fib[n] /\ (n > 1 => x'[0] = Fib[n - 1]) /\ i'[0] = n
      BY <2>1, <2>2, <2>3, FibRound
    <3>2. 1 \in Created => i'[1] = i[1] /\ x'[1] = x[1]
      BY <1>t, <2>1, <2>2, <2>3 DEF Body, TaskType
    <3> QED BY <1>t, <2>1, <2>2, <2>3, <3>1, <3>2 DEF PrintInv
  <2>4. CASE RUNNING = 1
    <3>1. x'[1] = Factorial[n] /\ i'[1] = n
      BY <2>1, <2>2, <2>4, FactRound
    <3>2. 0 \in Created => i'[0] = i[0] /\ x'[0] = x[0] /\ y'[0] = y[0]
      BY <1>t, <2>1, <2>2, <2>4 DEF Body, TaskType
    <3> QED BY <1>t, <2>1, <2>2, <2>4, <3>1, <3>2 DEF PrintInv
  <2> QED BY <2>1, <2>3, <2>4
<1>2. CASE ~Loop
  <2>1. UNCHANGED <<i, x, y>>
    BY <1>2, WhoChanges DEF ExitStep, LoopEnds, Lock, Acquired, Operate
  <2>2. pc' = "printed" => pc = "printed" /\ RUNNING' = RUNNING
    <3>1. CASE \E sig \in base_mask : Deliver(sig)
      BY <3>1 DEF Deliver
    <3>2. CASE ResetAlarm \/ HandlerJumps \/ WaitStep \/ ExitStep \/ AdvanceStep
      BY <3>2 DEF ResetAlarm, HandlerJumps, Longjmp, WaitStep, Wait, ExitStep, Exit,
         AdvanceStep, Advance
    <3>3. CASE StartThreading \/ Resume
      BY <1>t, <3>3, ResumedTask DEF StartThreading, Resume
    <3>4. CASE HandOver
      BY <1>t, <3>4 DEF HandOver, TaskCodeInv
    <3>5. CASE UnblockStep
      BY <1>t, <3>5 DEF UnblockStep, Unblock, TaskCodeInv
    <3>6. CASE LoopEnds \/ Lock \/ MustWait \/ Acquired \/ Operate \/ Unlock
      BY <3>6 DEF LoopEnds, Lock, MustWait, Acquired, Operate, Unlock, Yield, Longjmp
    <3>7. CASE SendTstp \/ AlarmExpires
      BY <3>7 DEF SendTstp, AlarmExpires, RUNNING
    <3> QED BY <1>2, <3>1, <3>2, <3>3, <3>4, <3>5, <3>6, <3>7 DEF Next, Cpu
  <2> QED BY <1>t, <2>1, <2>2 DEF PrintInv
<1> QED BY <1>1, <1>2

-----------------------------------------------------------------------------
(* The theorems.                                                           *)

(* At the start nobody has done anything.                                  *)
LEMMA InitTask ==
  ASSUME Init
  PROVE  TaskInv
<1> USE DEF Init
<1>1. TaskType
  BY DEF TaskType, base_mask
<1>2. TaskCodeInv
  BY DEF TaskCodeInv, TaskCode, Asking
<1>3. EnvInv
  BY DEF EnvInv
<1>4. WaitInv
  <2>1. Cardinality(Came) \in Nat /\ ~Asking
    BY CameFacts DEF Asking
  <2> QED BY <2>1 DEF WaitInv
<1>5. BalanceExplained
  <2>1. Performed = {}
    BY CreatedFacts DEF Performed
  <2> QED BY <2>1 DEF BalanceExplained
<1>6. PrintInv
  BY DEF PrintInv
<1> QED BY <1>1, <1>2, <1>3, <1>4, <1>5, <1>6 DEF TaskInv

(* Whatever signals come, every reachable state of the program satisfies   *)
(* the invariant.                                                          *)
THEOREM TasksInductive == Spec => []TaskInv
<1>1. TaskInv /\ Next => TaskInv'
  BY TaskTypeNext, TaskCodeNext, TaskEnvNext, WaitNext, BalanceNext, PrintNext DEF TaskInv
<1>2. TaskInv /\ UNCHANGED vars => TaskInv'
  <2> SUFFICES ASSUME TaskInv, UNCHANGED vars
               PROVE  TaskInv'
    OBVIOUS
  <2> USE DEF vars, queues, bank, tcbs, signals
  <2>1. RUNNING' = RUNNING /\ (Asking' <=> Asking) /\ Came' = Came /\ Performed' = Performed
    BY DEF RUNNING, Asking, Came, Performed
  <2>2. TaskType' /\ EnvInv' /\ BalanceExplained'
    BY <2>1 DEF TaskInv, TaskType, EnvInv, BalanceExplained
  <2>3. TaskCodeInv' /\ PrintInv'
    BY <2>1 DEF TaskInv, TaskCodeInv, PrintInv
  <2>4. WaitInv'
    BY <2>1 DEF TaskInv, WaitInv
  <2> QED BY <2>2, <2>3, <2>4 DEF TaskInv
<1> QED BY <1>1, <1>2, InitTask, PTL DEF Spec

(* scheduler.c step 2: no signal can come while the lock and the first of  *)
(* the waiting threads change hands, although nothing else of the          *)
(* scheduler is protected when both kinds of signals come.                 *)
THEOREM HandOverIsMasked == Spec => []HandOverMasked
<1>1. TaskInv => HandOverMasked
  BY DEF TaskInv, WaitInv, HandOverMasked, HandOverNow, At
<1> QED BY <1>1, TasksInductive, PTL

(* threads.c bank_operation: each operation is performed once, on the      *)
(* balance that those before it left.                                      *)
THEOREM BalanceIsExplained == Spec => []BalanceExplained
<1>1. TaskInv => BalanceExplained
  BY DEF TaskInv
<1> QED BY <1>1, TasksInductive, PTL

(* threads.c fibonacci and factorial: each value printed is the one of the *)
(* recursive definition, for every argument.                               *)
THEOREM PrintsAreRight == Spec => []PrintsRight
<1>1. TaskInv => PrintsRight
  <2> SUFFICES ASSUME TaskInv, pc = "printed"
               PROVE  IF RUNNING = 0 THEN y[0] = Fib[i[0]] ELSE x[1] = Factorial[i[1]]
    BY DEF PrintsRight
  <2>1. RUNNING \in Created /\ RUNNING \in {0, 1} /\ i[RUNNING] > 0
    BY CreatedFacts DEF TaskInv, TaskCodeInv, TaskCode, PrintInv
  <2> QED BY <2>1 DEF TaskInv, PrintInv
<1> QED BY <1>1, TasksInductive, PTL
=============================================================================
