-------------------------- MODULE UserThreadsProofs --------------------------
(***************************************************************************)
(* Proofs about the user-level threads of HW3 for all arguments of the     *)
(* command line, every subset of the four threads, and any number of       *)
(* signals of one kind, each at any moment.  With one kind, the mask that  *)
(* a handler leaves behind blocks the signals that can come, so that only  *)
(* thread_yield is interrupted; the inductive invariant then says where    *)
(* each thread is and what it is about to do.                              *)
(***************************************************************************)
EXTENDS UserThreads, FiniteSetTheorems, TLAPS

-----------------------------------------------------------------------------
(* The inductive invariant, part by part.                                  *)

(* Only in the window of thread_yield can a signal be delivered, and after *)
(* it both signals are blocked.                                            *)
MaskInv ==
  /\ pending \subseteq kinds
  /\ pc \notin {"unblock_alrm", "remask"} => kinds \subseteq blocked
  /\ pc \in {"next", "operate", "unlock"} => blocked = base_mask

(* The first n entries of a queue.                                         *)
Listed(q, n)   == {q[k] : k \in 0..n - 1}
Distinct(q, n) == \A j, k \in 0..n - 1 : q[j] = q[k] => j = k

(* The queues as they are meant while step 3 moves a thread: it leaves the *)
(* ready queue when its slot is given to another, and comes to the waiting *)
(* queue, or exits, at the same moment.                                    *)
ReadySize == IF pc \in {"wait_shrink", "exit_shrink"} THEN rq_size - 1 ELSE rq_size
WaitSize  == IF pc = "wait_slot" THEN wq_size - 1 ELSE wq_size
Exited    == IF pc \in {"exit_shrink", "free"} THEN freed \union {tmp} ELSE freed

QueueInv ==
  /\ ReadySize \in Nat /\ WaitSize \in Nat
  /\ Distinct(ready_queue, ReadySize) /\ Distinct(waiting_queue, WaitSize)
  /\ Listed(ready_queue, ReadySize) \intersect Listed(waiting_queue, WaitSize) = {}
  /\ Listed(ready_queue, ReadySize) \union Listed(waiting_queue, WaitSize) = Created \ Exited
  /\ pc \in {"wait_grow", "wait_slot"} =>
       waiting_queue[WaitSize] = RUNNING
  /\ pc \in {"exit_shrink", "free"} => tmp \in Created

(* Where rq_current is: between the steps that advance it, and when the    *)
(* last thread has exited, it need not be inside the queue.                *)
CurrentInv ==
  CASE pc = "wrap"      -> rq_current <= rq_size /\ rq_size > 0
    [] pc = "undefined" -> rq_size = 0 /\ wq_size = 0
    [] pc \in {"wait_shrink", "exit_shrink", "free", "resume"} -> rq_current < ReadySize \/ rq_current = 0
    [] OTHER            -> rq_current < rq_size

(* RUNNING was refused the lock, and is to be put on the waiting queue.    *)
Refused ==
  \/ pc \in {"must_wait", "wait", "wait_grow", "wait_slot"}
  \/ pc = "scheduler" /\ rtv = 2

(* RUNNING has reached thread_exit, and is to be removed.                  *)
Leaving ==
  \/ pc = "exit"
  \/ pc = "scheduler" /\ rtv = 3

(* What the code RUNNING is in says of the thread.                         *)
RunInv ==
  /\ pc = "scheduler" => rtv \in 1..3
  /\ pc \in {"first", "printed"} => RUNNING \notin Bankers
  /\ pc \in {"unblock_tstp", "unblock_alrm", "remask", "reset_alarm", "siglongjmp"} =>
       env[RUNNING] \in {"next", "operate", "unlock"}
  /\ pc \in {"next", "operate", "unlock"} => env[RUNNING] = pc
  /\ pc = "lock" => RUNNING \in Bankers /\ env[RUNNING] = "setup"
  /\ pc = "acquired" =>
       RUNNING \in Bankers /\ env[RUNNING] \in {"setup", "locked"} /\ lock_owner = RUNNING
  /\ Refused =>
       RUNNING \in Bankers /\ env[RUNNING] = "locked" /\ lock_owner \notin {RUNNING, Unowned}
  /\ Leaving => lock_owner # RUNNING /\ (RUNNING \in Bankers => env[RUNNING] = "unlock")

EnvInv ==
  \A t \in Created : IF t \in Bankers THEN env[t] # "next" ELSE env[t] \in {"setup", "next"}

(* Who has passed lock() owns the lock until he unlocks; who waits was     *)
(* refused it; and somebody who can run owns it, or it is handed over now. *)
LockInv ==
  /\ lock_owner # Unowned => lock_owner \in Listed(ready_queue, ReadySize)
  /\ WaitSize > 0 /\ lock_owner = Unowned =>
       pc = "scheduler" /\ rtv = 3 /\ blocked = base_mask
  /\ \A k \in 0..WaitSize - 1 :
       waiting_queue[k] \in Bankers /\ env[waiting_queue[k]] = "locked"
  /\ \A k \in 0..ReadySize - 1 : ready_queue[k] \in Bankers =>
       CASE env[ready_queue[k]] = "setup" ->
              lock_owner # ready_queue[k] \/ (k = rq_current /\ pc = "acquired")
         [] env[ready_queue[k]] = "locked" ->
              lock_owner = ready_queue[k] \/ (k = rq_current /\ Refused)
         [] OTHER ->
              lock_owner = ready_queue[k] \/ (k = rq_current /\ Leaving)

AlarmInv ==
  timeslice > 0 => pc \in {"start", "reset_alarm"} \/ armed \/ ALRM \in pending

IInv ==
  /\ TypeOK /\ MaskInv /\ QueueInv /\ CurrentInv
  /\ RunInv /\ EnvInv /\ LockInv /\ AlarmInv

-----------------------------------------------------------------------------
(* Arrays as queues.                                                       *)

(* The last entry takes the place of the one that leaves.                  *)
LEMMA RemoveSwaps ==
  ASSUME NEW q \in [Slots -> Created \union {NULL}], NEW n \in 1..THREAD_MAX, NEW c \in 0..n - 1,
         Distinct(q, n),
         NEW r, r = IF c < n - 1 THEN [q EXCEPT ![c] = q[n - 1]] ELSE q
  PROVE  /\ Distinct(r, n - 1)
         /\ Listed(r, n - 1) = Listed(q, n) \ {q[c]}
<1>1. \A k \in 0..n - 2 : r[k] = IF k = c THEN q[n - 1] ELSE q[k]
  BY DEF Slots, THREAD_MAX
<1>2. Distinct(r, n - 1)
  BY <1>1 DEF Distinct
<1>3. Listed(r, n - 1) \subseteq Listed(q, n) \ {q[c]}
  BY <1>1 DEF Listed, Distinct
<1>4. ASSUME NEW k \in 0..n - 1, q[k] # q[c] PROVE q[k] \in Listed(r, n - 1)
  <2>1. CASE k < n - 1
    BY <2>1, <1>1, <1>4 DEF Listed
  <2>2. CASE k = n - 1
    <3>1. c \in 0..n - 2 /\ r[c] = q[k]
      BY <2>2, <1>1, <1>4
    <3> QED BY <3>1 DEF Listed
  <2> QED BY <2>1, <2>2
<1> QED BY <1>2, <1>3, <1>4 DEF Listed

(* A thread that is put behind the last entry joins the queue once.        *)
LEMMA AppendKeeps ==
  ASSUME NEW q, NEW r, NEW n \in Nat, NEW t,
         Distinct(q, n), t \notin Listed(q, n),
         \A k \in 0..n - 1 : r[k] = q[k], r[n] = t
  PROVE  /\ Distinct(r, n + 1)
         /\ Listed(r, n + 1) = Listed(q, n) \union {t}
<1>1. \A k \in 0..n : r[k] = IF k = n THEN t ELSE q[k]
  OBVIOUS
<1>2. Distinct(r, n + 1)
  BY <1>1 DEF Distinct, Listed
<1>3. t \in Listed(r, n + 1)
  <2>1. n \in 0..(n + 1) - 1 /\ r[n] = t
    BY <1>1
  <2> QED BY <2>1 DEF Listed
<1>4. Listed(r, n + 1) \subseteq Listed(q, n) \union {t}
  BY <1>1 DEF Listed
<1>5. Listed(q, n) \subseteq Listed(r, n + 1)
  BY <1>1 DEF Listed
<1> QED BY <1>2, <1>3, <1>4, <1>5

(* The shift of step 2 removes the first entry and keeps the others.       *)
LEMMA ShiftRemovesFirst ==
  ASSUME NEW q \in [Slots -> Created \union {NULL}], NEW n \in 1..THREAD_MAX - 1,
         Distinct(q, n),
         NEW r, r = [k \in Slots |-> IF k < n - 1 THEN q[k + 1] ELSE q[k]]
  PROVE  /\ Distinct(r, n - 1)
         /\ Listed(r, n - 1) = Listed(q, n) \ {q[0]}
<1>1. \A k \in 0..n - 2 : r[k] = q[k + 1]
  BY DEF Slots, THREAD_MAX
<1>2. Distinct(r, n - 1)
  BY <1>1 DEF Distinct
<1>3. Listed(r, n - 1) \subseteq Listed(q, n) \ {q[0]}
  BY <1>1 DEF Listed, Distinct
<1>4. ASSUME NEW k \in 0..n - 1, q[k] # q[0] PROVE q[k] \in Listed(r, n - 1)
  <2>1. k - 1 \in 0..(n - 1) - 1 /\ r[k - 1] = q[k]
    BY <1>1, <1>4
  <2> QED BY <2>1 DEF Listed
<1> QED BY <1>2, <1>3, <1>4 DEF Listed

(* A queue without repetition holds as many threads as its size says.      *)
LEMMA SizeOfListed ==
  ASSUME NEW q, NEW n \in Nat, Distinct(q, n)
  PROVE  IsFiniteSet(Listed(q, n)) /\ Cardinality(Listed(q, n)) = n
<1> DEFINE f == [k \in 0..n - 1 |-> q[k]]
<1>1. f \in Bijection(0..n - 1, Listed(q, n))
  BY DEF Distinct, Listed, Bijection, Injection, Surjection, IsInjective
<1>2. ExistsBijection(0..n - 1, Listed(q, n))
  BY <1>1 DEF ExistsBijection
<1>3. IsFiniteSet(0..n - 1) /\ Cardinality(0..n - 1) = n
  BY FS_Interval
<1> QED BY <1>2, <1>3, FS_Bijection

-----------------------------------------------------------------------------
(* Constants and derived state.                                            *)

(* At least one and at most four threads, of which 2 and 3 use the bank.   *)
LEMMA CreatedFacts ==
  /\ Created \subseteq 0..3 /\ Created # {}
  /\ IsFiniteSet(Created) /\ Cardinality(Created) \in 1..4
  /\ Bankers \subseteq Created /\ Bankers \subseteq {2, 3} /\ Created \ Bankers \subseteq {0, 1}
  /\ \A t \in Created : arg[t] \in Int
<1>1. Created \subseteq 0..3 /\ Created # {}
  BY ThreadsAssumption DEF Created
<1>2. IsFiniteSet(0..3) /\ Cardinality(0..3) = 4
  <2>1. 0 \in Int /\ 3 \in Int
    OBVIOUS
  <2>2. IsFiniteSet(0..3) /\ Cardinality(0..3) = IF 0 > 3 THEN 0 ELSE 3 - 0 + 1
    BY <2>1, FS_Interval, Zenon
  <2> QED BY <2>2
<1>3. IsFiniteSet(Created) /\ Cardinality(Created) <= 4
  BY <1>1, <1>2, FS_Subset
<1>4. Cardinality(Created) \in Nat /\ Cardinality(Created) # 0
  BY <1>1, <1>3, FS_CardinalityType, FS_EmptySet
<1>5. Bankers \subseteq Created /\ Bankers \subseteq {2, 3} /\ Created \ Bankers \subseteq {0, 1}
  BY <1>1 DEF Bankers
<1>6. \A t \in 0..3 : arg[t] \in Int
  BY ThreadsAssumption DEF arg
<1> QED BY <1>1, <1>3, <1>4, <1>5, <1>6

(* With one kind, kinds is SIGTSTP alone or SIGALRM alone.                 *)
LEMMA SingleSignal ==
  ASSUME OneKind, kinds \in SignalSets
  PROVE  \E sig \in base_mask : kinds = {sig}
<1>1. kinds \subseteq base_mask
  BY ThreadsAssumption
<1>2. IsFiniteSet(base_mask)
  <2>1. base_mask = {TSTP} \union {ALRM}
    BY DEF base_mask
  <2> QED BY <2>1, FS_Singleton, FS_AddElement
<1>3. IsFiniteSet(kinds)
  BY <1>1, <1>2, FS_Subset
<1>4. \E sig : kinds = {sig}
  BY <1>3, FS_Singleton DEF OneKind
<1> QED BY <1>1, <1>4

(* No queue is ever near the end of its array.                             *)
LEMMA FewThreads ==
  ASSUME QueueInv
  PROVE  ReadySize + WaitSize <= 4
<1> DEFINE R == Listed(ready_queue, ReadySize)
           W == Listed(waiting_queue, WaitSize)
<1>1. IsFiniteSet(R) /\ Cardinality(R) = ReadySize
  BY SizeOfListed DEF QueueInv
<1>2. IsFiniteSet(W) /\ Cardinality(W) = WaitSize
  BY SizeOfListed DEF QueueInv
<1>3. R \intersect W = {} /\ R \union W \subseteq Created
  BY DEF QueueInv
<1>4. Cardinality(R \union W) = Cardinality(R) + Cardinality(W) - Cardinality(R \intersect W)
  BY <1>1, <1>2, FS_Union
<1>5. Cardinality(R \union W) <= Cardinality(Created)
  BY <1>3, CreatedFacts, FS_Subset
<1>6. Cardinality(R \intersect W) = 0
  BY <1>3, FS_EmptySet
<1>7. ReadySize \in Nat /\ WaitSize \in Nat
  BY DEF QueueInv
<1> HIDE DEF R, W
<1> QED BY <1>1, <1>2, <1>4, <1>5, <1>6, <1>7, CreatedFacts

(* Inside the ready queue rq_current names a thread that can run.          *)
LEMMA RunningLives ==
  ASSUME TypeOK, QueueInv, rq_current < ReadySize
  PROVE  /\ RUNNING \in Created \ Exited
         /\ RUNNING \in Listed(ready_queue, ReadySize)
<1>1. rq_current \in 0..ReadySize - 1
  <2>1. rq_current \in Slots
    BY DEF TypeOK
  <2>2. ReadySize \in Nat
    BY DEF QueueInv
  <2> QED BY <2>1, <2>2 DEF Slots, THREAD_MAX
<1>2. RUNNING \in Listed(ready_queue, ReadySize)
  BY <1>1 DEF Listed, RUNNING
<1> QED BY <1>2 DEF QueueInv

-----------------------------------------------------------------------------
(* The state start_threading finds.                                        *)

Below(t) == {u \in Created : u < t}

(* The threads of Created are numbered from 0 in ascending order.          *)
LEMMA Numbering ==
  /\ \A t \in Created : Cardinality(Below(t)) \in 0..Cardinality(Created) - 1
  /\ \A t, u \in Created : Cardinality(Below(t)) = Cardinality(Below(u)) => t = u
  /\ \A k \in 0..Cardinality(Created) - 1 : \E t \in Created : Cardinality(Below(t)) = k
<1> DEFINE N == Cardinality(Created)
           rank == [t \in Created |-> Cardinality(Below(t))]
<1>1. ASSUME NEW t \in Created
      PROVE  IsFiniteSet(Below(t)) /\ Cardinality(Below(t)) \in 0..N - 1
  <2>1. Below(t) \subseteq Created /\ t \notin Below(t)
    BY CreatedFacts DEF Below
  <2>2. IsFiniteSet(Below(t)) /\ Cardinality(Below(t)) <= N /\ Cardinality(Below(t)) # N
    BY <2>1, CreatedFacts, FS_Subset
  <2>3. Cardinality(Below(t)) \in Nat
    BY <2>2, FS_CardinalityType
  <2> QED BY <2>2, <2>3, CreatedFacts
<1>2. ASSUME NEW t \in Created, NEW u \in Created, t < u
      PROVE  Cardinality(Below(t)) # Cardinality(Below(u))
  <2> \A v \in Created : v \in Int
    BY CreatedFacts
  <2>1. Below(t) \subseteq Below(u) /\ t \in Below(u) /\ t \notin Below(t)
    BY <1>2 DEF Below
  <2> QED BY <2>1, <1>1, FS_Subset
<1>3. \A t, u \in Created : Cardinality(Below(t)) = Cardinality(Below(u)) => t = u
  BY <1>2, CreatedFacts
<1>4. rank \in Injection(Created, 0..N - 1)
  BY <1>1, <1>3 DEF Injection, IsInjective
<1>5. IsFiniteSet(0..N - 1) /\ Cardinality(0..N - 1) = N
  <2>1. 0 \in Int /\ N - 1 \in Int /\ (IF 0 > N - 1 THEN 0 ELSE (N - 1) - 0 + 1) = N
    BY CreatedFacts
  <2> QED BY <2>1, FS_Interval
<1>6. rank \in Surjection(Created, 0..N - 1)
  BY <1>4, <1>5, FS_Injection
<1>7. \A k \in 0..N - 1 : \E t \in Created : rank[t] = k
  BY <1>6 DEF Surjection
<1> QED BY <1>1, <1>3, <1>7

(* The initial ready queue lists every created thread once.                *)
LEMMA InitQueues ==
  ASSUME Init
  PROVE  /\ ready_queue \in [Slots -> Created \union {NULL}]
         /\ Distinct(ready_queue, rq_size) /\ Listed(ready_queue, rq_size) = Created
<1> DEFINE N == Cardinality(Created)
<1>1. ASSUME NEW k \in 0..N - 1
      PROVE  ready_queue[k] = CHOOSE t \in Created : Cardinality(Below(t)) = k
  <2>1. k \in Slots /\ k < N
    BY CreatedFacts DEF Slots, THREAD_MAX
  <2>2. ready_queue[k] = CHOOSE t \in Created : Cardinality({u \in Created : u < t}) = k
    BY <2>1, Zenon DEF Init
  <2> QED BY <2>2, Zenon DEF Below
<1>2. \A k \in 0..N - 1 :
        ready_queue[k] \in Created /\ Cardinality(Below(ready_queue[k])) = k
  BY <1>1, Numbering
<1>3. \A k \in Slots : k \notin 0..N - 1 => ready_queue[k] = NULL
  <2>1. N \in 1..4
    BY CreatedFacts
  <2> QED BY <2>1 DEF Init, Slots, THREAD_MAX
<1>4. ready_queue \in [Slots -> Created \union {NULL}]
  <2>1. ready_queue = [k \in Slots |-> ready_queue[k]]
    BY DEF Init
  <2> QED BY <2>1, <1>2, <1>3
<1>5. Distinct(ready_queue, N)
  BY <1>2 DEF Distinct
<1>6. Listed(ready_queue, N) \subseteq Created
  BY <1>2 DEF Listed
<1>7. ASSUME NEW t \in Created PROVE t \in Listed(ready_queue, N)
  <2>1. PICK k \in 0..N - 1 : k = Cardinality(Below(t))
    BY Numbering
  <2>2. ready_queue[k] = t
    BY <2>1, <1>2, Numbering
  <2> QED BY <2>2 DEF Listed
<1>8. rq_size = N
  BY DEF Init
<1> QED BY <1>4, <1>5, <1>6, <1>7, <1>8

(* start_threading finds a state that satisfies the invariant.             *)
LEMMA InitInv ==
  ASSUME Init, kinds \in SignalSets
  PROVE  IInv
<1> USE CreatedFacts, ThreadsAssumption
<1>1. rq_size \in 1..4 /\ ReadySize = rq_size /\ WaitSize = 0 /\ wq_size = 0 /\ Exited = {}
  BY DEF Init, ReadySize, WaitSize, Exited
<1>2. TypeOK
  <2>1. ready_queue \in [Slots -> Created \union {NULL}]
    BY InitQueues
  <2>2. waiting_queue \in [Slots -> Created \union {NULL}] /\ {rq_size, rq_current, wq_size} \subseteq Slots
    BY <1>1 DEF Init, Slots, THREAD_MAX
  <2>3. env \in [Created -> {"setup", "locked", "next", "operate", "unlock"}]
    BY DEF Init
  <2>4. {i, x, y} \subseteq [Created -> Nat] /\ freed \subseteq Created
    BY DEF Init
  <2>5. balance \in Int /\ lock_owner \in Bankers \union {Unowned}
    BY DEF Init
  <2>6. pc \in Labels /\ rtv \in 0..3 /\ tmp \in Created \union {NULL}
    BY DEF Init, Labels
  <2>7. blocked \subseteq base_mask /\ pending \subseteq base_mask
    BY DEF Init
  <2>8. tstp \in 0..MaxTstp
    BY MaxTstp \in Nat DEF Init
  <2>9. armed \in BOOLEAN /\ kinds \in SignalSets
    BY Zenon DEF Init
  <2> QED BY <2>1, <2>2, <2>3, <2>4, <2>5, <2>6, <2>7, <2>8, <2>9 DEF TypeOK
<1>3. MaskInv
  BY DEF Init, MaskInv
<1>4. QueueInv
  <2>1. Listed(waiting_queue, WaitSize) = {} /\ Distinct(waiting_queue, WaitSize)
    BY <1>1 DEF Listed, Distinct
  <2>2. Distinct(ready_queue, ReadySize) /\ Listed(ready_queue, ReadySize) = Created
    BY <1>1, InitQueues
  <2>3. /\ Listed(ready_queue, ReadySize) \intersect Listed(waiting_queue, WaitSize) = {}
        /\ Listed(ready_queue, ReadySize) \union Listed(waiting_queue, WaitSize) = Created \ Exited
    BY <1>1, <2>1, <2>2
  <2>4. ReadySize \in Nat /\ WaitSize \in Nat /\ pc = "start"
    BY <1>1 DEF Init
  <2> QED BY <2>1, <2>2, <2>3, <2>4 DEF QueueInv
<1>5. CurrentInv
  BY <1>1 DEF Init, CurrentInv
<1>6. RunInv
  BY DEF Init, RunInv, Refused, Leaving
<1>7. EnvInv
  BY DEF Init, EnvInv
<1>8. LockInv
  <2>1. lock_owner = Unowned /\ env = [t \in Created |-> "setup"]
    BY DEF Init
  <2>2. \A k \in 0..ReadySize - 1 : ready_queue[k] \in Created
    BY <1>1, InitQueues DEF Listed
  <2>3. \A k \in 0..ReadySize - 1 : env[ready_queue[k]] = "setup" /\ lock_owner # ready_queue[k]
    BY <2>1, <2>2 DEF Unowned
  <2> QED BY <1>1, <2>1, <2>3 DEF LockInv
<1>9. AlarmInv
  BY DEF Init, AlarmInv
<1> QED BY <1>2, <1>3, <1>4, <1>5, <1>6, <1>7, <1>8, <1>9 DEF IInv

-----------------------------------------------------------------------------
(* Each part of the invariant is preserved by each action.                 *)

(* The states in which RUNNING has a meaning.                              *)
Settled == pc \notin {"wrap", "undefined", "wait_shrink", "exit_shrink", "free", "resume"}

(* Outside step 3 RUNNING is on the ready queue and has not exited.        *)
LEMMA RunningReady ==
  ASSUME IInv, Settled
  PROVE  /\ rq_current \in 0..rq_size - 1 /\ ReadySize = rq_size /\ Exited = freed
         /\ RUNNING \in Created \ freed
         /\ RUNNING \in Listed(ready_queue, rq_size)
<1>1. rq_current < rq_size /\ ReadySize = rq_size /\ Exited = freed
  BY DEF IInv, Settled, CurrentInv, ReadySize, Exited
<1>2. rq_current \in Nat /\ rq_size \in Nat
  BY DEF IInv, TypeOK, Slots
<1> QED BY <1>1, <1>2, RunningLives DEF IInv

(* Where longjmp can take a thread.                                        *)
LEMMA ResumedLabel ==
  ASSUME TypeOK
  PROVE  Resumed \in {"undefined", "first", "lock", "acquired", "remask"}
BY DEF Resumed

QueueType ==
  /\ ready_queue \in [Slots -> Created \union {NULL}]
  /\ waiting_queue \in [Slots -> Created \union {NULL}]
  /\ rq_size \in Slots /\ rq_current \in Slots /\ wq_size \in Slots

TcbType ==
  /\ env \in [Created -> {"setup", "locked", "next", "operate", "unlock"}]
  /\ i \in [Created -> Nat] /\ x \in [Created -> Nat] /\ y \in [Created -> Nat]
  /\ freed \subseteq Created

BankType   == balance \in Int /\ lock_owner \in Bankers \union {Unowned}
CpuType    == pc \in Labels /\ rtv \in 0..3 /\ tmp \in Created \union {NULL}
SignalType ==
  /\ blocked \subseteq base_mask /\ pending \subseteq base_mask
  /\ armed \in BOOLEAN /\ tstp \in 0..MaxTstp /\ kinds \in SignalSets

(* TypeOK by groups of variables, which the actions change together.       *)
LEMMA TypeParts == TypeOK <=> QueueType /\ TcbType /\ BankType /\ CpuType /\ SignalType
BY DEF TypeOK, QueueType, TcbType, BankType, CpuType, SignalType

(* Which actions change which variables.                                   *)
LEMMA WhoChanges ==
  ASSUME Next
  PROVE  /\ HandOver \/ WaitStep \/ ExitStep \/ AdvanceStep \/ UNCHANGED queues
         /\ \/ ExitStep \/ Loop \/ LoopEnds \/ Lock \/ Acquired \/ Operate
            \/ UNCHANGED <<env, i, x, y, freed>>
         /\ HandOver \/ Lock \/ Operate \/ Unlock \/ UNCHANGED <<balance, lock_owner>>
         /\ kinds' = kinds
<1> USE DEF queues, bank, tcbs, signals
<1>1. CASE (\E sig \in base_mask : Deliver(sig)) \/ ResetAlarm \/ HandlerJumps \/ StartThreading
  BY <1>1 DEF Deliver, ResetAlarm, HandlerJumps, StartThreading
<1>2. CASE HandOver \/ WaitStep \/ ExitStep \/ AdvanceStep \/ Resume \/ UnblockStep
  BY <1>2 DEF HandOver, WaitStep, Wait, ExitStep, Exit, AdvanceStep, Resume, UnblockStep
<1>3. CASE Loop \/ LoopEnds \/ Lock \/ MustWait \/ Acquired \/ Operate \/ Unlock
  BY <1>3 DEF Loop, LoopEnds, Lock, MustWait, Acquired, Operate, Unlock
<1>4. CASE SendTstp \/ AlarmExpires
  BY <1>4 DEF SendTstp, AlarmExpires
<1> QED BY <1>1, <1>2, <1>3, <1>4 DEF Next, Cpu

(* The sizes of the queues, far below the ends of the arrays.              *)
LEMMA Sizes ==
  ASSUME IInv
  PROVE  /\ rq_size \in 0..5 /\ wq_size \in 0..5 /\ rq_current \in Slots
         /\ pc \notin {"wait_shrink", "exit_shrink"} => rq_size <= 4
         /\ pc \in {"wait_shrink", "exit_shrink"} => rq_size > 0
         /\ pc # "wait_slot" => wq_size <= 4
<1>1. rq_size \in Nat /\ wq_size \in Nat /\ rq_current \in Slots
  BY DEF IInv, TypeOK, Slots
<1>2. ReadySize \in Nat /\ WaitSize \in Nat /\ ReadySize + WaitSize <= 4
  BY FewThreads DEF IInv, QueueInv
<1> QED BY <1>1, <1>2 DEF ReadySize, WaitSize

(* TypeOK is preserved, group by group.                                    *)
LEMMA QueueTypeNext ==
  ASSUME IInv, Next
  PROVE  QueueType'
<1> USE Sizes DEF Slots, THREAD_MAX
<1>1. QueueType
  BY TypeParts DEF IInv
<1>2. CASE HandOver
  <2>1. wq_size - 1 \in Slots \/ wq_size = 0
    OBVIOUS
  <2> QED BY <1>1, <1>2, <2>1 DEF HandOver, HandOverNow, At, QueueType
<1>3. CASE WaitStep
  <2>1. ready_queue' \in [Slots -> Created \union {NULL}]
    BY <1>1, <1>3 DEF WaitStep, Wait, LeaveSlot, QueueType
  <2>2. waiting_queue' \in [Slots -> Created \union {NULL}]
    BY <1>1, <1>3 DEF WaitStep, Wait, QueueType, RUNNING
  <2>3. rq_size' \in Slots /\ rq_current' \in Slots /\ wq_size' \in Slots
    BY <1>1, <1>3 DEF WaitStep, Wait, LeaveSlot, At, QueueType
  <2> QED BY <2>1, <2>2, <2>3 DEF QueueType
<1>4. CASE ExitStep
  <2>1. ready_queue' \in [Slots -> Created \union {NULL}]
    BY <1>1, <1>4 DEF ExitStep, Exit, LeaveSlot, QueueType
  <2>2. rq_size' \in Slots /\ rq_current' \in Slots
    BY <1>1, <1>4 DEF ExitStep, Exit, LeaveSlot, At, QueueType
  <2> QED BY <1>1, <1>4, <2>1, <2>2 DEF QueueType, ExitStep
<1>5. CASE AdvanceStep
  <2>1. pc = "advance" => rq_current < rq_size
    BY RunningReady DEF Settled
  <2> QED BY <1>1, <1>5, <2>1 DEF AdvanceStep, Advance, At, QueueType
<1>6. CASE UNCHANGED queues
  BY <1>1, <1>6 DEF queues, QueueType
<1> QED BY <1>2, <1>3, <1>4, <1>5, <1>6, WhoChanges

(* Stated apart: the product of two variables is hard for a solver.        *)
LEMMA NatProduct == \A a, b \in Nat : a * b \in Nat
OBVIOUS

(* The variables of the tcbs: the loops keep x and y natural numbers.      *)
LEMMA TcbTypeNext ==
  ASSUME IInv, Next
  PROVE  TcbType'
<1>1. TcbType
  BY TypeParts DEF IInv
<1>2. Settled => RUNNING \in Created
  BY RunningReady
<1>3. CASE ExitStep
  <2>1. freed' \subseteq Created
    BY <1>1, <1>3 DEF ExitStep, Exit, At, TcbType, IInv, QueueInv
  <2> QED BY <1>1, <1>3, <2>1 DEF ExitStep, TcbType
<1>4. CASE Loop
  <2>1. RUNNING \in Created \ Bankers
    BY <1>2, <1>4, CreatedFacts DEF Loop, At, Settled, IInv, RunInv, EnvInv
  <2>2. PICK n \in Nat : Body(n)
    BY <1>1, <1>4, <2>1 DEF Loop, TcbType
  <2>3. CASE RUNNING = 0
    <3>1. FibBody(n).x \in Nat /\ FibBody(n).y \in Nat
      BY <1>1, <2>1, <2>3 DEF FibBody, TcbType
    <3> QED BY <1>1, <1>4, <2>2, <2>3, <3>1 DEF Body, Loop, TcbType
  <2>4. CASE RUNNING = 1
    <3>1. FactBody(n).x \in Nat /\ FactBody(n).y \in Nat
      BY <1>1, <2>1, <2>4, NatProduct DEF FactBody, TcbType
    <3>2. /\ i' = [i EXCEPT ![RUNNING] = n] /\ x' = [x EXCEPT ![RUNNING] = FactBody(n).x]
          /\ y' = [y EXCEPT ![RUNNING] = FactBody(n).y]
      BY <2>2, <2>4 DEF Body
    <3> QED BY <1>1, <1>4, <3>1, <3>2 DEF Loop, TcbType
  <2> QED BY <2>1, <2>3, <2>4, CreatedFacts
<1>5. CASE LoopEnds \/ Lock \/ Acquired \/ Operate
  BY <1>1, <1>5 DEF LoopEnds, Lock, Acquired, Operate, Yield, Leave, TcbType
<1>6. CASE UNCHANGED <<env, i, x, y, freed>>
  BY <1>1, <1>6 DEF TcbType
<1> QED BY <1>3, <1>4, <1>5, <1>6, WhoChanges

(* The bank: only a bank thread comes to own the lock.                     *)
LEMMA BankTypeNext ==
  ASSUME IInv, Next
  PROVE  BankType'
<1>1. BankType
  BY TypeParts DEF IInv
<1>2. CASE HandOver
  <2>1. HandOverNow => waiting_queue[0] \in Bankers
    <3>1. wq_size > 0 => 0 \in 0..WaitSize - 1
      BY <1>2, Sizes DEF HandOver, At, WaitSize
    <3> QED BY <3>1 DEF IInv, LockInv, HandOverNow
  <2> QED BY <1>1, <1>2, <2>1 DEF HandOver, BankType
<1>3. CASE Lock
  <2>1. RUNNING \in Bankers
    BY <1>3 DEF Lock, At, IInv, RunInv
  <2> QED BY <1>1, <1>3, <2>1 DEF Lock, BankType
<1>4. CASE Operate
  <2>1. arg[RUNNING] \in Int
    BY <1>4, RunningReady, CreatedFacts DEF Operate, At, Settled
  <2> QED BY <1>1, <1>4, <2>1 DEF Operate, NewBalance, BankType
<1>5. CASE Unlock
  BY <1>1, <1>5 DEF Unlock, OwnerAfter, BankType
<1>6. CASE UNCHANGED <<balance, lock_owner>>
  BY <1>1, <1>6 DEF BankType
<1> QED BY <1>2, <1>3, <1>4, <1>5, <1>6, WhoChanges

(* The CPU: every label that a step goes to is one of Labels.              *)
LEMMA CpuTypeNext ==
  ASSUME IInv, Next
  PROVE  CpuType'
<1> USE DEF Labels
<1>1. CpuType
  BY TypeParts DEF IInv
<1>2. Settled => RUNNING \in Created
  BY RunningReady
<1>3. CASE (\E sig \in base_mask : Deliver(sig)) \/ ResetAlarm \/ HandlerJumps
  BY <1>1, <1>3 DEF Deliver, ResetAlarm, HandlerJumps, Longjmp, CpuType
<1>4. CASE StartThreading \/ Resume
  BY <1>1, <1>4, ResumedLabel DEF StartThreading, Resume, CpuType, IInv
<1>5. CASE HandOver
  BY <1>1, <1>5 DEF HandOver, At, CpuType, IInv, RunInv
<1>6. CASE WaitStep \/ AdvanceStep \/ Loop \/ LoopEnds \/ Lock \/ MustWait \/ Acquired
  BY <1>1, <1>6 DEF WaitStep, Wait, AdvanceStep, Advance, Loop, Body, LoopEnds, Lock, MustWait,
     Acquired, Yield, Leave, Longjmp, CpuType
<1>7. CASE ExitStep
  BY <1>1, <1>2, <1>7 DEF ExitStep, Exit, At, Settled, CpuType
<1>8. CASE UnblockStep
  BY <1>1, <1>8 DEF UnblockStep, Unblock, At, CpuType, IInv, RunInv
<1>9. CASE Operate \/ Unlock \/ SendTstp \/ AlarmExpires
  BY <1>1, <1>9 DEF Operate, Unlock, Yield, Longjmp, SendTstp, AlarmExpires, CpuType
<1> QED BY <1>3, <1>4, <1>5, <1>6, <1>7, <1>8, <1>9 DEF Next, Cpu

(* The signals: masks and pending signals are sets of the two signals.     *)
LEMMA SignalTypeNext ==
  ASSUME IInv, Next
  PROVE  SignalType'
<1> USE DEF signals
<1>1. SignalType
  BY TypeParts DEF IInv
<1>2. CASE \E sig \in base_mask : Deliver(sig)
  BY <1>1, <1>2 DEF Deliver, SignalType
<1>3. CASE ResetAlarm \/ StartThreading
  <2>1. armed' \in BOOLEAN
    <3>1. SetAlarm
      BY <1>3 DEF ResetAlarm, StartThreading
    <3>2. (timeslice > 0) \in BOOLEAN
      OBVIOUS
    <3> QED BY <3>1, <3>2, Zenon DEF SetAlarm
  <2> QED BY <1>1, <1>3, <2>1 DEF ResetAlarm, StartThreading, SignalType
<1>4. CASE UnblockStep
  BY <1>1, <1>4 DEF UnblockStep, Unblock, SignalType
<1>5. CASE SendTstp
  <2>1. tstp' \in 0..MaxTstp
    <3>1. MaxTstp \in Nat /\ tstp \in 0..MaxTstp /\ tstp < MaxTstp /\ tstp' = tstp + 1
      BY <1>1, <1>5, ThreadsAssumption DEF SendTstp, SignalType
    <3> QED BY <3>1
  <2>2. pending' \subseteq base_mask
    BY <1>1, <1>5 DEF SendTstp, SignalType, base_mask
  <2> QED BY <1>1, <1>5, <2>1, <2>2 DEF SendTstp, SignalType
<1>6. CASE AlarmExpires
  BY <1>1, <1>6 DEF AlarmExpires, SignalType, base_mask
<1>7. CASE HandlerJumps \/ HandOver \/ WaitStep \/ ExitStep \/ AdvanceStep \/ Resume
  BY <1>1, <1>7 DEF HandlerJumps, HandOver, WaitStep, ExitStep, AdvanceStep, Resume, SignalType
<1>8. CASE Loop \/ LoopEnds \/ Lock \/ MustWait \/ Acquired \/ Operate \/ Unlock
  BY <1>1, <1>8 DEF Loop, LoopEnds, Lock, MustWait, Acquired, Operate, Unlock, SignalType
<1> QED BY <1>2, <1>3, <1>4, <1>5, <1>6, <1>7, <1>8 DEF Next, Cpu

(* The groups together.                                                    *)
LEMMA TypeNext ==
  ASSUME IInv, Next
  PROVE  TypeOK'
<1>1. (QueueType /\ TcbType /\ BankType /\ CpuType /\ SignalType)'
  BY QueueTypeNext, TcbTypeNext, BankTypeNext, CpuTypeNext, SignalTypeNext
<1> QED BY <1>1 DEF TypeOK, QueueType, TcbType, BankType, CpuType, SignalType

(* Signals are delivered in the window of thread_yield only.               *)
LEMMA Window ==
  ASSUME IInv, OneKind, NEW sig \in base_mask, Deliver(sig)
  PROVE  pc \in {"unblock_alrm", "remask"} /\ kinds = {sig}
<1>1. sig \in pending /\ sig \notin blocked
  BY DEF Deliver
<1>2. sig \in kinds
  BY <1>1 DEF IInv, MaskInv
<1>3. kinds = {sig}
  BY <1>2, SingleSignal DEF IInv, TypeOK
<1> QED BY <1>1, <1>2, <1>3 DEF IInv, MaskInv

(* Whatever a handler does, the signal that can come is blocked until      *)
(* thread_yield opens the window again.                                    *)
LEMMA MaskNext ==
  ASSUME IInv, OneKind, Next
  PROVE  MaskInv'
<1> USE DEF signals, MaskInv
<1>1. MaskInv /\ kinds \subseteq base_mask
  BY ThreadsAssumption DEF IInv, TypeOK
<1>2. CASE \E sig \in base_mask : Deliver(sig)
  <2>1. PICK sig \in base_mask : Deliver(sig)
    BY <1>2
  <2> QED BY <1>1, <2>1, Window DEF Deliver
<1>3. CASE ResetAlarm \/ HandlerJumps \/ HandOver \/ WaitStep \/ ExitStep \/ AdvanceStep
  BY <1>1, <1>3 DEF ResetAlarm, HandlerJumps, HandOver, WaitStep, Wait, ExitStep, Exit,
     AdvanceStep, Advance, Longjmp, At, RunInv, IInv
<1>4. CASE StartThreading \/ Resume
  <2>1. Resumed \notin {"next", "operate", "unlock"}
    BY ResumedLabel DEF IInv
  <2> QED BY <1>1, <1>4, <2>1 DEF StartThreading, Resume, At
<1>5. CASE UnblockStep
  BY <1>1, <1>5 DEF UnblockStep, Unblock, At
<1>6. CASE Loop \/ LoopEnds \/ Lock \/ MustWait \/ Acquired \/ Operate \/ Unlock
  BY <1>1, <1>6 DEF Loop, Body, LoopEnds, Lock, MustWait, Acquired, Operate, Unlock, Yield,
     Longjmp, At
<1>7. CASE SendTstp \/ AlarmExpires
  BY <1>1, <1>7 DEF SendTstp, AlarmExpires
<1> QED BY <1>2, <1>3, <1>4, <1>5, <1>6, <1>7 DEF Next, Cpu

(* The clock runs, or is over, until the handler sets it again.            *)
LEMMA AlarmNext ==
  ASSUME IInv, OneKind, Next
  PROVE  AlarmInv'
<1> USE DEF signals, AlarmInv
<1>1. AlarmInv
  BY DEF IInv
<1>2. CASE \E sig \in base_mask : Deliver(sig)
  <2>1. PICK sig \in base_mask : Deliver(sig)
    BY <1>2
  <2>2. pc \in {"unblock_alrm", "remask"}
    BY <2>1, Window
  <2>3. sig = ALRM => pc' = "reset_alarm"
    BY <2>1 DEF Deliver
  <2>4. armed' = armed /\ (sig # ALRM /\ ALRM \in pending => ALRM \in pending')
    BY <2>1 DEF Deliver
  <2> QED BY <1>1, <2>2, <2>3, <2>4
<1>3. CASE ResetAlarm \/ StartThreading
  BY <1>3 DEF ResetAlarm, StartThreading, SetAlarm
<1>4. CASE HandlerJumps \/ HandOver \/ WaitStep \/ ExitStep \/ AdvanceStep \/ Resume
  BY <1>1, <1>4 DEF HandlerJumps, HandOver, WaitStep, Wait, ExitStep, Exit, AdvanceStep,
     Advance, Resume, At
<1>5. CASE UnblockStep \/ Loop \/ LoopEnds \/ Lock \/ MustWait \/ Acquired \/ Operate \/ Unlock
  BY <1>1, <1>5 DEF UnblockStep, Unblock, Loop, LoopEnds, Lock, MustWait, Acquired, Operate,
     Unlock, At
<1>6. CASE SendTstp \/ AlarmExpires
  BY <1>1, <1>6 DEF SendTstp, AlarmExpires
<1> QED BY <1>2, <1>3, <1>4, <1>5, <1>6 DEF Next, Cpu

-----------------------------------------------------------------------------
(* The queues.                                                             *)

Moving == {"wait_grow", "wait_slot", "wait_shrink", "exit_shrink", "free"}

(* Steps that leave the queues alone, or only move rq_current.             *)
LEMMA QueueSame ==
  ASSUME QueueInv, UNCHANGED <<ready_queue, rq_size, waiting_queue, wq_size, freed>>,
         \/ pc \notin Moving /\ pc' \notin Moving
         \/ UNCHANGED <<pc, tmp, rq_current>>
  PROVE  /\ QueueInv'
         /\ ReadySize' = ReadySize /\ WaitSize' = WaitSize
<1>1. ReadySize' = ReadySize /\ WaitSize' = WaitSize /\ Exited' = Exited
  BY DEF ReadySize, WaitSize, Exited, Moving
<1>2. /\ Distinct(ready_queue, ReadySize)' /\ Distinct(waiting_queue, WaitSize)'
      /\ Listed(ready_queue, ReadySize)' = Listed(ready_queue, ReadySize)
      /\ Listed(waiting_queue, WaitSize)' = Listed(waiting_queue, WaitSize)
  BY <1>1 DEF QueueInv, Distinct, Listed
<1>3. pc' \in {"wait_grow", "wait_slot"} => waiting_queue'[WaitSize'] = RUNNING'
  BY <1>1 DEF QueueInv, Moving, RUNNING
<1>4. pc' \in {"exit_shrink", "free"} => tmp' \in Created
  BY DEF QueueInv, Moving
<1> QED BY <1>1, <1>2, <1>3, <1>4 DEF QueueInv

(* Step 2 takes the first waiting thread to the end of the ready queue.    *)
LEMMA QueueHandOver ==
  ASSUME IInv, HandOver, HandOverNow
  PROVE  /\ QueueInv'
         /\ ReadySize = rq_size /\ WaitSize = wq_size
         /\ ReadySize' = rq_size + 1 /\ WaitSize' = wq_size - 1
<1>1. pc = "scheduler" /\ pc' \notin Moving
  BY DEF HandOver, At, Moving, IInv, RunInv
<1>2. ReadySize = rq_size /\ WaitSize = wq_size /\ Exited = freed
  BY <1>1 DEF ReadySize, WaitSize, Exited
<1>3. ReadySize' = rq_size + 1 /\ WaitSize' = wq_size - 1 /\ Exited' = freed
  BY <1>1 DEF ReadySize, WaitSize, Exited, Moving, HandOver, tcbs
<1>4. rq_size \in 0..THREAD_MAX - 1 /\ wq_size \in 1..THREAD_MAX - 1
  BY <1>1, Sizes DEF THREAD_MAX, HandOverNow
<1>5. /\ ready_queue \in [Slots -> Created \union {NULL}]
      /\ waiting_queue \in [Slots -> Created \union {NULL}]
  BY DEF IInv, TypeOK
<1>6. /\ Distinct(ready_queue, rq_size) /\ Distinct(waiting_queue, wq_size)
      /\ Listed(ready_queue, rq_size) \intersect Listed(waiting_queue, wq_size) = {}
      /\ Listed(ready_queue, rq_size) \union Listed(waiting_queue, wq_size) = Created \ freed
  BY <1>2 DEF IInv, QueueInv
<1>7. waiting_queue[0] \in Listed(waiting_queue, wq_size)
  BY <1>4 DEF Listed
<1>8. /\ Distinct(ready_queue', rq_size + 1)
      /\ Listed(ready_queue', rq_size + 1) = Listed(ready_queue, rq_size) \union {waiting_queue[0]}
  <2>1. /\ \A k \in 0..rq_size - 1 : ready_queue'[k] = ready_queue[k]
        /\ ready_queue'[rq_size] = waiting_queue[0]
    BY <1>4, <1>5 DEF HandOver, Slots, THREAD_MAX
  <2>2. waiting_queue[0] \notin Listed(ready_queue, rq_size)
    BY <1>6, <1>7
  <2>3. rq_size \in Nat /\ Distinct(ready_queue, rq_size)
    BY <1>4, <1>6 DEF THREAD_MAX
  <2> QED BY <2>1, <2>2, <2>3, AppendKeeps
<1>9. /\ Distinct(waiting_queue', wq_size - 1)
      /\ Listed(waiting_queue', wq_size - 1) = Listed(waiting_queue, wq_size) \ {waiting_queue[0]}
  BY <1>4, <1>5, <1>6, ShiftRemovesFirst DEF HandOver
<1>10. /\ Listed(ready_queue', ReadySize') \intersect Listed(waiting_queue', WaitSize') = {}
       /\ Listed(ready_queue', ReadySize') \union Listed(waiting_queue', WaitSize') = Created \ Exited'
  BY <1>3, <1>6, <1>7, <1>8, <1>9
<1>11. QueueInv'
  BY <1>1, <1>3, <1>4, <1>8, <1>9, <1>10 DEF QueueInv, Moving
<1> QED BY <1>2, <1>3, <1>11

(* The slot of RUNNING is given to the last thread of the queue.           *)
LEMMA LeaveSlotRemoves ==
  ASSUME QueueType, LeaveSlot, rq_current < rq_size, Distinct(ready_queue, rq_size)
  PROVE  /\ Distinct(ready_queue', rq_size - 1)
         /\ Listed(ready_queue', rq_size - 1) = Listed(ready_queue, rq_size) \ {RUNNING}
         /\ rq_current' < rq_size - 1 \/ rq_current' = 0
         /\ \A k \in 0..rq_size - 2 :
              ready_queue'[k] = IF k = rq_current THEN ready_queue[rq_size - 1] ELSE ready_queue[k]
<1>1. rq_size \in 1..THREAD_MAX /\ rq_current \in 0..rq_size - 1
  BY DEF QueueType, Slots, THREAD_MAX
<1>2. ready_queue' = IF rq_current < rq_size - 1
                       THEN [ready_queue EXCEPT ![rq_current] = ready_queue[rq_size - 1]]
                       ELSE ready_queue
  BY DEF LeaveSlot
<1>3. ready_queue \in [Slots -> Created \union {NULL}]
  BY DEF QueueType
<1>4. /\ Distinct(ready_queue', rq_size - 1)
      /\ Listed(ready_queue', rq_size - 1) = Listed(ready_queue, rq_size) \ {ready_queue[rq_current]}
  BY <1>1, <1>2, <1>3, RemoveSwaps
<1>5. rq_current' < rq_size - 1 \/ rq_current' = 0
  BY <1>1 DEF LeaveSlot
<1>6. \A k \in 0..rq_size - 2 :
        ready_queue'[k] = IF k = rq_current THEN ready_queue[rq_size - 1] ELSE ready_queue[k]
  BY <1>1, <1>2, <1>3 DEF Slots, THREAD_MAX
<1> QED BY <1>4, <1>5, <1>6 DEF RUNNING

(* Step 3 for a thread that waits: it leaves one queue for the other.      *)
LEMMA QueueWait ==
  ASSUME IInv, WaitStep
  PROVE  /\ QueueInv'
         /\ pc = "wait_slot" => /\ ReadySize = rq_size /\ ReadySize' = rq_size - 1
                                /\ WaitSize = wq_size - 1 /\ WaitSize' = wq_size
         /\ pc # "wait_slot" => ReadySize' = ReadySize /\ WaitSize' = WaitSize
<1> USE DEF At
<1>t. QueueType /\ QueueInv
  BY TypeParts DEF IInv
<1>s. /\ rq_size \in Nat /\ wq_size \in 0..5 /\ UNCHANGED freed
      /\ pc = "wait_slot" => wq_size > 0
  BY <1>t, Sizes DEF WaitStep, tcbs, QueueType, Slots, QueueInv, WaitSize
<1>r. pc \in {"wait", "wait_grow", "wait_slot"} =>
        /\ RUNNING \in Created \ freed /\ RUNNING \in Listed(ready_queue, rq_size)
        /\ rq_current < rq_size
  BY <1>s, RunningReady DEF Settled
<1>1. CASE At("wait") /\ WaitStep
  <2>1. pc' = "wait_grow" /\ UNCHANGED <<ready_queue, rq_size, rq_current, wq_size>>
    BY <1>1 DEF WaitStep, Wait
  <2>2. ReadySize' = ReadySize /\ WaitSize' = WaitSize /\ Exited' = Exited /\ WaitSize = wq_size
    BY <1>1, <1>s, <2>1 DEF ReadySize, WaitSize, Exited
  <2>3. /\ \A k \in 0..wq_size - 1 : waiting_queue'[k] = waiting_queue[k]
        /\ waiting_queue'[wq_size] = RUNNING
    BY <1>1, <1>s, <1>t DEF WaitStep, Wait, QueueType, Slots, THREAD_MAX
  <2>4. /\ Distinct(waiting_queue', wq_size)
        /\ Listed(waiting_queue', wq_size) = Listed(waiting_queue, wq_size)
    BY <1>s, <1>t, <2>2, <2>3 DEF Distinct, Listed, QueueInv
  <2>5. RUNNING' = RUNNING
    BY <2>1 DEF RUNNING
  <2> QED BY <1>1, <1>t, <2>1, <2>2, <2>3, <2>4, <2>5 DEF QueueInv
<1>2. CASE At("wait_grow") /\ WaitStep
  <2>1. pc' = "wait_slot" /\ wq_size' = wq_size + 1
        /\ UNCHANGED <<ready_queue, rq_size, rq_current, waiting_queue>>
    BY <1>2 DEF WaitStep, Wait
  <2>2. ReadySize' = ReadySize /\ WaitSize' = WaitSize /\ Exited' = Exited
    BY <1>2, <1>s, <2>1 DEF ReadySize, WaitSize, Exited
  <2>3. waiting_queue'[WaitSize'] = RUNNING' /\ pc' \notin {"exit_shrink", "free"}
    BY <1>2, <1>t, <2>1, <2>2 DEF QueueInv, RUNNING
  <2>4. /\ Distinct(ready_queue, ReadySize)' /\ Distinct(waiting_queue, WaitSize)'
        /\ Listed(ready_queue, ReadySize)' = Listed(ready_queue, ReadySize)
        /\ Listed(waiting_queue, WaitSize)' = Listed(waiting_queue, WaitSize)
    BY <1>t, <2>1, <2>2 DEF QueueInv, Distinct, Listed
  <2> QED BY <1>2, <1>t, <2>2, <2>3, <2>4 DEF QueueInv
<1>3. CASE At("wait_slot") /\ WaitStep
  <2>1. pc' = "wait_shrink" /\ LeaveSlot /\ UNCHANGED <<rq_size, waiting_queue, wq_size>>
    BY <1>3 DEF WaitStep, Wait
  <2>2. /\ ReadySize = rq_size /\ ReadySize' = rq_size - 1
        /\ WaitSize = wq_size - 1 /\ WaitSize' = wq_size
        /\ Exited = freed /\ Exited' = freed
    BY <1>3, <1>s, <2>1 DEF ReadySize, WaitSize, Exited
  <2>3. /\ Distinct(ready_queue, rq_size) /\ Distinct(waiting_queue, wq_size - 1)
        /\ Listed(ready_queue, rq_size) \intersect Listed(waiting_queue, wq_size - 1) = {}
        /\ Listed(ready_queue, rq_size) \union Listed(waiting_queue, wq_size - 1) = Created \ freed
        /\ waiting_queue[wq_size - 1] = RUNNING
    BY <1>3, <1>t, <2>2 DEF QueueInv
  <2>4. /\ Distinct(ready_queue', rq_size - 1)
        /\ Listed(ready_queue', rq_size - 1) = Listed(ready_queue, rq_size) \ {RUNNING}
    BY <1>3, <1>t, <1>r, <2>1, <2>3, LeaveSlotRemoves
  <2>5. /\ Distinct(waiting_queue, wq_size)
        /\ Listed(waiting_queue, wq_size) = Listed(waiting_queue, wq_size - 1) \union {RUNNING}
    <3>1. wq_size \in Nat /\ wq_size > 0
      BY <1>3, <1>s
    <3>2. \A k \in 0..wq_size - 2 : waiting_queue[k] # RUNNING
      <4>1. RUNNING \notin Listed(waiting_queue, wq_size - 1)
        BY <1>3, <1>r, <2>3
      <4> QED BY <3>1, <4>1 DEF Listed
    <3>3. Distinct(waiting_queue, wq_size)
      BY <2>3, <3>1, <3>2 DEF Distinct
    <3> QED BY <2>3, <3>1, <3>3 DEF Listed
  <2>6. /\ Listed(ready_queue', ReadySize') \intersect Listed(waiting_queue', WaitSize') = {}
        /\ Listed(ready_queue', ReadySize') \union Listed(waiting_queue', WaitSize') = Created \ Exited'
    BY <1>3, <1>r, <2>1, <2>2, <2>3, <2>4, <2>5
  <2>7. ReadySize' \in Nat
    <3>1. rq_size > 0
      BY <1>3, <1>r, <1>t DEF QueueType, Slots
    <3> QED BY <1>s, <2>2, <3>1
  <2> QED BY <1>3, <1>s, <2>1, <2>2, <2>4, <2>5, <2>6, <2>7 DEF QueueInv
<1>4. CASE At("wait_shrink") /\ WaitStep
  <2>1. pc' = "resume" /\ rq_size' = rq_size - 1
        /\ UNCHANGED <<ready_queue, rq_current, waiting_queue, wq_size>>
    BY <1>4 DEF WaitStep, Wait
  <2>2. ReadySize' = ReadySize /\ WaitSize' = WaitSize /\ Exited' = Exited
    BY <1>4, <1>s, <2>1 DEF ReadySize, WaitSize, Exited
  <2>3. /\ Distinct(ready_queue, ReadySize)' /\ Distinct(waiting_queue, WaitSize)'
        /\ Listed(ready_queue, ReadySize)' = Listed(ready_queue, ReadySize)
        /\ Listed(waiting_queue, WaitSize)' = Listed(waiting_queue, WaitSize)
    BY <1>t, <2>1, <2>2 DEF QueueInv, Distinct, Listed
  <2> QED BY <1>4, <1>t, <2>1, <2>2, <2>3 DEF QueueInv
<1> QED BY <1>1, <1>2, <1>3, <1>4 DEF WaitStep, Wait

(* Step 3 for a thread that exits: it leaves the queue and is freed.       *)
LEMMA QueueExit ==
  ASSUME IInv, ExitStep
  PROVE  /\ QueueInv'
         /\ pc = "exit" => ReadySize = rq_size /\ ReadySize' = rq_size - 1
         /\ pc # "exit" => ReadySize' = ReadySize
         /\ WaitSize' = WaitSize
<1> USE DEF At
<1>t. QueueType /\ QueueInv /\ freed \subseteq Created
  BY TypeParts DEF IInv, TcbType
<1>s. rq_size \in Nat /\ wq_size \in Nat /\ UNCHANGED <<waiting_queue, wq_size>>
  BY <1>t DEF ExitStep, QueueType, Slots
<1>1. CASE At("exit") /\ ExitStep
  <2>1. pc' = "exit_shrink" /\ tmp' = RUNNING /\ LeaveSlot /\ UNCHANGED <<rq_size, freed>>
    BY <1>1 DEF ExitStep, Exit
  <2>2. /\ ReadySize = rq_size /\ ReadySize' = rq_size - 1 /\ WaitSize' = WaitSize
        /\ Exited = freed /\ Exited' = freed \union {RUNNING}
    BY <1>1, <1>s, <2>1 DEF ReadySize, WaitSize, Exited
  <2>3. RUNNING \in Created \ freed /\ RUNNING \in Listed(ready_queue, rq_size) /\ rq_current < rq_size
    BY <1>1, <1>s, RunningReady DEF Settled
  <2>4. /\ Distinct(ready_queue, rq_size) /\ Distinct(waiting_queue, WaitSize)
        /\ Listed(ready_queue, rq_size) \intersect Listed(waiting_queue, WaitSize) = {}
        /\ Listed(ready_queue, rq_size) \union Listed(waiting_queue, WaitSize) = Created \ freed
    BY <1>t, <2>2 DEF QueueInv
  <2>5. /\ Distinct(ready_queue', rq_size - 1)
        /\ Listed(ready_queue', rq_size - 1) = Listed(ready_queue, rq_size) \ {RUNNING}
    BY <1>t, <2>1, <2>3, <2>4, LeaveSlotRemoves
  <2>6. /\ Listed(waiting_queue', WaitSize') = Listed(waiting_queue, WaitSize)
        /\ Distinct(waiting_queue', WaitSize')
    BY <1>s, <2>2, <2>4
  <2>7. /\ Listed(ready_queue', ReadySize') \intersect Listed(waiting_queue', WaitSize') = {}
        /\ Listed(ready_queue', ReadySize') \union Listed(waiting_queue', WaitSize') = Created \ Exited'
    BY <2>2, <2>3, <2>4, <2>5, <2>6
  <2>8. ReadySize' \in Nat /\ WaitSize' \in Nat
    <3>1. rq_size > 0 /\ WaitSize \in Nat
      BY <1>t, <2>3 DEF QueueType, QueueInv, Slots
    <3> QED BY <1>s, <2>2, <3>1
  <2> QED BY <1>1, <2>1, <2>2, <2>3, <2>5, <2>6, <2>7, <2>8 DEF QueueInv
<1>2. CASE At("exit_shrink") /\ ExitStep
  <2>1. pc' = "free" /\ rq_size' = rq_size - 1 /\ UNCHANGED <<ready_queue, tmp, freed>>
    BY <1>2 DEF ExitStep, Exit
  <2>2. ReadySize' = ReadySize /\ WaitSize' = WaitSize /\ Exited' = Exited
    BY <1>2, <1>s, <2>1 DEF ReadySize, WaitSize, Exited
  <2>3. /\ Distinct(ready_queue, ReadySize)' /\ Distinct(waiting_queue, WaitSize)'
        /\ Listed(ready_queue, ReadySize)' = Listed(ready_queue, ReadySize)
        /\ Listed(waiting_queue, WaitSize)' = Listed(waiting_queue, WaitSize)
    BY <1>s, <1>t, <2>1, <2>2 DEF QueueInv, Distinct, Listed
  <2> QED BY <1>2, <1>t, <2>1, <2>2, <2>3 DEF QueueInv
<1>3. CASE At("free") /\ ExitStep
  <2>1. pc' = "resume" /\ freed' = freed \union {tmp} /\ UNCHANGED <<ready_queue, rq_size>>
    BY <1>3 DEF ExitStep, Exit
  <2>2. ReadySize' = ReadySize /\ WaitSize' = WaitSize /\ Exited' = Exited
    BY <1>3, <1>s, <2>1 DEF ReadySize, WaitSize, Exited
  <2>3. /\ Distinct(ready_queue, ReadySize)' /\ Distinct(waiting_queue, WaitSize)'
        /\ Listed(ready_queue, ReadySize)' = Listed(ready_queue, ReadySize)
        /\ Listed(waiting_queue, WaitSize)' = Listed(waiting_queue, WaitSize)
    BY <1>s, <1>t, <2>1, <2>2 DEF QueueInv, Distinct, Listed
  <2> QED BY <1>3, <1>t, <2>1, <2>2, <2>3 DEF QueueInv
<1> QED BY <1>1, <1>2, <1>3 DEF ExitStep, Exit

(* All other actions leave the queues as they are.                         *)
LEMMA QueueElse ==
  ASSUME IInv, OneKind, Next, ~(HandOver /\ HandOverNow), ~WaitStep, ~ExitStep
  PROVE  /\ UNCHANGED <<ready_queue, rq_size, waiting_queue, wq_size, freed>>
         /\ \/ pc \notin Moving /\ pc' \notin Moving
            \/ UNCHANGED <<pc, tmp, rq_current>>
         /\ QueueInv' /\ ReadySize' = ReadySize /\ WaitSize' = WaitSize
<1> USE DEF queues, tcbs, Moving, At
<1>1. /\ UNCHANGED <<ready_queue, rq_size, waiting_queue, wq_size, freed>>
      /\ \/ pc \notin Moving /\ pc' \notin Moving
         \/ UNCHANGED <<pc, tmp, rq_current>>
  <2>1. CASE \E sig \in base_mask : Deliver(sig)
    BY <2>1, Window DEF Deliver
  <2>2. CASE ResetAlarm \/ HandlerJumps
    BY <2>2 DEF ResetAlarm, HandlerJumps, Longjmp
  <2>3. CASE StartThreading \/ Resume
    BY <2>3, ResumedLabel DEF StartThreading, Resume, IInv
  <2>4. CASE HandOver
    BY <2>4 DEF HandOver, IInv, RunInv
  <2>5. CASE AdvanceStep \/ Loop \/ LoopEnds \/ Lock \/ MustWait \/ Acquired \/ Operate \/ Unlock
    BY <2>5 DEF AdvanceStep, Advance, Loop, Body, LoopEnds, Lock, MustWait, Acquired, Operate,
       Unlock, Yield, Leave, Longjmp
  <2>6. CASE UnblockStep
    BY <2>6 DEF UnblockStep, Unblock, IInv, RunInv
  <2>7. CASE SendTstp \/ AlarmExpires
    BY <2>7 DEF SendTstp, AlarmExpires
  <2> QED BY <2>1, <2>2, <2>3, <2>4, <2>5, <2>6, <2>7 DEF Next, Cpu
<1>2. QueueInv' /\ ReadySize' = ReadySize /\ WaitSize' = WaitSize
  BY <1>1, QueueSame DEF IInv
<1> QED BY <1>1, <1>2

(* QueueInv is preserved by every step.                                    *)
LEMMA QueueNext ==
  ASSUME IInv, OneKind, Next
  PROVE  QueueInv'
BY QueueHandOver, QueueWait, QueueExit, QueueElse

(* Step 4 finds a thread that has not exited, or nobody is left at all.    *)
LEMMA ResumedFacts ==
  ASSUME IInv, pc \in {"start", "resume"}
  PROVE  /\ rq_current < rq_size => RUNNING \in Created \ freed
         /\ Resumed = "undefined" <=> ~(rq_current < rq_size)
         /\ Resumed = "undefined" =>
              rq_size = 0 /\ wq_size = 0 /\ freed = Created /\ lock_owner = Unowned
<1>1. ReadySize = rq_size /\ WaitSize = wq_size /\ Exited = freed
  BY DEF ReadySize, WaitSize, Exited
<1>2. rq_size \in Nat /\ wq_size \in Nat /\ rq_current \in Nat
  BY TypeParts DEF IInv, QueueType, Slots
<1>3. CASE rq_current < rq_size
  <2>1. RUNNING \in Created \ freed
    BY <1>1, <1>3, RunningLives DEF IInv
  <2>2. Resumed # "undefined"
    BY <2>1 DEF Resumed
  <2> QED BY <1>3, <2>1, <2>2
<1>4. CASE ~(rq_current < rq_size)
  <2>1. rq_size = 0
    BY <1>1, <1>2, <1>4 DEF IInv, CurrentInv
  <2>2. Listed(ready_queue, ReadySize) = {}
    BY <1>1, <2>1 DEF Listed
  <2>3. lock_owner = Unowned
    BY <2>2 DEF IInv, LockInv
  <2>4. wq_size = 0
    BY <1>1, <1>2, <2>3 DEF IInv, LockInv
  <2>5. Listed(waiting_queue, WaitSize) = {}
    BY <1>1, <2>4 DEF Listed
  <2>6. Created \ freed = {} /\ freed \subseteq Created
    BY <1>1, <2>2, <2>5, TypeParts DEF IInv, QueueInv, TcbType
  <2>7. Resumed = "undefined"
    BY <2>6 DEF Resumed
  <2> QED BY <1>4, <2>1, <2>3, <2>4, <2>6, <2>7
<1> QED BY <1>3, <1>4

(* rq_current stays in the queue, or step 4 brings it back.                *)
LEMMA CurrentNext ==
  ASSUME IInv, OneKind, Next
  PROVE  CurrentInv'
<1> USE DEF queues, CurrentInv, At
<1>t. CurrentInv /\ QueueType
  BY TypeParts DEF IInv
<1>s. rq_size \in Nat /\ rq_current \in Nat /\ wq_size \in Nat
  BY <1>t DEF QueueType, Slots
<1>1. CASE \E sig \in base_mask : Deliver(sig)
  BY <1>t, <1>1, Window DEF Deliver
<1>2. CASE ResetAlarm \/ HandlerJumps
  BY <1>t, <1>2 DEF ResetAlarm, HandlerJumps, Longjmp
<1>3. CASE StartThreading \/ Resume
  BY <1>3, ResumedFacts, ResumedLabel DEF StartThreading, Resume, IInv
<1>4. CASE HandOver
  BY <1>t, <1>s, <1>4 DEF HandOver, IInv, RunInv
<1>5. CASE WaitStep
  <2>1. CASE pc = "wait_slot"
    <3>1. LeaveSlot /\ pc' = "wait_shrink" /\ rq_current < rq_size
      BY <1>t, <1>5, <2>1 DEF WaitStep, Wait
    <3>2. Distinct(ready_queue, rq_size)
      BY <2>1 DEF IInv, QueueInv, ReadySize
    <3>3. rq_current' < rq_size - 1 \/ rq_current' = 0
      BY <1>t, <3>1, <3>2, LeaveSlotRemoves
    <3>4. ReadySize' = rq_size - 1
      BY <1>5, <2>1, QueueWait
    <3> QED BY <3>1, <3>3, <3>4
  <2>2. CASE pc = "wait_shrink"
    <3>1. ReadySize' = ReadySize /\ pc' = "resume" /\ UNCHANGED rq_current
      BY <1>5, <2>2, QueueWait DEF WaitStep, Wait
    <3> QED BY <1>t, <2>2, <3>1
  <2>3. CASE pc \in {"wait", "wait_grow"}
    BY <1>t, <1>5, <2>3 DEF WaitStep, Wait
  <2> QED BY <1>5, <2>1, <2>2, <2>3 DEF WaitStep, Wait
<1>6. CASE ExitStep
  <2>1. CASE pc = "exit"
    <3>1. LeaveSlot /\ pc' = "exit_shrink" /\ rq_current < rq_size
      BY <1>t, <1>6, <2>1 DEF ExitStep, Exit
    <3>2. Distinct(ready_queue, rq_size)
      BY <2>1 DEF IInv, QueueInv, ReadySize
    <3>3. rq_current' < rq_size - 1 \/ rq_current' = 0
      BY <1>t, <3>1, <3>2, LeaveSlotRemoves
    <3>4. ReadySize' = rq_size - 1
      BY <1>6, <2>1, QueueExit
    <3> QED BY <3>1, <3>3, <3>4
  <2>2. CASE pc \in {"exit_shrink", "free"}
    <3>1. ReadySize' = ReadySize /\ pc' \in {"free", "resume"} /\ UNCHANGED rq_current
      BY <1>6, <2>2, QueueExit DEF ExitStep, Exit
    <3> QED BY <1>t, <2>2, <3>1
  <2> QED BY <1>6, <2>1, <2>2 DEF ExitStep, Exit
<1>7. CASE AdvanceStep
  BY <1>t, <1>s, <1>7 DEF AdvanceStep, Advance, ReadySize
<1>8. CASE Loop \/ LoopEnds \/ Lock \/ MustWait \/ Acquired \/ Operate \/ Unlock
  BY <1>t, <1>8 DEF Loop, Body, LoopEnds, Lock, MustWait, Acquired, Operate,
     Unlock, Yield, Leave, Longjmp
<1>9. CASE UnblockStep
  BY <1>t, <1>9 DEF UnblockStep, Unblock, IInv, RunInv
<1>10. CASE SendTstp \/ AlarmExpires
  BY <1>t, <1>10 DEF SendTstp, AlarmExpires, ReadySize
<1> QED BY <1>1, <1>2, <1>3, <1>4, <1>5, <1>6, <1>7, <1>8, <1>9, <1>10 DEF Next, Cpu

(* A thread is resumed only at a place of its own function.                *)
LEMMA EnvNext ==
  ASSUME IInv, OneKind, Next
  PROVE  EnvInv'
<1> USE DEF EnvInv, At
<1>t. EnvInv /\ TcbType
  BY TypeParts DEF IInv
<1>1. CASE ExitStep \/ Loop
  BY <1>t, <1>1 DEF ExitStep, Loop
<1>2. CASE LoopEnds
  <2>1. RUNNING \notin Bankers
    BY <1>2 DEF LoopEnds, IInv, RunInv
  <2> QED BY <1>t, <1>2, <2>1 DEF LoopEnds, Yield, Leave, TcbType
<1>3. CASE Lock \/ Acquired
  <2>1. RUNNING \in Bankers
    BY <1>3 DEF Lock, Acquired, IInv, RunInv
  <2> QED BY <1>t, <1>3, <2>1 DEF Lock, Acquired, Yield, Leave, TcbType
<1>4. CASE Operate
  <2>1. env[RUNNING] = "operate" /\ RUNNING \in Created
    BY <1>4, RunningReady DEF Operate, IInv, RunInv, Settled
  <2>2. RUNNING \in Bankers
    BY <1>t, <2>1
  <2> QED BY <1>t, <1>4, <2>2 DEF Operate, Yield, Leave, TcbType
<1>5. CASE UNCHANGED <<env, i, x, y, freed>>
  BY <1>t, <1>5
<1> QED BY <1>1, <1>2, <1>3, <1>4, <1>5, WhoChanges

(* What the lock says of RUNNING.                                          *)
LEMMA RunningLock ==
  ASSUME IInv, rq_current < ReadySize, RUNNING \in Bankers
  PROVE  CASE env[RUNNING] = "setup"  -> lock_owner # RUNNING \/ pc = "acquired"
           [] env[RUNNING] = "locked" -> lock_owner = RUNNING \/ Refused
           [] OTHER                   -> lock_owner = RUNNING \/ Leaving
<1>1. rq_current \in Nat /\ ReadySize \in Nat
  BY TypeParts DEF IInv, QueueType, Slots, QueueInv
<1>2. rq_current \in 0..ReadySize - 1
  BY <1>1
<1> QED BY <1>2 DEF IInv, LockInv, RUNNING

(* What the code that runs says of RUNNING is preserved.                   *)
LEMMA RunNext ==
  ASSUME IInv, OneKind, Next
  PROVE  RunInv'
<1> USE DEF queues, RunInv, Refused, Leaving, At
<1>t. RunInv /\ TcbType /\ BankType /\ QueueType
  BY TypeParts DEF IInv
<1>r. Settled => RUNNING \in Created /\ rq_current < ReadySize /\ RUNNING # Unowned
  <2>1. Settled => RUNNING \in Created /\ rq_current \in 0..rq_size - 1 /\ ReadySize = rq_size
    BY RunningReady
  <2>2. rq_size \in Nat
    BY <1>t DEF QueueType, Slots
  <2> QED BY <2>1, <2>2, CreatedFacts DEF Unowned
<1>same. UNCHANGED <<ready_queue, rq_current>> => RUNNING' = RUNNING
  BY DEF RUNNING
<1>1. CASE \E sig \in base_mask : Deliver(sig)
  BY <1>t, <1>same, <1>1, Window DEF Deliver, tcbs
<1>2. CASE ResetAlarm \/ HandlerJumps
  BY <1>t, <1>same, <1>2 DEF ResetAlarm, HandlerJumps, Longjmp, tcbs
<1>3. CASE StartThreading \/ Resume
  <2>1. UNCHANGED <<ready_queue, rq_current, env, lock_owner>> /\ pc' = Resumed /\ RUNNING' = RUNNING
    BY <1>3, <1>same DEF StartThreading, Resume, bank, tcbs
  <2>2. CASE Resumed = "undefined"
    BY <2>1, <2>2
  <2>3. CASE Resumed # "undefined"
    <3>1. RUNNING \in Created \ freed /\ rq_current < ReadySize
      BY <1>3, <2>3, ResumedFacts DEF StartThreading, Resume, ReadySize
    <3>2. CASE env[RUNNING] = "setup"
      <4>1. pc' = IF RUNNING \in Bankers THEN "lock" ELSE "first"
        BY <2>1, <3>1, <3>2 DEF Resumed
      <4> QED BY <2>1, <3>2, <4>1
    <3>3. CASE env[RUNNING] = "locked"
      <4>1. pc' = "acquired"
        BY <2>1, <3>1, <3>3 DEF Resumed
      <4>2. RUNNING \in Bankers
        BY <3>1, <3>3 DEF IInv, EnvInv
      <4>3. lock_owner = RUNNING
        BY <1>3, <3>1, <3>3, <4>2, RunningLock DEF StartThreading, Resume
      <4> QED BY <2>1, <3>3, <4>1, <4>2, <4>3
    <3>4. CASE env[RUNNING] \in {"next", "operate", "unlock"}
      <4>1. pc' = "remask"
        BY <2>1, <3>1, <3>4 DEF Resumed
      <4> QED BY <2>1, <3>4, <4>1
    <3> QED BY <1>t, <3>1, <3>2, <3>3, <3>4 DEF TcbType
  <2> QED BY <2>2, <2>3
<1>4. CASE HandOver
  <2>1. pc = "scheduler" /\ UNCHANGED <<rq_current, env, rtv>> /\ rtv \in 1..3
    BY <1>t, <1>4 DEF HandOver, tcbs
  <2>2. pc' = CASE rtv = 1 -> "advance" [] rtv = 2 -> "wait" [] rtv = 3 -> "exit"
    BY <1>4 DEF HandOver
  <2>3. CASE HandOverNow
    <3>1. RUNNING' = RUNNING
      BY <1>t, <1>r, <1>4, <2>1, <2>3 DEF HandOver, RUNNING, QueueType, Slots, THREAD_MAX, Settled, ReadySize
    <3>2. RUNNING # waiting_queue[0]
      <4>1. 0 \in 0..WaitSize - 1
        BY <1>t, <2>1, <2>3 DEF HandOverNow, WaitSize, QueueType, Slots
      <4>2. waiting_queue[0] \in Listed(waiting_queue, WaitSize)
        BY <4>1 DEF Listed
      <4>3. RUNNING \in Listed(ready_queue, ReadySize)
        BY <2>1, RunningReady DEF Settled
      <4> QED BY <4>2, <4>3 DEF IInv, QueueInv
    <3>3. lock_owner = Unowned /\ lock_owner' = waiting_queue[0]
      BY <1>4, <2>3 DEF HandOver, HandOverNow
    <3>4. rtv # 2
      BY <1>t, <2>1, <3>3
    <3> QED BY <1>t, <2>1, <2>2, <3>1, <3>2, <3>3, <3>4
  <2>4. CASE ~HandOverNow
    <3>1. RUNNING' = RUNNING /\ UNCHANGED lock_owner
      BY <1>4, <1>same, <2>1, <2>4 DEF HandOver
    <3> QED BY <1>t, <2>1, <2>2, <3>1
  <2> QED BY <2>3, <2>4
<1>5. CASE WaitStep
  <2>1. CASE pc \in {"wait", "wait_grow"}
    BY <1>t, <1>same, <1>5, <2>1 DEF WaitStep, Wait, bank, tcbs
  <2>2. CASE pc \in {"wait_slot", "wait_shrink"}
    BY <1>5, <2>2 DEF WaitStep, Wait
  <2> QED BY <1>5, <2>1, <2>2 DEF WaitStep, Wait
<1>6. CASE ExitStep \/ AdvanceStep
  BY <1>6 DEF ExitStep, Exit, AdvanceStep, Advance
<1>7. CASE UnblockStep
  BY <1>t, <1>same, <1>7 DEF UnblockStep, Unblock, tcbs
<1>8. CASE Loop
  <2>1. RUNNING \in Created \ Bankers
    BY <1>t, <1>r, <1>8, CreatedFacts DEF Loop, Settled, IInv, EnvInv
  <2> QED BY <1>same, <1>8, <2>1 DEF Loop, Body
<1>9. CASE LoopEnds
  <2>1. RUNNING \notin Bankers /\ lock_owner # RUNNING /\ RUNNING \in Created
    BY <1>t, <1>r, <1>9 DEF LoopEnds, Settled, BankType
  <2> QED BY <1>t, <1>same, <1>9, <2>1 DEF LoopEnds, Yield, Leave, Longjmp, bank, TcbType
<1>10. CASE Lock
  <2>1. RUNNING \in Bankers /\ RUNNING \in Created /\ env[RUNNING] = "setup"
    BY <1>t, <1>r, <1>10 DEF Lock, Settled
  <2>2. lock_owner # RUNNING
    BY <1>r, <1>10, <2>1, RunningLock DEF Lock, Settled
  <2> QED BY <1>t, <1>same, <1>10, <2>1, <2>2 DEF Lock, Leave, TcbType
<1>11. CASE MustWait
  BY <1>t, <1>same, <1>11 DEF MustWait, Longjmp, bank, tcbs
<1>12. CASE Acquired \/ Operate
  <2>1. RUNNING \in Created
    BY <1>r, <1>12 DEF Acquired, Operate, Settled
  <2> QED BY <1>t, <1>same, <1>12, <2>1 DEF Acquired, Operate, Yield, Leave, TcbType
<1>13. CASE Unlock
  <2>1. lock_owner' # RUNNING /\ env[RUNNING] = "unlock"
    BY <1>t, <1>r, <1>13 DEF Unlock, OwnerAfter, Settled
  <2> QED BY <1>same, <1>13, <2>1 DEF Unlock, Longjmp, tcbs
<1>14. CASE SendTstp \/ AlarmExpires
  BY <1>t, <1>same, <1>14 DEF SendTstp, AlarmExpires, bank, tcbs
<1> QED BY <1>1, <1>2, <1>3, <1>4, <1>5, <1>6, <1>7, <1>8, <1>9, <1>10, <1>11, <1>12, <1>13,
           <1>14 DEF Next, Cpu

-----------------------------------------------------------------------------
(* The lock.                                                               *)

(* Steps that change neither the queues nor who owns the lock: RUNNING may *)
(* be an exception to LockInv only as long as it is on its way.            *)
LEMMA LockSame ==
  ASSUME IInv, UNCHANGED <<ready_queue, lock_owner, env>>,
         \A k \in 0..WaitSize - 1 : waiting_queue'[k] = waiting_queue[k],
         ReadySize' = ReadySize, WaitSize' = WaitSize,
         \/ WaitSize > 0 => lock_owner # Unowned
         \/ UNCHANGED <<pc, rtv, blocked>>,
         \/ pc # "acquired" /\ ~Refused /\ ~Leaving
         \/ /\ rq_current' = rq_current
            /\ pc = "acquired" => pc' = "acquired"
            /\ Refused => Refused'
            /\ Leaving => Leaving'
  PROVE  LockInv'
<1>1. (lock_owner # Unowned => lock_owner \in Listed(ready_queue, ReadySize))'
  BY DEF IInv, LockInv, Listed
<1>2. (WaitSize > 0 /\ lock_owner = Unowned =>
         pc = "scheduler" /\ rtv = 3 /\ blocked = base_mask)'
  BY DEF IInv, LockInv
<1>3. \A k \in 0..WaitSize' - 1 :
        waiting_queue'[k] \in Bankers /\ env'[waiting_queue'[k]] = "locked"
  BY DEF IInv, LockInv
<1>4. ASSUME NEW k \in 0..ReadySize' - 1, ready_queue'[k] \in Bankers
      PROVE  CASE env'[ready_queue'[k]] = "setup" ->
                    lock_owner' # ready_queue'[k] \/ (k = rq_current' /\ pc' = "acquired")
               [] env'[ready_queue'[k]] = "locked" ->
                    lock_owner' = ready_queue'[k] \/ (k = rq_current' /\ Refused')
               [] OTHER ->
                    lock_owner' = ready_queue'[k] \/ (k = rq_current' /\ Leaving')
  <2>1. k \in 0..ReadySize - 1 /\ ready_queue[k] \in Bankers
    BY <1>4
  <2>2. (CASE env[ready_queue[k]] = "setup" ->
                lock_owner # ready_queue[k] \/ (k = rq_current /\ pc = "acquired")
           [] env[ready_queue[k]] = "locked" ->
                lock_owner = ready_queue[k] \/ (k = rq_current /\ Refused)
           [] OTHER ->
                lock_owner = ready_queue[k] \/ (k = rq_current /\ Leaving))
    BY <2>1 DEF IInv, LockInv
  <2> QED BY <2>2
<1> QED BY <1>1, <1>2, <1>3, <1>4 DEF LockInv

(* RUNNING leaves the ready queue.                                         *)
LEMMA LockLeave ==
  ASSUME IInv, LeaveSlot, pc \in {"wait_slot", "exit"}, pc' \in {"wait_shrink", "exit_shrink"},
         UNCHANGED <<lock_owner, env>>, ReadySize' = rq_size - 1,
         \A k \in 0..WaitSize' - 1 :
           waiting_queue'[k] \in Bankers /\ env[waiting_queue'[k]] = "locked",
         WaitSize' > 0 => lock_owner # Unowned
  PROVE  LockInv'
<1>1. lock_owner # RUNNING
  BY DEF IInv, RunInv, Refused, Leaving
<1>2. rq_current \in 0..rq_size - 1 /\ ReadySize = rq_size /\ rq_size \in Nat
  BY RunningReady, TypeParts DEF Settled, IInv, QueueType, Slots
<1>3. /\ Distinct(ready_queue, rq_size)
      /\ Listed(ready_queue', rq_size - 1) = Listed(ready_queue, rq_size) \ {RUNNING}
      /\ \A k \in 0..rq_size - 2 :
           ready_queue'[k] = IF k = rq_current THEN ready_queue[rq_size - 1] ELSE ready_queue[k]
  <2>1. Distinct(ready_queue, rq_size) /\ QueueType /\ rq_current < rq_size
    BY <1>2, TypeParts DEF IInv, QueueInv
  <2> QED BY <2>1, LeaveSlotRemoves
<1>4. lock_owner' # Unowned => lock_owner' \in Listed(ready_queue', ReadySize')
  BY <1>1, <1>2, <1>3 DEF IInv, LockInv
<1>5. ASSUME NEW k \in 0..ReadySize' - 1, ready_queue'[k] \in Bankers
      PROVE  CASE env'[ready_queue'[k]] = "setup" ->
                    lock_owner' # ready_queue'[k] \/ (k = rq_current' /\ pc' = "acquired")
               [] env'[ready_queue'[k]] = "locked" ->
                    lock_owner' = ready_queue'[k] \/ (k = rq_current' /\ Refused')
               [] OTHER ->
                    lock_owner' = ready_queue'[k] \/ (k = rq_current' /\ Leaving')
  <2>1. PICK j \in 0..rq_size - 1 : j # rq_current /\ ready_queue[j] = ready_queue'[k]
    <3>1. CASE k = rq_current
      BY <1>2, <1>3, <1>5, <3>1
    <3>2. CASE k # rq_current
      BY <1>2, <1>3, <1>5, <3>2
    <3> QED BY <3>1, <3>2
  <2>2. (CASE env[ready_queue[j]] = "setup" ->
                lock_owner # ready_queue[j] \/ (j = rq_current /\ pc = "acquired")
           [] env[ready_queue[j]] = "locked" ->
                lock_owner = ready_queue[j] \/ (j = rq_current /\ Refused)
           [] OTHER ->
                lock_owner = ready_queue[j] \/ (j = rq_current /\ Leaving))
    BY <1>2, <1>5, <2>1 DEF IInv, LockInv
  <2> QED BY <2>1, <2>2
<1> QED BY <1>4, <1>5 DEF LockInv

(* The lock is given to the first of those that wait.                      *)
LEMMA LockHandOver ==
  ASSUME IInv, HandOver, HandOverNow
  PROVE  LockInv'
<1> DEFINE w == waiting_queue[0]
<1>1. /\ pc = "scheduler" /\ lock_owner = Unowned /\ wq_size > 0 /\ lock_owner' = w
      /\ UNCHANGED <<rq_current, env, rtv>>
  BY DEF HandOver, HandOverNow, At, tcbs
<1>2. /\ ReadySize = rq_size /\ WaitSize = wq_size
      /\ ReadySize' = rq_size + 1 /\ WaitSize' = wq_size - 1
  BY QueueHandOver
<1>3. rq_size \in 0..4 /\ wq_size \in 1..4
  BY <1>1, Sizes
<1>4. QueueType
  BY TypeParts DEF IInv
<1>5. w \in Bankers /\ env[w] = "locked" /\ w \in Listed(waiting_queue, WaitSize)
  BY <1>1, <1>2, <1>3 DEF IInv, LockInv, Listed
<1>6. /\ \A k \in 0..rq_size - 1 : ready_queue'[k] = ready_queue[k]
      /\ ready_queue'[rq_size] = w
  BY <1>3, <1>4 DEF HandOver, HandOverNow, QueueType, Slots, THREAD_MAX
<1>7. \A k \in 0..wq_size - 2 : waiting_queue'[k] = waiting_queue[k + 1]
  BY <1>1, <1>3, <1>4 DEF HandOver, HandOverNow, QueueType, Slots, THREAD_MAX
<1>8. lock_owner' \in Listed(ready_queue', ReadySize')
  BY <1>1, <1>2, <1>3, <1>6 DEF Listed
<1>9. lock_owner' # Unowned
  BY <1>1, <1>5, CreatedFacts DEF Unowned
<1>10. \A k \in 0..WaitSize' - 1 :
         waiting_queue'[k] \in Bankers /\ env'[waiting_queue'[k]] = "locked"
  BY <1>1, <1>2, <1>3, <1>7 DEF IInv, LockInv
<1>11. ASSUME NEW k \in 0..ReadySize' - 1, ready_queue'[k] \in Bankers
       PROVE  CASE env'[ready_queue'[k]] = "setup" ->
                     lock_owner' # ready_queue'[k] \/ (k = rq_current' /\ pc' = "acquired")
                [] env'[ready_queue'[k]] = "locked" ->
                     lock_owner' = ready_queue'[k] \/ (k = rq_current' /\ Refused')
                [] OTHER ->
                     lock_owner' = ready_queue'[k] \/ (k = rq_current' /\ Leaving')
  <2>1. CASE k = rq_size
    BY <1>1, <1>5, <1>6, <2>1
  <2>2. CASE k # rq_size
    <3>1. k \in 0..ReadySize - 1 /\ ready_queue'[k] = ready_queue[k]
      BY <1>2, <1>3, <1>6, <2>2
    <3>2. ready_queue[k] # w
      <4>1. ready_queue[k] \in Listed(ready_queue, ReadySize)
        BY <3>1 DEF Listed
      <4> QED BY <1>5, <4>1 DEF IInv, QueueInv
    <3>3. ready_queue[k] # Unowned /\ ~Refused
      BY <1>1, <1>11, <3>1, CreatedFacts DEF Unowned, IInv, RunInv
    <3>4. Leaving => Leaving'
      BY <1>1 DEF Leaving, HandOver
    <3>5. (CASE env[ready_queue[k]] = "setup" ->
                  lock_owner # ready_queue[k] \/ (k = rq_current /\ pc = "acquired")
             [] env[ready_queue[k]] = "locked" ->
                  lock_owner = ready_queue[k] \/ (k = rq_current /\ Refused)
             [] OTHER ->
                  lock_owner = ready_queue[k] \/ (k = rq_current /\ Leaving))
      BY <1>11, <3>1 DEF IInv, LockInv
    <3> QED BY <1>1, <3>1, <3>2, <3>3, <3>4, <3>5
  <2> QED BY <2>1, <2>2
<1> QED BY <1>8, <1>9, <1>10, <1>11 DEF LockInv

(* RUNNING changes what it does, or the owner of the lock; nobody else     *)
(* does.                                                                   *)
LEMMA LockTurn ==
  ASSUME IInv, Settled, UNCHANGED <<ready_queue, waiting_queue, rq_current>>,
         ReadySize' = ReadySize, WaitSize' = WaitSize,
         \A t \in Created \ {RUNNING} : env'[t] = env[t],
         lock_owner' = lock_owner \/ lock_owner' = RUNNING \/ lock_owner' = Unowned,
         lock_owner \in {Unowned, RUNNING} \/ lock_owner' = lock_owner,
         WaitSize > 0 /\ lock_owner' = Unowned => pc' = "scheduler" /\ rtv' = 3 /\ blocked' = base_mask,
         RUNNING \in Bankers =>
           CASE env'[RUNNING] = "setup"  -> lock_owner' # RUNNING \/ pc' = "acquired"
             [] env'[RUNNING] = "locked" -> lock_owner' = RUNNING \/ Refused'
             [] OTHER                    -> lock_owner' = RUNNING \/ Leaving'
  PROVE  LockInv'
<1>1. /\ rq_current \in 0..ReadySize - 1 /\ RUNNING \in Created
      /\ RUNNING \in Listed(ready_queue, ReadySize)
  BY RunningReady
<1>2. lock_owner' # Unowned => lock_owner' \in Listed(ready_queue', ReadySize')
  BY <1>1 DEF IInv, LockInv, Listed
<1>3. ASSUME NEW k \in 0..WaitSize' - 1
      PROVE  waiting_queue'[k] \in Bankers /\ env'[waiting_queue'[k]] = "locked"
  <2>1. waiting_queue[k] \in Bankers /\ env[waiting_queue[k]] = "locked"
    BY DEF IInv, LockInv
  <2>2. waiting_queue[k] \in Listed(waiting_queue, WaitSize)
    BY DEF Listed
  <2>3. waiting_queue[k] # RUNNING
    BY <1>1, <2>2 DEF IInv, QueueInv
  <2> QED BY <2>1, <2>3, CreatedFacts
<1>4. ASSUME NEW k \in 0..ReadySize' - 1, ready_queue'[k] \in Bankers
      PROVE  CASE env'[ready_queue'[k]] = "setup" ->
                    lock_owner' # ready_queue'[k] \/ (k = rq_current' /\ pc' = "acquired")
               [] env'[ready_queue'[k]] = "locked" ->
                    lock_owner' = ready_queue'[k] \/ (k = rq_current' /\ Refused')
               [] OTHER ->
                    lock_owner' = ready_queue'[k] \/ (k = rq_current' /\ Leaving')
  <2>1. CASE k = rq_current
    BY <1>4, <2>1 DEF RUNNING
  <2>2. CASE k # rq_current
    <3>1. ready_queue[k] # RUNNING
      BY <1>1, <2>2 DEF IInv, QueueInv, Distinct, RUNNING
    <3>2. ready_queue[k] \in Created /\ ready_queue[k] # Unowned
      BY <1>4, CreatedFacts DEF Unowned
    <3>3. env'[ready_queue[k]] = env[ready_queue[k]]
      BY <3>1, <3>2
    <3>4. (CASE env[ready_queue[k]] = "setup" ->
                  lock_owner # ready_queue[k] \/ (k = rq_current /\ pc = "acquired")
             [] env[ready_queue[k]] = "locked" ->
                  lock_owner = ready_queue[k] \/ (k = rq_current /\ Refused)
             [] OTHER ->
                  lock_owner = ready_queue[k] \/ (k = rq_current /\ Leaving))
      BY <1>4 DEF IInv, LockInv
    <3> QED BY <2>2, <3>1, <3>2, <3>3, <3>4
  <2> QED BY <2>1, <2>2
<1> QED BY <1>2, <1>3, <1>4 DEF LockInv

(* LockInv is preserved by every step.                                     *)
LEMMA LockNext ==
  ASSUME IInv, OneKind, Next
  PROVE  LockInv'
<1> USE DEF At
<1>t. QueueType /\ TcbType /\ BankType
  BY TypeParts DEF IInv
<1>o. pc # "scheduler" => (WaitSize > 0 => lock_owner # Unowned)
  BY DEF IInv, LockInv
<1>r. Settled => /\ RUNNING \in Created /\ RUNNING # Unowned
                 /\ rq_current < ReadySize
  <2>1. Settled => RUNNING \in Created /\ rq_current \in 0..rq_size - 1 /\ ReadySize = rq_size
    BY RunningReady
  <2>2. rq_size \in Nat
    BY <1>t DEF QueueType, Slots
  <2> QED BY <2>1, <2>2, CreatedFacts DEF Unowned
<1>1. CASE \E sig \in base_mask : Deliver(sig)
  <2>1. UNCHANGED <<ready_queue, waiting_queue, lock_owner, env>> /\ pc \in {"unblock_alrm", "remask"}
    BY <1>1, Window DEF Deliver, queues, bank, tcbs
  <2>2. ReadySize' = ReadySize /\ WaitSize' = WaitSize
    BY <2>1, QueueElse DEF HandOver, WaitStep, Wait, ExitStep, Exit
  <2> QED BY <1>o, <2>1, <2>2, LockSame DEF Refused, Leaving
<1>2. CASE ResetAlarm \/ HandlerJumps \/ StartThreading \/ Resume \/ AdvanceStep \/ UnblockStep \/ Loop
  <2>1. /\ UNCHANGED <<ready_queue, waiting_queue, lock_owner, env>>
        /\ pc \notin {"scheduler", "acquired", "must_wait", "wait", "wait_grow", "wait_slot", "exit",
                      "wait_shrink", "exit_shrink", "free"}
    BY <1>2 DEF ResetAlarm, HandlerJumps, StartThreading, Resume, AdvanceStep, Advance, UnblockStep,
       Unblock, Loop, Body, queues, bank, tcbs
  <2>2. ReadySize' = ReadySize /\ WaitSize' = WaitSize
    BY <2>1, QueueElse DEF HandOver, WaitStep, Wait, ExitStep, Exit
  <2> QED BY <1>o, <2>1, <2>2, LockSame DEF Refused, Leaving
<1>3. CASE HandOver
  <2>1. CASE HandOverNow
    BY <1>3, <2>1, LockHandOver
  <2>2. CASE ~HandOverNow
    <3>1. /\ UNCHANGED <<ready_queue, waiting_queue, lock_owner, env, rq_current, rtv>>
          /\ pc = "scheduler" /\ rtv \in 1..3
      BY <1>3, <2>2 DEF HandOver, tcbs, IInv, RunInv
    <3>2. pc' = CASE rtv = 1 -> "advance" [] rtv = 2 -> "wait" [] rtv = 3 -> "exit"
      BY <1>3 DEF HandOver
    <3>3. ReadySize' = ReadySize /\ WaitSize' = WaitSize
      BY <2>2, <3>1, QueueElse DEF WaitStep, Wait, ExitStep, Exit
    <3>4. WaitSize > 0 => lock_owner # Unowned
      BY <2>2, <3>1 DEF HandOverNow, WaitSize
    <3>5. (Refused => Refused') /\ (Leaving => Leaving')
      BY <3>1, <3>2 DEF Refused, Leaving
    <3> QED BY <3>1, <3>3, <3>4, <3>5, LockSame
  <2> QED BY <2>1, <2>2
<1>4. CASE WaitStep
  <2>1. UNCHANGED <<lock_owner, env>>
    BY <1>4 DEF WaitStep, bank, tcbs
  <2>2. CASE pc = "wait_slot"
    <3>1. /\ LeaveSlot /\ pc' = "wait_shrink" /\ UNCHANGED waiting_queue
          /\ ReadySize' = rq_size - 1 /\ WaitSize = wq_size - 1 /\ WaitSize' = wq_size
      BY <1>4, <2>2, QueueWait DEF WaitStep, Wait
    <3>2. /\ RUNNING \in Bankers /\ env[RUNNING] = "locked" /\ lock_owner # Unowned
          /\ waiting_queue[wq_size - 1] = RUNNING
      BY <2>2, <3>1 DEF IInv, RunInv, Refused, QueueInv
    <3>3. wq_size \in Nat
      BY <1>t DEF QueueType, Slots
    <3>4. \A k \in 0..WaitSize' - 1 :
            waiting_queue'[k] \in Bankers /\ env[waiting_queue'[k]] = "locked"
      BY <3>1, <3>2, <3>3 DEF IInv, LockInv
    <3> QED BY <2>1, <2>2, <3>1, <3>2, <3>4, LockLeave
  <2>3. CASE pc \in {"wait", "wait_grow", "wait_shrink"}
    <3>1. ReadySize' = ReadySize /\ WaitSize' = WaitSize
      BY <1>4, <2>3, QueueWait
    <3>2. \A k \in 0..WaitSize - 1 : waiting_queue'[k] = waiting_queue[k]
      <4>1. CASE pc = "wait"
        <5>1. wq_size \in 0..4 /\ WaitSize = wq_size
          BY <4>1, Sizes DEF WaitSize
        <5> QED BY <1>4, <1>t, <4>1, <5>1 DEF WaitStep, Wait, QueueType, Slots, THREAD_MAX
      <4>2. CASE pc # "wait"
        BY <1>4, <2>3, <4>2 DEF WaitStep, Wait
      <4> QED BY <4>1, <4>2
    <3>3. /\ UNCHANGED <<ready_queue, rq_current>>
          /\ pc' = IF pc = "wait" THEN "wait_grow" ELSE IF pc = "wait_grow" THEN "wait_slot" ELSE "resume"
      BY <1>4, <2>3 DEF WaitStep, Wait
    <3> QED BY <1>o, <2>1, <2>3, <3>1, <3>2, <3>3, LockSame DEF Refused, Leaving
  <2> QED BY <1>4, <2>2, <2>3 DEF WaitStep, Wait
<1>5. CASE ExitStep
  <2>1. UNCHANGED <<lock_owner, env, waiting_queue>> /\ WaitSize' = WaitSize
    BY <1>5, QueueExit DEF ExitStep, bank, tcbs
  <2>2. CASE pc = "exit"
    <3>1. LeaveSlot /\ pc' = "exit_shrink" /\ ReadySize' = rq_size - 1
      BY <1>5, <2>2, QueueExit DEF ExitStep, Exit
    <3>2. \A k \in 0..WaitSize' - 1 :
            waiting_queue'[k] \in Bankers /\ env[waiting_queue'[k]] = "locked"
      BY <2>1 DEF IInv, LockInv
    <3>3. WaitSize' > 0 => lock_owner # Unowned
      BY <1>o, <2>1, <2>2
    <3> QED BY <2>1, <2>2, <3>1, <3>2, <3>3, LockLeave
  <2>3. CASE pc \in {"exit_shrink", "free"}
    <3>1. UNCHANGED ready_queue /\ ReadySize' = ReadySize
      BY <1>5, <2>3, QueueExit DEF ExitStep, Exit
    <3> QED BY <1>o, <2>1, <2>3, <3>1, LockSame DEF Refused, Leaving
  <2> QED BY <1>5, <2>2, <2>3 DEF ExitStep, Exit
<1>6. CASE LoopEnds \/ Lock \/ Acquired \/ Operate \/ Unlock
  <2>1. /\ UNCHANGED <<ready_queue, waiting_queue, rq_current>>
        /\ pc \in {"printed", "lock", "acquired", "operate", "unlock"} /\ Settled
    BY <1>6 DEF LoopEnds, Lock, Acquired, Operate, Unlock, Settled, queues
  <2>2. ReadySize' = ReadySize /\ WaitSize' = WaitSize
    BY <2>1, QueueElse DEF HandOver, WaitStep, Wait, ExitStep, Exit
  <2>3. \A t \in Created \ {RUNNING} : env'[t] = env[t]
    BY <1>t, <1>6 DEF LoopEnds, Lock, Acquired, Operate, Unlock, Yield, Leave, tcbs, TcbType
  <2>4. RUNNING \in Created /\ RUNNING # Unowned /\ rq_current < ReadySize
    BY <1>r, <2>1
  <2>5. CASE LoopEnds
    <3>1. RUNNING \notin Bankers /\ UNCHANGED lock_owner
      BY <2>5 DEF LoopEnds, bank, IInv, RunInv
    <3> QED BY <1>o, <2>1, <2>2, <2>3, <3>1, LockTurn
  <2>6. CASE Lock
    <3>1. RUNNING \in Bankers /\ env[RUNNING] = "setup" /\ pc = "lock"
      BY <2>6 DEF Lock, IInv, RunInv
    <3>2. CASE lock_owner = Unowned
      <4>1. lock_owner' = RUNNING /\ pc' = "acquired" /\ env' = env
        BY <2>6, <3>2 DEF Lock
      <4> QED BY <2>1, <2>2, <2>3, <2>4, <3>1, <3>2, <4>1, LockTurn
    <3>3. CASE lock_owner # Unowned
      <4>1. lock_owner' = lock_owner /\ Refused' /\ env'[RUNNING] = "locked"
        BY <1>t, <2>4, <2>6, <3>3 DEF Lock, Leave, TcbType, Refused
      <4> QED BY <2>1, <2>2, <2>3, <3>3, <4>1, LockTurn
    <3> QED BY <3>2, <3>3
  <2>7. CASE Acquired \/ Operate
    <3>1. lock_owner = RUNNING
      <4>1. CASE Acquired
        BY <4>1 DEF Acquired, IInv, RunInv
      <4>2. CASE Operate
        <5>1. pc = "operate" /\ env[RUNNING] = "operate" /\ RUNNING \in Bankers
          BY <2>4, <4>2 DEF Operate, IInv, RunInv, EnvInv
        <5> QED BY <2>4, <5>1, RunningLock DEF Leaving
      <4> QED BY <2>7, <4>1, <4>2
    <3>2. lock_owner' = lock_owner /\ env'[RUNNING] \in {"operate", "unlock"}
      BY <1>t, <2>4, <2>7 DEF Acquired, Operate, Yield, Leave, bank, TcbType
    <3> QED BY <2>1, <2>2, <2>3, <2>4, <3>1, <3>2, LockTurn
  <2>8. CASE Unlock
    <3>1. pc = "unlock" /\ env[RUNNING] = "unlock" /\ RUNNING \in Bankers /\ blocked = base_mask
      BY <2>4, <2>8 DEF Unlock, IInv, RunInv, EnvInv, MaskInv
    <3>2. lock_owner = RUNNING
      BY <2>4, <3>1, RunningLock DEF Leaving
    <3>3. lock_owner' = Unowned /\ pc' = "scheduler" /\ rtv' = 3 /\ UNCHANGED <<blocked, env>>
      BY <2>8, <3>2 DEF Unlock, Longjmp, OwnerAfter, tcbs
    <3>4. Leaving'
      BY <3>3 DEF Leaving
    <3> QED BY <2>1, <2>2, <2>3, <3>1, <3>2, <3>3, <3>4, LockTurn
  <2> QED BY <1>6, <2>5, <2>6, <2>7, <2>8
<1>7. CASE MustWait
  <2>1. /\ UNCHANGED <<ready_queue, waiting_queue, lock_owner, env, rq_current>>
        /\ pc = "must_wait" /\ Refused'
    BY <1>7 DEF MustWait, Longjmp, Refused, queues, bank, tcbs
  <2>2. ReadySize' = ReadySize /\ WaitSize' = WaitSize
    BY <2>1, QueueElse DEF HandOver, WaitStep, Wait, ExitStep, Exit
  <2> QED BY <1>o, <2>1, <2>2, LockSame DEF Leaving
<1>8. CASE SendTstp \/ AlarmExpires
  <2>1. /\ UNCHANGED <<queues, lock_owner, env, pc, rtv, blocked, tmp>>
    BY <1>8 DEF SendTstp, AlarmExpires, bank, tcbs
  <2>2. ReadySize' = ReadySize /\ WaitSize' = WaitSize /\ (Refused => Refused') /\ (Leaving => Leaving')
    BY <2>1 DEF ReadySize, WaitSize, queues, Refused, Leaving
  <2> QED BY <2>1, <2>2, LockSame DEF queues
<1> QED BY <1>1, <1>2, <1>3, <1>4, <1>5, <1>6, <1>7, <1>8 DEF Next, Cpu

-----------------------------------------------------------------------------
(* The theorems.                                                           *)

(* The invariant speaks of the variables only.                             *)
LEMMA StutterInv ==
  ASSUME IInv, UNCHANGED vars
  PROVE  IInv'
<1> USE DEF vars, queues, bank, tcbs, signals
<1>1. ReadySize' = ReadySize /\ WaitSize' = WaitSize /\ Exited' = Exited /\ RUNNING' = RUNNING
  BY DEF ReadySize, WaitSize, Exited, RUNNING
<1>2. TypeOK' /\ MaskInv' /\ AlarmInv' /\ EnvInv'
  BY DEF IInv, TypeOK, MaskInv, AlarmInv, EnvInv
<1>3. QueueInv'
  BY <1>1 DEF IInv, QueueInv, Distinct, Listed
<1>4. CurrentInv'
  BY <1>1 DEF IInv, CurrentInv
<1>5. RunInv'
  BY <1>1 DEF IInv, RunInv, Refused, Leaving
<1>6. LockInv'
  BY <1>1, LockSame DEF Refused, Leaving
<1> QED BY <1>2, <1>3, <1>4, <1>5, <1>6 DEF IInv

(* The invariant is inductive.                                             *)
LEMMA StepInv ==
  ASSUME IInv, OneKind, [Next]_vars
  PROVE  IInv'
<1>1. CASE Next
  BY <1>1, TypeNext, MaskNext, QueueNext, CurrentNext, RunNext, EnvNext, LockNext, AlarmNext
     DEF IInv
<1>2. CASE UNCHANGED vars
  BY <1>2, StutterInv
<1> QED BY <1>1, <1>2

(* In a run in which signals of one kind come, every reachable state of    *)
(* the program satisfies the inductive invariant.                          *)
THEOREM ThreadsInductive == Spec => [](OneKind => IInv)
<1>1. Init => kinds \in SignalSets
  BY DEF Init
<1>2. Init => (OneKind => IInv)
  BY <1>1, InitInv
<1>3. (OneKind => IInv) /\ [Next]_vars => (OneKind => IInv)'
  <2>1. [Next]_vars => kinds' = kinds
    BY WhoChanges DEF vars, signals
  <2>2. [Next]_vars => (OneKind' <=> OneKind)
    BY <2>1 DEF OneKind
  <2> QED BY <2>2, StepInv
<1> QED BY <1>2, <1>3, PTL DEF Spec

(* scheduler.c: outside the moves of step 3 each thread that has not       *)
(* exited is in exactly one of the two queues, in exactly one place.       *)
THEOREM QueuesArePartition == Spec => []QueuesPartition
<1>1. (OneKind => IInv) => QueuesPartition
  <2> SUFFICES ASSUME OneKind, IInv, ~MovingThread
               PROVE  /\ Cardinality(Ready) = rq_size /\ Cardinality(Waiting) = wq_size
                      /\ Ready \intersect Waiting = {}
                      /\ Ready \union Waiting = Created \ freed
    BY DEF QueuesPartition
  <2>1. ReadySize = rq_size /\ WaitSize = wq_size /\ Exited = freed
    BY DEF MovingThread, ReadySize, WaitSize, Exited
  <2>2. Ready = Listed(ready_queue, ReadySize) /\ Waiting = Listed(waiting_queue, WaitSize)
    BY <2>1 DEF Ready, Waiting, Listed
  <2>3. Cardinality(Ready) = rq_size /\ Cardinality(Waiting) = wq_size
    BY <2>1, <2>2, SizeOfListed DEF IInv, QueueInv
  <2> QED BY <2>1, <2>2, <2>3 DEF IInv, QueueInv
<1> QED BY <1>1, ThreadsInductive, PTL

(* scheduler.c, threadtools.h: nobody waits for a lock that no thread on   *)
(* the ready queue will release.                                           *)
THEOREM NobodyWaitsForNobody == Spec => []WaitersHaveOwner
<1>1. (OneKind => IInv) => WaitersHaveOwner
  <2> SUFFICES ASSUME OneKind, IInv, ~MovingThread, wq_size > 0
               PROVE  lock_owner \in Ready \/ (lock_owner = Unowned /\ pc = "scheduler")
    BY DEF WaitersHaveOwner
  <2>1. ReadySize = rq_size /\ WaitSize = wq_size
    BY DEF MovingThread, ReadySize, WaitSize
  <2>2. Ready = Listed(ready_queue, ReadySize)
    BY <2>1 DEF Ready, Listed
  <2>3. WaitSize > 0 /\ (lock_owner # Unowned => lock_owner \in Ready)
    BY <2>1, <2>2 DEF IInv, LockInv
  <2>4. lock_owner = Unowned => pc = "scheduler"
    BY <2>3 DEF IInv, LockInv
  <2> QED BY <2>3, <2>4
<1> QED BY <1>1, ThreadsInductive, PTL

(* threadtools.h lock(): also a thread that resumes behind longjmp owns    *)
(* the lock, and keeps it until it unlocks.                                *)
THEOREM LockIsOwned == Spec => []AcquiredTheLock
<1>1. (OneKind => IInv) => AcquiredTheLock
  <2> SUFFICES ASSUME OneKind, IInv, pc \in {"acquired", "operate", "unlock"}
               PROVE  lock_owner = RUNNING
    BY DEF AcquiredTheLock
  <2>1. CASE pc = "acquired"
    BY <2>1 DEF IInv, RunInv
  <2>2. CASE pc \in {"operate", "unlock"}
    <3>1. RUNNING \in Created /\ rq_current \in 0..rq_size - 1 /\ ReadySize = rq_size
      BY <2>2, RunningReady DEF Settled
    <3>2. rq_current < ReadySize
      BY <3>1, Sizes
    <3>3. env[RUNNING] = pc /\ RUNNING \in Bankers
      BY <2>2, <3>1 DEF IInv, RunInv, EnvInv
    <3> QED BY <2>2, <3>2, <3>3, RunningLock DEF Leaving
  <2> QED BY <2>1, <2>2
<1> QED BY <1>1, ThreadsInductive, PTL

(* scheduler.c:87: the program resumes a thread that has exited only when  *)
(* all have, and nobody then waits for the lock or owns it.                *)
THEOREM UndefinedAtTheEnd == Spec => []EndsInOrder
<1>1. (OneKind => IInv) => EndsInOrder
  <2> SUFFICES ASSUME OneKind, IInv, pc = "undefined"
               PROVE  freed = Created /\ lock_owner = Unowned /\ wq_size = 0
    BY DEF EndsInOrder
  <2>1. rq_size = 0 /\ wq_size = 0
    BY DEF IInv, CurrentInv
  <2>2. ReadySize = 0 /\ WaitSize = 0 /\ Exited = freed
    BY <2>1 DEF ReadySize, WaitSize, Exited
  <2>3. Listed(ready_queue, ReadySize) = {} /\ Listed(waiting_queue, WaitSize) = {}
    BY <2>2 DEF Listed
  <2>4. freed = Created
    BY <2>2, <2>3, TypeParts DEF IInv, QueueInv, TcbType
  <2> QED BY <2>1, <2>3, <2>4 DEF IInv, LockInv
<1> QED BY <1>1, ThreadsInductive, PTL

(* scheduler.c:9: whenever a signal handler has come to the scheduler, the *)
(* next time slice runs or is over.                                        *)
THEOREM AlarmIsReset == Spec => []AlarmGoesOn
<1>1. (OneKind => IInv) => AlarmGoesOn
  BY DEF IInv, AlarmInv, AlarmGoesOn, At
<1> QED BY <1>1, ThreadsInductive, PTL

(* The settings in which only one of the signals can come.                 *)
OnlyOneKind == \A K \in SignalSets : Cardinality(K) = 1

(* With such settings OneKind holds in every run.                          *)
LEMMA KindsFromSets ==
  ASSUME OnlyOneKind
  PROVE  Spec => [](OneKind /\ IInv)
<1>1. Init => kinds \in SignalSets
  BY DEF Init
<1>2. kinds \in SignalSets /\ [Next]_vars => (kinds \in SignalSets)'
  BY WhoChanges DEF vars, signals
<1>3. kinds \in SignalSets => OneKind
  BY DEF OneKind, OnlyOneKind
<1> QED BY <1>1, <1>2, <1>3, ThreadsInductive, PTL DEF Spec

(* The sizes and indices of the queues stay inside the arrays: queue[16]   *)
(* of threadtools.h never overflows.                                       *)
THEOREM TypeCorrect ==
  ASSUME OnlyOneKind
  PROVE  Spec => []TypeOK
<1>1. IInv => TypeOK
  BY DEF IInv
<1> QED BY <1>1, KindsFromSets, PTL
=============================================================================
