# TLA+ models of the systems programming homeworks

The repository holds four independent C programs, one per homework. This
directory models what makes each of them hard: threads that share a queue (HW4),
signals that interrupt a scheduler (HW3), a tree of processes that talk through
pipes (HW2), and servers that share a file with each other and with whoever locks its
records (HW1).

Paths below are relative to `src/`.

## 1. Inventory

### HW4: a pool of pthreads (`HW4/my_pool.c`, `my_pool.h`)

*State.* `struct tpool`: the linked list `task_queue`, its mutex `queue_lock`, the
condition variables `queue_not_empty` (workers wait) and `queue_empty` (the client
waits), and `stop`.
*Operations.* `tpool_init`, `tpool_add`, `tpool_wait`, `tpool_destroy`, and the loop
`tpool_worker` of each thread.
*Interaction.* The client (`HW4/testcases/*/main.c`: add all tasks, wait, destroy) and
the workers share the pool.
*Hard.* Lost wakeups (`tpool_add` broadcasts only when the list was empty, `:12-16`),
spurious wakeups, `tpool_wait` that returns while tasks still run, shutdown with tasks
in the list, freeing the pool under the workers.
*Correct when.* The list keeps its order; each task is run exactly once; nobody sleeps
when there is something to do; a wait and a destroy return; the pool is freed when no worker uses it any more;
tasks added before a wait have been run when destroy returns.

### HW3: user-level threads (`HW3/main.c`, `scheduler.c`, `threads.c`, `threadtools.h`, `bank.h`)

*State.* A ready queue and a waiting queue of tcbs, each a saved environment with the
variables `i`, `x`, `y`; the bank (balance and owner of its lock); the signal mask, the
pending signals and the alarm clock.
*Operations.* `init_*` and `start_threading`; `scheduler()` (hand over the lock, remove
a thread that waits or exits, choose the next); `sighandler`; the macros `thread_setup`,
`thread_yield`, `thread_exit`, `lock`, `unlock`; the functions `fibonacci`, `factorial`,
`bank_operation`.
*Interaction.* `setjmp`/`longjmp` between threads, handler and scheduler.
*Hard.* SIGTSTP and SIGALRM arrive at any moment when they are not blocked. The jumps
neither save nor restore the mask, so the moments at which they are blocked are not those
the code appears to choose.
*Correct when.* No thread is lost from or doubled in the queues; only the owner
of the lock operates on the balance; a waiter gets the lock; every thread exits;
each prints what its function says; time slices go on.

### HW2: a tree of service processes (`HW2/service.c`, `util.h`)

*State.* In each process the list of its children (name, descriptors, `have_killed`,
`child_num`); the contents of the two pipes of each child; which processes live and
which were waited for.
*Operations.* The commands `spawn P C`, `kill S` and `exchange A B` of the user; inside the
tree the requests `spawn`, `find`, `kill`, `exchange`, `dead` and the answers `yes`, `not`,
`yesn`.
*Interaction.* The Manager and each service pass a request to one child after another and
wait for the answer of each. `create_service` makes two pipes, forks and sends the name of
the parent.
*Hard.* Pipes join messages; a process that waits for an answer nobody gives waits for ever;
`wait(NULL)` takes any child; descriptors are closed and used again; a buffer is compared
that was never terminated.
*Correct when.* Every command ends; a kill reaches exactly the named service and all those
under it; what the Manager says is true; nobody stays behind after `kill Manager`.

### HW1: a bulletin board (`HW1/server.c`, `client.c`, `hw1.h`, `samplejudge.py`)

*State.* The file of ten records; the server's copy `all`, its round-robin index `last`, its
table of connections, its flags `locked`; locks that other processes hold on records; the
TCP streams.
*Operations.* Server: accept, `pull`, `check`, `post`, `exit`, a closed connection. Client:
`post` (a check, then the post), `pull`, `exit`.
*Interaction.* A `select` loop handles one message after another; records are shared with
other servers and the judge through `fcntl` locks.
*Hard.* A lock is tested and then taken; a check is answered and then the post is sent; a
stream has no message boundaries; the cached copy of the board is refreshed only when the
file offset is 0, that is after a post; a closed connection frees a part of the table.
*Correct when.* No post overwrites a record that somebody has locked; a pull returns complete
posts; posts fill the ring in order; one client's failure does not harm the others.

The rest of the repository (Makefiles, READMEs, sample inputs and outputs) has no
state of its own.

## 2. Modules

| module | models | EXTENDS / INSTANCE |
|---|---|---|
| `TaskExecutor` | what a pool promises: the abstract specification | |
| `ThreadPool` | HW4 `my_pool.c`, with its inductive invariant and refinement mapping | instantiates `TaskExecutor` |
| `PoolTest` | HW4 test programs as clients of the pool | extends `ThreadPool` |
| `ThreadPoolProofs` | theorems about `ThreadPool` | extends `ThreadPool` |
| `UserThreads` | HW3, all of it | |
| `MCUserThreads` | negative command-line arguments for TLC | extends `UserThreads` |
| `UserThreadsProofs` | theorems about the queues and the lock, for signals of one kind | extends `UserThreads` |
| `UserThreadsTaskProofs` | theorems about what the threads compute, for all signals | extends `UserThreadsProofs`, `Recursion` |
| `ProcessTree` | what a tree of services promises its user: the abstract specification | |
| `ServiceTree` | HW2 `service.c`, with its refinement mapping | instantiates `ProcessTree` |
| `ServiceTreeProofs` | theorems about `ServiceTree`, for trees of any depth | extends `ServiceTree`, `Recursion` |
| `ServiceTreeImplements` | theorems about who can be reached, and the proof that the tree implements `ProcessTree` | extends `ServiceTreeProofs` |
| `Recursion` | facts about minima, induction and recursive functions for the proofs | |
| `Board` | what a bulletin board promises its users: the abstract specification | |
| `BulletinBoard` | HW1: servers, clients, their streams, and the process that locks records | instantiates `Board` |
| `BulletinBoardProofs` | theorems about `BulletinBoard` | extends `BulletinBoard` |
| `BulletinBoardImplements` | the proof that one server implements `Board` | extends `BulletinBoardProofs` |

Definitions marked *Variant*, and the alternatives that stand next to the definition
they differ from (`WakeOneWorker` beside `WakeWorkers`), are used by no specification:
each is a way to get that piece of code wrong, and substituted for the definition it makes
some property fail. They document what each property is for.

### ThreadPool

An action is the stretch of code between two points where another thread can intervene.
The mutex is a variable with its owner, so that a critical section takes several steps:
`WorkerLock`, `WorkerTest`, `WorkerPop` are lines 28-37 of `tpool_worker`. A worker that
waits on a condition variable is `"asleep"`; a broadcast makes it `"woken"`, and it must
take the mutex again and repeat its test. `SpuriousWakeup` wakes anyone. The list is a
sequence of task numbers. The client calls `tpool_add`, `tpool_wait` and
`tpool_destroy` in any order, from one thread, as both test programs do; `PoolTest` restricts
it to the order of these programs.

### UserThreads

There is one CPU with a program counter `pc`; a signal that is pending and not blocked is
delivered between any two steps (`Deliver`), before any instruction (`At`). Between two
points where a signal can make a difference several statements are one action: with both
signals blocked nothing can intervene, except in the places where the missing mask lets a
signal through, and there (step 3 and 4 of `scheduler()`, `sighandler`, `lock()`) each
assignment is a step. `sleep(1)` is no step: the signals it waits for are blocked. The
environment of a tcb is a label. `Resumed` is `longjmp(RUNNING->environment, 1)`; if the
tcb was freed the model stops at `pc = "undefined"`.

`kinds`, chosen at the start from `SignalSets`, says which signals come in a run: SIGTSTP if the
user sends it, SIGALRM if a time slice is shorter than the run. What the mask is meant to
ensure is stated for runs in which one of them comes (`OneKind`); what holds in spite of the
mask is stated for all.

Assignments in step 3 are taken in source order. When a signal enters the scheduler again
between `setjmp` and `longjmp`, local variables that the C standard leaves indeterminate
keep their values, as in a build without optimisation, which is what the Makefile
makes. Two threads resumed on one stack frame may disturb each other's locals; the
functions keep what matters in the tcb, so the model has no locals for them.

### ServiceTree

Each process has a `pc`; a request in `msg`; a position `at` in its list of children.
`Ask` writes to the next child not marked killed and `ManagerHears`/`Hear` read the answer;
`Receive` is the dispatch on the first letter of a request. The descriptor pair of a
child is an index into `conn[p]`; `Create` takes the lowest free pair, as `pipe` does, so that a
closed pair can lead to another child later, and a write to a closed one is lost.
`WaitNull` is satisfied by any exited child not yet waited for, or at once if there is none.
Two buffers are compared beyond what the read has written, and are choices in the model. `Recognised` is line 179: the bytes behind
the answer are what an earlier answer left there, so a `yes` may or may not be recognised. `IsGone` is line 246: it tests
`buf[3]`, which a `yes` of three bytes (written at line 443) leaves as it was, so the Manager may take it for a `yesn` and mark a living child
killed. Builds do both: compiled by gcc as the Makefile has it, the buffers of the different loops share a place on the stack and the byte
happened to be another one; with `-fstack-reuse=none` it is the `n` of the `yesn` before, and the session spawn A under the Manager, B under A,
C under the Manager, kill C, kill B, spawn D under A ends with "A doesn't exist". All other loops compare three bytes
only, or set the fourth to 0 before they compare (lines 225, 277, 294, 364, 427, 499, 564).

The user gives a new service a new name; to name one like a service that is gone is the same,
as nobody answers to the old name. Two living services of one name are not modelled, nor what
happens at the end of the input (`scanf` fails and the last command is
repeated for ever; the sample sessions end with `kill Manager`). A service whose pipes its
parent has closed reads nothing any more: it blocks or spins on the end of file, which is
the same as staying idle. `exchange` is the search it performs: `secret` is assigned at the
start and never again. `MAX_CHILDREN` is not enforced by the code.

`ProcessTree` is what the tree does for its user: who can be reached, and a command that takes effect at one instant
between the moment it is given and the moment its outcome is told. In the mapping a service is reached (`Reached`)
until it, or somebody above it, begins to die (`Dying`) or is marked killed (`Marked`): a killed service and all under it
are lost together when it takes the request, however long the processes need. A spawn is done when the
process is made, a kill when the target takes it, whatever the Manager has still to hear. Three things a user would not
expect are in the specification because the code does them. A kill may lose services over its target, with all under
them (`CutOff`, and `Loses` in `Tell`): lines 429 and 246 mark whoever passes the answer on; but nobody else, and never the
Manager. A spawn that was done may be told as missing (line 179). An exchange is told and changes nothing: there are no secrets in `ProcessTree`, while
`sample-output-2.txt:7-8` expects them to be exchanged (section 3).

### BulletinBoard

An action is a step between two system calls that others can see: a read of the file, a test of
one lock, taking it, writing the record, releasing it. Each server has its copy `all` of the file,
read by `Refresh` only where the offset is 0; the offset is moved there by `Write`. The handlers
of `pull` and `check` test one record per step, that of `post` searches from the record behind
`last`. `OtherLocks` and `OtherUnlocks` are the process of `samplejudge.py`, at any moment. A
server does not see its own `fcntl` locks, so `IsLocked` is about those of others; the array
`locked` is cleared between handlers and only read before it is written, and left out.

A stream is a sequence of messages. They are small enough for a read never to return
a part of one, but it may return a post with what is behind it (`Arrived`); such a text is no
command, so it is taken for a post (`TextOp`) and the rest is lost. `select` may find any
subset of the connections, one connection at a time is accepted, in any order, and gets
the lowest free descriptor; readable ones are handled by descriptor.
`ReadEof` is the end of a stream without `exit`: `free` is called with an address inside
the table, and the C library aborts the server.

A client pulls when it has connected, then does what its user says: pull, check and post, or exit.
With `Paced` the user gives no command while a post is on its way. A client may be killed at
its prompt (`MaxKills`). `PostsBegun < MaxPosts` bounds the posts. Ghost variables for properties:
`logged` counts the log lines of each post, `steady` the records whose lock has not changed since
the handler began. `Board` is the promise to the users: a post takes one record at one instant,
a pull shows what the file held at one instant after it was sent. With one server that instant
is when `select` finds the pull.

## 3. What is checked

### Runs that pass

| run | instance | shows |
|---|---|---|
| `Pool` | 3 workers, 4 tasks, 1 spurious wakeup | `QueueInOrder`, `EachTaskOnce`, `WorkConserving`, `WaiterIsOwedSignal`, `WaitedForMeansRun`, `FreedAfterExit`; that the pool implements `TaskExecutor`; that tasks are run unless the pool is stopped first, and `tpool_wait` and `tpool_destroy` return |
| `PoolTest` | 3 workers, 3 tasks | the test programs end, with every task run once |
| `Threads` | 4 threads, two withdrawals of which one must fail, up to 4 SIGTSTP; with SIGALRM, with SIGTSTP, with both | one kind: each thread is in one queue, waiters have an owner to wait for, the lock is owned by whoever goes on, time slices go on, every thread exits and leaves the lock free. Both, although the mask is then not what it should be: the arrays keep their bounds, the lock is handed over undisturbed, what is printed is right, the balance is explained by an order of the operations |
| `TreeShallow` | 4 services on 2 levels, 5 commands | every command ends, and no service stays after the Manager but those it has cut off |
| `TreeDeep` | 4 services on 3 levels, 6 commands | a command takes effect once, at one instant, if and only if the service it is for can be reached, and a kill cuts off ancestors of its target only (`ImplementsTree`); children not marked killed live and their descriptors lead to them, and who is marked was killed or has a killed service under it; nothing is under way between commands, only those a kill applies to die, and all of them have when it is reported |
| `BoardPulls` | 1 server, 2 clients, 2 records, 2 posts, both records lockable | a pull hides what is locked and shows the board of one instant (`ImplementsBoard`), leaving with `exit` does no harm, pulls and checks are answered, posts are stored |
| `BoardServers` | 2 servers, 2 clients, 3 records, 4 posts, messages joined, one client killed | each post is stored and logged once, a server leaves no lock behind, a post passes over locked records only, a pull shows the client's own posts |

*Bounds.* Three workers are enough for one to sleep, one to run and one to stand between two
tests; four tasks let the list become empty and fill again; one spurious wakeup comes at any
moment, and each more repeats it. (The theorems in section 4 hold for all of these.) The
threads of HW3 are all that `init_threads` can make; their arguments are those of
`sample_execution.sh` with `fibonacci` cut to four rounds, and withdrawals that fail and
that make each other fail. Four SIGTSTPs (and as many alarms as there are yields) suffice for one in each
thread, also while another waits for the lock, and all the effects listed below are
seen with fewer. In HW1 two records are the least
that can be wrapped around, locked and passed over; four posts in three records replace
a post by a later one; two clients and two servers are the least for a stale copy and for a race
between two writers. (`RECORD_NUM` is 10 in `hw1.h:4`; the theorems hold for every number.) Four services are enough: three are the least with which descriptors are used again inside a
service, a service has living and dead children, and there are two subtrees. Five commands
are: two spawns, a kill, a spawn that gets the descriptors of the killed, and a kill of all.

*Deadlock* is not checked: the client has finished, the threads have exited, or the user
gives no more commands.

*Fairness.* Weak fairness only: of each worker and of the client inside a call, of the CPU
in HW3, of each process in HW2, of each server and of a client that waits for an answer in HW1. The kernel schedules every thread and process that can run;
weak fairness says no more. Nothing is assumed of the order in which the mutex is granted:
with boundedly many tasks a thread that waits for it cannot be passed over for ever, since the
others end up asleep. No fairness for what the
environment may leave out: calls of the client, signals, commands, spurious wakeups, what users
type, the locks of other processes (one that is never released stops nobody, since no call
waits for a lock).

### Runs that find the code and its documents to differ

| run | property | shows |
|---|---|---|
| `ThreadsMask` | `SchedulerMasked` | after SIGALRM the scheduler runs with SIGTSTP unblocked, against the comment at `scheduler.c:28` |
| `ThreadsEnd` | `ExitedNeverResumed` | after the last exit the scheduler jumps into a freed tcb and never returns |
| `TreePiped` | `CommandsEnd` | a service's first read takes a request together with its parent's name |
| `TreeHang` | `CommandsEnd` | a kill on the third level cuts off a living service, and a later kill waits for it for ever |
| `BoardLocks` | `LockedUntouched` | a post overwrites a record that another process has locked: when all are locked it goes to record 0 |

Further differences, met while modelling, for which no run is kept:

- With both signals, what is stated for one kind (`OneKind`) is lost, as a consequence of
  what `ThreadsMask` shows. `AlarmGoesOn` fails when SIGTSTP interrupts the handler of SIGALRM before
  `alarm()`; `AcquiredTheLock` fails when a signal arrives between the test of `lock()` and its jump in a
  first run (`threadtools.h:79`); `QueuesPartition` fails when one interrupts step 3;
  `EveryThreadExits` when a bank thread that owns the lock is restarted from the top and waits for itself. To
  see each, drop `OneKind` from it and run `Threads`. The properties themselves do not speak of these cases.
- A successful spawn may be reported as failed, since the buffer compared at `service.c:179` holds bytes
  of an earlier answer: `SpawnMissingIsGone` (`service.c:183-185`) fails when it is added to
  `TreeShallow.cfg`.
- A living service is cut off and not found any more, though nobody killed it: on a third level by line 429 (`TreeHang`), and
  on two levels already by line 246, if the byte behind a `yes` is an `n`. `kill Manager` passes over it, so that it
  stays behind: without the exception for those cut off, `EveryoneExits` fails in `TreeShallow`.
- A command that a server reads together with a post is lost (`server.c:142-157`), and the
  client waits for its answer for ever; if it was `exit`, the server comes to the end of the stream
  and aborts (`server.c:146`). With `Paced = FALSE`, `Answered` and `SurvivesExit` fail in
  `BoardPulls`. `Paced` is the behaviour of a user who does not type two lines at once.
- With several servers a copy is stale: it is refreshed after the server's own posts only
  (`server.c:105`), so a pull may show what another server has overwritten long ago.
  `ImplementsBoard` holds for one server; `ReadsOwnPosts` is what remains with two.
- Between `is_locked` and `dolock` (`server.c:199-200`) another process may lock the record; `dolock`
  prints an error and the record is written all the same. Two servers can
  so write one record, and `LocksForPosts` says only that the locks are in order afterwards.
- The Manager may exit before its children if it killed one before: `wait(NULL)` at
  `service.c:206` then takes the one that was killed (the wait at line 250 is commented
  out). `KilledMeansExited` excludes this case.
- The number of killed services that is printed is the number of spawns by the Manager, or a
  `child_num` that is never set (`service.c:209`, `:252`). `sample-output-1.txt:41`
  expects 1; the program says 2.
- `exchange` changes no secret and prints that it did, for services that do not exist too
  (`service.c:300`); `sample-output-2.txt:7-8` expects that each of two services gets the other's.

`TreePiped` is the only run of HW2 in which the user does not wait for a new service to say its
name (`Paced = FALSE`).

## 4. What is proved

### The pool

`ThreadPoolProofs` proves, for every number of workers, tasks and spurious wakeups
(`PoolAssumption`: at least one worker), that `Spec` implies

- `PoolTypeOK`, `PoolQueueInOrder`, `PoolEachTaskOnce`, `PoolWorkConserving`,
  `PoolWaiterIsOwedSignal`, `PoolFreedAfterExit`: the invariants of the run `Pool`;
- `PoolWaitedForMeansRun`: what a client that waits before it destroys may rely on;
- `PoolImplementsExecutor`: the refinement of `TaskExecutor`.

All follow from `PoolInductive`: `IInv` holds in every state. `IInv` has four parts.
`ControlInv` says who is in a critical section, when `stop` is set and how far the loops
of init and destroy have come. `QueueInv` says that the list is the interval of the tasks not
yet started, and that a worker about to pop sees a non-empty list, since nobody
else can have the mutex. `EachTaskOnce` counts runs: a task that was started has run once or is
in the hands of exactly one worker. `WakeupInv` is the heart: while the list is not empty no
worker sleeps (so a broadcast on the first task suffices, although later adds are silent),
and while the client sleeps in `tpool_wait` somebody will still signal it. None of the
invariants listed is inductive alone: `WorkConserving` needs the mutex, `EachTaskOnce` the
order of the list, and that order the local variable of the worker that pops. The step is
proved part by part (`LockNext`, `StopNext`, `LoopNext`, `OrderNext`, ...), one action
at a time. For the refinement, `Mapping*` lemmas say which abstract step each action is.

### The user-level threads

`UserThreadsProofs` proves, for all arguments of the command line (`ThreadsAssumption`: at
least one thread, since without one `RUNNING` is a null pointer) and any number of signals,

- for every run in which one kind of signal comes: `QueuesArePartition`, `NobodyWaitsForNobody`,
  `LockIsOwned`, `UndefinedAtTheEnd`, `AlarmIsReset`, whose properties say so themselves by `OneKind`;
- in settings where only one kind can come (`OnlyOneKind`): `TypeCorrect`, which the run also
  checks with both.

They follow from `ThreadsInductive`, an invariant of eight parts and `BalanceExplained`. `MaskInv`
says where a signal can be delivered: between the unblocking in `thread_yield` and the mask that
closes it. It is the reason for everything else; with both kinds it is false. `QueueInv`
speaks of the queues as they are meant while step 3 moves a thread (`ReadySize`, `WaitSize`,
`Exited`), and `CurrentInv` says when `rq_current` is inside the ready queue, which is not so between
two of the assignments that advance it. `RunInv` and `EnvInv` relate `pc` to the environment of the
running thread. `LockInv` says who may own the lock: a bank thread on the ready queue owns
it exactly when its saved environment is behind `lock()`, with the running thread as the only
exception, on its way into or out of the lock; whoever waits was refused it; and the lock is free while
somebody waits only between an unlock and step 2. `WaitersHaveOwner` and
`AcquiredTheLock` are not inductive without it: that the thread resumed at `"acquired"` is
the owner follows from what step 2 did, long before. Lemmas about arrays used as queues
(`RemoveSwaps`, `AppendKeeps`, `ShiftRemovesFirst`) say what the swap, the append and the shift do
to the set of the threads listed.

`UserThreadsTaskProofs` proves what holds whatever signals come, in spite of the mask:
`HandOverIsMasked`, `BalanceIsExplained`, and `PrintsAreRight`, that what is printed is the value of
the recursive definition for all arguments. They follow from `TasksInductive`, an invariant that says
hardly anything of the ready queue, since with both kinds of signals hardly anything is true of it. It
rests on two things the code does in every case: only a thread that has not exited is resumed
(else the model stops at `"undefined"`), and `thread_yield` blocks both signals before
it goes on, so that a thread between two of its own steps is never restarted. `WaitInv` counts: the waiting
queue holds at most the bank threads that have called `lock()`, and is empty while nobody has the lock,
but for the moment between an unlock and step 2; so step 2 finds both signals blocked when it
does something. `PrintInv` relates `i`, `x` and `y` to the recursive functions. That these have
the value their equations say (`FibDef`, `FactorialIs`) needs induction over the natural numbers: `Recursion` has it in
the form of sets, from the least element of a set, where no operator is a parameter.

### The service tree

`ServiceTreeProofs` proves, for any number of services and commands, trees of any depth, and users who
wait for a name or do not (`TreeAssumption`): `TreeTypeCorrect`, `QuietBetweenCommands`, `OnlyDoomedDie`
and `KilledIsExited`, three properties of the run `TreeDeep` and the type of all runs. They follow
from `TreeInductive`, of eleven parts:

- `TreeInv`: `above` is the line of parents, and each service is in one list, at one place. `ConnInv`:
  an open pair of descriptors leads to the child it was made for, also when it was used before, and
  that child is not marked killed. `LoopInv`: where `tmp` of the loops is. `PipeInv`: what a pipe can hold, by what
  its service is doing.
- `PathInv` is the reason why one request at a time is under way: whoever has been asked (`Asked`: has the request in
  its pipe or in hand, or has answered and was not read) has nobody above that does not wait for it,
  and a line of parents goes through one child of each. So no other service is busy when an
  answer is read (`TheAnswer`), and none when the Manager is idle (`NobodyBusy`).
- `TurnInv` is about dying: only a process that kills its children has told them, those whose pipes are
  still open have not been told yet, and whoever has gone and was not told by a parent has an answer to be read.
- `RequestInv` and `SpawnInv`: all who search do so for the Manager's request, and a spawn comes to its parent
  once. `KillInv`: whoever dies or is told to is doomed, and an answer other than "not" to a kill means that the target is gone.
- `ReapInv` counts the waits: the loop at position `at` has waited for at least `at - 1` children, so at its
  end for all of them, in whatever order they exited; and nobody is left under a service that is gone.

`DiesOnlyIfDoomed` is not inductive alone: it needs to know that "dead" goes to a child of the one that
dies, hence `ConnInv`, and that this one is doomed with all under it, hence the tree. `KilledMeansExited` needs
the count of waits. One lemma per action (`AskKeeps`, `HearKeeps`, `CreateKeeps`, ...) has a step per part; the
`...Same` lemmas say for each part when a step that changes little keeps it.

`ServiceTreeImplements` proves, again for any number of services, commands and levels, `TreeIsConnected` and `TreeImplementsTree`, the
other two properties of `TreeDeep`. They follow from `ReachInductive`. Since a service that lives may be marked killed, on the third level for
certain and on the second perhaps, the invariant is not about who lives but about whom the Manager reaches. To `TreeInductive` it adds four parts:

- `ParentInv`: a service that was born is in a list of children.
- `MarkInv`: whoever is marked killed is gone or has somebody under it that is; and whoever is gone is marked once its answer has been read, unless
  its parent dies too. `TreeConnected` is this invariant when nothing is under way.
- `FindInv`: if the service looked for can be reached, the search has not passed it by: no child behind which a loop stands is on
  the line to it, and nobody on that line has answered "not". It is for a kill and for the search that goes before it, and for a spawn until it is done. A search leaves
  out the children marked killed, which is why the service must be one that can be reached.
- `AnswerInv`: what an answer other than "not" means. To a search, the target can be reached; to a spawn, the new service is born; to a kill, it comes
  from somebody on the line to the target. That is why nobody else is cut off. It says besides that a kill finds its target, since the search before it did.

`AskedReached` is the lemma on which most steps rest: whoever has the request, and does not die of it, can be reached, since those above it wait
for its answer through open pipes (`PathInv`, `LoopInv`, `ConnInv`). One lemma per kind of step keeps the four parts (`AskReach`, `AnswerReach`, `HearReach`, `CreateReach`, ...); where somebody
dies or is marked, it also says who is lost by it.

`TreeImplementsTree` is the refinement of `ProcessTree`. `CommandStep`, `SpawnStep`, `KillStep`, `HearStep` (`CutOff`) and `TellStep` are its five
actions, `TellStep` with three lemmas on the ways in which a command can end (`GivesUpStep`, `HearsStep`, `EndsStep`). All other steps
are `Unseen`: they leave the mapped state alone. Three of these need an argument: a service that takes "dead" is under one
that dies already (`DeadUnseen`, from `ToldByParent`), so it was not reached before; the target of a kill that is marked is lost already; and a search that
ends with "not" everywhere ends in `Tell` with a service that cannot be reached, by `FindInv`.

### The bulletin board

`BulletinBoardProofs` proves, for every number of servers, clients, records and posts, and any
records locked at any time (`BoardAssumption`), also for messages that are joined and clients
that are killed: `BoardTypeOK`, `BoardLocksForPosts`, `BoardEachPostOnce`, `BoardPullHidesLocked`,
`BoardReadsOwnPosts`, `BoardPassesOverLocked`; and `BoardSurvivesExit` for `Paced` users.
They follow from `BoardInductive`. `ControlInv`, `ConnInv`, `StreamInv` and `TalkInv`
say what a server has in hand, what can be in a stream and that a client waits for one answer
at a time. `PostInv` places every post sent: in the stream, in the hands of one server, or
logged, which is why a post joined to the next message is not lost. `LoopInv` says what the
loops over the records have found out about those whose lock has not changed since. `OwnInv` is why a stale
copy still has the client's own posts: a copy is made again after each of its server's
posts, and messages of a client are taken in order; `BoardInv` (no post is in two records, of the
file or of a copy) keeps it inductive. `ExitInv` is the part for `SurvivesExit`: without
kills an end of stream has an `exit` before it. One lemma per part (`StreamNext`, `PostNext`,
`LoopNext`, ...) goes through the actions.

`BulletinBoardImplements` proves `BoardImplementsBoard`: with one server, `Paced` users and no kills,
`Spec` implies `Abstract!Spec`. To the invariant it adds that a client that waits has
its question in the stream or in the hands of the server (`AskInv`), that a copy with the offset at the
end of the file is the file (`CopyInv`, where one server is needed), and that only a pull
is answered with posts (`ReplyInv`). `LookStep`, `PostStep`, `AskStep`, `AnswerStep` and `ShowStep`
are the five actions of `Board`; all others stutter.

*Only model-checked.* `TypeOK` of `UserThreads` with both kinds of signal: a thread may then be lost or doubled, and that the
ready queue keeps its bounds rests on there being four threads, created in a fixed order, which TLC goes through; and all liveness, which is out
of the prover's reach, as is `ENABLED`: `TasksRun`, `WaitReturns`, `DestroyReturns`,
`TestSucceeds`, `EveryThreadExits`, `CommandsEnd`, `EveryoneExits`, `Answered`, `PostsLogged`.
All invariants of the passing runs are theorems otherwise.

## 5. Not modelled

In HW4: results of `pthread_create`, several client threads, and the
destruction of the mutex and the condition variables inside the pool that was just freed (`my_pool.c:65-67`): `FreedAfterExit` is about the workers only. In HW3: signals before
`init_signal` is done, overflow of `factorial`. In HW2: the end of the input, a name used twice by
living services (section 2). In HW1: errors of system calls, what is printed and how,
names and texts longer than their fields (`server.c:228`), files of other sizes than
`RECORD_NUM` records, and the part of `samplejudge.py` that starts and compares programs. Build
files, scripts and sample sessions have no state.

## 6. What is left

The type of `UserThreads` with both kinds of signal has no proof, and what can be promised of the queues then is not stated.
`ProcessTree` does not say which commands never end after a service was cut off (`TreeHang`); liveness is checked on two levels, where all of them do.
