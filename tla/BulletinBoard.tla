---------------------------- MODULE BulletinBoard ----------------------------
(***************************************************************************)
(* The bulletin board of HW1: servers (server.c) that keep one file of     *)
(* records, the clients connected to them (client.c), and another process  *)
(* that locks records of the file, as samplejudge.py does.                 *)
(*                                                                         *)
(* A server handles one message after another; between two system calls of *)
(* a handler the other processes take their steps.  The array locked of a  *)
(* server is zero between handlers and is only tested before it is set, so *)
(* that it never decides anything: it is left out, as is what is printed.  *)
(***************************************************************************)
EXTENDS Integers, Sequences, FiniteSets, Functions

CONSTANTS
  NServers, NClients,
  RECORD_NUM,            \* records in the file
  Filled,                \* the records that hold a post at the start
  MaxPosts,              \* bound on the posts of all clients together
  Lockable,              \* the records the other process locks
  Paced,                 \* a user gives no command while a post is on its way
  MaxKills               \* bound on the clients killed at their prompt

ASSUME BoardAssumption ==
  /\ {NServers, NClients, RECORD_NUM} \subseteq Nat \ {0}
  /\ {MaxPosts, MaxKills} \subseteq Nat
  /\ Lockable \union Filled \subseteq 0..RECORD_NUM-1 /\ Paced \in BOOLEAN

Servers == 1..NServers
Clients == 1..NClients
Records == 0..RECORD_NUM-1
Nobody  == 0
Other   == -1            \* the other process

(* A post is known by who sent it and the how manieth of his it is; those  *)
(* the file held before the first server started count as nobody's.        *)
Post(c, n) == [by |-> c, n |-> n]
Empty      == Post(Nobody, 0)
Old(r)     == Post(Nobody, r + 1)
NewPosts   == {Post(c, n) : c \in Clients, n \in 1..MaxPosts}
Posts      == NewPosts \union {Old(r) : r \in Records}

Msg(op, p) == [op |-> op, post |-> p]
Plain(op)  == Msg(op, Empty)
Messages   == {Plain(op) : op \in {"pull", "check", "exit", "eof"}}
                \union {Msg("post", p) : p \in NewPosts}

Reply(kind, P) == [kind |-> kind, posts |-> P]
NoReply        == Reply("none", {})

VARIABLES
  file,                  \* the records of ./BulletinBoard
  lock,                  \* who holds the fcntl lock on each record
  spc,                   \* what each server is doing
  all,                   \* its copy of the file
  offset,                \* the offset of DB, in records
  last,                  \* where it stored the last post, before "% RECORD_NUM"
  ready,                 \* clients whose descriptors select found readable
  req,                   \* the message being handled: of which client, what
  at,                    \* i of the loops over the records: how many were tested
  free,                  \* records these loops found not locked
  pos,                   \* where the post goes
  cpc,                   \* what each client is doing
  server,                \* the server it is connected to
  fd,                    \* its descriptor there, 0 before accept and after close
  up, down,              \* the two directions of its connection
  sent,                  \* its number of posts
  logged,                \* the number of "[Log] Receive post" lines of each post
  steady,                \* records not locked or unlocked since the handler began
  kills

board   == <<file, lock>>
loop    == <<all, offset, ready>>
handler == <<req, at, free, pos, last>>
client  == <<cpc, server, sent, kills>>
stream  == <<up, down, fd>>
history == <<logged, steady>>
vars    == <<board, spc, loop, handler, client, stream, history>>

NoReq == [client |-> Nobody, msg |-> Plain("none")]

Init ==
  /\ file = [r \in Records |-> IF r \in Filled THEN Old(r) ELSE Empty]
  /\ lock = [r \in Records |-> Nobody]
  /\ spc = [s \in Servers |-> "refresh"]
  /\ all = [s \in Servers |-> [r \in Records |-> Empty]]
  /\ offset = [s \in Servers |-> 0] /\ last = [s \in Servers |-> -1]
  /\ ready = [s \in Servers |-> {}] /\ req = [s \in Servers |-> NoReq]
  /\ at = [s \in Servers |-> 0] /\ pos = [s \in Servers |-> 0]
  /\ free = [s \in Servers |-> {}]
  /\ cpc = [c \in Clients |-> "off"] /\ server = [c \in Clients |-> Nobody]
  /\ fd = [c \in Clients |-> 0]
  /\ up = [c \in Clients |-> << >>] /\ down = [c \in Clients |-> NoReply]
  /\ sent = [c \in Clients |-> 0]
  /\ logged = [p \in NewPosts |-> 0] /\ steady = [s \in Servers |-> {}]
  /\ kills = 0

-----------------------------------------------------------------------------
(* The loop of a server.                                                   *)

(* Variant: the offset runs past the end of the file.                      *)
RefreshPastEnd(s) ==
  /\ spc[s] = "refresh"
  /\ all' = [all EXCEPT ![s] = IF offset[s] = 0 THEN file ELSE @]
  /\ offset' = [offset EXCEPT ![s] = @ + RECORD_NUM]
  /\ spc' = [spc EXCEPT ![s] = "select"]
  /\ UNCHANGED <<board, ready, handler, client, stream, history>>

(* read(DB, all, ...) from where the offset is: the whole file after it    *)
(* was moved back to the beginning, and nothing otherwise.                 *)
Refresh(s) ==
  /\ spc[s] = "refresh"
  /\ all' = [all EXCEPT ![s] = IF offset[s] = 0 THEN file ELSE @]
  /\ offset' = [offset EXCEPT ![s] = RECORD_NUM]
  /\ spc' = [spc EXCEPT ![s] = "select"]
  /\ UNCHANGED <<board, ready, handler, client, stream, history>>

(* Variant of Readable: the first argument of select is one too small.     *)
ReadableBelow(s) == {c \in Clients : server[c] = s /\ fd[c] \in 1..NClients-1 /\ up[c] # << >>}

Pending(s)  == {c \in Clients : server[c] = s /\ fd[c] = 0 /\ up[c] # << >>}
Readable(s) == {c \in Clients : server[c] = s /\ fd[c] # 0 /\ up[c] # << >>}
UsedFds(s)  == {fd[c] : c \in {d \in Clients : server[d] = s}}

(* select returns; a client that waits in the backlog is accepted and gets *)
(* the lowest free descriptor, which is looked at in the next round.       *)
Select(s) ==
  /\ spc[s] = "select" /\ Pending(s) \union Readable(s) # {}
  /\ ready' = [ready EXCEPT ![s] = Readable(s)]
  /\ IF Pending(s) = {} THEN UNCHANGED fd
     ELSE \E c \in Pending(s) : \E f \in 1..NClients :
            /\ f \notin UsedFds(s) /\ 1..f-1 \subseteq UsedFds(s)
            /\ fd' = [fd EXCEPT ![c] = f]
  /\ spc' = [spc EXCEPT ![s] = IF Readable(s) = {} THEN "refresh" ELSE "loop"]
  /\ UNCHANGED <<board, all, offset, handler, client, up, down, history>>

(* The handler is done: the next readable descriptor, or the next round.   *)
Proceed(s, rest) ==
  /\ spc' = [spc EXCEPT ![s] = IF rest = {} THEN "refresh" ELSE "loop"]
  /\ ready' = [ready EXCEPT ![s] = rest]
  /\ req' = [req EXCEPT ![s] = NoReq] /\ at' = [at EXCEPT ![s] = 0]
  /\ free' = [free EXCEPT ![s] = {}] /\ pos' = [pos EXCEPT ![s] = 0]

(* What steady becomes when s ends its handler, and the lock of the        *)
(* records R has changed.                                                  *)
Calm(s, R) ==
  steady' = [t \in Servers |-> IF t = s THEN {} ELSE steady[t] \ R]

(* The readable descriptors are handled in ascending order.                *)
IsNext(s, c) ==
  /\ spc[s] = "loop" /\ c \in ready[s]
  /\ \A d \in ready[s] : fd[c] <= fd[d]

(* Variant of TextOp: the last message in the text decides.                *)
TextOpLast(c, k) == up[c][k].op

(* Variant of TextOp: a text that is no command is not taken for a post.   *)
TextOpLiteral(c, k) == IF k = 1 /\ up[c][1].op # "post" THEN up[c][1].op ELSE "other"

(* What has arrived of the stream when it is read: one message, or a post  *)
(* with the message behind it, which strcmp takes for a post as well.      *)
Arrived(c) == {k \in 1..Len(up[c]) : \A j \in 1..k : up[c][j].op # "eof"}
TextOp(c, k) == IF k = 1 THEN up[c][1].op ELSE "post"

(* Handlers of pull, check and post start with a loop over the records.    *)
Read(s, c) ==
  /\ IsNext(s, c)
  /\ \E k \in Arrived(c) :
       /\ TextOp(c, k) \in {"pull", "check", "post"}
       /\ req' = [req EXCEPT ![s] = [client |-> c, msg |-> Msg(TextOp(c, k), up[c][1].post)]]
       /\ up' = [up EXCEPT ![c] = SubSeq(@, k + 1, Len(@))]
  /\ spc' = [spc EXCEPT ![s] = "scan"]
  /\ ready' = [ready EXCEPT ![s] = @ \ {c}]
  /\ steady' = [steady EXCEPT ![s] = Records]
  /\ UNCHANGED <<board, all, offset, at, free, pos, last, client, down, fd, logged>>

(* Variant: exit is ignored.                                               *)
ReadExitIgnored(s, c) ==
  /\ IsNext(s, c) /\ 1 \in Arrived(c) /\ up[c][1].op = "exit"
  /\ up' = [up EXCEPT ![c] = Tail(@)]
  /\ Proceed(s, ready[s] \ {c}) /\ Calm(s, {})
  /\ UNCHANGED <<board, all, offset, last, client, fd, down, logged>>

(* exit: the connection is closed and its entry of the table is cleared.   *)
ReadExit(s, c) ==
  /\ IsNext(s, c) /\ 1 \in Arrived(c) /\ up[c][1].op = "exit"
  /\ up' = [up EXCEPT ![c] = << >>]
  /\ fd' = [fd EXCEPT ![c] = 0]
  /\ Proceed(s, ready[s] \ {c}) /\ Calm(s, {})
  /\ UNCHANGED <<board, all, offset, last, client, down, logged>>

(* read returns 0, and free is called with the address of an entry in the  *)
(* middle of the table: the C library aborts the server.                   *)
ReadEof(s, c) ==
  /\ IsNext(s, c) /\ up[c][1].op = "eof"
  /\ spc' = [spc EXCEPT ![s] = "aborted"]
  /\ UNCHANGED <<board, loop, handler, client, stream, history>>

-----------------------------------------------------------------------------
(* The handlers.                                                           *)

Handling(s, op) == spc[s] = "scan" /\ req[s].msg.op \in op

(* F_GETLK reports the locks of other processes only.                      *)
IsLocked(s, r) == lock[r] \notin {Nobody, s}

(* pull and check test every record.                                       *)
Test(s) ==
  /\ Handling(s, {"pull", "check"}) /\ at[s] < RECORD_NUM
  /\ at' = [at EXCEPT ![s] = @ + 1]
  /\ free' = [free EXCEPT ![s] = IF IsLocked(s, at[s]) THEN @ ELSE @ \union {at[s]}]
  /\ UNCHANGED <<board, spc, loop, req, pos, last, client, stream, history>>

(* Variant: all copies, whatever is locked.                                *)
ShownAll(s) == {all[s][r] : r \in Records} \ {Empty}

(* The answer to a pull: the copies of the records that were not locked    *)
(* and are not empty.                                                      *)
Shown(s) == {all[s][r] : r \in free[s]} \ {Empty}

AnswerTo(s) ==
  IF req[s].msg.op = "pull" THEN Reply("board", Shown(s))
  ELSE IF free[s] = {} THEN Reply("yes", {}) ELSE Reply("no", {})

Answer(s) ==
  /\ Handling(s, {"pull", "check"}) /\ at[s] = RECORD_NUM
  /\ down' = [down EXCEPT ![req[s].client] = AnswerTo(s)]
  /\ Proceed(s, ready[s]) /\ Calm(s, {})
  /\ UNCHANGED <<board, all, offset, last, client, up, fd, logged>>

(* Variant of Candidate: the record behind the last post is left out, as   *)
(* with the line "last = i + 1" that is commented out (server.c:202).      *)
CandidateBehind(s) == last[s] + 2 + (at[s] % RECORD_NUM)

(* post tests the records from the one behind the last post on, twice at   *)
(* most: i of its loops, and the record j.                                 *)
Candidate(s) == last[s] + 1 + (at[s] % RECORD_NUM)
Target(s)    == Candidate(s) % RECORD_NUM

PassOver(s) ==
  /\ Handling(s, {"post"}) /\ at[s] < 2 * RECORD_NUM /\ IsLocked(s, Target(s))
  /\ at' = [at EXCEPT ![s] = @ + 1]
  /\ UNCHANGED <<board, spc, loop, req, free, pos, last, client, stream, history>>

Choose(s) ==
  /\ Handling(s, {"post"}) /\ at[s] < 2 * RECORD_NUM /\ ~IsLocked(s, Target(s))
  /\ last' = [last EXCEPT ![s] = Candidate(s)]
  /\ pos' = [pos EXCEPT ![s] = Target(s)]
  /\ spc' = [spc EXCEPT ![s] = "lock"]
  /\ UNCHANGED <<board, loop, req, at, free, client, stream, history>>

(* Nothing found in two rounds: pos is still 0, and no lock is taken.      *)
ChooseNone(s) ==
  /\ Handling(s, {"post"}) /\ at[s] = 2 * RECORD_NUM
  /\ spc' = [spc EXCEPT ![s] = "write"]
  /\ UNCHANGED <<board, loop, handler, client, stream, history>>

(* What a lock that is set or cleared by p does to the handlers of others. *)
Disturb(p, r) ==
  steady' = [s \in Servers |-> IF s = p THEN steady[s] ELSE steady[s] \ {r}]

(* dolock(..., F_WRLCK): when somebody else was faster an error is printed *)
(* and the handler goes on.                                                *)
DoLock(s) ==
  /\ spc[s] = "lock"
  /\ IF lock[pos[s]] = Nobody
       THEN lock' = [lock EXCEPT ![pos[s]] = s] /\ Disturb(s, pos[s])
       ELSE UNCHANGED <<lock, steady>>
  /\ spc' = [spc EXCEPT ![s] = "write"]
  /\ UNCHANGED <<file, loop, handler, client, stream, logged>>

(* Variant: the offset stays behind the record.                            *)
WriteOnly(s) ==
  /\ spc[s] = "write"
  /\ file' = [file EXCEPT ![pos[s]] = req[s].msg.post]
  /\ spc' = [spc EXCEPT ![s] = "unlock"]
  /\ UNCHANGED <<lock, loop, handler, client, stream, history>>

(* The record is written, and the offset moved back to the beginning.      *)
Write(s) ==
  /\ spc[s] = "write"
  /\ file' = [file EXCEPT ![pos[s]] = req[s].msg.post]
  /\ offset' = [offset EXCEPT ![s] = 0]
  /\ spc' = [spc EXCEPT ![s] = "unlock"]
  /\ UNCHANGED <<lock, all, ready, handler, client, stream, history>>

(* Variant: the record stays locked.                                       *)
UnlockNot(s) ==
  /\ spc[s] = "unlock" /\ Calm(s, {})
  /\ logged' = [logged EXCEPT ![req[s].msg.post] = @ + 1]
  /\ Proceed(s, ready[s])
  /\ UNCHANGED <<board, all, offset, last, client, stream>>

(* dolock(..., F_UNLCK) has no effect on the lock of somebody else.        *)
Unlock(s) ==
  /\ spc[s] = "unlock"
  /\ IF lock[pos[s]] = s
       THEN lock' = [lock EXCEPT ![pos[s]] = Nobody] /\ Calm(s, {pos[s]})
       ELSE UNCHANGED lock /\ Calm(s, {})
  /\ logged' = [logged EXCEPT ![req[s].msg.post] = @ + 1]
  /\ Proceed(s, ready[s])
  /\ UNCHANGED <<file, all, offset, last, client, stream>>

-----------------------------------------------------------------------------
(* The clients.                                                            *)

Send(c, msgs) == up' = [up EXCEPT ![c] = @ \o msgs]
Turn(c, l)    == cpc' = [cpc EXCEPT ![c] = l]

(* A client connects to one of the servers and pulls at once.              *)
Connect(c) ==
  /\ cpc[c] = "off"
  /\ \E s \in Servers : spc[s] # "aborted" /\ server' = [server EXCEPT ![c] = s]
  /\ Send(c, <<Plain("pull")>>) /\ Turn(c, "pull")
  /\ UNCHANGED <<board, spc, loop, handler, sent, kills, down, fd, history>>

(* The user gives the next command.                                        *)
AtPrompt(c) == cpc[c] = "prompt" /\ (Paced => up[c] = << >>)

Pull(c) ==
  /\ AtPrompt(c)
  /\ Send(c, <<Plain("pull")>>) /\ Turn(c, "pull")
  /\ UNCHANGED <<board, spc, loop, handler, server, sent, kills, down, fd, history>>

(* Bound: the posts sent and those that a check may lead to.               *)
PostsBegun ==
  FoldFunction(+, 0, sent) + Cardinality({d \in Clients : cpc[d] \in {"check", "compose"}})

Check(c) ==
  /\ AtPrompt(c) /\ PostsBegun < MaxPosts
  /\ Send(c, <<Plain("check")>>) /\ Turn(c, "check")
  /\ UNCHANGED <<board, spc, loop, handler, server, sent, kills, down, fd, history>>

Exit(c) ==
  /\ AtPrompt(c)
  /\ Send(c, <<Plain("exit"), Plain("eof")>>) /\ Turn(c, "gone")
  /\ UNCHANGED <<board, spc, loop, handler, server, sent, kills, down, fd, history>>

(* The answer to a pull is printed; after the answer "no" to a check the   *)
(* user types the post, and after "yes" he reads an error.                 *)
Hear(c) ==
  /\ cpc[c] \in {"pull", "check"} /\ down[c] # NoReply
  /\ Turn(c, IF down[c].kind = "no" THEN "compose" ELSE "prompt")
  /\ down' = [down EXCEPT ![c] = NoReply]
  /\ UNCHANGED <<board, spc, loop, handler, server, sent, kills, up, fd, history>>

SendPost(c) ==
  /\ cpc[c] = "compose" /\ sent[c] < MaxPosts
  /\ sent' = [sent EXCEPT ![c] = @ + 1]
  /\ Send(c, <<Msg("post", Post(c, sent[c] + 1))>>) /\ Turn(c, "prompt")
  /\ UNCHANGED <<board, spc, loop, handler, server, kills, down, fd, history>>

(* With the server gone, a client reads the end of the stream, which it    *)
(* takes for an empty answer, and SIGPIPE ends it at its next command.     *)
LoseServer(c) ==
  /\ cpc[c] \in {"pull", "check"} /\ spc[server[c]] = "aborted"
  /\ Turn(c, "gone")
  /\ UNCHANGED <<board, spc, loop, handler, server, sent, kills, stream, history>>

(* A client is killed at its prompt, and its connection closed.            *)
Kill(c) ==
  /\ cpc[c] = "prompt" /\ kills < MaxKills /\ kills' = kills + 1
  /\ Send(c, <<Plain("eof")>>) /\ Turn(c, "gone")
  /\ UNCHANGED <<board, spc, loop, handler, server, sent, down, fd, history>>

-----------------------------------------------------------------------------
(* The other process locks records that nobody holds, and unlocks them.    *)
OtherLocks(r) ==
  /\ lock[r] = Nobody /\ lock' = [lock EXCEPT ![r] = Other] /\ Disturb(Other, r)
  /\ UNCHANGED <<file, spc, loop, handler, client, stream, logged>>

OtherUnlocks(r) ==
  /\ lock[r] = Other /\ lock' = [lock EXCEPT ![r] = Nobody] /\ Disturb(Other, r)
  /\ UNCHANGED <<file, spc, loop, handler, client, stream, logged>>

-----------------------------------------------------------------------------
ServerStep(s) ==
  \/ Refresh(s) \/ Select(s)
  \/ \E c \in Clients : Read(s, c) \/ ReadExit(s, c) \/ ReadEof(s, c)
  \/ Test(s) \/ Answer(s)
  \/ PassOver(s) \/ Choose(s) \/ ChooseNone(s) \/ DoLock(s) \/ Write(s) \/ Unlock(s)

User(c) ==
  Connect(c) \/ Pull(c) \/ Check(c) \/ Exit(c) \/ SendPost(c) \/ Kill(c)

Next ==
  \/ \E s \in Servers : ServerStep(s)
  \/ \E c \in Clients : User(c) \/ Hear(c) \/ LoseServer(c)
  \/ \E r \in Lockable : OtherLocks(r) \/ OtherUnlocks(r)

Spec == Init /\ [][Next]_vars

(* Servers and clients run when they can; users need not do anything, and  *)
(* locks may be kept for ever.                                             *)
FairSpec ==
  /\ Spec
  /\ \A s \in Servers : WF_vars(ServerStep(s))
  /\ \A c \in Clients : WF_vars(Hear(c) \/ LoseServer(c))
-----------------------------------------------------------------------------
(* Properties.                                                             *)

(* Every variable keeps the range of the C object, or of the part of the   *)
(* network or the kernel, it stands for.                                   *)
TypeOK ==
  /\ file \in [Records -> Posts \union {Empty}]
  /\ lock \in [Records -> Servers \union {Nobody, Other}]
  /\ spc \in [Servers -> {"refresh", "select", "loop", "scan", "lock", "write",
                          "unlock", "aborted"}]
  /\ all \in [Servers -> [Records -> Posts \union {Empty}]]
  /\ offset \in [Servers -> {0, RECORD_NUM}]
  /\ last \in [Servers -> Nat \union {-1}]
  /\ ready \in [Servers -> SUBSET Clients]
  /\ req \in [Servers -> [client : Clients, msg : Messages] \union {NoReq}]
  /\ at \in [Servers -> 0..2 * RECORD_NUM]
  /\ free \in [Servers -> SUBSET Records] /\ pos \in [Servers -> Records]
  /\ cpc \in [Clients -> {"off", "pull", "check", "compose", "prompt", "gone"}]
  /\ server \in [Clients -> Servers \union {Nobody}] /\ fd \in [Clients -> 0..NClients]
  /\ up \in [Clients -> Seq(Messages)]
  /\ down \in [Clients -> [kind : {"none", "yes", "no", "board"}, posts : SUBSET Posts]]
  /\ sent \in [Clients -> 0..MaxPosts] /\ logged \in [NewPosts -> Nat]
  /\ steady \in [Servers -> SUBSET Records] /\ kills \in 0..MaxKills

OnItsWay(p) ==
  \/ \E k \in 1..Len(up[p.by]) : up[p.by][k].post = p
  \/ \E s \in Servers : req[s].msg.post = p

(* Each post that was sent is stored and logged exactly once, by a server  *)
(* that took it off the stream together with another message as well.      *)
EachPostOnce ==
  \A p \in NewPosts :
    logged[p] = IF p.n <= sent[p.by] /\ ~OnItsWay(p) THEN 1 ELSE 0

(* A server holds a lock only while it writes a post, on that record only: *)
(* what dolock takes at line 200 or 214 is released at line 246, although  *)
(* pos may name a record it could not lock.                                *)
LocksForPosts ==
  \A s \in Servers, r \in Records :
    lock[r] = s => spc[s] \in {"write", "unlock"} /\ pos[s] = r

(* Clients that leave with exit do no harm to the server and the others:   *)
(* it goes down only when some client was killed.                          *)
SurvivesExit == kills = 0 => \A s \in Servers : spc[s] # "aborted"

(* A post goes to the first record behind that of the post before it that  *)
(* is not locked: a record it passes over was locked at some time since    *)
(* the post was read, and record 0 is taken regardless of its lock only if *)
(* every record was locked at such a time.                                 *)
PassesOverLocked ==
  [][\A s \in Servers :
       /\ last'[s] # last[s] =>
            /\ pos'[s] = last'[s] % RECORD_NUM
            /\ \A i \in last[s]+1..last'[s]-1 :
                 i % RECORD_NUM \in steady[s] => IsLocked(s, i % RECORD_NUM)
       /\ spc[s] = "scan" /\ spc'[s] = "write" =>
            \A r \in steady[s] : IsLocked(s, r)]_vars

(* The client of s gets the answer to its pull.                            *)
PullAnswered(s) ==
  req[s].client # Nobody /\ req[s].msg.op = "pull" /\ req'[s] = NoReq

(* A pull hides what is in a record that was locked all the time it was    *)
(* handled (samplejudge.py locks records, pulls, and unlocks them).        *)
PullHidesLocked ==
  [][\A s \in Servers : PullAnswered(s) =>
       \A r \in steady[s] : IsLocked(s, r) =>
         file[r] \notin down'[req[s].client].posts]_vars

(* A pull shows every post of the same client that is still on the board   *)
(* in a record nobody locked meanwhile, although the server answers from   *)
(* the copy it made before it waited for messages.                         *)
ReadsOwnPosts ==
  [][\A s \in Servers : PullAnswered(s) =>
       \A r \in steady[s] : lock[r] = Nobody /\ file[r].by = req[s].client =>
         file[r] \in down'[req[s].client].posts]_vars

(* No process changes a record that the other process has locked, as the   *)
(* clients are told when no record is free ("[Error] Maximum posting limit *)
(* exceeded", client.c:124).  It fails: a check may be answered with "no"  *)
(* and all records be locked when the post arrives, which then goes to     *)
(* record 0, and a record may be locked between is_locked and dolock.      *)
LockedUntouched ==
  [][\A r \in Records : lock[r] = Other => file'[r] = file[r]]_vars

(* Every pull and check is answered, provided users wait until their posts *)
(* have been read.                                                         *)
Answered == \A c \in Clients : (cpc[c] \in {"pull", "check"}) ~> (cpc[c] \in {"prompt", "compose"})

(* Every post that was sent is stored and logged: clients send boundedly   *)
(* many, so that there is a moment from which on it has been.              *)
PostsLogged ==
  <>[](\A p \in NewPosts : p.n <= sent[p.by] => logged[p] = 1)

-----------------------------------------------------------------------------
(* One server implements Board: a pull looks at the board when select      *)
(* finds it, since the copy made just before is what it will be answered   *)
(* from, even if a post is stored before its turn comes.                   *)
HasLooked(c) ==
  \E s \in Servers :
    \/ c \in ready[s] /\ up[c][1].op = "pull"
    \/ req[s].client = c /\ req[s].msg.op = "pull"

Asked == {c \in Clients : cpc[c] = "pull" /\ ~HasLooked(c) /\ down[c] = NoReply}
Copy(c) == {all[server[c]][r] : r \in Records} \ {Empty}

Abstract == INSTANCE Board WITH
  board <- file, asked <- Asked,
  view <- [c \in Clients |-> [seen |-> HasLooked(c), posts |-> IF HasLooked(c) THEN Copy(c) ELSE {}]],
  answer <- [c \in Clients |-> [seen |-> down[c].kind = "board", posts |-> down[c].posts]]

(* A pull shows what was on the board at one instant between its request   *)
(* and its answer, each post takes the place of one record at one instant, *)
(* and no post is stored twice.                                            *)
ImplementsBoard == Abstract!Spec
=============================================================================
