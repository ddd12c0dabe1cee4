----------------------------- MODULE ServiceTree -----------------------------
(***************************************************************************)
(* The tree of service processes of HW2/service.c.  Each service is a      *)
(* process that is joined to its parent by two pipes.  The Manager reads   *)
(* the user's commands and passes each on down the tree, depth first, one  *)
(* child at a time: a request goes down a pipe and the answer comes up the *)
(* other one before anybody goes on.                                       *)
(*                                                                         *)
(* The user gives a new service a name that was not used before: services  *)
(* are numbered in the order in which they are named in spawn commands.    *)
(***************************************************************************)
EXTENDS Integers, Sequences, FiniteSets, FiniteSetsExt

CONSTANTS
  MaxServices,           \* bound on the services ever spawned
  MaxDepth,              \* bound on the depth of the tree
  MaxCommands,           \* bound on the commands the user gives
  Paced                  \* the user waits until a new service has said its name

ASSUME TreeAssumption ==
  {MaxServices, MaxDepth, MaxCommands} \subseteq Nat /\ Paced \in BOOLEAN

Manager   == 0
Services  == 1..MaxServices
Processes == {Manager} \union Services
Fds       == 1..MaxServices          \* pairs of a read_fd and a write_fd
Closed    == -1

VARIABLES
  pc,                    \* what each process is doing
  msg,                   \* the request each process is dealing with
  at,                    \* tmp of its loops, as an index of its child list
  kids,                  \* root->next ... of each process: its children
  conn,                  \* conn[p][fd]: to which child the pair fd leads
  down, up,              \* content of the pipes of each service
  reaped,                \* exited services that were waited for
  above,                 \* the ancestors of each service
  doomed,                \* the services the last kill command applies to
  said,                  \* what the Manager printed about the last command
  commands               \* commands given so far

tree  == <<kids, conn, above>>
pipes == <<down, up>>
user  == <<doomed, said, commands>>
vars  == <<pc, msg, at, tree, pipes, reaped, user>>

Msg(op, a, b) == [op |-> op, a |-> a, b |-> b]
Nothing == Msg("nothing", Manager, Manager)
Name    == Msg("name", Manager, Manager)
Dead    == Msg("dead", Manager, Manager)
NoNews  == Msg("none", Manager, Manager)

Init ==
  /\ pc = [p \in Processes |-> IF p = Manager THEN "idle" ELSE "unborn"]
  /\ msg = [p \in Processes |-> Nothing] /\ at = [p \in Processes |-> 0]
  /\ kids = [p \in Processes |-> << >>]
  /\ conn = [p \in Processes |-> [fd \in Fds |-> Closed]]
  /\ down = [s \in Services |-> << >>] /\ up = down
  /\ reaped = {} /\ above = [p \in Processes |-> {}]
  /\ doomed = {} /\ said = NoNews /\ commands = 0

(* The services not yet spawned or past their last answer are not alive.   *)
Alive      == {s \in Services : pc[s] \notin {"unborn", "leaving", "exited"}}
Subtree(t) == {s \in Alive : s = t \/ t \in above[s]}

-----------------------------------------------------------------------------
(* Steps that Manager and services share.                                  *)

(* Variant: the loop stops one child early.                                *)
AskAllButLast(p, k) == {j \in k + 1..Len(kids[p]) - 1 : ~kids[p][j].killed}

(* The children after position k that the loops do not skip as killed.     *)
ToAsk(p, k) == {j \in k + 1..Len(kids[p]) : ~kids[p][j].killed}

Child(p, k) == kids[p][k].svc

(* Where the descriptors of a child lead: to another one if they were      *)
(* closed and handed out again.                                            *)
Peer(p, k)  == conn[p][kids[p][k].fd]

(* A loop passes the request to the next child that is not marked killed.  *)
Ask(p) ==
  LET k == Min(ToAsk(p, at[p])) IN
  /\ ToAsk(p, at[p]) # {}
  /\ at' = [at EXCEPT ![p] = k]
  /\ pc' = [pc EXCEPT ![p] = "asking"]
  /\ down' = [down EXCEPT ![Peer(p, k)] = Append(@, msg[p])]
  /\ UNCHANGED <<msg, tree, up, reaped, user>>

(* The answer of the child that was asked.                                 *)
HasAnswer(p) == pc[p] = "asking" /\ up[Peer(p, at[p])] # << >>
Answer(p)    == Head(up[Peer(p, at[p])])
TakeAnswer(p) == up' = [up EXCEPT ![Peer(p, at[p])] = Tail(@)]

(* Variant: the pipes are closed but have_killed is not set.               *)
CloseOnly(p) ==
  conn' = [conn EXCEPT ![p][kids[p][at[p]].fd] = Closed] /\ UNCHANGED kids

(* have_killed = 1 and both pipes closed, for the child that was asked.    *)
MarkKilled(p) ==
  /\ kids' = [kids EXCEPT ![p][at[p]].killed = TRUE]
  /\ conn' = [conn EXCEPT ![p][kids[p][at[p]].fd] = Closed]

(* create_service: a child at the end of the list, joined by two pipes     *)
(* with the lowest free descriptors, and the parent's name in one of them. *)
Create(p, s) ==
  LET fd == Min({f \in Fds : conn[p][f] = Closed}) IN
  /\ kids' = [kids EXCEPT ![p] = Append(@, [svc |-> s, fd |-> fd, killed |-> FALSE])]
  /\ conn' = [conn EXCEPT ![p][fd] = s]
  /\ above' = [above EXCEPT ![s] = above[p] \union {p}]
  /\ down' = [down EXCEPT ![s] = <<Name>>]
  /\ pc' = [pc EXCEPT ![p] = "idle", ![s] = "naming"]

(* The loops that tell every child to die: "dead" goes to whoever the      *)
(* descriptor leads to, and is lost when it is closed; then wait(NULL),    *)
(* which any exited child not yet waited for satisfies.                    *)
Tell(p, skip) ==
  LET s == Peer(p, at[p]) IN
  /\ pc[p] = "telling" /\ at[p] <= Len(kids[p])
  /\ IF skip /\ kids[p][at[p]].killed
       THEN at' = [at EXCEPT ![p] = @ + 1] /\ UNCHANGED <<pc, conn, down>>
       ELSE /\ down' = IF s = Closed THEN down
                       ELSE [down EXCEPT ![s] = Append(@, Dead)]
            /\ conn' = [conn EXCEPT ![p][kids[p][at[p]].fd] = Closed]
            /\ pc' = [pc EXCEPT ![p] = "waiting"] /\ UNCHANGED at
  /\ UNCHANGED <<msg, kids, above, up, reaped, user>>

Unreaped(p) == {Child(p, k) : k \in 1..Len(kids[p])} \ reaped

(* Variant: no wait.                                                       *)
DoNotWait(p) ==
  /\ pc[p] = "waiting"
  /\ pc' = [pc EXCEPT ![p] = "telling"] /\ at' = [at EXCEPT ![p] = @ + 1]
  /\ UNCHANGED <<msg, tree, pipes, reaped, user>>

WaitNull(p) ==
  /\ pc[p] = "waiting"
  /\ IF Unreaped(p) = {} THEN UNCHANGED reaped
     ELSE \E s \in Unreaped(p) :
            pc[s] = "exited" /\ reaped' = reaped \union {s}
  /\ pc' = [pc EXCEPT ![p] = "telling"] /\ at' = [at EXCEPT ![p] = @ + 1]
  /\ UNCHANGED <<msg, tree, pipes, user>>

-----------------------------------------------------------------------------
(* The Manager.                                                            *)

Requests ==
  LET new == {s \in Services : pc[s] = "unborn"} IN
    {Msg("spawn", p, Min(new)) : p \in
       {q \in Processes : new # {} /\ Cardinality(above[q]) < MaxDepth}}
    \union {Msg("kill", t, t) : t \in Processes}
    \union {Msg("exchange", p, q) : p, q \in Processes}

(* The Manager reads a command.  A kill is a search with find first; only  *)
(* "kill Manager" goes to the children without one.                        *)
Command ==
  /\ pc[Manager] = "idle" /\ commands < MaxCommands
  /\ Paced => \A s \in Services : pc[s] # "naming"
  /\ \E m \in Requests :
       /\ msg' = [msg EXCEPT ![Manager] =
                    IF m.op = "kill" /\ m.a # Manager THEN [m EXCEPT !.op = "find"]
                    ELSE m]
       /\ doomed' = IF m.op = "kill" THEN Subtree(m.a) ELSE {}
       /\ pc' = [pc EXCEPT ![Manager] =
                   IF m.a # Manager \/ m.op = "exchange" THEN "search"
                   ELSE IF m.op = "spawn" THEN "found" ELSE "telling"]
       /\ at' = [at EXCEPT ![Manager] =
                   IF m.op = "kill" /\ m.a = Manager THEN 1 ELSE 0]
  /\ said' = NoNews /\ commands' = commands + 1
  /\ UNCHANGED <<tree, pipes, reaped>>

Request == msg[Manager]

ManagerSpawns ==
  /\ pc[Manager] = "found" /\ Create(Manager, Request.b)
  /\ UNCHANGED <<msg, at, up, reaped, user>>

ManagerAsks == pc[Manager] = "search" /\ Ask(Manager)

(* No child is left to be asked.  The second loop of a kill says nothing.  *)
ManagerGivesUp ==
  /\ pc[Manager] = "search" /\ ToAsk(Manager, at[Manager]) = {}
  /\ said' = CASE Request.op = "spawn"    -> Msg("spawn_missing", Request.a, Manager)
               [] Request.op = "find"     -> Msg("kill_missing", Request.a, Manager)
               [] Request.op = "exchange" -> [Request EXCEPT !.op = "exchanged"]
               [] Request.op = "kill"     -> NoNews
  /\ pc' = [pc EXCEPT ![Manager] = "idle"]
  /\ UNCHANGED <<msg, at, tree, pipes, reaped, doomed, commands>>

(* The Manager marks its child killed if the answer to a kill is "yesn".   *)
(* A "yes" is three bytes long and the fourth, which nobody has written,   *)
(* may be the n of an earlier "yesn": so a yes may be taken for it, though *)
(* it comes from a child that lives.                                       *)
IsGone(answer) == IF answer = "yes" THEN BOOLEAN ELSE {answer = "yesn"}

(* The Manager reads the answer.  The loop of spawn compares the same kind *)
(* of buffer as a whole, so it may take a yes for a no.                    *)
Recognised(yes) ==
  IF yes /\ Request.op = "spawn" THEN BOOLEAN ELSE {yes}

ManagerHears ==
  /\ HasAnswer(Manager) /\ TakeAnswer(Manager)
  /\ \E yes \in Recognised(Answer(Manager) # "not") :
       /\ msg' = IF yes /\ Request.op = "find"
                   THEN [msg EXCEPT ![Manager].op = "kill"] ELSE msg
       /\ at' = IF yes /\ Request.op = "find" THEN [at EXCEPT ![Manager] = 0] ELSE at
       /\ pc' = [pc EXCEPT ![Manager] =
                   IF yes /\ Request.op # "find" THEN "idle" ELSE "search"]
       /\ said' = CASE yes /\ Request.op = "kill" ->
                         Msg("killed", Request.a, Request.a)
                    [] yes /\ Request.op = "exchange" -> [Request EXCEPT !.op = "exchanged"]
                    [] OTHER -> said
  /\ \E gone \in IsGone(Answer(Manager)) :
       IF Request.op = "kill" /\ gone THEN MarkKilled(Manager)
       ELSE UNCHANGED <<kids, conn>>
  /\ UNCHANGED <<above, down, reaped, doomed, commands>>

ManagerTells == Tell(Manager, TRUE)

ManagerEnds ==
  /\ pc[Manager] = "telling" /\ at[Manager] > Len(kids[Manager])
  /\ pc' = [pc EXCEPT ![Manager] = "exited"]
  /\ said' = Msg("killed", Manager, Manager)
  /\ UNCHANGED <<msg, at, tree, pipes, reaped, doomed, commands>>

-----------------------------------------------------------------------------
(* A service.                                                              *)

(* Variant: the name stays in the pipe.                                    *)
PeekName(s) ==
  /\ pc[s] = "naming" /\ down[s] # << >>
  /\ pc' = [pc EXCEPT ![s] = "idle"]
  /\ UNCHANGED <<msg, at, tree, pipes, reaped, user>>

(* Its first read is for the parent's name, and takes all there is in the  *)
(* pipe: a request already written behind the name is lost.                *)
ReadName(s) ==
  /\ pc[s] = "naming" /\ down[s] # << >>
  /\ down' = [down EXCEPT ![s] = << >>]
  /\ pc' = [pc EXCEPT ![s] = "idle"]
  /\ UNCHANGED <<msg, at, tree, up, reaped, user>>

(* The service a request is for answers it, with the last argument of an   *)
(* exchange and the first of the others.                                   *)
For(m) == IF m.op = "exchange" THEN m.b ELSE m.a

(* Variant: a kill is obeyed by whoever receives it.                       *)
DiesOnAnyKill(s, m) == m.op \in {"dead", "kill"}

MustDie(s, m) == m.op = "dead" \/ (m.op = "kill" /\ m.a = s)

Receive(s) ==
  LET m == Head(down[s]) IN
  /\ pc[s] = "idle" /\ down[s] # << >>
  /\ down' = [down EXCEPT ![s] = << >>]
  /\ msg' = [msg EXCEPT ![s] = m]
  /\ pc' = [pc EXCEPT ![s] =
              IF MustDie(s, m) THEN "telling"
              ELSE IF For(m) = s THEN "found" ELSE "search"]
  /\ at' = [at EXCEPT ![s] = IF MustDie(s, m) THEN 1 ELSE 0]
  /\ UNCHANGED <<tree, up, reaped, user>>

(* Variant: the answer is written twice.                                   *)
ReplyTwice(s, r) == up' = [up EXCEPT ![s] = @ \o <<r, r>>]

Reply(s, r) == up' = [up EXCEPT ![s] = Append(@, r)]

Found(s) ==
  /\ pc[s] = "found" /\ Reply(s, "yes")
  /\ IF msg[s].op = "spawn" THEN Create(s, msg[s].b)
     ELSE /\ pc' = [pc EXCEPT ![s] = "idle"]
          /\ UNCHANGED <<kids, conn, above, down>>
  /\ UNCHANGED <<msg, at, reaped, user>>

Forward(s) == pc[s] = "search" /\ Ask(s)

(* Variant: no answer when no child is left to be asked.                   *)
GiveUpSilently(s) ==
  /\ pc[s] = "search" /\ ToAsk(s, at[s]) = {}
  /\ pc' = [pc EXCEPT ![s] = "idle"]
  /\ UNCHANGED <<msg, at, tree, pipes, reaped, user>>

GiveUp(s) ==
  /\ pc[s] = "search" /\ ToAsk(s, at[s]) = {} /\ Reply(s, "not")
  /\ pc' = [pc EXCEPT ![s] = "idle"]
  /\ UNCHANGED <<msg, at, tree, down, reaped, user>>

(* A yes is passed on; if it answers a kill, the child that gave it is     *)
(* marked killed, be it the one that was killed or not.                    *)
Hear(s) ==
  /\ HasAnswer(s)
  /\ IF Answer(s) = "not"
       THEN /\ TakeAnswer(s) /\ pc' = [pc EXCEPT ![s] = "search"]
            /\ UNCHANGED <<kids, conn>>
       ELSE /\ up' = [up EXCEPT ![Peer(s, at[s])] = Tail(@), ![s] = Append(@, "yes")]
            /\ pc' = [pc EXCEPT ![s] = "idle"]
            /\ IF msg[s].op = "kill" THEN MarkKilled(s) ELSE UNCHANGED <<kids, conn>>
  /\ UNCHANGED <<msg, at, above, down, reaped, user>>

(* Here the loops skip nobody.                                             *)
TellKids(s) == Tell(s, FALSE)

(* Variant: the last child is not told.                                    *)
LeaveEarly(s) ==
  /\ pc[s] = "telling" /\ at[s] >= Len(kids[s])
  /\ pc' = [pc EXCEPT ![s] = "leaving"]
  /\ IF msg[s].op = "kill" THEN Reply(s, "yesn") ELSE UNCHANGED up
  /\ UNCHANGED <<msg, at, tree, down, reaped, user>>

Leave(s) ==
  /\ pc[s] = "telling" /\ at[s] > Len(kids[s])
  /\ pc' = [pc EXCEPT ![s] = "leaving"]
  /\ IF msg[s].op = "kill" THEN Reply(s, "yesn") ELSE UNCHANGED up
  /\ UNCHANGED <<msg, at, tree, down, reaped, user>>

ExitProcess(s) ==
  /\ pc[s] = "leaving" /\ pc' = [pc EXCEPT ![s] = "exited"]
  /\ UNCHANGED <<msg, at, tree, pipes, reaped, user>>

-----------------------------------------------------------------------------
ManagerStep ==
  \/ ManagerSpawns \/ ManagerAsks \/ ManagerGivesUp \/ ManagerHears
  \/ ManagerTells \/ WaitNull(Manager) \/ ManagerEnds

ServiceStep(s) ==
  \/ ReadName(s) \/ Receive(s) \/ Found(s) \/ Forward(s) \/ GiveUp(s) \/ Hear(s)
  \/ TellKids(s) \/ WaitNull(s) \/ Leave(s) \/ ExitProcess(s)

Next == Command \/ ManagerStep \/ \E s \in Services : ServiceStep(s)

Spec == Init /\ [][Next]_vars

(* No process stops running; the user need not give a command.             *)
FairSpec ==
  Spec /\ WF_vars(ManagerStep) /\ \A s \in Services : WF_vars(ServiceStep(s))

-----------------------------------------------------------------------------
(* Every variable keeps its range: a service never takes the name of its   *)
(* parent for a request, and no loop runs past the end of a child list.    *)
TypeOK ==
  /\ pc \in [Processes -> {"unborn", "naming", "idle", "search", "asking", "found",
                            "telling", "waiting", "leaving", "exited"}]
  /\ \A p \in Processes :
       /\ msg[p].op \in {"nothing", "spawn", "find", "kill", "exchange", "dead"}
       /\ {msg[p].a, msg[p].b} \union above[p] \subseteq Processes
       /\ at[p] \in 0..Len(kids[p]) + 1
       /\ kids[p] \in Seq([svc : Services, fd : Fds, killed : BOOLEAN])
  /\ conn \in [Processes -> [Fds -> Services \union {Closed}]]
  /\ \A s \in Services :
       /\ \A i \in DOMAIN down[s] :
            down[s][i] \in [op : {"name", "spawn", "find", "kill", "exchange", "dead"},
                            a : Processes, b : Processes]
       /\ up[s] \in Seq({"yes", "yesn", "not"})
  /\ reaped \union doomed \subseteq Services
  /\ said \in [op : {"none", "spawn_missing", "kill_missing", "exchanged", "killed"},
               a : Processes, b : Processes]
  /\ commands \in 0..MaxCommands

(* While the Manager waits for the user nothing is under way in the tree:  *)
(* every request was taken, every answer was read, and no service is left  *)
(* in a loop.  So each request is answered once, by the service that got   *)
(* it, before the next command goes down (the write/read pairs of every    *)
(* loop of service.c).                                                     *)
Quiescent ==
  pc[Manager] = "idle" =>
    \A s \in Services :
      /\ pc[s] \in {"unborn", "naming", "idle", "leaving", "exited"}
      /\ up[s] = << >>
      /\ down[s] = IF pc[s] = "naming" THEN <<Name>> ELSE << >>

(* When the Manager says that a service and its children are killed, all   *)
(* the services under it have exited, and it has nothing left to do but    *)
(* exit: each wait(NULL) may take another child than the one just told,    *)
(* but there are as many waits as children (service.c:402-408, 452-458).   *)
(* Of itself the Manager says so rightly if it killed no child before: it  *)
(* never waited for that one, and a wait(NULL) at line 206 may take it.    *)
KilledMeansExited ==
  /\ said.op = "killed"
  /\ said.a = Manager => \A k \in DOMAIN kids[Manager] : ~kids[Manager][k].killed
  => \A s \in doomed : pc[s] = "exited" \/ (s = said.a /\ pc[s] = "leaving")

(* Only the target of a kill and the services under it die: not a service  *)
(* the request passes on its way, nor one that got the descriptors of a    *)
(* child that was killed before (service.c:398, 427-431, 448).             *)
DiesOnlyIfDoomed ==
  \A s \in Services : pc[s] \in {"telling", "waiting"} => s \in doomed

(* Between commands, the children not marked killed live, and their        *)
(* descriptors lead to them, also after descriptors of a killed child were *)
(* handed out again; and a child is marked killed only if it or a service  *)
(* under it was killed (have_killed, close and pipe, service.c:246-249,    *)
(* 427-431).                                                               *)
TreeConnected ==
  pc[Manager] = "idle" =>
    \A p \in {q \in Processes : pc[q] = "idle"} : \A k \in DOMAIN kids[p] :
      LET c == kids[p][k] IN
      IF c.killed THEN \E s \in Services : /\ c.svc \in above[s] \union {s}
                                         /\ pc[s] \in {"leaving", "exited"}
      ELSE c.svc \in Alive /\ conn[p][c.fd] = c.svc

(* Every command comes to an end: the loops of the Manager and of the      *)
(* services do not wait for one another for ever.                          *)
CommandsEnd ==
  pc[Manager] \notin {"idle", "exited"} ~> pc[Manager] \in {"idle", "exited"}

(* Services that are marked killed by their parents, truly or not.         *)
Marked == {s \in Services :
             \E p \in Processes : \E k \in DOMAIN kids[p] : kids[p][k].killed /\ Child(p, k) = s}

(* After "kill Manager" no service stays behind but those that were cut    *)
(* off before: one marked killed though it lives, and those under it       *)
(* (service.c:194-208, 448-459).                                           *)
EveryoneExits ==
  pc[Manager] = "exited" ~>
    \A s \in Services : \/ pc[s] \in {"unborn", "exited"}
                        \/ (above[s] \union {s}) \intersect Marked \intersect Alive # {}

-----------------------------------------------------------------------------
(* The tree as its user sees it.                                           *)

(* Whom the Manager reaches: a service that is told to die, or marked      *)
(* killed, is lost at once, and so is whoever is under it.                 *)
Dying   == {p \in Processes : pc[p] \in {"telling", "waiting", "leaving", "exited"}}
Reached == {s \in Services : /\ pc[s] # "unborn"
                            /\ (above[s] \union {s}) \intersect (Dying \union Marked) = {}}

(* The command under way, which the Manager searches before it kills, and  *)
(* whether it has taken effect.                                            *)
UserRequest ==
  CASE pc[Manager] = "idle"   -> Msg("none", Manager, Manager)
    [] pc[Manager] = "exited" -> Msg("over", Manager, Manager)
    [] OTHER -> IF Request.op = "find" THEN [Request EXCEPT !.op = "kill"] ELSE Request
IsDone ==
  /\ pc[Manager] \notin {"idle", "exited"}
  /\ \/ Request.op = "spawn" /\ pc[Request.b] # "unborn"
     \/ Request.op = "kill" /\ Request.a \notin Reached

(* What the Manager told of the last command.                              *)
Outcome ==
  CASE said.op = "none" -> "nothing"
    [] said.op \in {"spawn_missing", "kill_missing"} -> "missing"
    [] OTHER -> said.op

Tree == INSTANCE ProcessTree WITH
  reached <- Reached, line <- above, request <- UserRequest, done <- IsDone, told <- Outcome

(* A command takes effect once, at one instant, if and only if the service *)
(* it is for can be reached, and a kill cuts nobody off who is not under   *)
(* an ancestor of its target.  What the Manager tells of a kill is true;   *)
(* of a spawn that was done it may say that the parent does not exist.     *)
ImplementsTree == Tree!Spec

(* "doesn't exist" is said only of a parent that does not exist            *)
(* (service.c:183-185).                                                    *)
SpawnMissingIsGone == said.op = "spawn_missing" => said.a \notin Alive
=============================================================================
