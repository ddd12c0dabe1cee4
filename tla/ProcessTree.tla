----------------------------- MODULE ProcessTree -----------------------------
(***************************************************************************)
(* What the tree of services does for its user, with no pipes, no requests *)
(* on their way and no processes that die one after the other: a command   *)
(* takes effect at one instant between the moment it is given and the      *)
(* moment its outcome is told, and it takes effect if and only if the      *)
(* service it is for can be reached.  What is told of a kill is true; a    *)
(* spawn that was done may be told as if its parent did not exist, and an  *)
(* exchange is told although nothing changes.  A kill may cut off services *)
(* between the Manager and its target, with those under them: they live,   *)
(* but no command reaches them any more.  ServiceTree (HW2/service.c) is   *)
(* shown to implement this specification.                                  *)
(***************************************************************************)
CONSTANTS Services, Manager

VARIABLES
  reached,               \* the services that live and are not cut off
  line,                  \* the ancestors of each service
  request,               \* the command under way, or none
  done,                  \* it has taken effect
  told                   \* what the user was told of the last command

vars == <<reached, line, request, done, told>>

Processes == Services \union {Manager}

Cmd(op, a, b) == [op |-> op, a |-> a, b |-> b]
NoRequest == Cmd("none", Manager, Manager)
Over      == Cmd("over", Manager, Manager)

Serves(p) == p = Manager \/ p \in reached
Under(t)  == {s \in reached : s = t \/ t \in line[s]}

Init ==
  /\ reached = {} /\ line = [p \in Processes |-> {}]
  /\ request = NoRequest /\ done = FALSE /\ told = "nothing"

(* A new service gets a new name.  To kill the Manager kills everybody.    *)
Command ==
  /\ request = NoRequest
  /\ \/ \E p \in Processes, s \in Services \ reached :
          line[s] = {} /\ request' = Cmd("spawn", p, s) /\ done' = FALSE /\ UNCHANGED reached
     \/ \E t \in Services : request' = Cmd("kill", t, t) /\ done' = FALSE /\ UNCHANGED reached
     \/ request' = Cmd("kill", Manager, Manager) /\ done' = TRUE /\ reached' = {}
     \/ \E p, q \in Processes :
          request' = Cmd("exchange", p, q) /\ done' = FALSE /\ UNCHANGED reached
  /\ told' = "nothing" /\ UNCHANGED line

(* What the Manager spawns itself it need not report.                      *)
Spawn ==
  /\ request.op = "spawn" /\ ~done /\ Serves(request.a)
  /\ reached' = reached \union {request.b}
  /\ line' = [line EXCEPT ![request.b] = line[request.a] \union {request.a}]
  /\ \/ done' = TRUE /\ UNCHANGED request
     \/ request.a = Manager /\ request' = NoRequest /\ UNCHANGED done
  /\ UNCHANGED told

Kill ==
  /\ request.op = "kill" /\ ~done /\ request.a \in reached
  /\ reached' = reached \ Under(request.a)
  /\ done' = TRUE
  /\ UNCHANGED <<line, request, told>>

(* A service over the target of a kill is lost, with those under it.       *)
Loses ==
  /\ request.op = "kill" /\ done
  /\ \E p \in line[request.a] \ {Manager} : reached' = reached \ Under(p)

CutOff == Loses /\ UNCHANGED <<line, request, done, told>>

Tell ==
  /\ \/ request.op = "spawn" /\ done /\ told' \in {"nothing", "missing"}
     \/ request.op \in {"spawn", "kill"} /\ ~done /\ ~Serves(request.a) /\ told' = "missing"
     \/ request.op = "kill" /\ done /\ told' = "killed"
     \/ request.op = "exchange" /\ told' = "exchanged"
  /\ request' = IF request.op = "kill" /\ request.a = Manager THEN Over ELSE NoRequest
  /\ UNCHANGED reached \/ Loses
  /\ done' = FALSE /\ UNCHANGED line

Next == Command \/ Spawn \/ Kill \/ CutOff \/ Tell

Spec == Init /\ [][Next]_vars
=============================================================================
